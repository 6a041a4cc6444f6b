\* Chunks one after the other through the shared lz4 context.
CONSTANTS
  Units = {"x", "y"}
  MaxData = 4
  MaxSize = 2
  Chunks <- MCChunks
SPECIFICATION Spec
INVARIANT AsTheViewAssumes
