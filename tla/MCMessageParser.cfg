\* Every buffer of five units, with a message that may end in it or not.
CONSTANTS
  BufferSize = 5
  MaxWord = 2
  Depth = 12
  DataLengths = {3, 5}
  Tops = {"Empty", "Header", "Stamped", "Names", "Nested", "Mixed"}
  Definitions <- Defs
  PrimitiveSize <- Sizes
  Messages <- MCMessages
SPECIFICATION FairSpec
INVARIANTS
  TypeOK
  ChildrenApart
  DecodedAsLaidOut
  ThrowsOnlyWhenCut
  StaysInMessage
  ReadsWithinMessage
  DictAsLaidOut
  WaysAgree
  SchemaDescribes
PROPERTY ParseEnds
CHECK_DEADLOCK FALSE
