\* Iterators that share the wrappers of a query, and queries that share the
\* lz4 context, over sound and damaged bags.
CONSTANTS
  NsecsPerSec = 4
  MaxWord = 7
  Bags = {"sorted", "torn", "short"}
  Topics = {"a", "b"}
  NoTopic = ""
  None = None
  chunks_ <- MCchunks
  connections_ <- MCconnections
  Queries = {q1, q2}
  Iterators = {i1, i2}
  MaxBags = 1
SPECIFICATION Spec
INVARIANTS
  StructureOK
  FailureExplained
PROPERTY ImplementsMerge
SYMMETRY Symmetry
