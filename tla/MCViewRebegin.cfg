\* begin() a second time.
CONSTANTS
  NsecsPerSec = 4
  MaxWord = 7
  Bags = {"sorted"}
  Topics = {"a", "b"}
  NoTopic = ""
  None = None
  chunks_ <- MCchunks
  connections_ <- MCconnections
  Queries = {q1}
  Iterators = {i1}
  MaxBags = 1
SPECIFICATION Spec
INVARIANT BeginFillsQueue
