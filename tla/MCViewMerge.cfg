\* Merging two bags, over all topics or some, one iterator.
CONSTANTS
  NsecsPerSec = 4
  MaxWord = 7
  Bags = {"sorted", "unsorted", "tie", "raw", "broken", "odd"}
  Topics = {"a", "b"}
  NoTopic = ""
  None = None
  chunks_ <- MCchunks
  connections_ <- MCconnections
  Queries = {q1}
  Iterators = {i1}
  MaxBags = 2
SPECIFICATION FairSpec
INVARIANTS
  TypeOK
  RequestedInFileOrder
  EarlierHeadFirst
  TimeOrdered
PROPERTIES
  CallReturns
  ImplementsMerge
