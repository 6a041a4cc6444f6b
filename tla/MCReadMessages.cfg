\* Python loops and those of embag_echo, bags that are closed, schemata.
CONSTANTS
  NsecsPerSec = 4
  MaxWord = 7
  Bags = {"bytes", "file", "broken", "crashed"}
  Topics = {"a", "b"}
  NoTopic = ""
  None = None
  chunks_ <- MCchunks
  connections_ <- MCconnections
  Queries = {q1}
  Iterators = {p1}
  MaxBags = 2
  FileBags = {"file", "broken"}
  topic_connection_map_ <- MCmap
  connection_data_ <- MCdata
  Definitions = {"image", "scan", "speed", "bad"}
  Unparsable = {"bad"}
  Null = Null
SPECIFICATION ProgramSpec
INVARIANTS
  ExceptionCostsOne
  OwnDefinition
  WithinStartAndEnd
  CountsAsIterated
  UndefinedExplained
CHECK_DEADLOCK FALSE
