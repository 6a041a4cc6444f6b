\* Complete and damaged files, then questions to the open bag.
CONSTANTS
  Files <- MCFiles
  Topics = {"a", "b", "c"}
  NoTopic = ""
  Unparsable = {"bad"}
  Null = Null
SPECIFICATION FairSpec
INVARIANTS
  TypeOK
  BlocksPointToChunks
  IndexExact
  CountsAgree
  WellFormedOpens
  SchemataSound
PROPERTY LoadEnds
CHECK_DEADLOCK FALSE
