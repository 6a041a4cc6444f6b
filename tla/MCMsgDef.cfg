\* No type of a package shares its name with one of std_msgs.
CONSTANTS
  Packages = {"foo", "bar"}
  Bases = {"Point", "String", "Top"}
  Primitives = {"uint8"}
  Main = Main
  Texts <- MCTexts
  EmbeddedNames <- PlainNames
  LineTypes <- PlainTypes
SPECIFICATION Spec
INVARIANTS
  TypeOK
  ResolvedAsMeant
  NoFieldForgotten
  CompleteAccepted
CHECK_DEADLOCK FALSE
