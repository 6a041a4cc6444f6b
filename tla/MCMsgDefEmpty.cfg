\* Embedded definitions without members, such as std_msgs/Empty.
CONSTANTS
  Packages = {"foo", "bar"}
  Bases = {"Point", "String", "Top"}
  Primitives = {"uint8"}
  Main = Main
  Texts <- MCTexts
  EmbeddedNames <- PlainNames
  LineTypes <- PlainTypes
SPECIFICATION Spec
INVARIANT SupportingTypesParse
CHECK_DEADLOCK FALSE
