\* The package has a Header of its own.
CONSTANTS
  Packages = {"foo", "bar"}
  Bases = {"Point", "String", "Top"}
  Primitives = {"uint8"}
  Main = Main
  Texts <- MCTexts
  EmbeddedNames <- ClashNames
  LineTypes <- ClashTypes
SPECIFICATION Spec
INVARIANT StdMsgsMeant
CHECK_DEADLOCK FALSE
