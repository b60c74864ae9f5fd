\* A parser, used once for any text and once more.
SPECIFICATION Spec
CONSTANTS
  Letters = {"a", "b", "k", "v"}
  Digits = {"1", "2"}
  Schemas <- Names
  Texts <- Built
  AttrLists <- Lists
  MaxTags = 5
  MaxPieces = 4
INVARIANTS
  TextIsKept
  NodeIsEnclosed
  NestingIsRight
  MissedHasCause
  AttributesAreRead
CHECK_DEADLOCK FALSE
