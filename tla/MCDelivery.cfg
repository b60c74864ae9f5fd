SPECIFICATION FairSpec
CONSTANTS
  Pieces <- WithCalls
  MaxPieces = 4
  Capacity = 2
INVARIANTS
  WireFollowsRelay
  NothingAfterCall
  AnswerIsWhole
PROPERTIES
  BothEnd
CHECK_DEADLOCK FALSE
