SPECIFICATION Spec
CONSTANTS
  Alphabets <- Missed
  MaxInput <- MissLengths
  MaxChunk = 2
  Objs <- SomeObjs
INVARIANTS
  MissReturnsAll
CHECK_DEADLOCK FALSE
