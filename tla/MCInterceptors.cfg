\* Reasoning, tool calls and end marks, with the matchers of a configuration.
SPECIFICATION Spec
CONSTANTS
  Alphabets <- Streamed
  MaxInput <- Lengths
  MaxChunk = 2
  Objs <- SomeObjs
INVARIANTS
  EmittedInOrder
  PanicHasCause
  NothingLostBeforeHit
  EndMarkIsRemoved
PROPERTIES
  ThoughtIsEnclosed
  CallIsEnclosed
CHECK_DEADLOCK FALSE
