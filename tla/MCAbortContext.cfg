\* Two cancels, a listener, a client and a parent that may go away.
SPECIFICATION FairSpec
CONSTANTS
  Cancellers = {c1, c2}
  Listeners = {l1}
  Watcher = w
  CanDisconnect = TRUE
INVARIANTS
  TypeOK
  PanicNeedsRace
  WakeupIsHonest
  LoneCancelHasReceiver
PROPERTIES
  ImplementsContext
  AnswerIsFinal
  GoroutinesEnd
CHECK_DEADLOCK FALSE
