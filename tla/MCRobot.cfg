\* Two callers, or one and the hook, and an application that may be there before.
SPECIFICATION RobotFairSpec
CONSTANTS
  Callers = {c1, c2}
  Hook = hook
  User = user
  None = none
  Crowds <- Pairs
  MaxEvents = 2
INVARIANTS
  SecondAppHasCause
PROPERTIES
  EveryCallReturns
CHECK_DEADLOCK FALSE
