SPECIFICATION FairSpec
CONSTANTS
  h1 = h1
  h2 = h2
  h3 = h3
  l1 = l1
  l2 = l2
  Hooks <- PackageHooks
  LateHooks <- TwoLate
  Priority <- WithLate
  Registers <- SomeWays
  ExitHooks = {x1, x2}
  MaxSignals = 2
INVARIANTS
  HooksRunInOrder
  LaterHooksDoNotRepeat
  ExitHooksRunOnce
PROPERTIES
  SignalEnds
CHECK_DEADLOCK FALSE
