SPECIFICATION FairSpec
CONSTANTS
  slice = slice
  slice2 = slice2
  err = err
  one = one
  Values <- Elements
  Source <- ThreeElements
  N = 3
  Pipelines <- Built
  DistinctAt = {2}
  Key <- OddEven
  Sinks <- AllSinks
  Terminal <- How
  Callers <- Draining
  Failing = {2}
  Zero = {0}
INVARIANTS
  ClosedIsDrained
  SinksShareResult
  SendsNeverBlock
PROPERTIES
  ImplementsList
  PipelineEnds
CHECK_DEADLOCK FALSE
