\* Copies of every well-formed heap of up to three nodes.
SPECIFICATION Spec
CONSTANTS
  Heaps <- SmallHeaps
  MaxDepth = 4
INVARIANTS
  CopyIsEqual
  CopyIsOwn
  OutcomeHasCause
CHECK_DEADLOCK FALSE
