SPECIFICATION RoutingFairSpec
CONSTANTS
  Offers <- Varied
  Requests = {r1, r2}
  Slots = {s1, s2}
  Models = {"m", "n"}
  Nothing = Nothing
  Late = FALSE
  Heedful = FALSE
INVARIANTS
  RoutingIsStable
  RetriesAreSpent
PROPERTIES
  RequestsEnd
CHECK_DEADLOCK FALSE
