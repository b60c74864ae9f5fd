SPECIFICATION RoutingSpec
CONSTANTS
  Offers <- Single
  Requests = {r1, r2, r3}
  Slots = {s1, s2}
  Models = {"m"}
  Nothing = Nothing
  Late = TRUE
  Heedful = TRUE
INVARIANTS
  PanicsCallTheirOwn
CHECK_DEADLOCK FALSE
SYMMETRY Symmetry
