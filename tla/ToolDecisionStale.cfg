\* A read of the state, then a tool that needs a fresh one.
SPECIFICATION Spec
CONSTANTS
  c1 = c1
  c2 = c2
  a1 = a1
  a2 = a2
  Call = {c1, c2}
  Mode = "full"
  Matched = {"get_vehicle_state", "set_navigation_destination"}
  Ambiguous = FALSE
  Unbound = {}
  Argument = {}
  Drift = {}
  Lose = {}
  Skews = {0}
  MaxNow = 3
  MaxMoves = 0
  None = None
PROPERTY ReadsRefreshState
CHECK_DEADLOCK FALSE
