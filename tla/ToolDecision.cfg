\* Two calls of a run that may read, set the temperature, set a destination of the
\* model's own and ask for assistance.
SPECIFICATION Spec
CONSTANTS
  c1 = c1
  c2 = c2
  a1 = a1
  a2 = a2
  Call = {c1, c2}
  Mode = "full"
  Matched = {"get_vehicle_state", "set_cabin_temperature", "set_navigation_destination",
             "request_roadside_assistance"}
  Ambiguous = FALSE
  Unbound = {"set_navigation_destination"}
  Argument = {a1, a2}
  Drift = {"motion"}
  Lose = {"navigation"}
  Skews = {0, 1}
  MaxNow = 3
  MaxMoves = 1
  None = None
INVARIANTS
  TypeOK
  GroundedEffects
  OneChallengePerIntent
SYMMETRY Proposals
CHECK_DEADLOCK FALSE
