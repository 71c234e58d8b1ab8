\* A tool that needs no confirmation, and a cancellation.
SPECIFICATION Spec
CONSTANTS
  c1 = c1
  c2 = c2
  a1 = a1
  a2 = a2
  Call = {c1, c2}
  Mode = "full"
  Matched = {"set_cabin_temperature"}
  Ambiguous = FALSE
  Unbound = {}
  Argument = {}
  Drift = {}
  Lose = {}
  Skews = {0}
  MaxNow = 3
  MaxMoves = 0
  None = None
PROPERTY CancelledBeforeDispatch
CHECK_DEADLOCK FALSE
