\* A client that leaves the admission queue takes a permit with it.
SPECIFICATION Spec
CONSTANTS
  stream = stream
  message = message
  third = third
  s1 = s1
  Request = {stream, message, third}
  Session = {s1}
  SessionOf <- MCSessionOf
  Routes <- MCRoutes
  MaxConcurrent = 2
  MaxQueue = 1
  None = None
INVARIANTS
  NothingLeaks
CHECK_DEADLOCK FALSE
