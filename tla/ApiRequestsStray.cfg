\* A client that leaves cancels the run of another request of its session.
SPECIFICATION Spec
CONSTANTS
  stream = stream
  message = message
  third = third
  s1 = s1
  Request = {stream, message, third}
  Session = {s1}
  SessionOf <- MCSessionOf
  Routes <- MCRoutes
  MaxConcurrent = 2
  MaxQueue = 1
  None = None
INVARIANTS
  CancelledByItsOwn
CHECK_DEADLOCK FALSE
