\* A stream and a message for one session, and a subscription or another request.
SPECIFICATION FairSpec
CONSTANTS
  stream = stream
  message = message
  third = third
  s1 = s1
  Request = {stream, message, third}
  Session = {s1}
  SessionOf <- MCSessionOf
  Routes <- MCRoutes
  MaxConcurrent = 2
  MaxQueue = 1
  None = None
INVARIANTS
  TypeOK
  CapacityAccounted
  RunsApart
PROPERTIES
  EveryRequestSettles
CHECK_DEADLOCK FALSE
