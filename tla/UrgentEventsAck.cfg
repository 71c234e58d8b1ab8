\* A charging fault or a low battery, alone: what an acknowledgement may rest on.
SPECIFICATION Spec
CONSTANTS
  e1 = e1
  m1 = m1
  m2 = m2
  Message = {m1}
  Event = {e1}
  Consumer = {c1, c2}
  EventOf <- MCEventOf
  ContentOf <- MCContentOf
  Types <- MCEvents
  Foreign = {}
  MaxDeliver = 2
  AckWait = 1
  ClaimTime = 2
  None = None
SYMMETRY Symmetry
INVARIANTS
  AckedIsSettled
CHECK_DEADLOCK FALSE
