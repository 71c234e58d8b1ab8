\* A charging fault or a low battery, and a second message that is no event.
SPECIFICATION Spec
CONSTANTS
  e1 = e1
  m1 = m1
  m2 = m2
  Message = {m1, m2}
  Event = {e1}
  Consumer = {c1, c2}
  EventOf <- MCEventOf
  ContentOf <- MCContentOf
  Types <- MCMixed
  Foreign = {}
  MaxDeliver = 2
  AckWait = 1
  ClaimTime = 2
  None = None
SYMMETRY Symmetry
INVARIANTS
  TypeOK
  NoSilentLoss
  HonestRecords
PROPERTIES
  VerdictsStand
CHECK_DEADLOCK FALSE
