\* Three calls under one key with fresh execution identifiers, on two hosts,
\* with a lease of one tick.
SPECIFICATION Spec
CONSTANTS
  Call = {c1, c2, c3}
  Host = {h1, h2}
  Key = {k1}
  Execution = {c1, c2, c3}
  Binding = {b1, b2}
  RequestsOf <- FreshRequests
  Lease = 1
  MaxTime = 2
  None = None
SYMMETRY Symmetry
INVARIANTS
  TypeOK
  AnswersMatchVerdict
  OwnerRecordKept
PROPERTIES
  ImplementsLedger
CHECK_DEADLOCK FALSE
