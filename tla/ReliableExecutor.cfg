\* A reservation, a side effect that must not be repeated and a read share one
\* dependency; two failures open its circuit.
SPECIFICATION FairSpec
CONSTANTS
  book = book
  order = order
  look = look
  Execution = {book, order, look}
  ReadOnly = {look}
  Idempotent = {book}
  Replayed = {order}
  MaxAttempts = 2
  AttemptTime = 1
  FailureThreshold = 2
  Cooldown = 2
INVARIANTS
  TypeOK
  ProbeAccounted
PROPERTIES
  HonestVerdicts
  EveryExecutionEnds
CHECK_DEADLOCK FALSE
