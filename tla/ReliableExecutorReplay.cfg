\* A conflicting replay deletes the record of an execution while it probes a
\* half-open circuit.
SPECIFICATION Spec
CONSTANTS
  book = book
  order = order
  look = look
  Execution = {book, order, look}
  ReadOnly = {look}
  Idempotent = {book}
  Replayed = {order}
  MaxAttempts = 2
  AttemptTime = 1
  FailureThreshold = 2
  Cooldown = 2
INVARIANT
  ProbeReleased
CHECK_DEADLOCK FALSE
