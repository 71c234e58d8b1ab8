\* A replay of an execution that is under way, with the same identifier and key
\* and another binding, against the comment on the owner's record.
SPECIFICATION FairSpec
CONSTANTS
  Call = {c1, c2}
  Host = {h1}
  Key = {k1}
  Execution = {e1}
  Binding = {b1, b2}
  RequestsOf <- StableRequests
  Lease = 1
  MaxTime = 1
  None = None
INVARIANTS
  OwnerRecordKept
CHECK_DEADLOCK FALSE
