\* Calls that share one execution identifier, under one of two keys, on hosts that may
\* crash; every call is answered.
SPECIFICATION FairSpec
CONSTANTS
  Call = {c1, c2}
  Host = {h1, h2}
  Key = {k1, k2}
  Execution = {e1}
  Binding = {b1}
  RequestsOf <- StableRequests
  Lease = 1
  MaxTime = 2
  None = None
INVARIANTS
  TablesAgree
PROPERTIES
  EveryCallReturns
CHECK_DEADLOCK FALSE
