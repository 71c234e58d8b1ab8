\* Two confirmations of one action, which take the lease under one owner.
SPECIFICATION Spec
CONSTANTS
  r1 = r1
  Run = {r1}
  Confirm = {c1, c2}
  p1 = p1
  p2 = p2
  Process = {p1, p2}
  ProcessOf <- MCProcessOf
  OwnerOf <- SharedOwner
  Tool = {t1, t2}
  ToolsOf <- MCToolsOf
  Ttl = 1
  HistoryLimit = 2
  None = None
PROPERTY
  LeaseEndsWithHolder
CHECK_DEADLOCK FALSE
