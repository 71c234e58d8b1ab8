\* A run that executed an action while its lease ran out, against the record of the
\* implementation status.
SPECIFICATION Spec
CONSTANTS
  r1 = r1
  Run = {r1, r2}
  Confirm = {c1}
  p1 = p1
  p2 = p2
  Process = {p1, p2}
  ProcessOf <- MCProcessOf
  OwnerOf <- OwnOwner
  Tool = {t1, t2}
  ToolsOf <- MCToolsOf
  Ttl = 1
  HistoryLimit = 2
  None = None
INVARIANT
  SuccessIsNotBusy
CHECK_DEADLOCK FALSE
