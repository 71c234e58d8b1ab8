\* Two runs in one process, one of which calls two tools, and a confirmed action in another.
SPECIFICATION Spec
CONSTANTS
  r1 = r1
  Run = {r1, r2}
  Confirm = {c1}
  p1 = p1
  p2 = p2
  Process = {p1, p2}
  ProcessOf <- MCProcessOf
  OwnerOf <- OwnOwner
  Tool = {t1, t2}
  ToolsOf <- MCToolsOf
  Ttl = 1
  HistoryLimit = 2
  None = None
SYMMETRY Symmetry
INVARIANTS
  TypeOK
  ExclusiveUnlessLapsed
  MemoryFollowsOutcomes
  EndsHonestly
PROPERTIES
  TurnsAreIsolated
CHECK_DEADLOCK FALSE
