\* One device: commands and reports through overlapping, lost and late calls.
SPECIFICATION Spec
CONSTANTS
  d1 = d1  d2 = d2  n1 = n1  n2 = n2  k1 = k1  k2 = k2
  c1 = c1  c2 = c2  s1 = s1  s2 = s2  r1 = r1
  Devices = {d1}
  Names = {n1}
  Tokens = {k1}
  Ids = {1}
  Cmds = {c1, c2}
  Reports = {r1}
  Slots = {s1, s2}
  None = None
  MaxHandled = 2
  ReportBatch = 1
  ReportCap = 1
  MaxLosses = 1
INVARIANTS ReportedOnce
PROPERTIES DispatchedIsAnswered
CHECK_DEADLOCK FALSE
