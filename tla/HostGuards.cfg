SPECIFICATION Spec
CONSTANTS
  RansomThreads = {t1, t2}
  Window = 2
  Threshold <- SmallThreshold
  MaxRecords = 4
  MaxEvents = 1
  AppProcs = {q1, q2}
  AppPaths = {x1}
  AppContents = {k1, k2}
  MaxAppRules = 2
  MaxAppChanges = 2
  Targets = {1, 2, 3}
  SafeTargets = {3}
  Platforms = {"iptables", "dns-iptables", "pf", "netsh", "hosts"}
  MaxFaults = 2
  MaxCalls = 3
  UpdateProcs = {p1, p2}
  MaxVersion = 3
  MaxUpdates = 2
  MemberNames = {m1, m2}
  MaxMembers = 2
  MaxDepth = 2
  MaxEntries = 2
  MaxScans = 1
INVARIANTS
  TypeOK
  BurstIsReported
  CachedVerdictsFollowRules
  EnforcerKeepsItsWord
  BadMemberIsReported
PROPERTIES
  InstalledIsVouchedFor
CHECK_DEADLOCK FALSE
