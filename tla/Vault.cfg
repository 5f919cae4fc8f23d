\* Two threads sharing one QuarantineVault object.
SPECIFICATION Spec
CONSTANTS
  t1 = t1  t2 = t2  monitor = monitor  agent = agent
  Paths = {p1}
  Contents = {c1, c2}
  Ids = {1, 2}
  Threads = {t1, t2}
  Procs = {monitor}
  ProcOf <- OneProcess
  OpsOf <- ThreadOps
  NoThread = NoThread  NoFile = NoFile  Torn = Torn
  Truncated = Truncated  Attached = Attached
  FaultyReads = FALSE
  MaxFaults = 1
  MaxCrashes = 1
INVARIANTS TypeOK AckedIsKept IndexedIsWhole IndexMutationsSerialized
PROPERTIES RestoreBeforeUnlink KeepsPromise
