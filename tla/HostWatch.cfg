SPECIFICATION Spec
CONSTANTS
  CanaryProcs = {1, 2}
  CanaryNames = {1, 2}
  MaxPerDir = 1
  MaxTouches = 1
  MaxCommands = 2
  WatchedPids = {1, 2}
  MaxBirths = 2
  MaxRaises = 1
  RunValues = {1}
  OtherEntries = {2}
  MaxEdits = 2
  MaxScanErrors = 1
  Hosts = {h1}
  BeaconWindow = 3
  MinSamples = 3
  MaxConns = 1
  WatchDirs = {1, 2}
  WatchFiles = {w1, w2}
  Openers = {o2}
  KernelMax = 1
  MaxChanges = 3
  MaxToolFaults = 2
  MaxJobCalls = 3
  Domains = {d1, d2}
  Providers = {cf, gg}
  DefaultProvider = cf
  CacheSize = 1
  TtlCap = 2
  Ttls = {1, 3}
  Cells = 2
  MaxQueries = 3
  DropPlaces = {p1, p2}
  MaxDrops = 2
  MaxListFaults = 1
  PipeSize = 1
  MaxAnalyses = 1
INVARIANTS
  TypeOK
  AnswersAreTrue
PROPERTIES
  
  WorkIsFinished
CHECK_DEADLOCK FALSE
