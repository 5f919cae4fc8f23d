\* Two files, one of them in a new directory; every queue at its smallest;
\* one may fail to be scanned or quarantined.
SPECIFICATION Spec
CONSTANTS
  f1 = f1  f2 = f2  w1 = w1  w2 = w2
  Files = {f1, f2}
  Workers = {w1, w2}
  LateDirs = {f2}
  Faulty = {f1}
  QueueMax = 1
  Inflight = 2
  CacheMax = 1
  MaxWrites = 3
INVARIANTS TypeOK VerdictsAreCurrent PermitsBalance
PROPERTIES BadIsQuarantined
CHECK_DEADLOCK FALSE
