\* Two feed loops and two connection loops, one caller that starts and stops
\* and one that changes the list; commands while the service is up or down.
SPECIFICATION Spec
CONSTANTS
  Domains = {"mine", "feed"}
  Named = {"feed"}
  Callers = {"main", "user"}
  OpsOf <- CallerOps
  FeedLoops = {"feed1", "feed2"}
  Nothing = Nothing
  Enforcers = {"hosts", "chain"}
  MaxStarts = 2
  MaxCalls = 3
  MaxFaults = 1
INVARIANTS TypeOK BlocksSurvive EnforcedIsCurrent
PROPERTIES StopEndsLoops
CHECK_DEADLOCK FALSE
