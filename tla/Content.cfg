\* Two good feeds and one whose rules do not compile, two updates, one
\* interrupted, one rule file that cannot be removed.
SPECIFICATION Spec
CONSTANTS
  Feeds = {1, 2, 3}
  Rules = {1, 2, 3}
  Sigs = {1, 2, 3}
  RulesOf <- FeedRules
  SigsOf <- FeedSigs
  Broken = {3}
  AloneSets <- SomeAlone
  MaxUpdates = 2
  MaxStops = 1
  MaxFaults = 1
INVARIANTS TypeOK StoppedUpdateCanBeRetried
PROPERTIES WantedRulesStay RecordedIsInForce 

