\* Rotation through three backups, with two kills at any step and one fault.
SPECIFICATION Spec
CONSTANTS
  Backups = 3
  MaxLines = 2
  MaxWrites = 11
  MaxKills = 2
  MaxFaults = 1
INVARIANTS TypeOK RetainedIsSuffix ChainSurvives
  DeletionIsDetected
CHECK_DEADLOCK FALSE
