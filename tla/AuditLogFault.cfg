\* One failing file operation.
SPECIFICATION Spec
CONSTANTS
  Backups = 2
  MaxLines = 2
  MaxWrites = 9
  MaxKills = 0
  MaxFaults = 1
INVARIANTS NoFalseAlarm
CHECK_DEADLOCK FALSE
