\* Three runs, one damaged snapshot, two snapshots kept.
CONSTANTS
  MaxRuns = 3
  MaxDamages = 1
  Keep = 2
  Clock <- Forward
SPECIFICATION Spec
INVARIANT TypeOK
PROPERTY Implements
PROPERTY GreenKeeps
CHECK_DEADLOCK FALSE
