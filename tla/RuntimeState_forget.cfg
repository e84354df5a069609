\* The same system against what the docs say of a failed restore.
CONSTANTS
  MaxRuns = 3
  MaxDamages = 1
  Keep = 2
  Clock <- Forward
SPECIFICATION Spec
PROPERTY NoForgetting
CHECK_DEADLOCK FALSE
