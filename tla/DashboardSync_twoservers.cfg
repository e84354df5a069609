\* Two server processes on one clone.
CONSTANTS
  w1 = w1
  w2 = w2
  Watches = {w1, w2}
  a = a
  b = b
  Values = {a, b}
  Absent = Absent
  Broken = Broken
  DuplicateKey <- MCDuplicateKey
  NoServer = NoServer
  Servers = {s1, s2}
  MaxEdits = 2
  MaxOthers = 1
  MaxHistory = 4
  MaxAttempts = 2
SPECIFICATION Spec
SYMMETRY Symmetric
PROPERTY NoEditLost
CHECK_DEADLOCK FALSE
