SPECIFICATION Spec
CONSTANTS
  Chars = {c1}
  Ops = {"get", "save", "lock", "unlock", "portrait"}
  Gsids = {1, 2}
  Conns = {k1, k2}
  Ips = {i1, i2}
  D2gsList = {i1, i2}
  WriteRoom = 2
  DataSize = 2
  MaxPending = 1
  IdleTime = 0
PROPERTY FailedLoadUnlocks
CHECK_DEADLOCK FALSE
