SPECIFICATION FairSpec
CONSTANTS
  Chars = {c1}
  Ops = {"get", "lock"}
  Gsids = {1}
  Conns = {k1, k2}
  Ips = {i1}
  D2gsList = {i1}
  WriteRoom = 2
  DataSize = 2
  MaxPending = 1
  IdleTime = 0
PROPERTIES HungServerReleased RequestsAnswered
CHECK_DEADLOCK FALSE
