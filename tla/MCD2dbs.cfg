SPECIFICATION Spec
CONSTANTS
  Chars = {c1}
  Ops = {"get", "save", "lock", "unlock", "portrait"}
  Gsids = {1, 2, 3}
  Conns = {k1, k2, k3}
  Ips = {i1, i2, i3}
  D2gsList = {i1, i2}
  WriteRoom = 2
  DataSize = 2
  MaxPending = 1
  IdleTime = 0
INVARIANTS TypeOK LockedByConnected HeldIsLocked NoTwoHolders SavesByHolder
SYMMETRY MCSymmetry
CONSTRAINT MCRegions
CHECK_DEADLOCK FALSE
