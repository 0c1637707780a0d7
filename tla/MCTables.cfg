SPECIFICATION MCSpec
CONSTANTS
  c1 = c1
  c2 = c2
  c3 = c3
  Chars = {c1, c2, c3}
  Gsids = {1, 2, 3}
  MaxCells = 4
  TblLen = 2
  GsqLen = 2
  Hash <- MCHash
  p = p
  q = q
  r = r
  n1 = n1
  n2 = n2
  Players = {p, q, r}
  GameNames = {n1, n2}
  MaxGames = 2
  MaxSeats = 3
INVARIANTS TablesTypeOK ListsWellFormed PlayersAreSeated 
PROPERTY ImplementsCharLock
CONSTRAINT MCRegions
SYMMETRY MCSymmetry
CHECK_DEADLOCK FALSE
