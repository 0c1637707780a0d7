SPECIFICATION Spec
CONSTANTS
  Clients = {"u1"}
  Names = {x, y}
  Char <- MCChar
  Dead = {}
  Ips = {"a", "b"}
  Conns = {k1, k2}
  NoConn = NoConn
  MaxGames = {2}
  MaxChar = 2
  Multilogin = FALSE
  IdleGamesEnd = FALSE
  Overlap = FALSE
  MaxGameId = 2
  MaxGsId = 2
  MaxSeqno = 3
  MaxGid = 2
  MaxLink = 1
INVARIANTS MirrorsServer
SYMMETRY Symmetry
