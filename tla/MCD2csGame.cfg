SPECIFICATION Spec
CONSTANTS
  Clients = {"u1", "u2", "u3"}
  Names = {x, y, z}
  Char <- MCChar
  Dead = {"c3"}
  Ips = {"a"}
  Conns = {k1}
  NoConn = NoConn
  MaxGames = {1, 2}
  MaxChar = 2
  Multilogin = TRUE
  IdleGamesEnd = TRUE
  Overlap = FALSE
  MaxGameId = 2
  MaxGsId = 2
  MaxSeqno = 3
  MaxGid = 2
  MaxLink = 2
INVARIANTS TypeOK GamenumCounts GidsAreUnique WaitersWait MirrorsServer
 
CONSTRAINT MCRegions
SYMMETRY Symmetry
