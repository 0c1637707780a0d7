SPECIFICATION Spec
CONSTANTS
  Clients = {"u1", "u2"}
  Names = {"x", "y"}
  Char <- MCChar
  Dead = {}
  Ips = {"a"}
  Conns = {"k1", "k2"}
  NoConn = NoConn
  MaxGames = {1}
  MaxChar = 2
  Multilogin = FALSE
  IdleGamesEnd = TRUE
  Overlap = TRUE
  MaxGameId = 2
  MaxGsId = 1
  MaxSeqno = 3
  MaxGid = 2
  MaxLink = 2
PROPERTY PreviousIsDeactive
