SPECIFICATION MCSpec
CONSTANTS
  Owners = {"a", "b"}
  Names = {"c"}
  OldLadder <- MCOldLadder
  MaxVersion = 2
  MaxMishaps = 1
  x = x
  y = y
  t1 = t1
  Accounts = {x, y}
  Tags = {t1}
  MaxClans = 2
  MaxMembers = 3
  MaxInvites = 1
  ClanMaxMembers = 2
  ClanMinInvites = 2
  MaxClanMishaps = 1
  def = def
  Groups = {x, y}
  Default = def
  LikeDefault = {}
  Values = {1, 2}
  UserStep = 1
  FlushConnected = FALSE
  SyncOnLogoff = TRUE
  MaxAttrMishaps = 1
  p1 = p1
  p2 = p2
  p3 = p3
  p4 = p4
  Gamers = {p1, p2, p3, p4}
  Maps = {"m", "n"}
  PrefsSent <- MCPrefs
  Versions = {"v", "none"}
  AnonQueues = {"1v1", "2v2"}
  MaxDiff = 1
  TopLevel = 3
  MaxAnonGames = 1
INVARIANTS StoresTypeOK  PointersAreLive OneChieftain FileIsNotStale ValuesAreKept SaveStopsAtDirty  MatchedSuit NoPairWaits 
CONSTRAINT MCRegions
SYMMETRY MCSymmetry
CHECK_DEADLOCK FALSE
