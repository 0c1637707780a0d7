SPECIFICATION Spec
CONSTANTS
  Users = {"admin", "bob", "irc"}
  Admins = {"admin"}
  IrcUsers = {"irc"}
  Officers = {"irc"}
  Private <- ClanB
  Limits = {1}
  MaxUsers = 2
  Conf <- MCConf
  Void <- MCVoid
  Requests <- MCRequests
  Country <- NoCountries
  ClanNames <- MCClanNames
  ClanOf <- MCClanOf
INVARIANTS TypeOK MembershipConsistent TmpOPsAreMembers
PROPERTIES RefusedGoToVoid JoinsAllowed ReloadKeepsPlaces
CONSTRAINT MCRegions
