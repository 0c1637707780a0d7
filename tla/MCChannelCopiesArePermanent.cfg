SPECIFICATION Spec
CONSTANTS
  Users = {"admin", "bob", "irc"}
  Admins = {"admin"}
  IrcUsers = {"irc"}
  Officers = {}
  Private <- ClanB
  Limits = {1}
  MaxUsers = 2
  Conf <- MCConf
  Void <- MCVoid
  Requests <- CopiesRequests
  Country <- AllFromUsa
  ClanNames <- MCClanNames
  ClanOf <- NoClans
INVARIANT CopiesArePermanent
CONSTRAINT NoRights
