SPECIFICATION LoginSpec
CONSTANTS
  Accounts = {"a1", "a2"}
  Characters = {"c1"}
  None = None
  FirstOwner <- MCFirstOwner
  CharHash <- MCCharHash
  CheckMultilogin = TRUE
  Slots = 1
  MaxClient = 2
  MaxSeqno = 2
  MaxLink = 3
  MaxFaults = 2
INVARIANTS LoginTypeOK GrantedByBnetd ServedIsActive
PROPERTY LinkComesBack
CONSTRAINT MCRegions
CHECK_DEADLOCK FALSE
