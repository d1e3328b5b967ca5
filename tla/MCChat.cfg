SPECIFICATION Spec
CONSTANTS
  a1 = a1
  a2 = a2
  a3 = a3
  c1 = c1
  c2 = c2
  c3 = c3
  Clients <- MCClients
  Accounts <- MCAccounts
  AccountOf <- MCAccountOf
  OnlineAtStart <- MCOnline
  MembersAtStart <- MCMembers
  PendingAtStart <- MCPending
  None = None
  MaxSends = 2
  MaxReads = 1
  MaxFaults = 1
  MaxLogins = 1
INVARIANTS
  TypeOK
  GroupAllOrNothing
  AckedGroupStored
  NoMissedChat
PROPERTIES
  StoredAtOnce
CHECK_DEADLOCK FALSE
