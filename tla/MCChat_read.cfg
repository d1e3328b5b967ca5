SPECIFICATION Spec
CONSTANTS
  a1 = a1
  a2 = a2
  a3 = a3
  c1 = c1
  c2 = c2
  c3 = c3
  Clients <- MCClients
  Accounts <- MCAccounts
  AccountOf <- MCAccountOf
  OnlineAtStart <- MCOnline
  MembersAtStart <- MCMembers
  PendingAtStart <- MCPending
  None = None
  MaxSends = 2
  MaxReads = 1
  MaxFaults = 0
  MaxLogins = 0
INVARIANTS
  MarkedByReceiver
CHECK_DEADLOCK FALSE
