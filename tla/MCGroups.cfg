SPECIFICATION Spec
CONSTANTS
  a1 = a1
  a2 = a2
  c1 = c1
  c2 = c2
  c3 = c3
  g1 = g1
  Clients <- MCClients
  Accounts <- MCAccounts
  AccountOf <- MCAccountOf
  Groups <- MCGroups
  OnlineAtStart <- MCOnline
  Attentive <- MCNobody
  None = None
  MaxRequests = 2
  MaxAnswers = 1
  MaxLogins = 1
  MaxTime = 1
  MaxMishaps = 1
INVARIANTS
  TypeOK
  CreatorIsMember
  OneActivePerGroup
  NotUndercounted
  NoMissedGroup
CHECK_DEADLOCK FALSE
