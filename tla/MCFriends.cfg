SPECIFICATION Spec
CONSTANTS
  a1 = a1
  a2 = a2
  c1 = c1
  c2 = c2
  c3 = c3
  Clients <- MCClients
  Accounts <- MCAccounts
  AccountOf <- MCAccountOf
  OnlineAtStart <- MCOnline
  None = None
  MaxAsks = 2
  MaxAnswers = 1
  MaxLogins = 1
  MaxTime = 1
  MaxMishaps = 1
INVARIANTS
  TypeOK
  OneActivePerDirection
  OneWayPerPair
  NoMissedAsk
  NoMissedFriend
CHECK_DEADLOCK FALSE
