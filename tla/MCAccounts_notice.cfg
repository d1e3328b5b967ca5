SPECIFICATION Spec
CONSTANTS
  c1 = c1
  c2 = c2
  c3 = c3
  n1 = n1
  n2 = n2
  p1 = p1
  p2 = p2
  Conns <- MCConns
  Fds <- MCFds
  Accounts <- MCAccounts
  Passwords <- MCPasswords
  Friends <- MCFriends
  RegisteredAtStart <- MCRegistered
  FirstPassword = p1
  None = None
  MaxRequests = 3
  MaxCloses = 2
SYMMETRY Symmetry
INVARIANTS
  NoticeToFriend
CHECK_DEADLOCK FALSE
