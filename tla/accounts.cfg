\* Logins, registrations and credentials that are revoked under way.
SPECIFICATION AccountsSpec
CONSTANTS
  root = root
  amy = amy
  p1 = p1
  p2 = p2
  none = none
  w1 = w1
  w2 = w2
  Names = {root, amy}
  Root = root
  Passwords = {p1, p2}
  Seeded = p1
  Absent = none
  Workers = {w1, w2}
  MaxFails = 2
  Lockout = 1
  TableSize = 2
  Burst = 1
  Refill = 1
  Ttl = 1
  Visitors = {amy}
  Requests <- MCRequests
  MaxTime = 1
  MaxIds = 3
  MaxEra = 2
SYMMETRY Symmetry
INVARIANTS AccountsTypeOK RevocationComplete StaleOnlyIfRaced MissesBounded BurstsBounded
PROPERTIES PasswordChangeRevokes
CHECK_DEADLOCK FALSE
