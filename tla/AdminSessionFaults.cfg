SPECIFICATION Spec
SYMMETRY Symmetry
CONSTANTS
  Admins = {a1}
  Clients = {c1}
  Workers = {w1, w2}
  Jti = {j1, j2, j3}
  None = None
  Ops = {"work", "logout"}
  RefreshOnAccess = TRUE
  Ttl = 3
  LoginSpan = 1
  MaxTime = 3
  MaxFaults = 1
  MaxEdits = 0
INVARIANTS
  TypeOK
  RevokedStaysRevoked
  NoStrandedClient
CHECK_DEADLOCK FALSE
