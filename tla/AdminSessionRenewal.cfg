SPECIFICATION Spec
SYMMETRY Symmetry
CONSTANTS
  Admins = {a1}
  Clients = {c1}
  Workers = {w1, w2}
  Jti = {j1, j2}
  None = None
  Ops = {"work"}
  RefreshOnAccess = TRUE
  Ttl = 3
  LoginSpan = 1
  MaxTime = 4
  MaxFaults = 0
  MaxEdits = 0
INVARIANTS
  RenewalKeepsSession
CHECK_DEADLOCK FALSE
