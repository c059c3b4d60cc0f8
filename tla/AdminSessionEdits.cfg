SPECIFICATION Spec
SYMMETRY Symmetry
CONSTANTS
  Admins = {a1}
  Clients = {c1, c2}
  Workers = {w1, w2}
  Jti = {j1, j2}
  None = None
  Ops = {"work", "logout", "chpass"}
  RefreshOnAccess = TRUE
  Ttl = 3
  LoginSpan = 1
  MaxTime = 3
  MaxFaults = 0
  MaxEdits = 1
INVARIANTS
  DisabledAdminCutOff
  OldPasswordCutOff
  LoggedOutSessionClosed
PROPERTIES
  KeepsSessionLife
CHECK_DEADLOCK FALSE
