SPECIFICATION Spec

CONSTANTS
  Accounts = {root}
  Workers = {w1, w2, w3}
  None = None
  Limit = 2
  LockTtl = 2
  MaxFaults = 2
INVARIANTS
  TypeOK
  GuessesBounded
  ExpiryUnlessFault
PROPERTIES
  LockEnds
