SPECIFICATION Spec
SYMMETRY Symmetry
CONSTANTS
  n1 = n1
  n2 = n2
  n3 = n3
  Names = {n1, n2, n3}
  Existing <- TwoUsers
  Labels = {l1, l2}
  Workers = {w1, w2}
  PageSize = 1
  MaxUsers = 4
  MaxKeys = 3
  MaxCalls = 3
  MaxDeletes = 1
  MaxFaults = 1
INVARIANTS
  TypeOK
  NoKeyUnaccounted
  NameSettled
  NobodySkipped
CHECK_DEADLOCK FALSE
