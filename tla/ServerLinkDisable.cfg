SPECIFICATION Spec
SYMMETRY Symmetry
CONSTANTS
  u1 = u1
  d1 = d1
  d2 = d2
  Users <- OneUser
  Devices <- TwoDevices
  Owner <- AllOfOne
  Workers = {w1, w2}
  Ops = {"UpdateUser"}
  MaxOps = 2
  MaxBatch = 2
  MaxFaults = 0
INVARIANTS
  DisabledUserKicked
CHECK_DEADLOCK FALSE
