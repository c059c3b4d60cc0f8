SPECIFICATION Spec
CONSTANTS
  u1 = u1
  d1 = d1
  d2 = d2
  Users <- OneUser
  Devices <- TwoDevices
  Owner <- AllOfOne
  Workers = {w1, w2}
  Ops = {"UpdateUser", "UpdateUserStatus", "ResetUserPassword", "DeleteUser", "KickUserNow", "SetDeviceStatus", "KickDevice", "DeleteDevice"}
  MaxOps = 2
  MaxBatch = 2
  MaxFaults = 1
INVARIANTS
  TypeOK
  OnlineExplained
  SettledStatus
PROPERTIES
  KeepsPresence
CHECK_DEADLOCK FALSE
