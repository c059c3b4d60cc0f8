SPECIFICATION Spec
CONSTANTS
  admin0 = admin0
  a1 = a1
  super0 = super0
  r1 = r1
  m1 = m1
  p1 = p1
  Admins = {admin0, a1}
  Roles = {super0, r1}
  Menus = {m1}
  Perms = {p1}
  Routes = {get}
  Builtin = admin0
  Protected = {admin0}
  SuperRole = super0
  Setup <- TwoAdmins
  Requests = {w1}
  MaxEdits = 1
PROPERTIES
  BuiltinStatusKept
