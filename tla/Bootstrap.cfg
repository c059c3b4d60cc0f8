SPECIFICATION Spec
CONSTANTS
  Admins <- AdminIds
  Roles <- RoleIds
  Menus <- MenuIds
  Perms <- PermIds
  Routes = {"get", "put"}
  Builtin <- Admin1
  Protected <- OnlyBuiltin
  SuperRole <- Role1
  Setup <- NothingYet
  MaxEdits = 2
  Tree <- SmallTree
  Root <- NoMenu
  OwnCode = "own"
  Null = "null"
INVARIANTS
  TypeOK
  StartRepairs
PROPERTIES
  StartKeepsGrants
  StartSettles
  ComesUp
