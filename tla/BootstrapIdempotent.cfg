SPECIFICATION Spec
CONSTANTS
  Admins <- AdminIds
  Roles <- RoleIds
  Menus <- MenuIds
  Perms <- PermIds
  Routes = {"get", "put"}
  Builtin <- Admin1
  Protected <- OnlyBuiltin
  SuperRole <- Role1
  Setup <- NothingYet
  MaxEdits = 1
  Tree <- SmallTree
  Root <- NoMenu
  OwnCode = "own"
  Null = "null"
PROPERTIES
  StartIsIdempotent
