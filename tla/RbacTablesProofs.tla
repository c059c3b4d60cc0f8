-------------------------- MODULE RbacTablesProofs --------------------------
(***************************************************************************)
(* Lemmas about RbacTables, for tables of any size: what each change of    *)
(* the operators keeps.  RbacProofs and BootstrapProofs build on them.     *)
(***************************************************************************)
EXTENDS RbacTables, TLAPS

-----------------------------------------------------------------------------
(* The tables.                                                             *)

LEMMA InitTablesOK == InitTables => TablesOK
<1> SUFFICES ASSUME InitTables PROVE TablesOK
  OBVIOUS
<1>1. /\ admin \in [Admins -> {"free", "on", "off", "gone"}] /\ role \in [Roles -> RoleRow]
  BY DEF InitTables, RoleRow, Life
<1>2. menu \in [Menus -> MenuRow] /\ perm \in [Perms -> PermRow]
  BY SetupAssumption DEF InitTables, MenuRow, PermRow, Life
<1>3. edits \in 0 .. MaxEdits /\ named \subseteq Deleted
  BY EditsAssumption DEF InitTables
<1> QED
  BY <1>1, <1>2, <1>3, SetupAssumption DEF InitTables, TablesOK

LEMMA CountedTyped == ASSUME edits \in 0 .. MaxEdits, Counted PROVE edits' \in 0 .. MaxEdits
BY EditsAssumption DEF Counted

LEMMA EditAdminTyped == ASSUME TablesOK, EditAdmin PROVE TablesOK' /\ Deleted \subseteq Deleted'
<1> USE CountedTyped DEF TablesOK, Seen, Accounts, Deleted, Gone, Named, Rebound, Bare
<1>1. ASSUME NEW a \in Admins, NEW status \in {"on", "off"}, NEW R \in SUBSET Seen(role),
             CreateAdmin(a, status, R)
      PROVE  TablesOK' /\ Deleted \subseteq Deleted'
  BY <1>1 DEF CreateAdmin
<1>2. ASSUME NEW a \in Accounts, NEW status \in {"on", "off"}, NEW R \in SUBSET Seen(role),
             UpdateAdmin(a, status, R)
      PROVE  TablesOK' /\ Deleted \subseteq Deleted'
  BY <1>2 DEF UpdateAdmin
<1>3. ASSUME NEW a \in Accounts, NEW status \in {"on", "off"},
             UpdateAdminOnly(a, status) \/ UpdateAdminStatus(a, status)
      PROVE  TablesOK' /\ Deleted \subseteq Deleted'
  BY <1>3 DEF UpdateAdminOnly, UpdateAdminStatus, bindings
<1>4. ASSUME NEW a \in Accounts, NEW operator \in Accounts, DeleteAdmin(a, operator)
      PROVE  TablesOK' /\ Deleted \subseteq Deleted'
  BY <1>4 DEF DeleteAdmin
<1> QED
  BY <1>1, <1>2, <1>3, <1>4, EditAdmin DEF EditAdmin

LEMMA EditRoleTyped == ASSUME TablesOK, EditRole PROVE TablesOK' /\ Deleted \subseteq Deleted'
<1> USE CountedTyped DEF TablesOK, Seen, Deleted, Gone, Named, Rebound, Bare, RoleRow, Life
<1>1. ASSUME NEW r \in Roles, NEW super \in BOOLEAN, NEW on \in BOOLEAN,
             CreateRole(r, super, on) \/ UpdateRole(r, super, on)
      PROVE  TablesOK' /\ Deleted \subseteq Deleted'
  BY <1>1 DEF CreateRole, UpdateRole, bindings
<1>2. ASSUME NEW r \in Seen(role), DeleteRole(r)
      PROVE  TablesOK' /\ Deleted \subseteq Deleted'
  BY <1>2 DEF DeleteRole
<1>3. ASSUME NEW r \in Seen(role), NEW M \in SUBSET Seen(menu), AssignRoleMenus(r, M)
      PROVE  TablesOK' /\ Deleted \subseteq Deleted'
  BY <1>3 DEF AssignRoleMenus, rows
<1> QED
  BY <1>1, <1>2, <1>3, EditRole DEF EditRole

LEMMA EditMenuTyped == ASSUME TablesOK, EditMenu PROVE TablesOK' /\ Deleted \subseteq Deleted'
<1> USE CountedTyped DEF TablesOK, Seen, Deleted, Gone, Named, Rebound, Bare, MenuRow, Life
<1>1. ASSUME NEW m \in Menus, CreateMenu(m)
      PROVE  TablesOK' /\ Deleted \subseteq Deleted'
  BY <1>1 DEF CreateMenu, bindings
<1>2. ASSUME NEW m \in Seen(menu), DeleteMenu(m)
      PROVE  TablesOK' /\ Deleted \subseteq Deleted'
  BY <1>2 DEF DeleteMenu
<1>3. ASSUME NEW m \in Seen(menu), NEW P \in SUBSET Seen(perm), AssignMenuPerms(m, P)
      PROVE  TablesOK' /\ Deleted \subseteq Deleted'
  BY <1>3 DEF AssignMenuPerms, rows
<1> QED
  BY <1>1, <1>2, <1>3, EditMenu DEF EditMenu

LEMMA EditPermTyped == ASSUME TablesOK, EditPerm PROVE TablesOK' /\ Deleted \subseteq Deleted'
<1> USE CountedTyped DEF TablesOK, Seen, Deleted, Gone, Named, Rebound, Bare, PermRow, Life
<1>1. ASSUME NEW p \in Perms, NEW rt \in Routes, NEW on \in BOOLEAN, CreatePerm(p, rt, on)
      PROVE  TablesOK' /\ Deleted \subseteq Deleted'
  BY <1>1 DEF CreatePerm, bindings
<1>2. ASSUME NEW p \in Perms, NEW covers \in {{rt} : rt \in Routes} \cup {Routes},
             NEW intercept \in BOOLEAN, NEW on \in BOOLEAN, UpdatePerm(p, covers, intercept, on)
      PROVE  TablesOK' /\ Deleted \subseteq Deleted'
  BY <1>2 DEF UpdatePerm, bindings
<1>3. ASSUME NEW p \in Seen(perm), DeletePerm(p)
      PROVE  TablesOK' /\ Deleted \subseteq Deleted'
  BY <1>3 DEF DeletePerm
<1> QED
  <2> HIDE DEF TablesOK, Deleted
  <2> QED BY <1>1, <1>2, <1>3, EditPerm, Zenon DEF EditPerm

LEMMA EditTyped == ASSUME TablesOK, Edit PROVE TablesOK' /\ Deleted \subseteq Deleted'
BY EditAdminTyped, EditRoleTyped, EditMenuTyped, EditPermTyped DEF Edit

-----------------------------------------------------------------------------
(* Bindings of deleted rows.                                               *)

LEMMA InitBound == InitTables => NoDanglingBinding
BY SetupAssumption DEF InitTables, NoDanglingBinding, Deleted, Gone, Firsts, Seconds

\* A row is deleted together with its bindings; a new binding of a deleted row
\* is noted.
LEMMA EditAdminBound == ASSUME TablesOK, NoDanglingBinding, EditAdmin PROVE NoDanglingBinding'
<1> USE IdsAssumption DEF TablesOK, NoDanglingBinding, Seen, Accounts, Deleted, Gone, Named, Rebound, Bare
<1>1. ASSUME NEW a \in Admins, NEW status \in {"on", "off"}, NEW R \in SUBSET Seen(role),
             CreateAdmin(a, status, R)
      PROVE  NoDanglingBinding'
  BY <1>1 DEF CreateAdmin
<1>2. ASSUME NEW a \in Accounts, NEW status \in {"on", "off"}, NEW R \in SUBSET Seen(role),
             UpdateAdmin(a, status, R)
      PROVE  NoDanglingBinding'
  BY <1>2 DEF UpdateAdmin
<1>3. ASSUME NEW a \in Accounts, NEW status \in {"on", "off"},
             UpdateAdminOnly(a, status) \/ UpdateAdminStatus(a, status)
      PROVE  NoDanglingBinding'
  BY <1>3 DEF UpdateAdminOnly, UpdateAdminStatus, bindings
<1>4. ASSUME NEW a \in Accounts, NEW operator \in Accounts, DeleteAdmin(a, operator)
      PROVE  NoDanglingBinding'
  BY <1>4 DEF DeleteAdmin
<1> QED
  <2> HIDE DEF TablesOK, NoDanglingBinding, Deleted
  <2> QED BY <1>1, <1>2, <1>3, <1>4, EditAdmin, Zenon DEF EditAdmin

LEMMA EditRoleBound == ASSUME TablesOK, NoDanglingBinding, EditRole PROVE NoDanglingBinding'
<1> USE IdsAssumption DEF TablesOK, NoDanglingBinding, Seen, Deleted, Gone, Named, Rebound, Bare, RoleRow
<1>1. ASSUME NEW r \in Roles, NEW super \in BOOLEAN, NEW on \in BOOLEAN,
             CreateRole(r, super, on) \/ UpdateRole(r, super, on)
      PROVE  NoDanglingBinding'
  BY <1>1 DEF CreateRole, UpdateRole, bindings
<1>2. ASSUME NEW r \in Seen(role), DeleteRole(r)
      PROVE  NoDanglingBinding'
  BY <1>2 DEF DeleteRole
<1>3. ASSUME NEW r \in Seen(role), NEW M \in SUBSET Seen(menu), AssignRoleMenus(r, M)
      PROVE  NoDanglingBinding'
  BY <1>3 DEF AssignRoleMenus, rows
<1> QED
  <2> HIDE DEF TablesOK, NoDanglingBinding, Deleted
  <2> QED BY <1>1, <1>2, <1>3, EditRole, Zenon DEF EditRole

LEMMA EditMenuBound == ASSUME TablesOK, NoDanglingBinding, EditMenu PROVE NoDanglingBinding'
<1> USE IdsAssumption DEF TablesOK, NoDanglingBinding, Seen, Deleted, Gone, Named, Rebound, Bare, MenuRow
<1>1. ASSUME NEW m \in Menus, CreateMenu(m)
      PROVE  NoDanglingBinding'
  BY <1>1 DEF CreateMenu, bindings
<1>2. ASSUME NEW m \in Seen(menu), DeleteMenu(m)
      PROVE  NoDanglingBinding'
  BY <1>2 DEF DeleteMenu
<1>3. ASSUME NEW m \in Seen(menu), NEW P \in SUBSET Seen(perm), AssignMenuPerms(m, P)
      PROVE  NoDanglingBinding'
  BY <1>3 DEF AssignMenuPerms, rows
<1> QED
  <2> HIDE DEF TablesOK, NoDanglingBinding, Deleted
  <2> QED BY <1>1, <1>2, <1>3, EditMenu, Zenon DEF EditMenu

LEMMA EditPermBound == ASSUME TablesOK, NoDanglingBinding, EditPerm PROVE NoDanglingBinding'
<1> USE IdsAssumption DEF TablesOK, NoDanglingBinding, Seen, Deleted, Gone, Named, Rebound, Bare, PermRow
<1>1. ASSUME NEW p \in Perms, NEW rt \in Routes, NEW on \in BOOLEAN, CreatePerm(p, rt, on)
      PROVE  NoDanglingBinding'
  BY <1>1 DEF CreatePerm, bindings
<1>2. ASSUME NEW p \in Perms, NEW covers \in {{rt} : rt \in Routes} \cup {Routes},
             NEW intercept \in BOOLEAN, NEW on \in BOOLEAN, UpdatePerm(p, covers, intercept, on)
      PROVE  NoDanglingBinding'
  BY <1>2 DEF UpdatePerm, bindings
<1>3. ASSUME NEW p \in Seen(perm), DeletePerm(p)
      PROVE  NoDanglingBinding'
  BY <1>3 DEF DeletePerm
<1> QED
  <2> HIDE DEF TablesOK, NoDanglingBinding, Deleted
  <2> QED BY <1>1, <1>2, <1>3, EditPerm, Zenon DEF EditPerm

=============================================================================
