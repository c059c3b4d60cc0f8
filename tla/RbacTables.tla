----------------------------- MODULE RbacTables -----------------------------
(***************************************************************************)
(* The RBAC tables - administrators, roles, menus, permissions and their   *)
(* bindings - and what RBACService does to them when operators ask for it. *)
(*                                                                         *)
(* Every change is one transaction or one statement: it takes place as a   *)
(* whole or not at all.  An operator may name a row that somebody else has *)
(* deleted since it was shown.                                             *)
(***************************************************************************)
EXTENDS Integers, FiniteSets

CONSTANTS
    Admins, Roles, Menus, Perms,   \* ids, in use or still free
    Routes,       \* the methods of one path of the API
    Builtin,      \* the built-in account, bootstrap.super_admin_account or "admin"
    Protected,    \* it, unless the configuration leaves it out: then the service knows none
    SuperRole,    \* the role that the seed binds it to
    Setup,        \* the bindings that seed and operators have made so far
    MaxEdits      \* bound: changes of the tables

ASSUME IdsAssumption ==
    /\ Builtin \in Admins /\ Protected \subseteq {Builtin} /\ SuperRole \in Roles
    /\ Admins \cap (Roles \cup Menus \cup Perms) = {}
    /\ Roles \cap (Menus \cup Perms) = {} /\ Menus \cap Perms = {}
ASSUME SetupAssumption ==
    /\ Setup.adminRole \subseteq Admins \X Roles
    /\ Setup.roleMenu \subseteq Roles \X Menus
    /\ Setup.menuPerm \subseteq Menus \X Perms
    /\ Setup.covers \in [Perms -> SUBSET Routes]
    \* Every bound row is there.
    /\ \A b \in Setup.roleMenu : \E c \in Setup.adminRole : c[2] = b[1]
    /\ \A b \in Setup.roleMenu : \E c \in Setup.menuPerm : c[1] = b[2]
ASSUME EditsAssumption == MaxEdits \in Nat

VARIABLES
    admin,       \* "free", "on", "off" (disabled or locked), or "gone" (is_del)
    role, menu, perm,                 \* rows
    adminRole, roleMenu, menuPerm,    \* bindings that are not deleted
    edits,       \* counted against the bound
    named        \* history: deleted rows that a later request bound again

rows     == <<admin, role, menu, perm>>
bindings == <<adminRole, roleMenu, menuPerm>>
tables   == <<rows, bindings, edits, named>>

Life   == {"free", "live", "gone"}
RoleRow == [is : Life, on : BOOLEAN, super : BOOLEAN]
MenuRow == [is : Life]
PermRow == [is : Life, on : BOOLEAN, covers : SUBSET Routes, intercept : BOOLEAN]

\* Rows that operators can have seen.
Seen(row) == {x \in DOMAIN row : row[x].is # "free"}
Gone(row) == {x \in DOMAIN row : row[x].is = "gone"}
Accounts  == {a \in Admins : admin[a] # "free"}
Deleted   == {a \in Admins : admin[a] = "gone"} \cup Gone(role) \cup Gone(menu) \cup Gone(perm)

Firsts(set)  == {b[1] : b \in set}
Seconds(set) == {b[2] : b \in set}

InitTables ==
    /\ admin = [a \in Admins |-> IF a \in Firsts(Setup.adminRole) THEN "on" ELSE "free"]
    /\ role  = [r \in Roles |->
                  [is |-> IF r \in Seconds(Setup.adminRole) THEN "live" ELSE "free",
                   on |-> TRUE, super |-> r = SuperRole]]
    /\ menu  = [m \in Menus |->
                  [is |-> IF m \in Firsts(Setup.menuPerm) THEN "live" ELSE "free"]]
    /\ perm  = [p \in Perms |->
                  [is |-> IF p \in Seconds(Setup.menuPerm) THEN "live" ELSE "free",
                   on |-> TRUE, covers |-> Setup.covers[p], intercept |-> TRUE]]
    /\ adminRole = Setup.adminRole /\ roleMenu = Setup.roleMenu /\ menuPerm = Setup.menuPerm
    /\ edits = 0 /\ named = {}

-----------------------------------------------------------------------------
Counted == edits < MaxEdits /\ edits' = edits + 1

\* Bindings are soft-deleted by one of their ends and made anew; the rows at
\* the other ends are not looked at.
Rebound(set, x, Y) == {b \in set : b[1] # x} \cup {x} \X Y
Named(X)           == named' = named \cup (X \cap Deleted)
Bare(set, x)       == {b \in set : b[1] # x /\ b[2] # x}

\* An account stays taken after its row is deleted: it is unique in the table.
CreateAdmin(a, status, R) ==
    /\ Counted
    /\ admin[a] = "free" /\ admin' = [admin EXCEPT ![a] = status]
    /\ adminRole' = Rebound(adminRole, a, R)
    /\ Named(R)
    /\ UNCHANGED <<role, menu, perm, roleMenu, menuPerm>>

\* The roles are replaced whether or not the administrator's row is found.
UpdateAdmin(a, status, R) ==
    /\ Counted
    /\ admin' = IF admin[a] = "gone" THEN admin ELSE [admin EXCEPT ![a] = status]
    /\ adminRole' = Rebound(adminRole, a, R)
    /\ Named({a} \cup R)
    /\ UNCHANGED <<role, menu, perm, roleMenu, menuPerm>>

\* A request without roleIds leaves them as they are.
UpdateAdminOnly(a, status) ==
    /\ Counted
    /\ admin[a] # "gone" /\ admin' = [admin EXCEPT ![a] = status]
    /\ UNCHANGED <<role, menu, perm, bindings, named>>

UpdateAdminStatus(a, status) ==
    /\ Counted
    /\ admin[a] # "gone" /\ a \notin Protected
    /\ admin' = [admin EXCEPT ![a] = status]
    /\ UNCHANGED <<role, menu, perm, bindings, named>>

DeleteAnyAdmin(a, operator) ==
    /\ Counted
    /\ a # operator /\ admin[a] # "gone"
    /\ admin' = [admin EXCEPT ![a] = "gone"]
    /\ adminRole' = Bare(adminRole, a)
    /\ UNCHANGED <<role, menu, perm, roleMenu, menuPerm, named>>

DeleteAdmin(a, operator) ==
    /\ Counted
    /\ a # operator /\ admin[a] # "gone" /\ a \notin Protected
    /\ admin' = [admin EXCEPT ![a] = "gone"]
    /\ adminRole' = Bare(adminRole, a)
    /\ UNCHANGED <<role, menu, perm, roleMenu, menuPerm, named>>

CreateRole(r, super, on) ==
    /\ Counted
    /\ role[r].is = "free"
    /\ role' = [role EXCEPT ![r] = [is |-> "live", on |-> on, super |-> super]]
    /\ UNCHANGED <<admin, menu, perm, bindings, named>>

UpdateRole(r, super, on) ==
    /\ Counted
    /\ role[r].is = "live"
    /\ role' = [role EXCEPT ![r].super = super, ![r].on = on]
    /\ UNCHANGED <<admin, menu, perm, bindings, named>>

DeleteRole(r) ==
    /\ Counted
    /\ role' = [role EXCEPT ![r].is = "gone"]
    /\ adminRole' = Bare(adminRole, r) /\ roleMenu' = Bare(roleMenu, r)
    /\ UNCHANGED <<admin, menu, perm, menuPerm, named>>

AssignRoleMenus(r, M) ==
    /\ Counted
    /\ roleMenu' = Rebound(roleMenu, r, M)
    /\ Named({r} \cup M)
    /\ UNCHANGED <<rows, adminRole, menuPerm>>

CreateMenu(m) ==
    /\ Counted
    /\ menu[m].is = "free" /\ menu' = [menu EXCEPT ![m].is = "live"]
    /\ UNCHANGED <<admin, role, perm, bindings, named>>

DeleteMenuKeepsPerms(m) ==
    /\ Counted
    /\ menu' = [menu EXCEPT ![m].is = "gone"]
    /\ roleMenu' = Bare(roleMenu, m)
    /\ UNCHANGED <<admin, role, perm, adminRole, menuPerm, named>>

DeleteMenu(m) ==
    /\ Counted
    /\ menu' = [menu EXCEPT ![m].is = "gone"]
    /\ roleMenu' = Bare(roleMenu, m) /\ menuPerm' = Bare(menuPerm, m)
    /\ UNCHANGED <<admin, role, perm, adminRole, named>>

AssignMenuPerms(m, P) ==
    /\ Counted
    /\ menuPerm' = Rebound(menuPerm, m, P)
    /\ Named({m} \cup P)
    /\ UNCHANGED <<rows, adminRole, roleMenu>>

\* gorm writes the column's default for a zero value: a new permission
\* intercepts, and method 0 (any) becomes POST, whatever the request says.
CreatePerm(p, rt, on) ==
    /\ Counted
    /\ perm[p].is = "free"
    /\ perm' = [perm EXCEPT ![p] = [is |-> "live", on |-> on, covers |-> {rt},
                                      intercept |-> TRUE]]
    /\ UNCHANGED <<admin, role, menu, bindings, named>>

UpdatePerm(p, covers, intercept, on) ==
    /\ Counted
    /\ perm[p].is = "live"
    /\ perm' = [perm EXCEPT ![p] = [is |-> "live", on |-> on, covers |-> covers,
                                      intercept |-> intercept]]
    /\ UNCHANGED <<admin, role, menu, bindings, named>>

DeletePerm(p) ==
    /\ Counted
    /\ perm' = [perm EXCEPT ![p].is = "gone"]
    /\ menuPerm' = Bare(menuPerm, p)
    /\ UNCHANGED <<admin, role, menu, adminRole, roleMenu, named>>

-----------------------------------------------------------------------------
EditAdmin ==
    \/ \E a \in Admins, status \in {"on", "off"}, R \in SUBSET Seen(role) :
         CreateAdmin(a, status, R)
    \/ \E a \in Accounts, status \in {"on", "off"} :
        \/ \E R \in SUBSET Seen(role) : UpdateAdmin(a, status, R)
        \/ UpdateAdminOnly(a, status)
        \/ UpdateAdminStatus(a, status)
    \/ \E a, operator \in Accounts : DeleteAdmin(a, operator)

EditRole ==
    \/ \E r \in Roles, super, on \in BOOLEAN : CreateRole(r, super, on) \/ UpdateRole(r, super, on)
    \/ \E r \in Seen(role) :
        \/ DeleteRole(r)
        \/ \E M \in SUBSET Seen(menu) : AssignRoleMenus(r, M)

EditMenu ==
    \/ \E m \in Menus : CreateMenu(m)
    \/ \E m \in Seen(menu) :
        \/ DeleteMenu(m)
        \/ \E P \in SUBSET Seen(perm) : AssignMenuPerms(m, P)

\* A row is for one method of its path or, method 0, for all of them.
EditPerm ==
    \/ \E p \in Perms, rt \in Routes, on \in BOOLEAN : CreatePerm(p, rt, on)
    \/ \E p \in Perms, covers \in {{rt} : rt \in Routes} \cup {Routes}, intercept, on \in BOOLEAN :
         UpdatePerm(p, covers, intercept, on)
    \/ \E p \in Seen(perm) : DeletePerm(p)

Edit == EditAdmin \/ EditRole \/ EditMenu \/ EditPerm

-----------------------------------------------------------------------------
TablesOK ==
    /\ admin \in [Admins -> {"free", "on", "off", "gone"}]
    /\ role \in [Roles -> RoleRow] /\ menu \in [Menus -> MenuRow] /\ perm \in [Perms -> PermRow]
    /\ adminRole \subseteq Admins \X Roles
    /\ roleMenu \subseteq Roles \X Menus
    /\ menuPerm \subseteq Menus \X Perms
    /\ edits \in 0 .. MaxEdits
    /\ named \subseteq Deleted

\* A deleted row has no bindings, unless a request that came later named it
\* again: each deletion clears both tables that its row occurs in
\* (rbac_service.go:163-173, 250-263, 361-374, 451-460).
NoDanglingBinding ==
    \A b \in adminRole \cup roleMenu \cup menuPerm : {b[1], b[2]} \cap Deleted \subseteq named

\* rbac_service.go:190: the status of the built-in super administrator cannot
\* be changed.
BuiltinStatusKept == [][admin'[Builtin] = admin[Builtin]]_tables

=============================================================================
