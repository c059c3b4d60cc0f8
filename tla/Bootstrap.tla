------------------------------ MODULE Bootstrap ------------------------------
(***************************************************************************)
(* What every start of the process does to the RBAC tables before it       *)
(* serves: SeedSuperAdmin, then SeedMenusAndPerms, one statement after the *)
(* other and without a transaction around them.  The process may stop      *)
(* between any two statements, by itself (an error of a statement ends it) *)
(* or not; the next start begins again.  While it serves, operators change *)
(* the same tables (RbacTables).                                           *)
(***************************************************************************)
EXTENDS RbacTables, Sequences

CONSTANTS
    Tree,       \* the built-in menus, a menu before those under it (under: its index, or 0)
    Root,       \* no parent (parent_id 0)
    OwnCode,    \* the code of a menu that only operators know
    Null        \* no code: SQL NULL

Codes == {Tree[n].code : n \in DOMAIN Tree}

\* Every id is a pair of its table and its number, since First() reads the row
\* with the lowest number and an INSERT takes the next one.
ASSUME NumbersAssumption ==
    \A x \in Admins \cup Roles \cup Menus \cup Perms : Len(x) = 2 /\ x[2] \in Nat
ASSUME TreeAssumption ==
    /\ OwnCode \notin Codes /\ Null \notin Codes \cup {OwnCode} /\ Root \notin Menus
    /\ Len(Tree) \in Nat \ {0} /\ DOMAIN Tree = 1 .. Len(Tree)
    /\ \A n \in DOMAIN Tree :
        /\ Tree[n].under \in 0 .. (n - 1)
        /\ \A i \in 1 .. (n - 1) : Tree[n].code # Tree[i].code
        /\ Tree[n].perms \in Seq([rt : Routes, intercept : BOOLEAN])
\* A route and method that the tree has twice it has with one is_intercept.
ASSUME InterceptsAssumption ==
    \A m, n \in DOMAIN Tree : \A j \in DOMAIN Tree[m].perms, k \in DOMAIN Tree[n].perms :
        Tree[m].perms[j].rt = Tree[n].perms[k].rt => Tree[m].perms[j] = Tree[n].perms[k]

VARIABLES
    code, parent,   \* menus: code and parent_id
    at,             \* the statement the start has come to; "up"; "down" (stopped); "failed"
    rounds          \* history: starts completed since the last change of the tables

shape == <<code, parent>>
vars  == <<tables, shape, at, rounds>>

At(do)       == at.do = do
Step(do)     == [do |-> do, n |-> 0, k |-> 0]
Goto(do)     == at' = Step(do)
Node         == Tree[at.n]
Perm         == Node.perms[at.k]
Ended        == at.do \in {"down", "failed"}
Starting     == ~At("up") /\ ~Ended

Live(row)    == {x \in DOMAIN row : row[x].is = "live"}
Lowest(S)    == CHOOSE x \in S : \A y \in S : x[2] <= y[2]
Free(row)    == {x \in DOMAIN row : row[x].is = "free"}
NextId(row)  == Lowest(Free(row))
Room(row)    == Free(row) # {}       \* bound: the ids given

\* The rows that First() is given to choose from.
SuperRoles   == {r \in Live(role) : role[r].super}
MenusOf(c)   == {m \in Live(menu) : code[m] = c}
AnyPermOf(rt) == Live(perm)
PermsFor(rt) == {p \in Live(perm) : perm[p].covers = {rt}}

Init ==
    /\ InitTables
    /\ code = [m \in Menus |-> OwnCode] /\ parent = [m \in Menus |-> Root]
    /\ at = Step("role") /\ rounds = 0

-----------------------------------------------------------------------------
(* SeedSuperAdmin.                                                         *)

SeedRolePlain ==
    /\ At("role") /\ Goto("admin")
    /\ SuperRoles = {} => Room(role)
    /\ role' = IF SuperRoles # {} THEN role
               ELSE [role EXCEPT ![NextId(role)] = [is |-> "live", on |-> TRUE, super |-> FALSE]]
    /\ UNCHANGED <<admin, menu, perm, bindings, edits, named, shape, rounds>>

\* A super role is looked for whatever its status.
SeedRole ==
    /\ At("role") /\ Goto("admin")
    /\ SuperRoles = {} => Room(role)
    /\ role' = IF SuperRoles # {} THEN role
               ELSE [role EXCEPT ![NextId(role)] = [is |-> "live", on |-> TRUE, super |-> TRUE]]
    /\ UNCHANGED <<admin, menu, perm, bindings, edits, named, shape, rounds>>

\* The account of a deleted row is still taken: the INSERT fails and main ends
\* the process.
SeedAdmin ==
    /\ At("admin") /\ Goto(IF admin[Builtin] = "gone" THEN "failed" ELSE "bind")
    /\ admin' = IF admin[Builtin] = "free" THEN [admin EXCEPT ![Builtin] = "on"] ELSE admin
    /\ UNCHANGED <<role, menu, perm, bindings, edits, named, shape, rounds>>

SeedBinding ==
    /\ At("bind") /\ at' = [do |-> "menu", n |-> 1, k |-> 0]
    /\ adminRole' = adminRole \cup {<<Builtin, Lowest(SuperRoles)>>}
    /\ UNCHANGED <<rows, roleMenu, menuPerm, edits, named, shape, rounds>>

-----------------------------------------------------------------------------
(* SeedMenusAndPerms.                                                      *)

NextNode == IF at.n < Len(Tree) THEN [do |-> "menu", n |-> at.n + 1, k |-> 0] ELSE Step("clean")
NextPerm == IF at.k < Len(Node.perms) THEN [do |-> "perm", n |-> at.n, k |-> at.k + 1]
            ELSE NextNode

RowOf(n) == IF n = 0 THEN Root ELSE Lowest(MenusOf(Tree[n].code))

\* upsertMenu.  A menu that is there is put back under its parent; a new one
\* gets the next id.
Upsert(m, next) ==
    /\ at' = next
    /\ menu'   = [menu EXCEPT ![m].is = "live"]
    /\ code'   = [code EXCEPT ![m] = Node.code]
    /\ parent' = [parent EXCEPT ![m] = RowOf(Node.under)]
    /\ UNCHANGED <<admin, role, perm, bindings, edits, named, rounds>>

Found == MenusOf(Node.code)
SeedMenuOnce ==
    /\ At("menu") /\ (Found = {} => Room(menu))
    /\ IF Found # {} THEN Upsert(Lowest(Found), NextNode) ELSE Upsert(NextId(menu), NextPerm)
SeedMenu ==
    /\ At("menu") /\ (Found = {} => Room(menu))
    /\ Upsert(IF Found # {} THEN Lowest(Found) ELSE NextId(menu), NextPerm)

\* upsertPermAndBind.  gorm leaves an is_intercept of 0 to the column, whose
\* default is 1; only the update of a row that is there writes the 0.
InterceptAsCreated == TRUE

SeedPerm ==
    /\ At("perm") /\ at' = [at EXCEPT !.do = "attach"]
    /\ PermsFor(Perm.rt) = {} => Room(perm)
    /\ perm' = IF PermsFor(Perm.rt) = {}
               THEN [perm EXCEPT ![NextId(perm)] =
                        [is |-> "live", on |-> TRUE, covers |-> {Perm.rt},
                         intercept |-> InterceptAsCreated]]
               ELSE [perm EXCEPT ![Lowest(PermsFor(Perm.rt))].intercept = Perm.intercept]
    /\ UNCHANGED <<admin, role, menu, bindings, edits, named, shape, rounds>>

SeedAttach ==
    /\ At("attach") /\ at' = NextPerm
    /\ menuPerm' = menuPerm \cup {<<RowOf(at.n), Lowest(PermsFor(Perm.rt))>>}
    /\ UNCHANGED <<rows, adminRole, roleMenu, edits, named, shape, rounds>>

\* Menus that are not in the tree are deleted; their bindings stay.  For a code
\* that is NULL, "code NOT IN" the tree's is not true.
Obsolete   == {m \in Live(menu) : code[m] # Null /\ code[m] \notin Codes}
BareOf(set, M)    == {b \in set : b[1] \notin M /\ b[2] \notin M}
CleanBare(set, M) == BareOf(set, M)
Clean(set, M)     == set

SeedClean ==
    /\ At("clean") /\ Goto("up")
    /\ menu' = [m \in Menus |-> IF m \in Obsolete THEN [is |-> "gone"] ELSE menu[m]]
    /\ roleMenu' = Clean(roleMenu, Obsolete) /\ menuPerm' = Clean(menuPerm, Obsolete)
    /\ rounds' = IF rounds < 2 THEN rounds + 1 ELSE 2
    /\ UNCHANGED <<admin, role, perm, adminRole, edits, named, shape>>

-----------------------------------------------------------------------------
(* The process and the operators.                                          *)

Stop ==
    /\ ~Ended /\ Goto("down")
    /\ UNCHANGED <<tables, shape, rounds>>

Restart == Ended /\ Goto("role") /\ UNCHANGED <<tables, shape, rounds>>

\* AUTO_INCREMENT: a new row has a higher number than every other.
InOrder(row) == \A x, y \in DOMAIN row : row[y].is # "free" /\ x[2] < y[2] => row[x].is # "free"

\* UpdateMenu: a request changes the fields it has, as they come in its JSON; here
\* the code (which may be null), the parent (any menu, the menu itself included;
\* a null is read as 0) or both.
UpdateMenu(m, c, p) ==
    /\ Counted
    /\ menu[m].is = "live"
    /\ code' = [code EXCEPT ![m] = c] /\ parent' = [parent EXCEPT ![m] = p]
    /\ shape' # shape
    /\ UNCHANGED <<rows, bindings, named>>

EditMenuShape ==
    \E m \in Menus, c \in Codes \cup {OwnCode, Null}, p \in Seen(menu) \cup {Root} :
        \/ /\ c # Null /\ CreateMenu(m)
           /\ code' = [code EXCEPT ![m] = c] /\ parent' = [parent EXCEPT ![m] = p]
        \/ UpdateMenu(m, c, p)

EditMenuBindings ==
    /\ \E m \in Seen(menu) : DeleteMenu(m) \/ \E P \in SUBSET Seen(perm) : AssignMenuPerms(m, P)
    /\ UNCHANGED shape

Serve ==
    /\ At("up") /\ rounds' = 0 /\ UNCHANGED at
    /\ \/ (EditAdmin \/ EditRole \/ EditPerm) /\ UNCHANGED shape
       \/ EditMenuShape
       \/ EditMenuBindings
    /\ InOrder(role)' /\ InOrder(menu)' /\ InOrder(perm)'

-----------------------------------------------------------------------------
Seed == SeedRole \/ SeedAdmin \/ SeedBinding \/ SeedMenu \/ SeedPerm \/ SeedAttach \/ SeedClean

Next == Seed \/ Stop \/ Restart \/ Serve

\* A start goes on, and whoever runs the service starts it again.
Fairness == WF_vars(Seed) /\ WF_vars(Restart)

Spec == Init /\ [][Next]_vars /\ Fairness

-----------------------------------------------------------------------------
Places == {Step(do) : do \in {"role", "admin", "bind", "clean", "up", "down", "failed"}}
          \cup {[do |-> "menu", n |-> n, k |-> 0] : n \in DOMAIN Tree}
          \cup UNION {[do : {"perm", "attach"}, n : {n}, k : DOMAIN Tree[n].perms] :
                      n \in DOMAIN Tree}

\* Types; and a start only names rows that it has found or made.
TypeOK ==
    /\ TablesOK
    /\ code \in [Menus -> Codes \cup {OwnCode, Null}] /\ parent \in [Menus -> Menus \cup {Root}]
    /\ at \in Places /\ rounds \in 0 .. 2
    /\ At("bind") => SuperRoles # {}
    /\ At("attach") => MenusOf(Node.code) # {} /\ PermsFor(Perm.rt) # {}

\* However the tables have been edited and wherever earlier starts have ended,
\* one start that goes through leaves the built-in account bound to a super
\* role and the built-in tree complete: each menu under its parent, each
\* permission under its menu, and no other live menu that has a code
\* (bootstrap.go:28-103, seed_rbac.go:206-227).  One whose code an operator has
\* set to NULL (rbac_handler.go:218, rbac_service.go:338-350) stays beside the
\* tree through every start (seed_rbac.go:214-216).
StartRepairs ==
    At("up") /\ rounds > 0 =>
        /\ admin[Builtin] \in {"on", "off"}
        /\ \E r \in SuperRoles : <<Builtin, r>> \in adminRole
        /\ {m \in Live(menu) : code[m] # Null} = UNION {MenusOf(c) : c \in Codes}
        /\ \A n \in DOMAIN Tree :
            /\ MenusOf(Tree[n].code) # {}
            /\ parent[RowOf(n)] = RowOf(Tree[n].under)
            /\ \A k \in DOMAIN Tree[n].perms :
                 \E p \in PermsFor(Tree[n].perms[k].rt) :
                     <<RowOf(n), p>> \in menuPerm

\* What a role's menus give it.
Reach(r) == Seconds({b \in menuPerm : <<r, b[1]>> \in roleMenu})

\* A start takes no permission from a role, though it deletes menus; and what it
\* gives one is a permission of the tree, through a menu that the role has
\* (seed_rbac.go:213-219, 313-327).
StartKeepsGrants ==
    [][Starting => \A r \in Roles :
        /\ Reach(r) \subseteq Reach(r)'
        /\ \A p \in Reach(r)' \ Reach(r) :
             \E n \in DOMAIN Tree : \E k \in DOMAIN Tree[n].perms :
                /\ perm[p].covers = {Tree[n].perms[k].rt}
                /\ <<r, RowOf(n)>> \in roleMenu]_vars

\* A start says it is idempotent (bootstrap.go:29, seed_rbac.go:204): once one
\* has gone through, the next changes nothing.
StartIsIdempotent == [][Starting /\ rounds > 0 => UNCHANGED <<tables, shape>>]_vars

\* From the third on that is so, wherever one ended between them.
StartSettles == [][Starting /\ rounds > 1 => UNCHANGED <<tables, shape>>]_vars

\* If the process stops ending from outside, it serves again and again: no edit
\* by operators leaves tables that no start gets past (bootstrap.go:57-79).
ComesUp == <>[][~Stop]_vars => []<>At("up")

=============================================================================
