--------------------------- MODULE BootstrapProofs ---------------------------
(***************************************************************************)
(* Theorems about Bootstrap for a tree and tables of any size: a start     *)
(* that goes through has repaired the tables, it takes nothing from a      *)
(* role, from the third start on it changes nothing, and none fails while  *)
(* the built-in account is protected.                                      *)
(***************************************************************************)
EXTENDS Bootstrap, RbacTablesProofs, FiniteSetTheorems

-----------------------------------------------------------------------------
(* The invariant.                                                          *)

InTree   == at.do \in {"menu", "perm", "attach"}
HasRole  == SuperRoles # {}
HasAdmin == admin[Builtin] \in {"on", "off"}
IsBound  == <<Builtin, Lowest(SuperRoles)>> \in adminRole

ShapeOK ==
    /\ code \in [Menus -> Codes \cup {OwnCode, Null}] /\ parent \in [Menus -> Menus \cup {Root}]
    /\ at \in Places /\ rounds \in 0 .. 2

\* What the start is to do for a node of the tree and for its permissions.
There(n)       == n # 0 => MenusOf(Tree[n].code) # {}
Placed(n)      == There(n) /\ There(Tree[n].under) /\ parent[RowOf(n)] = RowOf(Tree[n].under)
PermAt(n, k)   == Tree[n].perms[k]
RowFor(n, k)   == Lowest(PermsFor(PermAt(n, k).rt))
Attached(n, k) == PermsFor(PermAt(n, k).rt) # {} /\ <<RowOf(n), RowFor(n, k)>> \in menuPerm
Right(n, k)    == perm[RowFor(n, k)].intercept = PermAt(n, k).intercept
Whole(n)       == Placed(n) /\ \A k \in DOMAIN Tree[n].perms : Attached(n, k)
AllWhole       == \A n \in DOMAIN Tree : Whole(n)
AllRight       == \A n \in DOMAIN Tree : \A k \in DOMAIN Tree[n].perms : Right(n, k)

\* How far it has come with the account and with the tree, by its statement.
AccountSeeded ==
    /\ At("admin") \/ At("bind") \/ InTree \/ At("clean") => HasRole
    /\ At("bind") \/ InTree \/ At("clean") => HasAdmin
    /\ InTree \/ At("clean") => IsBound
TreeSeeded ==
    /\ InTree => \A i \in 1 .. (at.n - 1) : Whole(i)
    /\ At("perm") \/ At("attach") =>
         Placed(at.n) /\ \A j \in 1 .. (at.k - 1) : Attached(at.n, j)
    /\ At("attach") => PermsFor(Perm.rt) # {}
    /\ At("clean") => AllWhole
\* A start that makes no row writes every is_intercept.
InterceptsSeeded ==
    /\ InTree => \A i \in 1 .. (at.n - 1) : \A k \in DOMAIN Tree[i].perms : Right(i, k)
    /\ At("perm") \/ At("attach") => \A j \in 1 .. (at.k - 1) : Right(at.n, j)
    /\ At("attach") => Right(at.n, at.k)
    /\ At("clean") => AllRight

\* What holds after a start went through, while operators change nothing, and
\* however many starts are made and stopped after it.
Complete == HasRole /\ HasAdmin /\ IsBound /\ Obsolete = {} /\ AllWhole

Seeding ==
    /\ TablesOK /\ ShapeOK
    /\ AccountSeeded /\ TreeSeeded
    /\ rounds > 0 => Complete /\ InterceptsSeeded
    /\ rounds > 1 => AllRight

\* Between two changes by operators rows and bindings only come: the row that
\* First() finds stays the one it finds.
Grows ==
    /\ HasRole => SuperRoles' = SuperRoles
    /\ HasAdmin => HasAdmin'
    /\ \A n \in DOMAIN Tree : There(n) =>
         MenusOf(Tree[n].code)' = MenusOf(Tree[n].code)
    /\ \A rt \in Routes : PermsFor(rt) # {} => PermsFor(rt)' = PermsFor(rt)
    /\ \A n \in DOMAIN Tree : Placed(n) => parent'[RowOf(n)] = parent[RowOf(n)]
    /\ Obsolete' \subseteq Obsolete
    /\ adminRole \subseteq adminRole' /\ menuPerm \subseteq menuPerm'

-----------------------------------------------------------------------------
(* The row with the lowest number.                                         *)

LEMMA LeastExists ==
    ASSUME NEW S, S \subseteq Nat, S # {}
    PROVE  \E i \in S : \A j \in S : i <= j
<1> DEFINE R == StrictSubsetOrdering(Nat)
           T == {0 .. i : i \in S}
<1>1. IsWellFoundedOn(R, FiniteSubsetsOf(Nat))
  BY FS_StrictSubsetOrderingWellFounded
<1>2. T \subseteq FiniteSubsetsOf(Nat) /\ T # {}
  <2>1. ASSUME NEW i \in S PROVE 0 .. i \in FiniteSubsetsOf(Nat)
    <3>1. i \in Int /\ 0 .. i \subseteq Nat
      OBVIOUS
    <3> QED  BY <3>1, FS_Interval DEF FiniteSubsetsOf
  <2> QED  BY <2>1
<1>3. \E x \in T : \A y \in T : <<y, x>> \notin R
  <2> HIDE DEF R, T
  <2> QED  BY <1>1, <1>2, WFMin
<1>4. PICK i \in S : \A j \in S : <<0 .. j, 0 .. i>> \notin R
  BY <1>3
<1>5. ASSUME NEW j \in S, ~ (i <= j) PROVE FALSE
  <2>1. i \in Nat /\ j \in Nat
    OBVIOUS
  <2>2. i \in 0 .. i /\ i \notin 0 .. j /\ 0 .. j \subseteq 0 .. i
    BY <1>5, <2>1, SMT
  <2> DEFINE A == 0 .. i  B == 0 .. j
  <2>3. A \in SUBSET Nat /\ B \in SUBSET Nat /\ A # B
    BY <2>1, <2>2
  <2>4. <<B, A>> \in R
    <3> HIDE DEF A, B
    <3>1. B \subseteq A
      BY <2>2 DEF A, B
    <3> QED  BY <2>3, <3>1 DEF StrictSubsetOrdering
  <2> QED  BY <1>4, <2>4
<1> QED  BY <1>5

LEMMA LowestIn ==
    ASSUME NEW S, S # {}, S \subseteq Admins \cup Roles \cup Menus \cup Perms
    PROVE  Lowest(S) \in S
<1> DEFINE N == {x[2] : x \in S}
<1>1. N \subseteq Nat /\ N # {}
  BY NumbersAssumption
<1>2. PICK i \in N : \A j \in N : i <= j
  <2> HIDE DEF N
  <2> QED  BY <1>1, LeastExists
<1>3. PICK x \in S : i = x[2]
  BY <1>2
<1>4. \A y \in S : x[2] <= y[2]
  BY <1>2, <1>3
<1> QED  BY <1>4 DEF Lowest

LEMMA NextIdFree ==
    ASSUME NEW row, Room(row), DOMAIN row \subseteq Admins \cup Roles \cup Menus \cup Perms
    PROVE  NextId(row) \in DOMAIN row /\ row[NextId(row)].is = "free"
BY LowestIn DEF Room, NextId, Free

-----------------------------------------------------------------------------
(* The rows of the tree.                                                   *)

LEMMA TreeTyped ==
    ASSUME NEW n \in DOMAIN Tree
    PROVE  /\ n \in 1 .. Len(Tree) /\ n \in Nat /\ n # 0
           /\ Tree[n].code \in Codes
           /\ Tree[n].under = 0 \/ Tree[n].under \in DOMAIN Tree
           /\ Tree[n].under < n /\ Tree[n].under \in Nat
           /\ Len(Tree[n].perms) \in Nat
           /\ DOMAIN Tree[n].perms = 1 .. Len(Tree[n].perms)
           /\ \A k \in DOMAIN Tree[n].perms :
                PermAt(n, k) \in [rt : Routes, intercept : BOOLEAN]
<1>1. n \in 1 .. Len(Tree) /\ Len(Tree) \in Nat
  BY TreeAssumption
<1>2. Tree[n].under \in 0 .. (n - 1) /\ Tree[n].perms \in Seq([rt : Routes, intercept : BOOLEAN])
  BY TreeAssumption
<1>3. Tree[n].under = 0 \/ Tree[n].under \in DOMAIN Tree
  BY <1>1, <1>2, TreeAssumption
<1> DEFINE s == Tree[n].perms
<1>4. /\ Len(s) \in Nat /\ DOMAIN s = 1 .. Len(s)
      /\ \A k \in DOMAIN s : s[k] \in [rt : Routes, intercept : BOOLEAN]
  <2> HIDE DEF s
  <2> DEFINE T == [rt : Routes, intercept : BOOLEAN]
  <2>1. s \in Seq(T)
    BY <1>2 DEF s
  <2>2. ASSUME NEW U, s \in Seq(U)
        PROVE  Len(s) \in Nat /\ DOMAIN s = 1 .. Len(s) /\ \A k \in DOMAIN s : s[k] \in U
    BY <2>2
  <2> QED
    <3> HIDE DEF T
    <3>1. Len(s) \in Nat /\ DOMAIN s = 1 .. Len(s) /\ \A k \in DOMAIN s : s[k] \in T
      BY <2>1, <2>2
    <3> QED  BY <3>1 DEF T
<1>5. n \in Nat /\ n # 0 /\ Tree[n].code \in Codes /\ Tree[n].under < n /\ Tree[n].under \in Nat
  BY <1>1, <1>2 DEF Codes
<1> QED  BY <1>1, <1>3, <1>4, <1>5 DEF PermAt

LEMMA CodesDiffer ==
    ASSUME NEW m \in DOMAIN Tree, NEW n \in DOMAIN Tree, Tree[m].code = Tree[n].code
    PROVE  m = n
<1>1. m \in Nat /\ n \in Nat /\ m \in 1 .. Len(Tree) /\ n \in 1 .. Len(Tree)
  BY TreeTyped
<1>2. CASE m < n
  BY <1>1, <1>2, m \in 1 .. (n - 1), TreeAssumption
<1>3. CASE n < m
  BY <1>1, <1>3, n \in 1 .. (m - 1), TreeAssumption
<1> QED  BY <1>1, <1>2, <1>3

LEMMA RowThere ==
    ASSUME TablesOK, NEW n \in DOMAIN Tree, There(n)
    PROVE  RowOf(n) \in MenusOf(Tree[n].code) /\ RowOf(n) \in Menus
<1>1. MenusOf(Tree[n].code) # {} /\ RowOf(n) = Lowest(MenusOf(Tree[n].code))
  BY TreeTyped DEF There, RowOf
<1>2. MenusOf(Tree[n].code) \subseteq Menus
  BY DEF TablesOK, MenusOf, Live
<1> QED  BY <1>1, <1>2, LowestIn

LEMMA RowOfUnder ==
    ASSUME TablesOK, NEW n \in DOMAIN Tree, There(Tree[n].under)
    PROVE  RowOf(Tree[n].under) \in Menus \cup {Root}
BY TreeTyped, RowThere DEF RowOf

LEMMA RowForIn ==
    ASSUME TablesOK, NEW rt, PermsFor(rt) # {}
    PROVE  Lowest(PermsFor(rt)) \in PermsFor(rt) /\ Lowest(PermsFor(rt)) \in Perms
<1>1. PermsFor(rt) \subseteq Perms
  BY DEF TablesOK, PermsFor, Live
<1> QED  BY <1>1, LowestIn

LEMMA RoleIn ==
    ASSUME TablesOK, HasRole
    PROVE  Lowest(SuperRoles) \in SuperRoles /\ Lowest(SuperRoles) \in Roles
<1>1. SuperRoles \subseteq Roles
  BY DEF TablesOK, SuperRoles, Live
<1> QED  BY <1>1, LowestIn DEF HasRole

-----------------------------------------------------------------------------
(* What is done stays done.                                                *)

LEMMA LowestKept == ASSUME NEW S, NEW T, S = T PROVE Lowest(S) = Lowest(T)
OBVIOUS

LEMMA RowKept ==
    ASSUME Grows, NEW n, n = 0 \/ n \in DOMAIN Tree, There(n)
    PROVE  There(n)' /\ RowOf(n)' = RowOf(n)
<1>1. CASE n = 0
  BY <1>1 DEF There, RowOf
<1>2. CASE n \in DOMAIN Tree
  <2>1. n # 0 /\ MenusOf(Tree[n].code) # {}
    BY <1>2, TreeTyped DEF There
  <2>2. MenusOf(Tree[n].code)' = MenusOf(Tree[n].code)
    BY <1>2 DEF Grows
  <2>3. Lowest(MenusOf(Tree[n].code)') = Lowest(MenusOf(Tree[n].code))
    BY <2>2
  <2> QED  BY <2>1, <2>2, <2>3 DEF There, RowOf
<1> QED  BY <1>1, <1>2

LEMMA PlacedKept ==
    ASSUME Grows, NEW n \in DOMAIN Tree, Placed(n)
    PROVE  Placed(n)'
<1>1. There(n)' /\ RowOf(n)' = RowOf(n)
  BY RowKept DEF Placed
<1>2. There(Tree[n].under)' /\ RowOf(Tree[n].under)' = RowOf(Tree[n].under)
  BY RowKept, TreeTyped DEF Placed
<1>3. parent'[RowOf(n)] = parent[RowOf(n)]
  BY DEF Grows
<1> QED  BY <1>1, <1>2, <1>3 DEF Placed

LEMMA RowForKept ==
    ASSUME Grows, NEW n \in DOMAIN Tree, NEW k \in DOMAIN Tree[n].perms,
           PermsFor(PermAt(n, k).rt) # {}
    PROVE  PermsFor(PermAt(n, k).rt)' # {} /\ RowFor(n, k)' = RowFor(n, k)
<1>1. PermsFor(PermAt(n, k).rt)' = PermsFor(PermAt(n, k).rt)
  BY TreeTyped DEF Grows
<1>2. Lowest(PermsFor(PermAt(n, k).rt)') = Lowest(PermsFor(PermAt(n, k).rt))
  BY <1>1
<1> QED  BY <1>1, <1>2 DEF RowFor

LEMMA AttachedKept ==
    ASSUME Grows, NEW n \in DOMAIN Tree, NEW k \in DOMAIN Tree[n].perms, There(n), Attached(n, k)
    PROVE  Attached(n, k)'
<1>1. RowOf(n)' = RowOf(n)
  BY RowKept
<1>2. PermsFor(PermAt(n, k).rt)' # {} /\ RowFor(n, k)' = RowFor(n, k)
  BY RowForKept DEF Attached
<1>3. <<RowOf(n), RowFor(n, k)>> \in menuPerm'
  BY DEF Grows, Attached
<1> QED  BY <1>1, <1>2, <1>3 DEF Attached

LEMMA WholeKept == ASSUME Grows, NEW n \in DOMAIN Tree, Whole(n) PROVE Whole(n)'
<1>1. Placed(n)'
  BY PlacedKept DEF Whole
<1>2. ASSUME NEW k \in DOMAIN Tree[n].perms PROVE Attached(n, k)'
  BY AttachedKept DEF Whole, Placed
<1> QED  BY <1>1, <1>2 DEF Whole

LEMMA RoleKept == ASSUME Grows, HasRole PROVE HasRole' /\ (IsBound => IsBound')
<1>1. SuperRoles' = SuperRoles
  BY DEF Grows
<1>2. Lowest(SuperRoles') = Lowest(SuperRoles)
  BY <1>1
<1> QED  BY <1>1, <1>2 DEF HasRole, IsBound, Grows

LEMMA CompleteKept == ASSUME Grows, Complete PROVE Complete'
<1>1. HasRole' /\ IsBound'
  BY RoleKept DEF Complete
<1>2. HasAdmin' /\ Obsolete' = {}
  BY DEF Complete, Grows
<1>3. ASSUME NEW n \in DOMAIN Tree PROVE Whole(n)'
  BY WholeKept DEF Complete, AllWhole
<1> QED  BY <1>1, <1>2, <1>3 DEF Complete, AllWhole

LEMMA RightKept ==
    ASSUME Grows, UNCHANGED perm, NEW n \in DOMAIN Tree, NEW k \in DOMAIN Tree[n].perms,
           PermsFor(PermAt(n, k).rt) # {}, Right(n, k)
    PROVE  Right(n, k)'
BY RowForKept DEF Right

LEMMA AllRightKept ==
    ASSUME Grows, UNCHANGED perm, AllWhole, AllRight PROVE AllRight'
BY RightKept DEF AllRight, AllWhole, Whole, Attached

-----------------------------------------------------------------------------
(* The statements, one after the other: types, and that they only add.     *)

LEMMA PlacesNamed ==
    /\ \A do \in {"role", "admin", "bind", "clean", "up", "down", "failed"} : Step(do) \in Places
    /\ \A n \in DOMAIN Tree : [do |-> "menu", n |-> n, k |-> 0] \in Places
    /\ \A n \in DOMAIN Tree : \A k \in DOMAIN Tree[n].perms, do \in {"perm", "attach"} :
         [do |-> do, n |-> n, k |-> k] \in Places
BY DEF Places

LEMMA PlaceInTree ==
    ASSUME at \in Places, InTree
    PROVE  /\ at.n \in DOMAIN Tree /\ at.n \in 1 .. Len(Tree) /\ Len(Tree) \in Nat
           /\ At("menu") => at.k = 0
           /\ At("perm") \/ At("attach") => at.k \in DOMAIN Tree[at.n].perms
           /\ at = [do |-> at.do, n |-> at.n, k |-> at.k]
<1>1. at.n \in DOMAIN Tree /\ (At("menu") => at.k = 0)
      /\ (At("perm") \/ At("attach") => at.k \in DOMAIN Tree[at.n].perms)
      /\ at = [do |-> at.do, n |-> at.n, k |-> at.k]
  BY DEF Places, InTree, Step, At
<1> QED  BY <1>1, TreeAssumption

\* Of the tables only named and edits are left as they are by every statement.
LEMMA RoleTyped == ASSUME TablesOK, SeedRole PROVE TablesOK' /\ Grows
<1>1. CASE SuperRoles # {}
  <2>1. UNCHANGED <<tables, shape>>
    BY <1>1 DEF SeedRole, tables, rows
  <2> QED  BY <2>1 DEF TablesOK, Deleted, Gone, Grows, tables, rows, bindings, shape,
             SuperRoles, Live, MenusOf, PermsFor, HasAdmin, Obsolete
<1>2. CASE SuperRoles = {}
  <2>1. PICK r \in Roles :
          /\ role[r].is = "free"
          /\ role' = [role EXCEPT ![r] = [is |-> "live", on |-> TRUE, super |-> TRUE]]
    <3>1. Room(role) /\ DOMAIN role = Roles
      BY <1>2 DEF SeedRole, TablesOK
    <3> QED  BY <1>2, <3>1, NextIdFree DEF SeedRole
  <2>2. role' \in [Roles -> RoleRow] /\ Gone(role)' = Gone(role)
    BY <2>1 DEF TablesOK, RoleRow, Life, Gone
  <2>3. UNCHANGED <<admin, menu, perm, bindings, edits, named, shape>>
    BY DEF SeedRole
  <2>4. TablesOK'
    BY <2>2, <2>3 DEF TablesOK, Deleted, Gone, bindings
  <2>5. Grows
    BY <1>2, <2>3 DEF Grows, HasRole, bindings, shape, Live, MenusOf, PermsFor, HasAdmin, Obsolete
  <2> QED  BY <2>4, <2>5
<1> QED  BY <1>1, <1>2

LEMMA AdminTyped == ASSUME TablesOK, SeedAdmin PROVE TablesOK' /\ Grows
<1>1. /\ admin' \in [Admins -> {"free", "on", "off", "gone"}]
      /\ {a \in Admins : admin'[a] = "gone"} = {a \in Admins : admin[a] = "gone"}
  BY IdsAssumption DEF SeedAdmin, TablesOK
<1>2. UNCHANGED <<role, menu, perm, bindings, edits, named, shape>>
  BY DEF SeedAdmin
<1>3. TablesOK'
  BY <1>1, <1>2 DEF TablesOK, Deleted, Gone, bindings
<1>4. HasAdmin => HasAdmin'
  BY IdsAssumption DEF HasAdmin, SeedAdmin
<1>5. Grows
  BY <1>2, <1>4 DEF Grows, HasRole, bindings, shape, SuperRoles, Live, MenusOf, PermsFor, Obsolete
<1> QED  BY <1>3, <1>5

LEMMA BindingTyped == ASSUME TablesOK, HasRole, SeedBinding PROVE TablesOK' /\ Grows
<1>1. Lowest(SuperRoles) \in Roles
  BY RoleIn
<1>2. UNCHANGED <<rows, roleMenu, menuPerm, edits, named, shape>>
  BY DEF SeedBinding
<1>3. adminRole' = adminRole \cup {<<Builtin, Lowest(SuperRoles)>>}
  BY DEF SeedBinding
<1>4. adminRole' \subseteq Admins \X Roles
  BY <1>1, <1>3, IdsAssumption DEF TablesOK
<1>5. TablesOK'
  BY <1>2, <1>4 DEF TablesOK, Deleted, Gone, rows
<1>6. Grows
  BY <1>2, <1>3 DEF Grows, HasAdmin, rows, shape, SuperRoles, Live, MenusOf, PermsFor, Obsolete
<1> QED  BY <1>5, <1>6

\* The row that upsertMenu finds or makes.
LEMMA MenuRowOf ==
    ASSUME TablesOK, ShapeOK, SeedMenu
    PROVE  \E m \in Menus :
             /\ m = IF Found # {} THEN Lowest(Found) ELSE NextId(menu)
             /\ Found # {} => m \in Found
             /\ Found = {} => menu[m].is = "free"
<1>1. CASE Found # {}
  <2>1. Found \subseteq Menus
    BY DEF TablesOK, Found, MenusOf, Live
  <2> QED  BY <1>1, <2>1, LowestIn
<1>2. CASE Found = {}
  <2>1. Room(menu) /\ DOMAIN menu = Menus
    BY <1>2 DEF SeedMenu, TablesOK
  <2> QED  BY <1>2, <2>1, NextIdFree
<1> QED  BY <1>1, <1>2

LEMMA MenuTyped ==
    ASSUME TablesOK, ShapeOK, SeedMenu, There(Node.under)
    PROVE  /\ TablesOK' /\ Grows /\ \A n \in DOMAIN Tree : n = at.n => Placed(n)'
           /\ code' \in [Menus -> Codes \cup {OwnCode, Null}] /\ parent' \in [Menus -> Menus \cup {Root}]
<1>1. PICK n \in DOMAIN Tree : n = at.n
  BY PlaceInTree DEF ShapeOK, SeedMenu, At, InTree
<1>2. Node = Tree[n] /\ Found = MenusOf(Tree[n].code) /\ There(Tree[n].under)
  BY <1>1 DEF Node, Found
<1>3. PICK m \in Menus :
        /\ m = IF Found # {} THEN Lowest(Found) ELSE NextId(menu)
        /\ Found # {} => m \in Found
        /\ Found = {} => menu[m].is = "free"
  BY MenuRowOf
<1>4. /\ menu' = [menu EXCEPT ![m].is = "live"]
      /\ code' = [code EXCEPT ![m] = Tree[n].code]
      /\ parent' = [parent EXCEPT ![m] = RowOf(Tree[n].under)]
      /\ UNCHANGED <<admin, role, perm, bindings, edits, named>>
  BY <1>2, <1>3 DEF SeedMenu, Upsert
<1>5. RowOf(Tree[n].under) \in Menus \cup {Root} /\ Tree[n].code \in Codes
  BY <1>2, RowOfUnder, TreeTyped
<1>6. /\ menu \in [Menus -> MenuRow] /\ code \in [Menus -> Codes \cup {OwnCode, Null}]
      /\ parent \in [Menus -> Menus \cup {Root}]
  BY DEF TablesOK, ShapeOK
<1>7. menu[m].is # "gone"
  BY <1>2, <1>3 DEF MenusOf, Live
<1>8. menu' \in [Menus -> MenuRow] /\ Gone(menu)' = Gone(menu)
  BY <1>4, <1>6, <1>7 DEF MenuRow, Life, Gone
<1>9. TablesOK'
  BY <1>4, <1>8 DEF TablesOK, Deleted, Gone, bindings
<1>10. code' \in [Menus -> Codes \cup {OwnCode, Null}] /\ parent' \in [Menus -> Menus \cup {Root}]
  BY <1>4, <1>5, <1>6
<1>11. Live(menu)' = Live(menu) \cup {m}
  BY <1>4, <1>6 DEF Live
\* The live rows of the other nodes are the ones there were.
<1>12. ASSUME NEW i \in DOMAIN Tree, i # n
       PROVE  MenusOf(Tree[i].code)' = MenusOf(Tree[i].code) /\ m \notin MenusOf(Tree[i].code)
  <2>1. Tree[i].code # Tree[n].code
    BY <1>12, CodesDiffer
  <2>2. m \notin MenusOf(Tree[i].code)
    BY <1>2, <1>3, <2>1 DEF MenusOf, Live
  <2>3. m \notin MenusOf(Tree[i].code)'
    BY <1>4, <1>6, <2>1 DEF MenusOf
  <2>4. ASSUME NEW x \in Menus, x # m
        PROVE  x \in MenusOf(Tree[i].code)' <=> x \in MenusOf(Tree[i].code)
    BY <1>4, <1>6, <1>11, <2>4 DEF MenusOf
  <2>5. MenusOf(Tree[i].code) \subseteq Menus /\ MenusOf(Tree[i].code)' \subseteq Menus
    BY <1>6, <1>8 DEF MenusOf, Live
  <2> QED  BY <2>2, <2>3, <2>4, <2>5
<1>13. /\ m \in MenusOf(Tree[n].code)'
       /\ MenusOf(Tree[n].code) # {} => MenusOf(Tree[n].code)' = MenusOf(Tree[n].code)
       /\ MenusOf(Tree[n].code) = {} => MenusOf(Tree[n].code)' = {m}
  <2>1. code'[m] = Tree[n].code /\ \A x \in Menus : x # m => code'[x] = code[x]
    BY <1>4, <1>6
  <2>2. MenusOf(Tree[n].code)' = MenusOf(Tree[n].code) \cup {m}
    <3>1. ASSUME NEW x
          PROVE  x \in MenusOf(Tree[n].code)' <=> x \in MenusOf(Tree[n].code) \cup {m}
      <4>1. Live(menu) \subseteq Menus
        BY <1>6 DEF Live
      <4> QED  BY <1>11, <2>1, <4>1 DEF MenusOf
    <3> QED  BY <3>1
  <2> QED  BY <1>2, <1>3, <2>2
<1>14. \A i \in DOMAIN Tree : There(i) => MenusOf(Tree[i].code)' = MenusOf(Tree[i].code)
  BY <1>12, <1>13, TreeTyped DEF There
<1>15. m = Lowest(MenusOf(Tree[n].code)')
  <2>1. CASE Found # {}
    BY <1>2, <1>3, <1>13, <2>1
  <2>2. CASE Found = {}
    BY <1>2, <1>13, <2>2, LowestIn
  <2> QED  BY <2>1, <2>2
<1>16. \A i \in DOMAIN Tree : Placed(i) => parent'[RowOf(i)] = parent[RowOf(i)]
  <2>1. ASSUME NEW i \in DOMAIN Tree, Placed(i) PROVE parent'[RowOf(i)] = parent[RowOf(i)]
    <3>1. RowOf(i) \in MenusOf(Tree[i].code) /\ RowOf(i) \in Menus
      BY <2>1, RowThere DEF Placed
    <3>2. CASE i = n
      <4>1. RowOf(i) = m
        BY <1>2, <1>3, <3>1, <3>2, TreeTyped DEF RowOf
      <4> QED  BY <1>4, <1>6, <2>1, <3>2, <4>1 DEF Placed
    <3>3. CASE i # n
      BY <1>4, <1>6, <1>12, <3>1, <3>3
    <3> QED  BY <3>2, <3>3
  <2> QED  BY <2>1
<1>17. Obsolete' \subseteq Obsolete
  BY <1>4, <1>5, <1>6, <1>11 DEF Obsolete, Live
<1>18. Grows
  BY <1>4, <1>14, <1>16, <1>17 DEF Grows, bindings, HasRole, HasAdmin, SuperRoles, PermsFor, Live
<1>19. Placed(n)'
  <2>1. There(n)' /\ RowOf(n)' = m
    BY <1>13, <1>15, TreeTyped DEF There, RowOf
  <2>2. There(Tree[n].under)' /\ RowOf(Tree[n].under)' = RowOf(Tree[n].under)
    BY <1>2, <1>18, RowKept, TreeTyped
  <2>3. parent'[m] = RowOf(Tree[n].under)
    BY <1>4, <1>6
  <2> QED  BY <2>1, <2>2, <2>3 DEF Placed
<1> QED  BY <1>1, <1>9, <1>10, <1>18, <1>19

\* The permission that upsertPermAndBind finds or makes.
LEMMA PermTyped ==
    ASSUME TablesOK, ShapeOK, SeedPerm
    PROVE  /\ TablesOK' /\ Grows
           /\ \A n \in DOMAIN Tree : \A k \in DOMAIN Tree[n].perms :
                n = at.n /\ k = at.k => PermsFor(PermAt(n, k).rt)' # {}
<1>1. PICK n \in DOMAIN Tree, k \in DOMAIN Tree[at.n].perms : n = at.n /\ k = at.k
  BY PlaceInTree DEF ShapeOK, SeedPerm, At, InTree
<1>2. PICK rt \in Routes, intercept \in BOOLEAN :
        Perm.rt = rt /\ Perm.intercept = intercept /\ PermAt(n, k).rt = rt
  BY <1>1, TreeTyped DEF Perm, Node, PermAt
<1>3. perm \in [Perms -> PermRow] /\ UNCHANGED <<admin, role, menu, bindings, edits, named, shape>>
  BY DEF TablesOK, SeedPerm
<1>4. PICK p \in Perms :
        \/ /\ PermsFor(rt) = {} /\ perm[p].is = "free"
           /\ perm' = [perm EXCEPT ![p] = [is |-> "live", on |-> TRUE, covers |-> {rt},
                                            intercept |-> TRUE]]
        \/ /\ p \in PermsFor(rt)
           /\ perm' = [perm EXCEPT ![p].intercept = intercept]
  <2>1. CASE PermsFor(rt) = {}
    <3>1. Room(perm) /\ DOMAIN perm = Perms
      BY <1>2, <1>3, <2>1 DEF SeedPerm
    <3>2. NextId(perm) \in Perms /\ perm[NextId(perm)].is = "free"
      BY <3>1, NextIdFree
    <3> QED  BY <1>2, <2>1, <3>2 DEF SeedPerm, InterceptAsCreated
  <2>2. CASE PermsFor(rt) # {}
    <3>1. Lowest(PermsFor(rt)) \in PermsFor(rt) /\ Lowest(PermsFor(rt)) \in Perms
      BY <2>2, RowForIn
    <3> QED  BY <1>2, <2>2, <3>1 DEF SeedPerm
  <2> QED  BY <2>1, <2>2
<1>5. perm' \in [Perms -> PermRow] /\ Gone(perm)' = Gone(perm)
  <2>1. perm[p].is # "gone" /\ p \in Perms
    BY <1>4 DEF PermsFor, Live
  <2>2. /\ perm' \in [Perms -> PermRow] /\ perm'[p].is # "gone"
        /\ \A x \in Perms : x # p => perm'[x] = perm[x]
    <3>1. CASE perm' = [perm EXCEPT ![p] = [is |-> "live", on |-> TRUE, covers |-> {rt},
                                             intercept |-> TRUE]]
      BY <1>3, <3>1 DEF PermRow, Life
    <3>2. CASE p \in PermsFor(rt) /\ perm' = [perm EXCEPT ![p].intercept = intercept]
      <4>1. \A x \in Perms : x # p => perm'[x] = perm[x]
        BY <1>3, <3>2
      <4>2. perm'[p] = [perm[p] EXCEPT !.intercept = intercept] /\ perm[p] \in PermRow
        BY <1>3, <3>2
      <4>3. perm'[p] \in PermRow /\ perm'[p].is = perm[p].is
        BY <4>2 DEF PermRow
      <4> QED  BY <1>3, <2>1, <3>2, <4>1, <4>3
    <3> QED  BY <1>4, <3>1, <3>2
  <2> QED  BY <1>3, <2>1, <2>2 DEF Gone
<1>6. TablesOK'
  BY <1>3, <1>5 DEF TablesOK, Deleted, Gone, bindings
<1>7. ASSUME NEW r \in Routes, PermsFor(r) # {} PROVE PermsFor(r)' = PermsFor(r)
  <2>1. PermsFor(r) \subseteq Perms /\ PermsFor(r)' \subseteq Perms
    BY <1>3, <1>5 DEF PermsFor, Live
  <2>2. ASSUME NEW x \in Perms PROVE x \in PermsFor(r)' <=> x \in PermsFor(r)
    <3>1. CASE PermsFor(rt) = {} /\ perm[p].is = "free"
               /\ perm' = [perm EXCEPT ![p] = [is |-> "live", on |-> TRUE, covers |-> {rt},
                                                intercept |-> TRUE]]
      <4>1. r # rt
        BY <1>7, <3>1
      <4>2. CASE x = p
        BY <1>3, <3>1, <4>1, <4>2 DEF PermsFor, Live
      <4>3. CASE x # p
        BY <1>3, <3>1, <4>3 DEF PermsFor, Live
      <4> QED  BY <4>2, <4>3
    <3>2. CASE p \in PermsFor(rt) /\ perm' = [perm EXCEPT ![p].intercept = intercept]
      BY <1>3, <3>2 DEF PermsFor, Live, PermRow
    <3> QED  BY <1>4, <3>1, <3>2
  <2> QED  BY <2>1, <2>2
<1>8. PermsFor(rt)' # {}
  <2>1. CASE PermsFor(rt) # {}
    BY <1>7, <2>1
  <2>2. CASE PermsFor(rt) = {}
    BY <1>3, <1>4, <2>2 DEF PermsFor, Live
  <2> QED  BY <2>1, <2>2
<1>9. Grows
  BY <1>3, <1>7 DEF Grows, bindings, shape, HasRole, HasAdmin, SuperRoles, MenusOf, Live, Obsolete
<1> QED  BY <1>1, <1>2, <1>6, <1>8, <1>9

LEMMA AttachTyped ==
    ASSUME TablesOK, ShapeOK, SeedAttach, There(at.n), PermsFor(Perm.rt) # {}
    PROVE  /\ TablesOK' /\ Grows
           /\ \A n \in DOMAIN Tree : \A k \in DOMAIN Tree[n].perms :
                n = at.n /\ k = at.k => Attached(n, k)'
<1>1. PICK n \in DOMAIN Tree, k \in DOMAIN Tree[at.n].perms : n = at.n /\ k = at.k
  BY PlaceInTree DEF ShapeOK, SeedAttach, At, InTree
<1>2. Perm = PermAt(n, k) /\ PermsFor(PermAt(n, k).rt) # {} /\ There(n)
  BY <1>1 DEF Perm, Node, PermAt
<1>3. RowOf(n) \in Menus /\ RowFor(n, k) \in Perms
  BY <1>2, RowThere, RowForIn DEF RowFor
<1>4. /\ menuPerm' = menuPerm \cup {<<RowOf(n), RowFor(n, k)>>}
      /\ UNCHANGED <<rows, adminRole, roleMenu, edits, named, shape>>
  BY <1>1, <1>2 DEF SeedAttach, RowFor
<1>5. menuPerm' \subseteq Menus \X Perms
  BY <1>3, <1>4 DEF TablesOK
<1>6. TablesOK'
  BY <1>4, <1>5 DEF TablesOK, Deleted, Gone, rows
<1>7. Grows
  BY <1>4 DEF Grows, rows, shape, HasRole, HasAdmin, SuperRoles, MenusOf, PermsFor, Live, Obsolete
<1>8. Attached(n, k)'
  <2>1. RowOf(n)' = RowOf(n)
    BY <1>2, <1>7, RowKept
  <2>2. PermsFor(PermAt(n, k).rt)' # {} /\ RowFor(n, k)' = RowFor(n, k)
    BY <1>1, <1>2, <1>7, RowForKept
  <2> QED  BY <1>4, <2>1, <2>2 DEF Attached
<1> QED  BY <1>1, <1>6, <1>7, <1>8

LEMMA CleanTyped ==
    ASSUME TablesOK, ShapeOK, SeedClean
    PROVE  TablesOK' /\ Grows /\ (Obsolete = {} => menu' = menu) /\ Obsolete' = {}
<1>1. menu \in [Menus -> MenuRow] /\ Live(menu) \subseteq Menus
  BY DEF TablesOK, Live
<1>2. /\ menu' = [m \in Menus |-> IF m \in Obsolete THEN [is |-> "gone"] ELSE menu[m]]
      /\ UNCHANGED <<admin, role, perm, adminRole, roleMenu, menuPerm, edits, named, shape>>
  BY DEF SeedClean, Clean
<1>3. menu' \in [Menus -> MenuRow] /\ Gone(menu) \subseteq Gone(menu)'
  BY <1>1, <1>2 DEF MenuRow, Life, Gone, Obsolete, Live
<1>4. TablesOK'
  BY <1>2, <1>3 DEF TablesOK, Deleted, Gone
<1>5. Live(menu)' = Live(menu) \ Obsolete
  BY <1>1, <1>2 DEF Live, Obsolete
<1>6. Obsolete' = {}
  BY <1>2, <1>5 DEF Obsolete, shape
<1>7. ASSUME NEW n \in DOMAIN Tree PROVE MenusOf(Tree[n].code)' = MenusOf(Tree[n].code)
  BY <1>2, <1>5, TreeTyped DEF MenusOf, Obsolete, shape
<1>8. Grows
  BY <1>2, <1>6, <1>7 DEF Grows, shape, HasRole, HasAdmin, SuperRoles, PermsFor, Live
<1>9. Obsolete = {} => menu' = menu
  BY <1>1, <1>2
<1> QED  BY <1>4, <1>6, <1>8, <1>9

-----------------------------------------------------------------------------
(* The way through the tree.                                               *)

\* The statement after the k-th permission of node n, or after its menu (k = 0).
After(n, k) ==
    IF k < Len(Tree[n].perms) THEN [do |-> "perm", n |-> n, k |-> k + 1]
    ELSE IF n < Len(Tree) THEN [do |-> "menu", n |-> n + 1, k |-> 0]
    ELSE Step("clean")

LEMMA NextPermIs == ASSUME NEW n, n = at.n, NEW k, k = at.k PROVE NextPerm = After(n, k)
BY DEF NextPerm, NextNode, Node, After

LEMMA AfterPlaced ==
    ASSUME NEW n \in DOMAIN Tree, NEW k \in 0 .. Len(Tree[n].perms)
    PROVE  After(n, k) \in Places /\ After(n, k).do \in {"menu", "perm", "clean"}
<1>1. Len(Tree) \in Nat /\ DOMAIN Tree = 1 .. Len(Tree) /\ n \in 1 .. Len(Tree)
  BY TreeAssumption
<1>2. Len(Tree[n].perms) \in Nat /\ DOMAIN Tree[n].perms = 1 .. Len(Tree[n].perms)
  BY TreeTyped
<1>3. CASE k < Len(Tree[n].perms)
  <2>1. k + 1 \in DOMAIN Tree[n].perms
    BY <1>2, <1>3
  <2> QED  BY <1>3, <2>1, PlacesNamed DEF After
<1>4. CASE ~ (k < Len(Tree[n].perms)) /\ n < Len(Tree)
  <2>1. n + 1 \in DOMAIN Tree
    BY <1>1, <1>4
  <2> QED  BY <1>4, <2>1, PlacesNamed DEF After
<1>5. CASE ~ (k < Len(Tree[n].perms)) /\ ~ (n < Len(Tree))
  BY <1>5, PlacesNamed DEF After, Step
<1> QED  BY <1>3, <1>4, <1>5

LEMMA Onward ==
    ASSUME NEW n \in DOMAIN Tree, NEW k \in 0 .. Len(Tree[n].perms), at' = After(n, k),
           \A i \in 1 .. (n - 1) : Whole(i)', Placed(n)', \A j \in 1 .. k : Attached(n, j)'
    PROVE  TreeSeeded'
<1>1. n \in Nat /\ n \in 1 .. Len(Tree) /\ DOMAIN Tree = 1 .. Len(Tree) /\ Len(Tree) \in Nat
  BY TreeAssumption
<1>2. k \in Nat /\ Len(Tree[n].perms) \in Nat /\ DOMAIN Tree[n].perms = 1 .. Len(Tree[n].perms)
  BY TreeTyped
<1>3. CASE k < Len(Tree[n].perms)
  <2>1. at' = [do |-> "perm", n |-> n, k |-> k + 1] /\ (k + 1) - 1 = k
    BY <1>2, <1>3 DEF After
  <2> QED  BY <2>1 DEF TreeSeeded, InTree, At
<1>4. CASE ~ (k < Len(Tree[n].perms))
  <2>1. k = Len(Tree[n].perms)
    BY <1>2, <1>4
  <2>2. Whole(n)'
    BY <1>2, <2>1 DEF Whole
  <2>3. CASE n < Len(Tree)
    <3>1. at' = [do |-> "menu", n |-> n + 1, k |-> 0]
      BY <1>4, <2>3 DEF After
    <3>2. ASSUME NEW i \in 1 .. ((n + 1) - 1) PROVE Whole(i)'
      <4>1. i \in 1 .. (n - 1) \/ i = n
        BY <1>1
      <4> QED  BY <2>2, <4>1
    <3> QED  BY <3>1, <3>2 DEF TreeSeeded, InTree, At
  <2>4. CASE ~ (n < Len(Tree))
    <3>1. at' = Step("clean")
      BY <1>4, <2>4 DEF After
    <3>2. ASSUME NEW i \in DOMAIN Tree PROVE Whole(i)'
      <4>1. i \in 1 .. (n - 1) \/ i = n
        BY <1>1, <2>4
      <4> QED  BY <2>2, <4>1
    <3> QED  BY <3>1, <3>2 DEF TreeSeeded, InTree, At, Step, AllWhole
  <2> QED  BY <2>3, <2>4
<1> QED  BY <1>3, <1>4

LEMMA OnwardRight ==
    ASSUME NEW n \in DOMAIN Tree, NEW k \in 0 .. Len(Tree[n].perms), at' = After(n, k),
           \A i \in 1 .. (n - 1) : \A j \in DOMAIN Tree[i].perms : Right(i, j)',
           \A j \in 1 .. k : Right(n, j)'
    PROVE  InterceptsSeeded'
<1>1. n \in Nat /\ n \in 1 .. Len(Tree) /\ DOMAIN Tree = 1 .. Len(Tree) /\ Len(Tree) \in Nat
  BY TreeAssumption
<1>2. k \in Nat /\ Len(Tree[n].perms) \in Nat /\ DOMAIN Tree[n].perms = 1 .. Len(Tree[n].perms)
  BY TreeTyped
<1>3. CASE k < Len(Tree[n].perms)
  <2>1. at' = [do |-> "perm", n |-> n, k |-> k + 1] /\ (k + 1) - 1 = k
    BY <1>2, <1>3 DEF After
  <2> QED  BY <2>1 DEF InterceptsSeeded, InTree, At
<1>4. CASE ~ (k < Len(Tree[n].perms))
  <2>1. k = Len(Tree[n].perms)
    BY <1>2, <1>4
  <2>2. \A j \in DOMAIN Tree[n].perms : Right(n, j)'
    BY <1>2, <2>1
  <2>3. CASE n < Len(Tree)
    <3>1. at' = [do |-> "menu", n |-> n + 1, k |-> 0]
      BY <1>4, <2>3 DEF After
    <3>2. ASSUME NEW i \in 1 .. ((n + 1) - 1), NEW j \in DOMAIN Tree[i].perms PROVE Right(i, j)'
      <4>1. i \in 1 .. (n - 1) \/ i = n
        BY <1>1
      <4> QED  BY <2>2, <4>1
    <3> QED  BY <3>1, <3>2 DEF InterceptsSeeded, InTree, At
  <2>4. CASE ~ (n < Len(Tree))
    <3>1. at' = Step("clean")
      BY <1>4, <2>4 DEF After
    <3>2. ASSUME NEW i \in DOMAIN Tree, NEW j \in DOMAIN Tree[i].perms PROVE Right(i, j)'
      <4>1. i \in 1 .. (n - 1) \/ i = n
        BY <1>1, <2>4
      <4> QED  BY <2>2, <4>1
    <3> QED  BY <3>1, <3>2 DEF InterceptsSeeded, InTree, At, Step, AllRight
  <2> QED  BY <2>3, <2>4
<1> QED  BY <1>3, <1>4

-----------------------------------------------------------------------------
(* Every step keeps the invariant.                                         *)

LEMMA Passed ==
    ASSUME Seeding, TablesOK', ShapeOK', Grows, rounds' = rounds,
           AccountSeeded', TreeSeeded', rounds > 0 => InterceptsSeeded', rounds > 1 => AllRight'
    PROVE  Seeding'
<1>1. rounds > 0 => Complete'
  BY CompleteKept DEF Seeding
<1> QED  BY <1>1 DEF Seeding

\* Where nothing of the tree has been seeded yet.
LEMMA BeforeTree ==
    ASSUME at' \in {Step(do) : do \in {"role", "admin", "bind", "up", "down", "failed"}}
    PROVE  TreeSeeded' /\ InterceptsSeeded'
BY DEF TreeSeeded, InterceptsSeeded, InTree, At, Step

LEMMA RightStays == ASSUME Seeding, Grows, UNCHANGED perm, rounds > 1 PROVE AllRight'
<1>1. rounds > 0 /\ AllRight
  BY DEF Seeding, ShapeOK
<1> QED  BY <1>1, AllRightKept DEF Seeding, Complete

LEMMA RolePassed == ASSUME Seeding, SeedRole PROVE Seeding'
<1>1. TablesOK' /\ Grows
  BY RoleTyped DEF Seeding
<1>2. at' = Step("admin") /\ UNCHANGED <<shape, rounds, perm>>
  BY DEF SeedRole, Goto
<1>3. ShapeOK'
  BY <1>2, PlacesNamed DEF Seeding, ShapeOK, shape
<1>4. HasRole'
  <2>1. CASE HasRole
    BY <1>1, <2>1, RoleKept
  <2>2. CASE ~ HasRole
    <3>1. Room(role) /\ DOMAIN role = Roles /\ role \in [Roles -> RoleRow]
      BY <2>2 DEF HasRole, SeedRole, Seeding, TablesOK
    <3>2. PICK r \in Roles : r = NextId(role)
      BY <3>1, NextIdFree
    <3>3. role' = [role EXCEPT ![r] = [is |-> "live", on |-> TRUE, super |-> TRUE]]
      BY <2>2, <3>2 DEF HasRole, SeedRole
    <3>4. role'[r].is = "live" /\ role'[r].super /\ r \in DOMAIN role'
      BY <3>1, <3>3
    <3> QED  BY <3>4 DEF HasRole, SuperRoles, Live
  <2> QED  BY <2>1, <2>2
<1>5. AccountSeeded'
  BY <1>2, <1>4 DEF AccountSeeded, InTree, At, Step
<1>6. TreeSeeded' /\ InterceptsSeeded'
  BY <1>2, BeforeTree
<1> QED  BY <1>1, <1>2, <1>3, <1>5, <1>6, Passed, RightStays

LEMMA AdminPassed == ASSUME Seeding, SeedAdmin PROVE Seeding'
<1>1. TablesOK' /\ Grows
  BY AdminTyped DEF Seeding
<1>2. at' \in {Step("failed"), Step("bind")} /\ UNCHANGED <<shape, rounds, perm>>
  BY DEF SeedAdmin, Goto
<1>3. ShapeOK'
  BY <1>2, PlacesNamed DEF Seeding, ShapeOK, shape
<1>4. HasRole'
  BY <1>1, RoleKept DEF Seeding, AccountSeeded, SeedAdmin
<1>5. at' = Step("bind") => HasAdmin'
  BY IdsAssumption DEF SeedAdmin, Goto, Step, HasAdmin, Seeding, TablesOK
<1>6. AccountSeeded'
  BY <1>2, <1>4, <1>5 DEF AccountSeeded, InTree, At, Step
<1>7. TreeSeeded' /\ InterceptsSeeded'
  BY <1>2, BeforeTree
<1> QED  BY <1>1, <1>2, <1>3, <1>6, <1>7, Passed, RightStays

LEMMA BindingPassed == ASSUME Seeding, SeedBinding PROVE Seeding'
<1>1. HasRole /\ HasAdmin
  BY DEF Seeding, AccountSeeded, SeedBinding
<1>2. TablesOK' /\ Grows
  BY <1>1, BindingTyped DEF Seeding
<1>3. at' = [do |-> "menu", n |-> 1, k |-> 0] /\ UNCHANGED <<shape, rounds, perm, role>>
  BY DEF SeedBinding, rows
<1>4. 1 \in DOMAIN Tree
  BY TreeAssumption
<1>5. ShapeOK'
  BY <1>3, <1>4, PlacesNamed DEF Seeding, ShapeOK, shape
<1>6. HasRole' /\ HasAdmin'
  BY <1>1, <1>2, RoleKept DEF Grows
<1>7. IsBound'
  BY <1>3 DEF SeedBinding, IsBound, SuperRoles, Live
<1>8. AccountSeeded'
  BY <1>6, <1>7 DEF AccountSeeded
<1>9. TreeSeeded' /\ InterceptsSeeded'
  BY <1>3 DEF TreeSeeded, InterceptsSeeded, InTree, At
<1> QED  BY <1>2, <1>3, <1>5, <1>8, <1>9, Passed, RightStays

\* In the tree the account is seeded, and stays so.
LEMMA AccountStays == ASSUME Seeding, Grows, InTree \/ At("clean") PROVE AccountSeeded'
<1>1. HasRole /\ HasAdmin /\ IsBound
  BY DEF Seeding, AccountSeeded
<1>2. HasRole' /\ HasAdmin' /\ IsBound'
  BY <1>1, RoleKept DEF Grows
<1> QED  BY <1>2 DEF AccountSeeded

LEMMA MenuPassed == ASSUME Seeding, SeedMenu PROVE Seeding'
<1>1. InTree /\ At("menu") /\ at \in Places
  BY DEF SeedMenu, InTree, At, Seeding, ShapeOK
<1>2. PICK n \in DOMAIN Tree : n = at.n /\ at.k = 0
  BY <1>1, PlaceInTree
<1>3. \A i \in 1 .. (n - 1) : Whole(i)
  BY <1>1, <1>2 DEF Seeding, TreeSeeded
<1>4. \A i \in 1 .. (n - 1) : i \in DOMAIN Tree
  BY TreeAssumption
<1>5. There(Node.under)
  <2>1. Tree[n].under = 0 \/ Tree[n].under \in 1 .. (n - 1)
    BY TreeTyped
  <2> QED  BY <1>2, <1>3, <2>1 DEF Node, There, Whole, Placed
<1>6. /\ TablesOK' /\ Grows /\ Placed(n)'
      /\ code' \in [Menus -> Codes \cup {OwnCode, Null}] /\ parent' \in [Menus -> Menus \cup {Root}]
  BY <1>2, <1>5, MenuTyped DEF Seeding
<1>7. at' = After(n, 0) /\ UNCHANGED <<perm, rounds>>
  BY <1>2, NextPermIs DEF SeedMenu, Upsert
<1>8. 0 \in 0 .. Len(Tree[n].perms)
  BY TreeTyped
<1>9. ShapeOK'
  BY <1>6, <1>7, <1>8, AfterPlaced DEF Seeding, ShapeOK
<1>10. \A i \in 1 .. (n - 1) : Whole(i)'
  BY <1>3, <1>4, <1>6, WholeKept
<1>11. TreeSeeded'
  BY <1>6, <1>7, <1>8, <1>10, Onward
<1>12. ASSUME rounds > 0 PROVE InterceptsSeeded'
  <2>1. InterceptsSeeded /\ AllWhole
    BY <1>12 DEF Seeding, Complete
  <2>2. ASSUME NEW i \in 1 .. (n - 1), NEW j \in DOMAIN Tree[i].perms PROVE Right(i, j)'
    BY <1>1, <1>2, <1>4, <1>6, <1>7, <2>1, RightKept DEF InterceptsSeeded, AllWhole, Whole, Attached
  <2> QED  BY <1>7, <1>8, <2>2, OnwardRight
<1> QED  BY <1>1, <1>6, <1>7, <1>9, <1>11, <1>12, AccountStays, Passed, RightStays

\* Writing one is_intercept leaves those of other methods of routes alone, and
\* the tree has no two for the same one.
LEMMA RightWritten ==
    ASSUME TablesOK, ShapeOK, SeedPerm, AllWhole,
           NEW i \in DOMAIN Tree, NEW j \in DOMAIN Tree[i].perms,
           Right(i, j) \/ (i = at.n /\ j = at.k)
    PROVE  Right(i, j)'
<1>1. PICK n \in DOMAIN Tree, k \in DOMAIN Tree[at.n].perms : n = at.n /\ k = at.k
  BY PlaceInTree DEF ShapeOK, SeedPerm, At, InTree
<1>2. Perm = PermAt(n, k) /\ PermAt(n, k) \in [rt : Routes, intercept : BOOLEAN]
  BY <1>1, TreeTyped DEF Perm, Node, PermAt
<1>3. PermsFor(PermAt(n, k).rt) # {} /\ PermsFor(PermAt(i, j).rt) # {}
  BY <1>1 DEF AllWhole, Whole, Attached
<1>4. /\ RowFor(n, k) \in PermsFor(PermAt(n, k).rt) /\ RowFor(n, k) \in Perms
      /\ RowFor(i, j) \in PermsFor(PermAt(i, j).rt) /\ RowFor(i, j) \in Perms
  BY <1>3, RowForIn DEF RowFor
<1>5. perm' = [perm EXCEPT ![RowFor(n, k)].intercept = PermAt(n, k).intercept]
  BY <1>2, <1>3 DEF SeedPerm, RowFor
<1>6. RowFor(i, j)' = RowFor(i, j)
  BY <1>3, PermTyped, RowForKept
<1>7. perm \in [Perms -> PermRow]
  BY DEF TablesOK
<1>8. CASE RowFor(i, j) = RowFor(n, k)
  <2>1. PermAt(i, j).rt = PermAt(n, k).rt
    BY <1>4, <1>8 DEF PermsFor
  <2>2. PermAt(i, j) = PermAt(n, k)
    BY <1>1, <2>1, InterceptsAssumption DEF PermAt
  <2>3. perm'[RowFor(n, k)].intercept = PermAt(n, k).intercept
    BY <1>4, <1>5, <1>7 DEF PermRow
  <2> QED  BY <1>6, <1>8, <2>2, <2>3 DEF Right
<1>9. CASE RowFor(i, j) # RowFor(n, k)
  <2>1. Right(i, j)
    BY <1>1, <1>9
  <2>2. perm'[RowFor(i, j)] = perm[RowFor(i, j)]
    BY <1>4, <1>5, <1>7, <1>9
  <2> QED  BY <1>6, <2>1, <2>2 DEF Right
<1> QED  BY <1>8, <1>9

LEMMA PermPassed == ASSUME Seeding, SeedPerm PROVE Seeding'
<1>1. InTree /\ At("perm") /\ at \in Places
  BY DEF SeedPerm, InTree, At, Seeding, ShapeOK
<1>2. PICK n \in DOMAIN Tree, k \in DOMAIN Tree[at.n].perms : n = at.n /\ k = at.k
  BY <1>1, PlaceInTree
<1>3. at' = [do |-> "attach", n |-> n, k |-> k] /\ UNCHANGED <<shape, rounds>>
  BY <1>1, <1>2, PlaceInTree DEF SeedPerm
<1>4. TablesOK' /\ Grows /\ PermsFor(PermAt(n, k).rt)' # {}
  BY <1>2, PermTyped DEF Seeding
<1>5. ShapeOK'
  BY <1>2, <1>3, PlacesNamed DEF Seeding, ShapeOK, shape
<1>6. k \in Nat /\ k \in 1 .. Len(Tree[n].perms) /\ \A i \in 1 .. (n - 1) : i \in DOMAIN Tree
  BY <1>2, TreeTyped, TreeAssumption
<1>7. \A j \in 1 .. (k - 1) : j \in DOMAIN Tree[n].perms
  BY <1>2, <1>6, TreeTyped
<1>8. \A i \in 1 .. (n - 1) : Whole(i)'
  BY <1>1, <1>2, <1>4, <1>6, WholeKept DEF Seeding, TreeSeeded
<1>9. Placed(n)' /\ \A j \in 1 .. (k - 1) : Attached(n, j)'
  <2>1. Placed(n) /\ \A j \in 1 .. (k - 1) : Attached(n, j)
    BY <1>1, <1>2 DEF Seeding, TreeSeeded
  <2> QED  BY <1>4, <1>7, <2>1, PlacedKept, AttachedKept DEF Placed
<1>10. TreeSeeded'
  <2>1. at'.n = n /\ at'.k = k /\ Perm' = PermAt(n, k)
    BY <1>3 DEF Perm, Node, PermAt
  <2> QED  BY <1>3, <1>4, <1>8, <1>9, <2>1 DEF TreeSeeded, At, InTree
<1>11. ASSUME rounds > 0 PROVE InterceptsSeeded'
  <2>1. InterceptsSeeded /\ AllWhole
    BY <1>11 DEF Seeding, Complete
  <2>2. \A i \in 1 .. (n - 1) : \A j \in DOMAIN Tree[i].perms : Right(i, j)'
    BY <1>1, <1>2, <1>6, <2>1, RightWritten DEF InterceptsSeeded, Seeding
  <2>3. \A j \in 1 .. (k - 1) : Right(n, j)'
    BY <1>1, <1>2, <1>7, <2>1, RightWritten DEF InterceptsSeeded, Seeding
  <2>4. Right(n, k)'
    BY <1>2, <2>1, RightWritten DEF Seeding
  <2> QED  BY <1>3, <2>2, <2>3, <2>4 DEF InterceptsSeeded, At, InTree
<1>12. ASSUME rounds > 1 PROVE AllRight'
  <2>1. AllWhole /\ AllRight
    BY <1>12 DEF Seeding, Complete, ShapeOK
  <2> QED  BY <2>1, RightWritten DEF AllRight, Seeding
<1> QED  BY <1>1, <1>3, <1>4, <1>5, <1>10, <1>11, <1>12, AccountStays, Passed

LEMMA AttachPassed == ASSUME Seeding, SeedAttach PROVE Seeding'
<1>1. InTree /\ At("attach") /\ at \in Places
  BY DEF SeedAttach, InTree, At, Seeding, ShapeOK
<1>2. PICK n \in DOMAIN Tree, k \in DOMAIN Tree[at.n].perms : n = at.n /\ k = at.k
  BY <1>1, PlaceInTree
<1>3. Placed(n) /\ (\A j \in 1 .. (k - 1) : Attached(n, j)) /\ \A i \in 1 .. (n - 1) : Whole(i)
  BY <1>1, <1>2 DEF Seeding, TreeSeeded
<1>4. TablesOK' /\ Grows /\ Attached(n, k)'
  <2>1. There(at.n) /\ PermsFor(Perm.rt) # {}
    BY <1>1, <1>2, <1>3 DEF Seeding, TreeSeeded, Placed
  <2> QED  BY <1>2, <2>1, AttachTyped DEF Seeding
<1>5. k \in Nat /\ k \in 0 .. Len(Tree[n].perms) /\ \A i \in 1 .. (n - 1) : i \in DOMAIN Tree
  BY <1>2, TreeTyped, TreeAssumption
<1>6. \A j \in 1 .. (k - 1) : j \in DOMAIN Tree[n].perms
  BY <1>2, <1>5, TreeTyped
<1>7. at' = After(n, k) /\ UNCHANGED <<shape, perm, rounds>>
  BY <1>2, NextPermIs DEF SeedAttach, rows
<1>8. ShapeOK'
  BY <1>5, <1>7, AfterPlaced DEF Seeding, ShapeOK, shape
<1>9. TreeSeeded'
  <2>1. \A i \in 1 .. (n - 1) : Whole(i)'
    BY <1>3, <1>4, <1>5, WholeKept
  <2>2. Placed(n)'
    BY <1>3, <1>4, PlacedKept
  <2>3. ASSUME NEW j \in 1 .. k PROVE Attached(n, j)'
    <3>1. j \in 1 .. (k - 1) \/ j = k
      BY <1>5
    <3> QED  BY <1>3, <1>4, <1>6, <3>1, AttachedKept DEF Placed
  <2> QED  BY <1>5, <1>7, <2>1, <2>2, <2>3, Onward
<1>10. ASSUME rounds > 0 PROVE InterceptsSeeded'
  <2>1. InterceptsSeeded /\ AllWhole
    BY <1>10 DEF Seeding, Complete
  <2>2. ASSUME NEW i \in DOMAIN Tree, NEW j \in DOMAIN Tree[i].perms, Right(i, j) PROVE Right(i, j)'
    BY <1>4, <1>7, <2>1, <2>2, RightKept DEF AllWhole, Whole, Attached
  <2>3. \A i \in 1 .. (n - 1) : \A j \in DOMAIN Tree[i].perms : Right(i, j)'
    BY <1>1, <1>2, <1>5, <2>1, <2>2 DEF InterceptsSeeded
  <2>4. ASSUME NEW j \in 1 .. k PROVE Right(n, j)'
    <3>1. j \in 1 .. (k - 1) \/ j = k
      BY <1>5
    <3> QED  BY <1>1, <1>2, <1>6, <2>1, <2>2, <3>1 DEF InterceptsSeeded
  <2> QED  BY <1>5, <1>7, <2>3, <2>4, OnwardRight
<1> QED  BY <1>1, <1>4, <1>7, <1>8, <1>9, <1>10, AccountStays, Passed, RightStays

\* Only here a start is counted; what it has done is complete.
LEMMA CleanPassed == ASSUME Seeding, SeedClean PROVE Seeding'
<1>1. At("clean") /\ at' = Step("up") /\ UNCHANGED <<shape, perm>>
  BY DEF SeedClean, Goto
<1>2. TablesOK' /\ Grows /\ Obsolete' = {}
  BY CleanTyped DEF Seeding
<1>3. rounds \in {0, 1, 2} /\ rounds' = IF rounds < 2 THEN rounds + 1 ELSE 2
  BY DEF SeedClean, Seeding, ShapeOK
<1>4. rounds' \in 0 .. 2 /\ (rounds' > 1 => rounds > 0)
  BY <1>3
<1>5. ShapeOK'
  BY <1>1, <1>4, PlacesNamed DEF Seeding, ShapeOK, shape
<1>6. HasRole /\ HasAdmin /\ IsBound /\ AllWhole
  BY <1>1 DEF Seeding, AccountSeeded, TreeSeeded
<1>7. Complete'
  <2>1. HasRole' /\ HasAdmin' /\ IsBound'
    BY <1>2, <1>6, RoleKept DEF Grows
  <2>2. AllWhole'
    BY <1>2, <1>6, WholeKept DEF AllWhole
  <2> QED  BY <1>2, <2>1, <2>2 DEF Complete
<1>8. AccountSeeded' /\ TreeSeeded' /\ InterceptsSeeded'
  BY <1>1, BeforeTree DEF AccountSeeded, InTree, At, Step
<1>9. ASSUME rounds' > 1 PROVE AllRight'
  <2>1. AllRight
    BY <1>1, <1>4, <1>9 DEF Seeding, InterceptsSeeded
  <2> QED  BY <1>1, <1>2, <1>6, <2>1, AllRightKept
<1> QED  BY <1>2, <1>5, <1>7, <1>8, <1>9 DEF Seeding

LEMMA SeedPassed == ASSUME Seeding, Seed PROVE Seeding'
BY RolePassed, AdminPassed, BindingPassed, MenuPassed, PermPassed, AttachPassed, CleanPassed
   DEF Seed

\* Steps that leave the tables alone.
LEMMA TablesStand ==
    ASSUME UNCHANGED <<tables, shape>>, TablesOK
    PROVE  TablesOK' /\ Grows /\ UNCHANGED perm
BY DEF TablesOK, Deleted, Gone, Grows, tables, rows, bindings, shape,
       HasRole, HasAdmin, SuperRoles, Live, MenusOf, PermsFor, Obsolete

LEMMA EndsPassed == ASSUME Seeding, Stop \/ Restart PROVE Seeding'
<1>1. at' \in {Step("down"), Step("role")} /\ UNCHANGED <<tables, shape, rounds>>
  BY DEF Stop, Restart, Goto
<1>2. TablesOK' /\ Grows /\ UNCHANGED perm
  BY <1>1, TablesStand DEF Seeding
<1>3. ShapeOK'
  BY <1>1, PlacesNamed DEF Seeding, ShapeOK, shape
<1>4. AccountSeeded' /\ TreeSeeded' /\ InterceptsSeeded'
  BY <1>1, BeforeTree DEF AccountSeeded, InTree, At, Step
<1> QED  BY <1>1, <1>2, <1>3, <1>4, Passed, RightStays

LEMMA StutterPassed == ASSUME Seeding, UNCHANGED vars PROVE Seeding'
<1>1. UNCHANGED <<tables, shape>> /\ at' = at /\ rounds' = rounds
  BY DEF vars
<1>2. TablesOK' /\ Grows /\ UNCHANGED perm
  BY <1>1, TablesStand DEF Seeding
<1>3. ShapeOK'
  BY <1>1 DEF Seeding, ShapeOK, shape
<1>4. UNCHANGED <<admin, role, menu, perm, adminRole, menuPerm, code, parent>>
  BY <1>1 DEF tables, rows, bindings, shape
<1>5. AccountSeeded'
  BY <1>1, <1>4 DEF Seeding, AccountSeeded, InTree, At, HasRole, HasAdmin, IsBound, SuperRoles, Live
<1>6. TreeSeeded'
  <2>1. \A c : MenusOf(c)' = MenusOf(c)
    BY <1>4 DEF MenusOf, Live
  <2>2. \A rt : PermsFor(rt)' = PermsFor(rt)
    BY <1>4 DEF PermsFor, Live
  <2>3. ASSUME NEW n PROVE There(n)' = There(n) /\ RowOf(n)' = RowOf(n)
    BY <2>1 DEF There, RowOf
  <2>4. ASSUME NEW n PROVE Placed(n)' = Placed(n)
    BY <1>4, <2>3 DEF Placed
  <2>5. ASSUME NEW n, NEW k PROVE Attached(n, k)' = Attached(n, k)
    BY <1>4, <2>2, <2>3 DEF Attached, RowFor
  <2>6. ASSUME NEW n PROVE Whole(n)' = Whole(n)
    BY <2>4, <2>5 DEF Whole
  <2>7. PICK n, k : n = at.n /\ k = at.k /\ n = at'.n /\ k = at'.k
    BY <1>1
  <2>8. PermsFor(Perm.rt)' = PermsFor(Perm.rt)
    BY <1>1, <2>2 DEF Perm, Node
  <2> QED  BY <1>1, <2>4, <2>5, <2>6, <2>7, <2>8 DEF Seeding, TreeSeeded, InTree, At, AllWhole
<1>7. rounds > 0 => InterceptsSeeded'
  <2>1. \A rt : PermsFor(rt)' = PermsFor(rt)
    BY <1>4 DEF PermsFor, Live
  <2>2. ASSUME NEW n, NEW k PROVE Right(n, k)' = Right(n, k)
    BY <1>4, <2>1 DEF Right, RowFor
  <2>3. PICK n, k : n = at.n /\ k = at.k /\ n = at'.n /\ k = at'.k
    BY <1>1
  <2> QED  BY <1>1, <2>2, <2>3 DEF Seeding, InterceptsSeeded, InTree, At, AllRight
<1> QED  BY <1>1, <1>2, <1>3, <1>5, <1>6, <1>7, Passed, RightStays

\* The operators' changes: whatever they make of the tables, it is typed, and
\* the next start is the first again.
LEMMA ServePassed == ASSUME Seeding, Serve PROVE Seeding'
<1>1. TablesOK /\ ShapeOK /\ At("up") /\ rounds' = 0 /\ at' = at
  BY DEF Serve, Seeding
<1>2. TablesOK' /\ code' \in [Menus -> Codes \cup {OwnCode, Null}]
      /\ parent' \in [Menus -> Menus \cup {Root}]
  <2>1. CASE (EditAdmin \/ EditRole \/ EditPerm) /\ UNCHANGED shape
    BY <1>1, <2>1, EditAdminTyped, EditRoleTyped, EditPermTyped DEF ShapeOK, shape
  <2>2. CASE EditMenuShape
    <3>1. PICK m \in Menus, c \in Codes \cup {OwnCode, Null}, p \in Seen(menu) \cup {Root} :
            \/ /\ c # Null /\ CreateMenu(m)
               /\ code' = [code EXCEPT ![m] = c] /\ parent' = [parent EXCEPT ![m] = p]
            \/ UpdateMenu(m, c, p)
      BY <2>2 DEF EditMenuShape
    <3>2. code' = [code EXCEPT ![m] = c] /\ parent' = [parent EXCEPT ![m] = p]
      BY <3>1 DEF UpdateMenu
    <3>3. Seen(menu) \subseteq Menus
      BY <1>1 DEF TablesOK, Seen
    <3>4. code' \in [Menus -> Codes \cup {OwnCode, Null}] /\ parent' \in [Menus -> Menus \cup {Root}]
      BY <1>1, <3>2, <3>3 DEF ShapeOK
    <3>5. CASE CreateMenu(m)
      <4>1. EditMenu
        BY <3>5 DEF EditMenu
      <4> QED  BY <1>1, <3>4, <4>1, EditMenuTyped
    <3>6. CASE UpdateMenu(m, c, p)
      <4>1. Counted /\ UNCHANGED <<rows, bindings, named>>
        BY <3>6 DEF UpdateMenu
      <4>2. edits' \in 0 .. MaxEdits
        BY <1>1, <4>1, CountedTyped DEF TablesOK
      <4>3. TablesOK'
        BY <1>1, <4>1, <4>2 DEF TablesOK, Deleted, Gone, rows, bindings
      <4> QED  BY <3>4, <4>3
    <3> QED  BY <3>1, <3>5, <3>6
  <2>3. CASE EditMenuBindings
    <3>1. EditMenu /\ UNCHANGED shape
      BY <2>3 DEF EditMenuBindings, EditMenu
    <3> QED  BY <1>1, <3>1, EditMenuTyped DEF ShapeOK, shape
  <2> QED  BY <2>1, <2>2, <2>3 DEF Serve
<1>3. ShapeOK'
  BY <1>1, <1>2 DEF ShapeOK
<1>4. AccountSeeded' /\ TreeSeeded'
  BY <1>1 DEF AccountSeeded, TreeSeeded, InTree, At
<1> QED  BY <1>1, <1>2, <1>3, <1>4 DEF Seeding

LEMMA InitSeeding == Init => Seeding
<1> SUFFICES ASSUME Init PROVE Seeding
  OBVIOUS
<1>1. TablesOK
  BY InitTablesOK DEF Init
<1>2. at = Step("role") /\ rounds = 0
  BY DEF Init
<1>3. ShapeOK
  BY <1>2, PlacesNamed DEF Init, ShapeOK
<1>4. AccountSeeded /\ TreeSeeded
  BY <1>2 DEF AccountSeeded, TreeSeeded, InTree, At, Step
<1> QED  BY <1>1, <1>2, <1>3, <1>4 DEF Seeding

LEMMA Invariance == Spec => []Seeding
<1>1. Seeding /\ [Next]_vars => Seeding'
  BY SeedPassed, EndsPassed, ServePassed, StutterPassed DEF Next
<1> QED  BY <1>1, InitSeeding, PTL DEF Spec

-----------------------------------------------------------------------------
(* Types.                                                                  *)

LEMMA SeedingTyped == Seeding => TypeOK
<1> SUFFICES ASSUME Seeding PROVE TypeOK
  OBVIOUS
<1>1. At("bind") => SuperRoles # {}
  BY DEF Seeding, AccountSeeded, HasRole
<1>2. ASSUME At("attach") PROVE MenusOf(Node.code) # {} /\ PermsFor(Perm.rt) # {}
  <2>1. at.n \in DOMAIN Tree
    BY <1>2, PlaceInTree DEF Seeding, ShapeOK, InTree, At
  <2>2. Placed(at.n) /\ PermsFor(Perm.rt) # {}
    BY <1>2 DEF Seeding, TreeSeeded
  <2> QED  BY <2>1, <2>2, TreeTyped DEF Placed, There, Node
<1> QED  BY <1>1, <1>2 DEF Seeding, ShapeOK, TypeOK

\* A start never comes to a statement that lacks the row it binds, and all rows
\* and bindings have their types (bootstrap.go:41-103, seed_rbac.go:235-329).
THEOREM TypeCorrect == Spec => []TypeOK
BY Invariance, SeedingTyped, PTL

-----------------------------------------------------------------------------
(* A start that goes through.                                              *)

LEMMA CompleteRepaired == Seeding /\ Complete => StartRepairs
<1> SUFFICES ASSUME Seeding, Complete PROVE StartRepairs
  OBVIOUS
<1>1. admin[Builtin] \in {"on", "off"}
  BY DEF Complete, HasAdmin
<1>2. \E r \in SuperRoles : <<Builtin, r>> \in adminRole
  BY RoleIn DEF Seeding, Complete, IsBound
<1>3. {m \in Live(menu) : code[m] # Null} = UNION {MenusOf(c) : c \in Codes}
  BY TreeAssumption DEF Complete, Obsolete, MenusOf
<1>4. ASSUME NEW n \in DOMAIN Tree
      PROVE  /\ MenusOf(Tree[n].code) # {}
             /\ parent[RowOf(n)] = RowOf(Tree[n].under)
             /\ \A k \in DOMAIN Tree[n].perms :
                  \E p \in PermsFor(Tree[n].perms[k].rt) : <<RowOf(n), p>> \in menuPerm
  <2>1. Whole(n)
    BY DEF Complete, AllWhole
  <2>2. ASSUME NEW k \in DOMAIN Tree[n].perms
        PROVE  \E p \in PermsFor(Tree[n].perms[k].rt) : <<RowOf(n), p>> \in menuPerm
    <3>1. Attached(n, k)
      BY <2>1 DEF Whole
    <3> QED  BY <3>1, RowForIn DEF Seeding, Attached, RowFor, PermAt
  <2> QED  BY <2>1, <2>2, TreeTyped DEF Whole, Placed, There
<1> QED  BY <1>1, <1>2, <1>3, <1>4 DEF StartRepairs

\* Whatever operators made of the tables before, and wherever starts ended
\* before, one that goes through leaves the account bound to a super role, the
\* built-in tree whole and beside it no live menu but such as have a NULL code
\* (bootstrap.go:28-103, seed_rbac.go:206-227).
THEOREM StartsRepair == Spec => []StartRepairs
<1>1. Seeding => StartRepairs
  BY CompleteRepaired DEF Seeding, StartRepairs
<1> QED  BY <1>1, Invariance, PTL

-----------------------------------------------------------------------------
(* What a start takes and gives.                                           *)

GrantsKept ==
    Starting => \A r \in Roles :
        /\ Reach(r) \subseteq Reach(r)'
        /\ \A p \in Reach(r)' \ Reach(r) :
             \E n \in DOMAIN Tree : \E k \in DOMAIN Tree[n].perms :
                /\ perm[p].covers = {Tree[n].perms[k].rt}
                /\ <<r, RowOf(n)>> \in roleMenu

LEMMA ReachStands == ASSUME UNCHANGED <<roleMenu, menuPerm>> PROVE GrantsKept
<1>1. \A r : Reach(r)' = Reach(r)
  BY DEF Reach, Seconds
<1> QED  BY <1>1 DEF GrantsKept

\* The only statement that changes what a menu gives adds one binding.
LEMMA AttachGrants == ASSUME Seeding, SeedAttach PROVE GrantsKept
<1>1. InTree /\ At("attach") /\ at \in Places
  BY DEF SeedAttach, InTree, At, Seeding, ShapeOK
<1>2. PICK n \in DOMAIN Tree, k \in DOMAIN Tree[at.n].perms : n = at.n /\ k = at.k
  BY <1>1, PlaceInTree
<1>3. PICK q \in PermsFor(PermAt(n, k).rt) :
        menuPerm' = menuPerm \cup {<<RowOf(n), q>>} /\ roleMenu' = roleMenu
  <2>1. Perm = PermAt(n, k) /\ PermsFor(Perm.rt) # {}
    BY <1>1, <1>2 DEF Seeding, TreeSeeded, Perm, Node, PermAt
  <2> QED  BY <1>2, <2>1, RowForIn DEF SeedAttach, Seeding
<1>4. perm[q].covers = {Tree[n].perms[k].rt}
  BY <1>3 DEF PermsFor, PermAt
<1>5. ASSUME NEW r \in Roles
      PROVE  /\ Reach(r) \subseteq Reach(r)'
             /\ \A p \in Reach(r)' \ Reach(r) : p = q /\ <<r, RowOf(n)>> \in roleMenu
  BY <1>3 DEF Reach, Seconds
<1> QED  BY <1>2, <1>4, <1>5 DEF GrantsKept

\* A start deletes menus and yet takes no permission from a role; what it gives
\* one is a permission of the tree, through a menu of the tree that the role has
\* (seed_rbac.go:213-219, 313-327).
THEOREM StartsKeepGrants == Spec => StartKeepsGrants
<1>1. Seeding /\ [Next]_vars => [GrantsKept]_vars
  <2> SUFFICES ASSUME Seeding, Next PROVE GrantsKept
    OBVIOUS
  <2>1. CASE SeedRole \/ SeedAdmin \/ SeedBinding \/ SeedMenu \/ SeedPerm \/ SeedClean
    <3>1. UNCHANGED <<roleMenu, menuPerm>>
      BY <2>1 DEF SeedRole, SeedAdmin, SeedBinding, SeedMenu, Upsert, SeedPerm, SeedClean, Clean,
         bindings
    <3> QED  BY <3>1, ReachStands
  <2>2. CASE SeedAttach
    BY <2>2, AttachGrants
  <2>3. CASE Stop \/ Restart
    <3>1. UNCHANGED <<roleMenu, menuPerm>>
      BY <2>3 DEF Stop, Restart, tables, bindings
    <3> QED  BY <3>1, ReachStands
  <2>4. CASE Serve
    BY <2>4 DEF Serve, GrantsKept, Starting
  <2> QED  BY <2>1, <2>2, <2>3, <2>4 DEF Next, Seed
<1> QED  BY <1>1, Invariance, PTL DEF Spec, StartKeepsGrants, GrantsKept

-----------------------------------------------------------------------------
(* The third start and every later one.                                    *)

Settled == Starting /\ rounds > 1 => UNCHANGED <<tables, shape>>

\* The variables of the tables, one by one.
fields == <<admin, role, menu, perm, adminRole, roleMenu, menuPerm, edits, named, code, parent>>

LEMMA TablesTaken == ASSUME UNCHANGED fields PROVE UNCHANGED <<tables, shape>>
BY DEF fields, tables, rows, bindings, shape

LEMMA RoleSettled == ASSUME Seeding, Complete, SeedRole PROVE UNCHANGED <<tables, shape>>
<1>1. UNCHANGED fields
  BY DEF fields, SeedRole, Complete, HasRole, bindings, shape
<1> QED  BY <1>1, TablesTaken

LEMMA AdminSettled == ASSUME Seeding, Complete, SeedAdmin PROVE UNCHANGED <<tables, shape>>
<1>1. UNCHANGED fields
  BY DEF fields, SeedAdmin, Complete, HasAdmin, bindings, shape
<1> QED  BY <1>1, TablesTaken

LEMMA BindingSettled == ASSUME Seeding, Complete, SeedBinding PROVE UNCHANGED <<tables, shape>>
<1>1. adminRole' = adminRole
  BY DEF SeedBinding, Complete, IsBound
<1>2. UNCHANGED fields
  BY <1>1 DEF fields, SeedBinding, rows, shape
<1> QED  BY <1>2, TablesTaken

LEMMA MenuSettled == ASSUME Seeding, Complete, SeedMenu PROVE UNCHANGED <<tables, shape>>
<1>1. PICK n \in DOMAIN Tree : n = at.n
  BY PlaceInTree DEF Seeding, ShapeOK, SeedMenu, At, InTree
<1>2. Node = Tree[n] /\ Placed(n)
  BY <1>1 DEF Node, Complete, AllWhole, Whole
<1>3. PICK m \in Menus : m = RowOf(n) /\ m \in MenusOf(Tree[n].code)
  BY <1>2, RowThere DEF Placed, Seeding
<1>4. /\ menu' = [menu EXCEPT ![m].is = "live"]
      /\ code' = [code EXCEPT ![m] = Tree[n].code]
      /\ parent' = [parent EXCEPT ![m] = RowOf(Tree[n].under)]
      /\ UNCHANGED <<admin, role, perm, bindings, edits, named>>
  BY <1>2, <1>3, TreeTyped DEF SeedMenu, Upsert, Found, RowOf
<1>5. /\ menu \in [Menus -> MenuRow] /\ code \in [Menus -> Codes \cup {OwnCode, Null}]
      /\ parent \in [Menus -> Menus \cup {Root}]
  BY DEF Seeding, TablesOK, ShapeOK
<1>6. menu[m].is = "live" /\ code[m] = Tree[n].code /\ parent[m] = RowOf(Tree[n].under)
  BY <1>2, <1>3 DEF MenusOf, Live, Placed
<1>7. code' = code /\ parent' = parent
  BY <1>4, <1>5, <1>6
<1>8. menu' = menu
  <2>1. menu[m] \in MenuRow /\ [menu[m] EXCEPT !.is = "live"] = menu[m]
    BY <1>5, <1>6 DEF MenuRow
  <2> QED  BY <1>4, <1>5, <2>1
<1>9. UNCHANGED fields
  BY <1>4, <1>7, <1>8 DEF fields, bindings
<1> QED  BY <1>9, TablesTaken

LEMMA PermSettled == ASSUME Seeding, Complete, AllRight, SeedPerm PROVE UNCHANGED <<tables, shape>>
<1>1. PICK n \in DOMAIN Tree, k \in DOMAIN Tree[at.n].perms : n = at.n /\ k = at.k
  BY PlaceInTree DEF Seeding, ShapeOK, SeedPerm, At, InTree
<1>2. Perm = PermAt(n, k) /\ PermsFor(PermAt(n, k).rt) # {} /\ Right(n, k)
  BY <1>1 DEF Perm, Node, PermAt, Complete, AllWhole, Whole, Attached, AllRight
<1>3. PICK p \in Perms : p = RowFor(n, k)
  BY <1>2, RowForIn DEF Seeding, RowFor
<1>4. /\ perm' = [perm EXCEPT ![p].intercept = PermAt(n, k).intercept]
      /\ UNCHANGED <<admin, role, menu, bindings, edits, named, shape>>
  BY <1>2, <1>3 DEF SeedPerm, RowFor
<1>5. perm \in [Perms -> PermRow] /\ perm[p].intercept = PermAt(n, k).intercept
  BY <1>2, <1>3 DEF Seeding, TablesOK, Right
<1>6. perm' = perm
  <2>1. [perm[p] EXCEPT !.intercept = perm[p].intercept] = perm[p]
    BY <1>5 DEF PermRow
  <2>2. perm' = [perm EXCEPT ![p] = [perm[p] EXCEPT !.intercept = perm[p].intercept]]
    BY <1>4, <1>5
  <2> QED  BY <1>5, <2>1, <2>2
<1>7. UNCHANGED fields
  BY <1>4, <1>6 DEF fields, bindings, shape
<1> QED  BY <1>7, TablesTaken

LEMMA AttachSettled == ASSUME Seeding, Complete, SeedAttach PROVE UNCHANGED <<tables, shape>>
<1>1. PICK n \in DOMAIN Tree, k \in DOMAIN Tree[at.n].perms : n = at.n /\ k = at.k
  BY PlaceInTree DEF Seeding, ShapeOK, SeedAttach, At, InTree
<1>2. Perm = PermAt(n, k) /\ Attached(n, k)
  BY <1>1 DEF Perm, Node, PermAt, Complete, AllWhole, Whole
<1>3. menuPerm' = menuPerm
  BY <1>1, <1>2 DEF SeedAttach, Attached, RowFor
<1>4. UNCHANGED fields
  BY <1>3 DEF fields, SeedAttach, rows, shape
<1> QED  BY <1>4, TablesTaken

LEMMA CleanSettled == ASSUME Seeding, Complete, SeedClean PROVE UNCHANGED <<tables, shape>>
<1>1. menu' = menu
  BY CleanTyped DEF Seeding, Complete
<1>2. UNCHANGED fields
  BY <1>1 DEF fields, SeedClean, Clean, shape
<1> QED  BY <1>2, TablesTaken

\* Once two starts have gone through, no later one changes anything, wherever it
\* or others between have ended: the second still writes the is_intercept that
\* the first could not create (bootstrap.go:29, seed_rbac.go:204, 295-311).
THEOREM StartsSettle == Spec => StartSettles
<1>1. Seeding /\ [Next]_vars => [Settled]_vars
  <2> SUFFICES ASSUME Seeding, Next, Starting, rounds > 1 PROVE UNCHANGED <<tables, shape>>
    BY DEF Settled
  <2>1. Complete /\ AllRight
    BY DEF Seeding, ShapeOK
  <2>2. CASE Seed
    BY <2>1, <2>2, RoleSettled, AdminSettled, BindingSettled, MenuSettled, PermSettled,
       AttachSettled, CleanSettled DEF Seed
  <2>3. CASE Stop \/ Restart
    BY <2>3 DEF Stop, Restart
  <2>4. CASE Serve
    BY <2>4 DEF Serve, Starting
  <2> QED  BY <2>2, <2>3, <2>4 DEF Next
<1> QED  BY <1>1, Invariance, PTL DEF Spec, StartSettles, Settled
-----------------------------------------------------------------------------
(* A start that nobody stops.                                              *)

\* Rows are deleted, but not the protected account.
Standing == admin[Builtin] # "gone" /\ ~At("failed")

LEMMA AccountKept ==
    ASSUME TablesOK, Builtin \in Protected, admin[Builtin] # "gone", EditAdmin
    PROVE  admin'[Builtin] # "gone"
<1> USE IdsAssumption DEF TablesOK, Accounts
<1>1. ASSUME NEW a \in Admins, NEW status \in {"on", "off"}, NEW R, CreateAdmin(a, status, R)
      PROVE  admin'[Builtin] # "gone"
  BY <1>1 DEF CreateAdmin
<1>2. ASSUME NEW a \in Accounts, NEW status \in {"on", "off"}, NEW R, UpdateAdmin(a, status, R)
      PROVE  admin'[Builtin] # "gone"
  BY <1>2 DEF UpdateAdmin
<1>3. ASSUME NEW a \in Accounts, NEW status \in {"on", "off"},
             UpdateAdminOnly(a, status) \/ UpdateAdminStatus(a, status)
      PROVE  admin'[Builtin] # "gone"
  BY <1>3 DEF UpdateAdminOnly, UpdateAdminStatus
<1>4. ASSUME NEW a \in Accounts, NEW operator \in Accounts, DeleteAdmin(a, operator)
      PROVE  admin'[Builtin] # "gone"
  BY <1>4 DEF DeleteAdmin
<1> QED
  BY <1>1, <1>2, <1>3, <1>4, EditAdmin DEF EditAdmin

LEMMA StandingKept ==
    ASSUME Seeding, Standing, Builtin \in Protected, [Next]_vars
    PROVE  Standing'
<1>1. CASE SeedAdmin
  BY <1>1, IdsAssumption DEF Standing, SeedAdmin, Goto, Step, At, Seeding, TablesOK
<1>2. CASE SeedRole \/ SeedBinding
  BY <1>2 DEF Standing, SeedRole, SeedBinding, Goto, Step, At, rows
<1>3. CASE SeedPerm
  <2>1. at = [do |-> at.do, n |-> at.n, k |-> at.k]
    BY <1>3, PlaceInTree DEF Seeding, ShapeOK, SeedPerm, At, InTree
  <2>2. at'.do = "attach"
    BY <1>3, <2>1 DEF SeedPerm
  <2> QED  BY <1>3, <2>2 DEF Standing, SeedPerm, At
<1>4. CASE SeedMenu \/ SeedAttach
  BY <1>4 DEF Standing, SeedMenu, Upsert, SeedAttach, NextPerm, NextNode, Step, At, rows
<1>5. CASE SeedClean \/ Stop \/ Restart
  BY <1>5 DEF Standing, SeedClean, Stop, Restart, Goto, Step, At, tables, rows
<1>6. CASE Serve
  <2>1. at' = at
    BY <1>6 DEF Serve
  <2>2. CASE EditAdmin
    BY <2>1, <2>2, AccountKept DEF Standing, Seeding, At
  <2>3. CASE EditRole \/ EditPerm \/ EditMenuShape \/ EditMenuBindings
    <3>1. admin' = admin
      BY <2>3 DEF EditRole, CreateRole, UpdateRole, DeleteRole, AssignRoleMenus, EditPerm,
         CreatePerm, UpdatePerm, DeletePerm, EditMenuShape, CreateMenu, UpdateMenu,
         EditMenuBindings, DeleteMenu, AssignMenuPerms, rows
    <3> QED  BY <2>1, <3>1 DEF Standing, At
  <2> QED  BY <1>6, <2>2, <2>3 DEF Serve
<1>7. CASE UNCHANGED vars
  BY <1>7 DEF Standing, At, vars, tables, rows
<1> QED  BY <1>1, <1>2, <1>3, <1>4, <1>5, <1>6, <1>7 DEF Next, Seed

\* With the configured account protected, no statement of any start fails,
\* whatever operators have done before: what ComesUp needs of the tables
\* (bootstrap.go:57-79, rbac_service.go:163-173, 190).
THEOREM StartsNeverFail == Builtin \in Protected => (Spec => [](~At("failed")))
<1> SUFFICES ASSUME Builtin \in Protected PROVE Spec => [](~At("failed"))
  OBVIOUS
<1>1. Init => Standing
  BY IdsAssumption DEF Init, InitTables, Standing, At, Step
<1>2. Seeding /\ Standing /\ [Next]_vars => Standing'
  BY StandingKept
<1>3. Standing => ~At("failed")
  BY DEF Standing
<1> QED  BY <1>1, <1>2, <1>3, Invariance, PTL DEF Spec


=============================================================================
