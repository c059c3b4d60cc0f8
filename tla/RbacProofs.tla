----------------------------- MODULE RbacProofs -----------------------------
(***************************************************************************)
(* Theorems about RbacTables and RbacCheck for every value of their        *)
(* constants: any tables, any number of changes and of requests.           *)
(***************************************************************************)
EXTENDS RbacCheck, RbacTablesProofs

\* The steps of a check after each of its queries.
AfterRoles == {"super", "menus", "perms", "route"}
AfterSuper == {"menus", "perms", "route"}
AfterMenu  == {"perms", "route"}
UnderWay   == {"roles"} \cup AfterRoles

\* What has always been there is there now, and what is there now has been there.
Bracketed(w) ==
    check[w].pc \in UnderWay =>
        \A k \in Kinds : past[w].always[k] \subseteq Facts[k] /\ Facts[k] \subseteq past[w].ever[k]

\* What a check has read so far lies between what has always been there to read
\* and what has ever been.
RolesRead(w) ==
    check[w].pc \in AfterRoles =>
        /\ RolesOf(past[w].always, check[w].admin) \subseteq check[w].roles
        /\ check[w].roles \subseteq RolesOf(past[w].ever, check[w].admin)

NotSuper(w) ==
    check[w].pc \in AfterSuper => check[w].roles \cap past[w].always.supers = {}

MenusRead(w) ==
    check[w].pc \in AfterMenu =>
        /\ MenusOf(past[w].always, check[w].roles) \subseteq check[w].menus
        /\ check[w].menus \subseteq MenusOf(past[w].ever, check[w].roles)

PermsRead(w) ==
    check[w].pc = "route" =>
        /\ PermsOf(past[w].always, check[w].menus) \subseteq check[w].perms
        /\ check[w].perms \subseteq PermsOf(past[w].ever, check[w].menus)

\* A query that is skipped leaves an empty list.
NotRead(w) ==
    /\ check[w].pc \in {"roles", "super", "menus"} => check[w].menus = {}
    /\ check[w].pc \in {"roles", "super", "menus", "perms"} => check[w].perms = {}

Decided(w) ==
    /\ Verdict(w, "allow") => Granted(past[w].ever, check[w].admin, check[w].route)
    /\ Verdict(w, "deny")  => ~Granted(past[w].always, check[w].admin, check[w].route)

Fine(w) == /\ Bracketed(w) /\ RolesRead(w) /\ NotSuper(w) /\ MenusRead(w) /\ PermsRead(w)
           /\ NotRead(w) /\ Decided(w)
RInv    == TypeOK /\ \A w \in Requests : Fine(w)

-----------------------------------------------------------------------------
(* The facts.                                                              *)

LEMMA FactsTyped == ASSUME TablesOK PROVE Facts \in FactSets
BY DEF TablesOK, Facts, FactSets, Kinds, Covering

LEMMA NoneTyped == None \in FactSets
BY DEF None, FactSets

LEMMA JoinTyped == ASSUME NEW s \in FactSets, NEW t \in FactSets
                   PROVE  Join(s, t) \in FactSets /\ Meet(s, t) \in FactSets
BY DEF Join, Meet, FactSets

\* More facts, more read.
LEMMA ReadsGrow ==
  ASSUME NEW s, NEW t, \A k \in Kinds : s[k] \subseteq t[k],
         NEW a, NEW R, NEW S, R \subseteq S
  PROVE  /\ RolesOf(s, a) \subseteq RolesOf(t, a)
         /\ MenusOf(s, R) \subseteq MenusOf(t, S)
         /\ PermsOf(s, R) \subseteq PermsOf(t, S)
         /\ s["supers"] \subseteq t["supers"]
         /\ s["open"] \subseteq t["open"] /\ s["guarded"] \subseteq t["guarded"]
BY DEF RolesOf, MenusOf, PermsOf, Kinds

-----------------------------------------------------------------------------
(* Typing of a step.                                                       *)

LEMMA TablesStand == ASSUME UNCHANGED tables
                     PROVE  (TablesOK => TablesOK') /\ Facts' = Facts /\ Deleted' = Deleted
BY DEF tables, rows, bindings, TablesOK, Deleted, Gone, Facts, Covering

LEMMA InitTyped == Init => TypeOK
<1> SUFFICES ASSUME Init PROVE TypeOK
  OBVIOUS
<1>1. TablesOK
  BY InitTablesOK DEF Init
<1>2. 0 \in 0 .. MaxEdits
  BY EditsAssumption
<1> QED
  BY <1>1, <1>2, NoneTyped, IdsAssumption DEF Init, TypeOK, Idle, Unobserved, Steps, Way, History, At

\* What a query found is noted.
LEMMA RolesNoted ==
  ASSUME NEW f \in [Requests -> Way], NEW w \in Requests, NEW step \in Steps, NEW R \in SUBSET Roles
  PROVE  [f EXCEPT ![w].pc = step, ![w].roles = R] \in [Requests -> Way]
BY DEF Way

LEMMA MenusNoted ==
  ASSUME NEW f \in [Requests -> Way], NEW w \in Requests, NEW step \in Steps, NEW M \in SUBSET Menus
  PROVE  [f EXCEPT ![w].pc = step, ![w].menus = M] \in [Requests -> Way]
BY DEF Way

LEMMA PermsNoted ==
  ASSUME NEW f \in [Requests -> Way], NEW w \in Requests, NEW step \in Steps, NEW P \in SUBSET Perms
  PROVE  [f EXCEPT ![w].pc = step, ![w].perms = P] \in [Requests -> Way]
BY DEF Way

LEMMA StepTyped == ASSUME TypeOK, [Next]_vars PROVE TypeOK'
<1>1. CASE Change
  <2>1. TablesOK'
    BY <1>1, EditTyped DEF Change, TypeOK
  <2>2. Facts' \in FactSets
    BY <2>1 DEF TablesOK, Facts, FactSets, Kinds, Covering
  <2>3. past' \in [Requests -> History]
    BY <1>1, <2>2, JoinTyped DEF Change, Observe, TypeOK, History, Granted
  <2> QED
    BY <1>1, <2>1, <2>3 DEF Change, TypeOK, At
<1>2. ASSUME NEW w \in Requests, Check(w) PROVE TypeOK'
  <2> USE DEF At, Decide, Steps
  <2>1. UNCHANGED tables
    BY <1>2 DEF Check, Begin, UserRoleIDs, CheckSuper, MenusOfRoles, PermsOfMenus, CheckRoute,
       QueryFails, Leave
  <2>2. TablesOK'
    BY <2>1, TablesStand DEF TypeOK
  <2>3. ASSUME NEW a \in Accounts, NEW rt \in Routes, Begin(w, a, rt) PROVE TypeOK'
    <3>1. edits \in 0 .. MaxEdits /\ a \in Admins
      BY DEF TypeOK, TablesOK, Accounts
    <3>2. [ever |-> Facts, always |-> Facts, answers |-> {Granted(Facts, a, rt)}, since |-> edits]
            \in History
      BY <3>1, FactsTyped DEF TypeOK, History, Granted
    <3> QED
      BY <2>2, <2>3, <3>1, <3>2 DEF Begin, Idle, Way, TypeOK
  <2>4. CASE UserRoleIDs(w)
    <3>1. check' \in [Requests -> Way]
      <4>1. RolesOf(Facts, check[w].admin) \in SUBSET Roles
        BY DEF RolesOf
      <4>2. "super" \in Steps /\ check \in [Requests -> Way]
        BY DEF TypeOK
      <4> QED
        BY <2>4, <4>1, <4>2, RolesNoted DEF UserRoleIDs
    <3>2. /\ UNCHANGED past
          /\ \A x \in Requests \ {w} : check'[x] = check[x]
      BY <2>4 DEF UserRoleIDs, TypeOK
    <3>3. check'[w].pc = "super"
      BY <2>4 DEF UserRoleIDs, RolesOf, Way, TypeOK
    <3> QED
      BY <2>2, <3>1, <3>2, <3>3 DEF TypeOK
  <2>5. CASE CheckSuper(w)
    <3>1. check' \in [Requests -> Way]
      BY <2>5 DEF CheckSuper, Way, TypeOK
    <3>2. /\ UNCHANGED past
          /\ \A x \in Requests \ {w} : check'[x] = check[x]
      BY <2>5 DEF CheckSuper, TypeOK
    <3>3. /\ check'[w].pc = "menus" => check'[w].roles # {}
          /\ check'[w].pc # "perms"
      BY <2>5 DEF CheckSuper, Way, TypeOK
    <3> QED
      BY <2>2, <3>1, <3>2, <3>3 DEF TypeOK
  <2>6. CASE MenusOfRoles(w)
    <3>1. check' \in [Requests -> Way]
      <4>1. MenusOf(Facts, check[w].roles) \in SUBSET Menus
        BY DEF MenusOf
      <4>2. {"perms", "route"} \subseteq Steps /\ check \in [Requests -> Way]
        BY DEF TypeOK
      <4> QED
        BY <2>6, <4>1, <4>2, MenusNoted DEF MenusOfRoles, AfterMenus
    <3>2. /\ UNCHANGED past
          /\ \A x \in Requests \ {w} : check'[x] = check[x]
      BY <2>6 DEF MenusOfRoles, TypeOK
    <3>3. /\ check'[w].pc # "menus"
          /\ check'[w].pc = "perms" => check'[w].roles # {} /\ check'[w].menus # {}
      BY <2>6 DEF MenusOfRoles, MenusOf, AfterMenus, Way, TypeOK
    <3> QED
      BY <2>2, <3>1, <3>2, <3>3 DEF TypeOK
  <2>7. CASE PermsOfMenus(w)
    <3>1. check' \in [Requests -> Way]
      <4>1. PermsOf(Facts, check[w].menus) \in SUBSET Perms
        BY DEF PermsOf
      <4>2. "route" \in Steps /\ check \in [Requests -> Way]
        BY DEF TypeOK
      <4> QED
        BY <2>7, <4>1, <4>2, PermsNoted DEF PermsOfMenus
    <3>2. /\ UNCHANGED past
          /\ \A x \in Requests \ {w} : check'[x] = check[x]
      BY <2>7 DEF PermsOfMenus, TypeOK
    <3>3. check'[w].pc = "route"
      BY <2>7 DEF PermsOfMenus, PermsOf, Way, TypeOK
    <3> QED
      BY <2>2, <3>1, <3>2, <3>3 DEF TypeOK
  <2>8. CASE CheckRoute(w) \/ QueryFails(w)
    BY <2>2, <2>8 DEF CheckRoute, QueryFails, Way, TypeOK
  <2>9. CASE Leave(w)
    BY <2>2, <2>9, NoneTyped, IdsAssumption, EditsAssumption
       DEF Leave, Idle, Unobserved, Way, History, TypeOK
  <2> QED
    BY <1>2, <2>3, <2>4, <2>5, <2>6, <2>7, <2>8, <2>9 DEF Check
<1>3. CASE UNCHANGED vars
  BY <1>3 DEF vars, tables, rows, bindings, TypeOK, TablesOK, Deleted, Gone, At
<1> QED
  BY <1>1, <1>2, <1>3 DEF Next

-----------------------------------------------------------------------------
(* The reads of a check.                                                   *)

\* A change of the tables: what was read stays read, the brackets widen.
LEMMA ChangeFine == ASSUME RInv, Change, NEW w \in Requests PROVE Fine(w)'
<1>1. /\ check' = check /\ Fine(w)
      /\ past'[w] = IF check[w].pc \in {"idle", "done"} THEN past[w]
                    ELSE [past[w] EXCEPT !.ever = Join(@, Facts'), !.always = Meet(@, Facts'),
                            !.answers = @ \cup {Granted(Facts', check[w].admin, check[w].route)}]
  BY DEF Change, Observe, RInv
<1>2. CASE check[w].pc \notin UnderWay
  <2>1. check[w].pc \in {"idle", "done"}
    BY <1>2 DEF RInv, TypeOK, Way, Steps, UnderWay, AfterRoles
  <2>2. past'[w] = past[w]
    BY <1>1, <2>1
  <2> QED
    BY <1>1, <1>2, <2>1, <2>2 DEF Fine, Bracketed, RolesRead, NotSuper, MenusRead, PermsRead, NotRead,
       Decided, Verdict, At, UnderWay, AfterRoles, AfterSuper, AfterMenu
<1>3. CASE check[w].pc \in UnderWay
  <2>1. past[w] \in History
    BY DEF RInv, TypeOK
  <2>2. /\ past'[w].ever = Join(past[w].ever, Facts')
        /\ past'[w].always = Meet(past[w].always, Facts')
    BY <1>1, <1>3, <2>1 DEF History, UnderWay, AfterRoles
  <2>3. \A k \in Kinds : /\ past'[w].always[k] = past[w].always[k] \cap (Facts')[k]
                         /\ past'[w].ever[k] = past[w].ever[k] \cup (Facts')[k]
    BY <2>2 DEF Join, Meet
  <2>4. Bracketed(w)'
    BY <2>3 DEF Bracketed
  <2>5. RolesRead(w)' /\ NotSuper(w)' /\ MenusRead(w)' /\ PermsRead(w)'
    BY <1>1, <2>3 DEF Fine, RolesRead, NotSuper, MenusRead, PermsRead, RolesOf, MenusOf, PermsOf, Kinds
  <2>6. NotRead(w)' /\ Decided(w)'
    BY <1>1, <1>3 DEF Fine, NotRead, Decided, Verdict, At, UnderWay, AfterRoles
  <2> QED
    BY <2>4, <2>5, <2>6 DEF Fine
<1> QED
  BY <1>2, <1>3

\* A request that does not move keeps what it has.
LEMMA OthersFine ==
  ASSUME NEW x \in Requests, Fine(x), check'[x] = check[x], past'[x] = past[x], UNCHANGED tables
  PROVE  Fine(x)'
<1>1. Facts' = Facts
  BY TablesStand
<1> QED
  BY <1>1 DEF Fine, Bracketed, RolesRead, NotSuper, MenusRead, PermsRead, NotRead, Decided, Verdict, At

LEMMA SuperGranted ==
  ASSUME NEW t, NEW a, NEW rt, NEW r \in RolesOf(t, a), r \in t.supers PROVE Granted(t, a, rt)
BY DEF RolesOf, Granted

\* A check that opens a route with what it read passes on facts that were there.
LEMMA OpensGranted ==
  ASSUME NEW t, NEW a, NEW rt, NEW R, NEW M, NEW P,
         R \subseteq RolesOf(t, a), M \subseteq MenusOf(t, R), P \subseteq PermsOf(t, M),
         Opens(t, P, rt)
  PROVE  Granted(t, a, rt)
BY DEF RolesOf, MenusOf, PermsOf, Opens, Granted

\* A check that read at least what was always there opens what that grants.
LEMMA GrantedOpens ==
  ASSUME NEW t, NEW a, NEW rt, NEW R, NEW M, NEW P,
         RolesOf(t, a) \subseteq R, R \cap t.supers = {}, t.supers \subseteq Roles,
         MenusOf(t, R) \subseteq M, PermsOf(t, M) \subseteq P, Granted(t, a, rt)
  PROVE  Opens(t, P, rt)
BY DEF RolesOf, MenusOf, PermsOf, Opens, Granted

LEMMA CheckFine == ASSUME RInv, NEW w \in Requests, Check(w) PROVE Fine(w)'
<1> USE DEF At, UnderWay, AfterRoles, AfterSuper, AfterMenu
<1>1. UNCHANGED tables
  BY DEF Check, Begin, UserRoleIDs, CheckSuper, MenusOfRoles, PermsOfMenus, CheckRoute, QueryFails, Leave
<1>2. Facts' = Facts
  BY <1>1, TablesStand
<1>3. check \in [Requests -> Way] /\ past \in [Requests -> History] /\ Fine(w)
  BY DEF RInv, TypeOK
<1>4. ASSUME NEW a \in Accounts, NEW rt \in Routes, Begin(w, a, rt) PROVE Fine(w)'
  <2>1. check'[w].pc = "roles" /\ check'[w].menus = {} /\ check'[w].perms = {}
    BY <1>3, <1>4 DEF Begin, Idle
  <2>2. past'[w].always = Facts /\ past'[w].ever = Facts
    BY <1>3, <1>4 DEF Begin
  <2> QED
    BY <1>2, <2>1, <2>2 DEF Fine, Bracketed, RolesRead, NotSuper, MenusRead, PermsRead, NotRead,
       Decided, Verdict
<1>5. CASE UserRoleIDs(w)
  <2>1. /\ check[w].pc = "roles"
        /\ check'[w] = [check[w] EXCEPT !.pc = "super", !.roles = RolesOf(Facts, check[w].admin)]
        /\ past' = past
    BY <1>3, <1>5 DEF UserRoleIDs
  <2>2. /\ check'[w].pc = "super" /\ check'[w].roles = RolesOf(Facts, check[w].admin)
        /\ check'[w].admin = check[w].admin /\ check'[w].menus = {} /\ check'[w].perms = {}
    BY <1>3, <2>1 DEF Way, Fine, NotRead
  <2>3. Bracketed(w)' /\ RolesRead(w)'
    BY <1>2, <1>3, <2>1, <2>2 DEF Fine, Bracketed, RolesRead, RolesOf, Kinds
  <2> QED
    BY <2>2, <2>3 DEF Fine, NotSuper, MenusRead, PermsRead, NotRead, Decided, Verdict
<1>6. CASE CheckSuper(w)
  <2>1. check[w].pc = "super" /\ past' = past
    BY <1>6 DEF CheckSuper
  <2>2. CASE IsSuper(Facts, check[w].roles)
    <3>1. /\ check'[w].pc = "done" /\ check'[w].verdict = "allow" /\ check'[w].admin = check[w].admin
          /\ check'[w].route = check[w].route
      BY <1>3, <1>6, <2>2 DEF CheckSuper, Decide, Way
    <3>2. PICK r \in check[w].roles : r \in past[w].ever.supers
      BY <1>3, <2>1, <2>2 DEF IsSuper, Fine, Bracketed, Kinds
    <3>3. Granted(past[w].ever, check[w].admin, check[w].route)
      BY <1>3, <2>1, <3>2, SuperGranted DEF Fine, RolesRead
    <3>4. Decided(w)'
      BY <2>1, <3>1, <3>3 DEF Decided, Verdict
    <3> QED
      BY <3>1, <3>4 DEF Fine, Bracketed, RolesRead, NotSuper, MenusRead, PermsRead, NotRead
  <2>3. CASE ~IsSuper(Facts, check[w].roles)
    <3>1. /\ check'[w].pc = IF check[w].roles = {} THEN "route" ELSE "menus"
          /\ check'[w].admin = check[w].admin /\ check'[w].roles = check[w].roles
          /\ check'[w].menus = {} /\ check'[w].perms = {}
      BY <1>3, <1>6, <2>1, <2>3 DEF CheckSuper, Way, Fine, NotRead
    <3>2. Bracketed(w)' /\ RolesRead(w)'
      BY <1>2, <1>3, <2>1, <3>1 DEF Fine, Bracketed, RolesRead
    <3>3. NotSuper(w)'
      BY <1>3, <2>1, <2>3, <3>1 DEF Fine, Bracketed, NotSuper, IsSuper, Kinds
    <3>4. MenusRead(w)' /\ PermsRead(w)' /\ NotRead(w)' /\ Decided(w)'
      BY <2>1, <3>1 DEF MenusRead, PermsRead, NotRead, Decided, Verdict, MenusOf, PermsOf
    <3> QED
      BY <3>2, <3>3, <3>4 DEF Fine
  <2> QED
    BY <2>2, <2>3
<1>7. CASE MenusOfRoles(w)
  <2> DEFINE M == MenusOf(Facts, check[w].roles)
  <2>1. check[w].pc = "menus" /\ past' = past
    BY <1>7 DEF MenusOfRoles
  <2>2. /\ check'[w].pc = (IF M = {} THEN "route" ELSE "perms") /\ check'[w].menus = M
        /\ check'[w].admin = check[w].admin /\ check'[w].roles = check[w].roles /\ check'[w].perms = {}
    BY <1>3, <1>7, <2>1 DEF MenusOfRoles, AfterMenus, Way, Fine, NotRead
  <2>3. Bracketed(w)' /\ RolesRead(w)' /\ NotSuper(w)'
    BY <1>2, <1>3, <2>1, <2>2 DEF Fine, Bracketed, RolesRead, NotSuper
  <2>4. MenusRead(w)'
    BY <1>3, <2>1, <2>2 DEF Fine, Bracketed, MenusRead, MenusOf, Kinds
  <2>5. PermsRead(w)' /\ NotRead(w)' /\ Decided(w)'
    BY <2>2 DEF PermsRead, NotRead, Decided, Verdict, PermsOf
  <2> QED
    BY <2>3, <2>4, <2>5 DEF Fine
<1>8. CASE PermsOfMenus(w)
  <2>1. check[w].pc = "perms" /\ past' = past
    BY <1>8 DEF PermsOfMenus
  <2>2. /\ check'[w].pc = "route" /\ check'[w].perms = PermsOf(Facts, check[w].menus)
        /\ check'[w].admin = check[w].admin /\ check'[w].roles = check[w].roles
        /\ check'[w].menus = check[w].menus
    BY <1>3, <1>8 DEF PermsOfMenus, Way
  <2>3. Bracketed(w)' /\ RolesRead(w)' /\ NotSuper(w)' /\ MenusRead(w)'
    BY <1>2, <1>3, <2>1, <2>2 DEF Fine, Bracketed, RolesRead, NotSuper, MenusRead
  <2>4. PermsRead(w)'
    BY <1>3, <2>1, <2>2 DEF Fine, Bracketed, PermsRead, PermsOf, Kinds
  <2> QED
    BY <2>2, <2>3, <2>4 DEF Fine, NotRead, Decided, Verdict
<1>9. CASE CheckRoute(w)
  <2> DEFINE c == check[w]
  <2>1. /\ c.pc = "route" /\ past' = past /\ check'[w].pc = "done"
        /\ check'[w].verdict = (IF Opens(Facts, c.perms, c.route) THEN "allow" ELSE "deny")
        /\ check'[w].admin = c.admin /\ check'[w].route = c.route
    BY <1>3, <1>9 DEF CheckRoute, Decide, Way
  <2>2. /\ \A k \in Kinds : past[w].always[k] \subseteq Facts[k] /\ Facts[k] \subseteq past[w].ever[k]
        /\ RolesRead(w) /\ NotSuper(w) /\ MenusRead(w) /\ PermsRead(w)
    BY <1>3, <2>1 DEF Fine, Bracketed
  <2>3. ASSUME Opens(Facts, c.perms, c.route)
        PROVE  Granted(past[w].ever, c.admin, c.route)
    <3>1. Opens(past[w].ever, c.perms, c.route)
      BY <2>2, <2>3 DEF Opens, Kinds
    <3> QED
      BY <2>1, <2>2, <3>1, OpensGranted DEF RolesRead, MenusRead, PermsRead
  <2>4. ASSUME Granted(past[w].always, c.admin, c.route)
        PROVE  Opens(Facts, c.perms, c.route)
    <3>1. past[w].always.supers \subseteq Roles
      BY <2>2 DEF Facts, Kinds
    <3>2. Opens(past[w].always, c.perms, c.route)
      BY <2>1, <2>2, <2>4, <3>1, GrantedOpens DEF RolesRead, NotSuper, MenusRead, PermsRead
    <3> QED
      BY <2>2, <3>2 DEF Opens, Kinds
  <2>5. Decided(w)'
    BY <2>1, <2>3, <2>4 DEF Decided, Verdict
  <2> QED
    BY <2>1, <2>5 DEF Fine, Bracketed, RolesRead, NotSuper, MenusRead, PermsRead, NotRead
<1>10. CASE QueryFails(w)
  <2>1. check'[w].pc = "done" /\ check'[w].verdict = "error"
    BY <1>3, <1>10 DEF QueryFails, Decide, Way
  <2> QED
    BY <2>1 DEF Fine, Bracketed, RolesRead, NotSuper, MenusRead, PermsRead, NotRead, Decided, Verdict
<1>11. CASE Leave(w)
  <2>1. check'[w].pc = "idle"
    BY <1>3, <1>11 DEF Leave, Idle
  <2> QED
    BY <2>1 DEF Fine, Bracketed, RolesRead, NotSuper, MenusRead, PermsRead, NotRead, Decided, Verdict
<1> QED
  BY <1>4, <1>5, <1>6, <1>7, <1>8, <1>9, <1>10, <1>11 DEF Check

-----------------------------------------------------------------------------
LEMMA InitRInv == Init => RInv
BY InitTyped DEF Init, Idle, RInv, Fine, Bracketed, RolesRead, NotSuper, MenusRead, PermsRead, NotRead,
   Decided, Verdict, At, UnderWay, AfterRoles, AfterSuper, AfterMenu

LEMMA NextRInv == RInv /\ [Next]_vars => RInv'
<1>1. ASSUME RInv, [Next]_vars PROVE TypeOK'
  BY <1>1, StepTyped DEF RInv
<1> SUFFICES ASSUME RInv, [Next]_vars, NEW x \in Requests PROVE Fine(x)'
  BY <1>1 DEF RInv
<1>2. CASE Change
  BY <1>2, ChangeFine
<1>3. ASSUME NEW w \in Requests, Check(w) PROVE Fine(x)'
  <2>1. CASE x = w
    BY <1>3, <2>1, CheckFine
  <2>2. CASE x # w
    <3>1. check'[x] = check[x] /\ past'[x] = past[x] /\ UNCHANGED tables
      BY <1>3, <2>2 DEF Check, Begin, UserRoleIDs, CheckSuper, MenusOfRoles, PermsOfMenus, CheckRoute,
         QueryFails, Leave, Decide, RInv, TypeOK
    <3> QED
      BY <3>1, OthersFine DEF RInv
  <2> QED
    BY <2>1, <2>2
<1>4. CASE UNCHANGED vars
  BY <1>4, OthersFine DEF vars, RInv
<1> QED
  BY <1>2, <1>3, <1>4 DEF Next

LEMMA RInvHolds == Spec => []RInv
<1>1. Init => RInv
  BY InitRInv
<1>2. RInv /\ [Next]_vars => RInv'
  BY NextRInv
<1> QED
  BY <1>1, <1>2, PTL DEF Spec

\* Types, and no query is made for an empty list of ids, for tables of any size.
THEOREM TypeCorrect == Spec => []TypeOK
<1>1. RInv => TypeOK
  BY DEF RInv
<1> QED
  BY <1>1, RInvHolds, PTL

\* However many changes commit between the queries of a check, it lets a request
\* pass only on rows and bindings that were there during the check.
THEOREM NothingInvented == Spec => []AdmissionExplained
<1>1. RInv => AdmissionExplained
  BY DEF RInv, Fine, Decided, AdmissionExplained
<1> QED
  BY <1>1, RInvHolds, PTL

\* However many changes commit, what an administrator was granted throughout the
\* check is not refused.
THEOREM SteadyGrantHonoured == Spec => []RefusalExplained
<1>1. RInv => RefusalExplained
  BY DEF RInv, Fine, Decided, RefusalExplained
<1> QED
  BY <1>1, RInvHolds, PTL

-----------------------------------------------------------------------------
(* Bindings of deleted rows.                                               *)

\* A row loses its bindings when it is deleted, and has none afterwards but those
\* of requests that named it again.
THEOREM DeletionUnbinds == Spec => []NoDanglingBinding
<1>1. Init => NoDanglingBinding
  BY InitBound DEF Init
<1>2. TypeOK /\ NoDanglingBinding /\ [Next]_vars => NoDanglingBinding'
  <2> SUFFICES ASSUME TypeOK, NoDanglingBinding, [Next]_vars PROVE NoDanglingBinding'
    OBVIOUS
  <2>1. CASE Edit
    BY <2>1, EditAdminBound, EditRoleBound, EditMenuBound, EditPermBound DEF Edit, TypeOK
  <2>2. CASE UNCHANGED tables
    BY <2>2, TablesStand DEF NoDanglingBinding, tables, bindings
  <2>3. ASSUME NEW w \in Requests, Check(w) PROVE UNCHANGED tables
    BY <2>3 DEF Check, Begin, UserRoleIDs, CheckSuper, MenusOfRoles, PermsOfMenus, CheckRoute,
       QueryFails, Leave
  <2> QED
    BY <2>1, <2>2, <2>3 DEF Next, Change, vars
<1> QED
  BY <1>1, <1>2, TypeCorrect, PTL DEF Spec

-----------------------------------------------------------------------------
(* One change during a check.                                              *)

\* The kinds that a check has still to read, and those that one query reads together.
Unread(w) == CASE At(w, "roles") -> Kinds
               [] At(w, "super") -> Kinds \ {"adminRole"}
               [] At(w, "menus") -> Kinds \ {"adminRole", "supers"}
               [] At(w, "perms") -> Kinds \ {"adminRole", "supers", "roleMenu"}
               [] OTHER          -> {"open", "guarded"}
Groups    == {{"adminRole"}, {"supers"}, {"roleMenu"}, {"menuPerm"}, {"open", "guarded"}}

\* One change only adds, only takes away, or is about what one query reads.
Alike(s, t) == \/ \A k \in Kinds : s[k] \subseteq t[k]
               \/ \A k \in Kinds : t[k] \subseteq s[k]
               \/ \E G \in Groups : \A k \in Kinds \ G : s[k] = t[k]

\* What has been read is what t has, and what has not is what t has too.
ReadsAs(t, w) ==
    /\ check[w].pc \in AfterRoles => check[w].roles = RolesOf(t, check[w].admin)
    /\ check[w].pc \in AfterSuper => check[w].roles \cap t.supers = {}
    /\ check[w].pc \in AfterMenu  => check[w].menus = MenusOf(t, check[w].roles)
    /\ check[w].pc = "route"      => check[w].perms = PermsOf(t, check[w].menus)
Answered(t, w) == LET granted == Granted(t, check[w].admin, check[w].route) IN
    /\ granted  => TRUE \in past[w].answers
    /\ ~granted => FALSE \in past[w].answers
View(t, w) == /\ t \in FactSets /\ t.supers \subseteq Roles
              /\ ReadsAs(t, w) /\ Answered(t, w)
              /\ \A k \in Unread(w) : t[k] = Facts[k]

\* Before any change the check sees the facts.  After one it sees those of before
\* or those of after, unless the change only adds or only takes away: then the
\* brackets are those of before and those of after.
OneView(w) == check[w].pc \in UnderWay =>
    /\ past[w].since <= edits
    /\ edits = past[w].since =>
         View(Facts, w) /\ \A k \in Kinds : past[w].ever[k] = Facts[k] /\ past[w].always[k] = Facts[k]
    /\ edits = past[w].since + 1 =>
         (\E t \in FactSets : View(t, w)) \/ (Answered(past[w].ever, w) /\ Answered(past[w].always, w))

OneAnswer(w) == edits <= past[w].since + 1 =>
    /\ Verdict(w, "allow") => TRUE \in past[w].answers
    /\ Verdict(w, "deny")  => FALSE \in past[w].answers

ViewInv == \A w \in Requests : OneView(w) /\ OneAnswer(w)

\* Each kind of fact is read from one table.
LEMMA FactsStand ==
  /\ UNCHANGED adminRole => Facts["adminRole"] = (Facts')["adminRole"]
  /\ UNCHANGED roleMenu  => Facts["roleMenu"] = (Facts')["roleMenu"]
  /\ UNCHANGED menuPerm  => Facts["menuPerm"] = (Facts')["menuPerm"]
  /\ UNCHANGED role      => Facts["supers"] = (Facts')["supers"]
  /\ UNCHANGED perm      => Facts["open"] = (Facts')["open"] /\ Facts["guarded"] = (Facts')["guarded"]
<1>1. UNCHANGED perm => Covering(TRUE)' = Covering(TRUE) /\ Covering(FALSE)' = Covering(FALSE)
  BY DEF Covering, Active
<1>2. UNCHANGED role => {r \in Roles : Active(role[r]) /\ role[r].super}
                          = {r \in Roles : Active(role'[r]) /\ role'[r].super}
  BY DEF Active
<1> QED
  BY <1>1, <1>2 DEF Facts, Active

LEMMA AdminAlike ==
  ASSUME TablesOK, EditAdmin
  PROVE  \A k \in Kinds \ {"adminRole"} : Facts[k] = (Facts')[k]
<1>1. UNCHANGED <<role, perm, roleMenu, menuPerm>>
  BY DEF EditAdmin, CreateAdmin, UpdateAdmin, UpdateAdminOnly, UpdateAdminStatus, DeleteAdmin, bindings
<1> QED
  BY <1>1, FactsStand DEF Kinds

LEMMA RoleAlike == ASSUME TablesOK, EditRole PROVE Alike(Facts, Facts')
<1>1. ASSUME NEW r \in Roles, NEW super \in BOOLEAN, NEW on \in BOOLEAN,
             CreateRole(r, super, on) \/ UpdateRole(r, super, on)
      PROVE  \A k \in Kinds \ {"supers"} : Facts[k] = (Facts')[k]
  <2>1. UNCHANGED <<perm, adminRole, roleMenu, menuPerm>>
    BY <1>1 DEF CreateRole, UpdateRole, bindings
  <2> QED  BY <2>1, FactsStand DEF Kinds
<1>2. ASSUME NEW r \in Seen(role), DeleteRole(r)
      PROVE  \A k \in Kinds : (Facts')[k] \subseteq Facts[k]
  BY <1>2 DEF DeleteRole, TablesOK, RoleRow, Active, Bare, Facts, Kinds, Covering
<1>3. ASSUME NEW r \in Seen(role), NEW M \in SUBSET Seen(menu), AssignRoleMenus(r, M)
      PROVE  \A k \in Kinds \ {"roleMenu"} : Facts[k] = (Facts')[k]
  <2>1. UNCHANGED <<role, perm, adminRole, menuPerm>>
    BY <1>3 DEF AssignRoleMenus, rows
  <2> QED  BY <2>1, FactsStand DEF Kinds
<1> QED
  BY <1>1, <1>2, <1>3 DEF EditRole, Alike, Groups

LEMMA MenuAlike == ASSUME TablesOK, EditMenu PROVE Alike(Facts, Facts')
<1>1. ASSUME NEW m \in Menus, CreateMenu(m)
      PROVE  \A k \in Kinds : Facts[k] \subseteq (Facts')[k]
  BY <1>1 DEF CreateMenu, bindings, Facts, Kinds, Covering
<1>2. ASSUME NEW m \in Seen(menu), DeleteMenu(m)
      PROVE  \A k \in Kinds : (Facts')[k] \subseteq Facts[k]
  BY <1>2 DEF DeleteMenu, Bare, Facts, Kinds, Covering
<1>3. ASSUME NEW m \in Seen(menu), NEW P \in SUBSET Seen(perm), AssignMenuPerms(m, P)
      PROVE  \A k \in Kinds \ {"menuPerm"} : Facts[k] = (Facts')[k]
  <2>1. UNCHANGED <<role, perm, adminRole, roleMenu>>
    BY <1>3 DEF AssignMenuPerms, rows
  <2> QED  BY <2>1, FactsStand DEF Kinds
<1> QED
  BY <1>1, <1>2, <1>3 DEF EditMenu, Alike, Groups

LEMMA PermAlike == ASSUME TablesOK, EditPerm PROVE Alike(Facts, Facts')
<1>1. ASSUME NEW p \in Perms, NEW covers, NEW intercept, NEW on, NEW rt,
             CreatePerm(p, rt, on) \/ UpdatePerm(p, covers, intercept, on)
      PROVE  \A k \in Kinds \ {"open", "guarded"} : Facts[k] = (Facts')[k]
  <2>1. UNCHANGED <<role, adminRole, roleMenu, menuPerm>>
    BY <1>1 DEF CreatePerm, UpdatePerm, bindings
  <2> QED  BY <2>1, FactsStand DEF Kinds
<1>2. ASSUME NEW p \in Seen(perm), DeletePerm(p)
      PROVE  \A k \in Kinds : (Facts')[k] \subseteq Facts[k]
  BY <1>2 DEF DeletePerm, TablesOK, PermRow, Active, Bare, Facts, Kinds, Covering
<1> QED
  BY <1>1, <1>2 DEF EditPerm, Alike, Groups

LEMMA EditAlike == ASSUME TablesOK, Edit PROVE Alike(Facts, Facts') /\ edits' = edits + 1
<1>1. Alike(Facts, Facts')
  BY AdminAlike, RoleAlike, MenuAlike, PermAlike DEF Edit, Alike, Groups
<1>2. edits' = edits + 1
  BY DEF Edit, EditAdmin, EditRole, EditMenu, EditPerm, CreateAdmin, UpdateAdmin, UpdateAdminOnly,
     UpdateAdminStatus, DeleteAdmin, CreateRole, UpdateRole, DeleteRole, AssignRoleMenus, CreateMenu,
     DeleteMenu, AssignMenuPerms, CreatePerm, UpdatePerm, DeletePerm, Counted
<1> QED
  BY <1>1, <1>2

\* Whether facts grant something depends on nothing but the facts.
LEMMA GrantedSame ==
  ASSUME NEW s, NEW t, \A k \in Kinds : s[k] = t[k], NEW a, NEW rt
  PROVE  Granted(s, a, rt) <=> Granted(t, a, rt)
BY DEF Granted, Kinds

\* What has been read does not depend on what has not.
LEMMA ReadsSame ==
  ASSUME NEW s, NEW t, NEW w, check[w].pc \in UnderWay, ReadsAs(s, w),
         \A k \in Kinds \ Unread(w) : s[k] = t[k]
  PROVE  ReadsAs(t, w)
<1> USE DEF At, UnderWay, AfterRoles, AfterSuper, AfterMenu, Unread, Kinds
<1>1. check[w].pc \in AfterRoles => RolesOf(s, check[w].admin) = RolesOf(t, check[w].admin)
  BY DEF RolesOf
<1>2. check[w].pc \in AfterSuper => s.supers = t.supers
  OBVIOUS
<1>3. check[w].pc \in AfterMenu => MenusOf(s, check[w].roles) = MenusOf(t, check[w].roles)
  BY DEF MenusOf
<1>4. check[w].pc = "route" => PermsOf(s, check[w].menus) = PermsOf(t, check[w].menus)
  BY DEF PermsOf
<1> QED
  BY <1>1, <1>2, <1>3, <1>4 DEF ReadsAs

LEMMA GroupsApart ==
  ASSUME NEW w, check[w].pc \in UnderWay, NEW G \in Groups
  PROVE  G \subseteq Unread(w) \/ G \cap Unread(w) = {}
BY DEF Groups, Unread, At, UnderWay, AfterRoles, Kinds

\* A change: the first one during a check leaves it a view, or the brackets answer.
LEMMA ChangeView ==
  ASSUME RInv, RInv', Change, NEW w \in Requests, OneView(w), OneAnswer(w)
  PROVE  OneView(w)' /\ OneAnswer(w)'
<1>1. /\ check' = check /\ Edit /\ edits' = edits + 1 /\ Alike(Facts, Facts')
      /\ past'[w] = IF check[w].pc \in {"idle", "done"} THEN past[w]
                    ELSE [past[w] EXCEPT !.ever = Join(@, Facts'), !.always = Meet(@, Facts'),
                            !.answers = @ \cup {Granted(Facts', check[w].admin, check[w].route)}]
  BY EditAlike DEF Change, Observe, RInv, TypeOK
<1>2. edits \in Int /\ past[w].since \in Int /\ Facts \in FactSets /\ Facts' \in FactSets
  <2>1. Facts \in FactSets /\ Facts' \in FactSets
    BY FactsTyped DEF RInv, TypeOK, Facts, FactSets, Kinds, Covering, TablesOK
  <2> QED
    BY <2>1 DEF RInv, TypeOK, TablesOK, History
<1>3. CASE check[w].pc \notin UnderWay
  <2>1. past'[w] = past[w]
    BY <1>1, <1>3 DEF RInv, TypeOK, Way, Steps, UnderWay, AfterRoles
  <2>2. edits' <= past'[w].since + 1 => edits <= past[w].since + 1
    BY <1>1, <1>2, <2>1
  <2> QED
    BY <1>1, <1>3, <2>1, <2>2 DEF OneView, OneAnswer, Verdict, At
<1>4. CASE check[w].pc \in UnderWay
  <2>1. OneAnswer(w)'
    BY <1>1, <1>4 DEF OneAnswer, Verdict, At, UnderWay, AfterRoles
  <2>2. past[w].since <= edits /\ past'[w].since = past[w].since
    BY <1>1, <1>4 DEF OneView, RInv, TypeOK, History, UnderWay, AfterRoles
  <2>3. CASE edits # past[w].since
    <3>1. edits' > past'[w].since + 1
      BY <1>1, <1>2, <2>2, <2>3
    <3> QED
      BY <1>1, <1>2, <2>1, <2>2, <3>1 DEF OneView
  <2>4. CASE edits = past[w].since
    <3>1. /\ View(Facts, w)
          /\ \A k \in Kinds : past[w].ever[k] = Facts[k] /\ past[w].always[k] = Facts[k]
      BY <1>4, <2>4 DEF OneView
    <3>2. /\ \A k \in Kinds : /\ past'[w].ever[k] = Facts[k] \cup (Facts')[k]
                              /\ past'[w].always[k] = Facts[k] \cap (Facts')[k]
          /\ past'[w].answers
                = past[w].answers \cup {Granted(Facts', check[w].admin, check[w].route)}
      <4>1. past[w] \in History
        BY DEF RInv, TypeOK
      <4>2. /\ past'[w].ever = Join(past[w].ever, Facts')
            /\ past'[w].always = Meet(past[w].always, Facts')
            /\ past'[w].answers
                = past[w].answers \cup {Granted(Facts', check[w].admin, check[w].route)}
        BY <1>1, <1>4, <4>1 DEF History, UnderWay, AfterRoles
      <4> QED
        BY <3>1, <4>2 DEF Join, Meet
    <3>3. ASSUME NEW t, \A k \in Kinds : t[k] = Facts[k] PROVE Answered(t, w)'
      <4>1. Granted(t, check[w].admin, check[w].route)
              <=> Granted(Facts, check[w].admin, check[w].route)
        BY <3>3, GrantedSame
      <4> QED
        BY <1>1, <3>1, <3>2, <4>1 DEF View, Answered
    <3>4. ASSUME NEW t, \A k \in Kinds : t[k] = (Facts')[k] PROVE Answered(t, w)'
      <4>1. Granted(t, check[w].admin, check[w].route)
              <=> Granted(Facts', check[w].admin, check[w].route)
        BY <3>4, GrantedSame
      <4>2. Granted(Facts', check[w].admin, check[w].route) \in BOOLEAN
        BY DEF Granted
      <4> QED
        BY <1>1, <3>2, <4>1, <4>2 DEF Answered
    <3> DEFINE ever == past'[w].ever
               always == past'[w].always
    <3>5. CASE \A k \in Kinds : Facts[k] \subseteq (Facts')[k]
      <4>1. (\A k \in Kinds : ever[k] = (Facts')[k]) /\ \A k \in Kinds : always[k] = Facts[k]
        BY <3>2, <3>5
      <4>2. Answered(past[w].ever, w)' /\ Answered(past[w].always, w)'
        BY <3>3, <3>4, <4>1 DEF Answered
      <4> QED
        BY <1>1, <1>2, <2>1, <2>2, <2>4, <4>2 DEF OneView
    <3>6. CASE \A k \in Kinds : (Facts')[k] \subseteq Facts[k]
      <4>1. (\A k \in Kinds : ever[k] = Facts[k]) /\ \A k \in Kinds : always[k] = (Facts')[k]
        BY <3>2, <3>6
      <4>2. Answered(past[w].ever, w)' /\ Answered(past[w].always, w)'
        BY <3>3, <3>4, <4>1 DEF Answered
      <4> QED
        BY <1>1, <1>2, <2>1, <2>2, <2>4, <4>2 DEF OneView
    <3>7. ASSUME NEW G \in Groups, \A k \in Kinds \ G : Facts[k] = (Facts')[k]
          PROVE  OneView(w)'
      <4>1. Unread(w)' = Unread(w) /\ Unread(w) \subseteq Kinds
        BY <1>1 DEF Unread, At, Kinds
      <4>2. CASE G \subseteq Unread(w)
        <5>1. ReadsAs(Facts', w)
          BY <1>4, <3>1, <3>7, <4>2, ReadsSame DEF View
        <5>2. ReadsAs(Facts, w)'
          BY <1>1, <5>1 DEF ReadsAs
        <5>3. Answered(Facts, w)'
          BY <3>4 DEF Answered
        <5>4. View(Facts, w)'
          BY <1>2, <5>2, <5>3 DEF View, Facts
        <5> QED
          BY <1>1, <1>2, <2>1, <2>2, <2>4, <5>4 DEF OneView
      <4>3. CASE G \cap Unread(w) = {}
        <5>1. \A k \in Unread(w) : Facts[k] = (Facts')[k]
          BY <3>7, <4>1, <4>3
        <5>2. PICK t \in FactSets : t = Facts
          BY <1>2
        <5>3. ReadsAs(t, w) /\ Answered(t, w)'
          BY <3>1, <3>3, <5>2 DEF View
        <5>4. \A k \in Unread(w)' : t[k] = (Facts')[k]
          BY <4>1, <5>1, <5>2
        <5>5. ReadsAs(t, w)'
          BY <1>1, <5>3 DEF ReadsAs
        <5>6. View(t, w)'
          BY <3>1, <5>2, <5>3, <5>4, <5>5 DEF View
        <5>7. \E u \in FactSets : View(u, w)'
          BY <5>6
        <5> QED
          BY <1>1, <1>2, <2>2, <2>4, <5>7 DEF OneView
      <4> QED
        BY <1>4, <4>2, <4>3, GroupsApart
    <3> QED
      BY <1>1, <2>1, <3>5, <3>6, <3>7 DEF Alike
  <2> QED
    BY <2>3, <2>4
<1> QED
  BY <1>3, <1>4

\* A query of the check.
Queries(w) == \/ UserRoleIDs(w) \/ CheckSuper(w) \/ MenusOfRoles(w) \/ PermsOfMenus(w)
              \/ CheckRoute(w) \/ QueryFails(w)

LEMMA QueryFrame ==
  ASSUME TypeOK, NEW w \in Requests, Queries(w)
  PROVE  /\ UNCHANGED <<tables, past>> /\ Facts' = Facts /\ check[w].pc \in UnderWay
         /\ check'[w].admin = check[w].admin /\ check'[w].route = check[w].route
<1>1. UNCHANGED <<tables, past>>
  BY DEF Queries, UserRoleIDs, CheckSuper, MenusOfRoles, PermsOfMenus, CheckRoute, QueryFails
<1>2. check[w].pc \in UnderWay
  BY DEF Queries, UserRoleIDs, CheckSuper, MenusOfRoles, PermsOfMenus, CheckRoute, QueryFails, At,
     TypeOK, Way, Steps, UnderWay, AfterRoles
<1>3. check'[w].admin = check[w].admin /\ check'[w].route = check[w].route
  BY DEF Queries, UserRoleIDs, CheckSuper, MenusOfRoles, PermsOfMenus, CheckRoute, QueryFails, Decide,
     TypeOK, Way
<1> QED
  BY <1>1, <1>2, <1>3, TablesStand

\* A check that sees the facts of a view decides as they do.
LEMMA QueryView ==
  ASSUME RInv, NEW w \in Requests, Queries(w), NEW t \in FactSets, View(t, w)
  PROVE  /\ check'[w].pc \in UnderWay => View(t, w)'
         /\ Verdict(w, "allow")' => TRUE \in past'[w].answers
         /\ Verdict(w, "deny")'  => FALSE \in past'[w].answers
<1> USE DEF At, UnderWay, AfterRoles, AfterSuper, AfterMenu
<1>1. /\ past' = past /\ Facts' = Facts
      /\ check'[w].admin = check[w].admin /\ check'[w].route = check[w].route
  BY QueryFrame DEF RInv
<1>2. /\ check \in [Requests -> Way] /\ NotRead(w) /\ ReadsAs(t, w) /\ Answered(t, w)
      /\ \A k \in Unread(w) : t[k] = Facts[k]
  BY DEF RInv, Fine, TypeOK, View
<1>3. Answered(t, w)'
  BY <1>1, <1>2 DEF Answered
<1>4. CASE UserRoleIDs(w)
  <2>1. check[w].pc = "roles" /\ check'[w].pc = "super"
        /\ check'[w].roles = RolesOf(Facts, check[w].admin)
    BY <1>2, <1>4 DEF UserRoleIDs, Way
  <2>2. RolesOf(t, check[w].admin) = RolesOf(Facts, check[w].admin)
    BY <1>2, <2>1 DEF RolesOf, Unread, Kinds
  <2>3. ReadsAs(t, w)'
    BY <1>1, <2>1, <2>2 DEF ReadsAs
  <2>4. Unread(w)' \subseteq Unread(w)
    BY <2>1 DEF Unread
  <2> QED
    BY <1>1, <1>2, <1>3, <2>1, <2>3, <2>4 DEF View, Verdict
<1>5. CASE CheckSuper(w)
  <2>1. check[w].pc = "super" /\ t.supers = Facts.supers
    BY <1>2, <1>5 DEF CheckSuper, Unread, Kinds
  <2>2. CASE IsSuper(Facts, check[w].roles)
    <3>1. check'[w].pc = "done" /\ check'[w].verdict = "allow"
      BY <1>2, <1>5, <2>2 DEF CheckSuper, Decide, Way
    <3>2. PICK r \in check[w].roles : r \in t.supers
      BY <2>1, <2>2 DEF IsSuper
    <3>3. r \in RolesOf(t, check[w].admin)
      BY <1>2, <2>1, <3>2 DEF ReadsAs
    <3>4. Granted(t, check[w].admin, check[w].route)
      BY <3>2, <3>3, SuperGranted
    <3> QED
      BY <1>1, <1>2, <3>1, <3>4 DEF Answered, Verdict
  <2>3. CASE ~IsSuper(Facts, check[w].roles)
    <3>1. /\ check'[w].pc = IF check[w].roles = {} THEN "route" ELSE "menus"
          /\ check'[w].roles = check[w].roles
          /\ check'[w].menus = {} /\ check'[w].perms = {}
      BY <1>2, <1>5, <2>1, <2>3 DEF CheckSuper, Way, NotRead
    <3>2. ReadsAs(t, w)'
      BY <1>1, <1>2, <2>1, <2>3, <3>1 DEF ReadsAs, IsSuper, MenusOf, PermsOf
    <3>3. Unread(w)' \subseteq Unread(w)
      BY <2>1, <3>1 DEF Unread, Kinds
    <3> QED
      BY <1>1, <1>2, <1>3, <3>1, <3>2, <3>3 DEF View, Verdict
  <2> QED
    BY <2>2, <2>3
<1>6. CASE MenusOfRoles(w)
  <2> DEFINE M == MenusOf(Facts, check[w].roles)
  <2>1. /\ check[w].pc = "menus" /\ check'[w].pc = (IF M = {} THEN "route" ELSE "perms")
        /\ check'[w].menus = M /\ check'[w].roles = check[w].roles /\ check'[w].perms = {}
    BY <1>2, <1>6 DEF MenusOfRoles, AfterMenus, Way, NotRead
  <2>2. MenusOf(t, check[w].roles) = M
    BY <1>2, <2>1 DEF MenusOf, Unread, Kinds
  <2>3. M = {} => PermsOf(t, M) = {}
    BY DEF PermsOf
  <2> HIDE DEF M
  <2>4. ReadsAs(t, w)'
    BY <1>1, <1>2, <2>1, <2>2, <2>3 DEF ReadsAs
  <2>5. Unread(w)' \subseteq Unread(w)
    BY <2>1 DEF Unread, Kinds
  <2> QED
    BY <1>1, <1>2, <1>3, <2>1, <2>4, <2>5 DEF View, Verdict
<1>7. CASE PermsOfMenus(w)
  <2>1. /\ check[w].pc = "perms" /\ check'[w].pc = "route"
        /\ check'[w].perms = PermsOf(Facts, check[w].menus)
        /\ check'[w].roles = check[w].roles /\ check'[w].menus = check[w].menus
    BY <1>2, <1>7 DEF PermsOfMenus, Way
  <2>2. PermsOf(t, check[w].menus) = PermsOf(Facts, check[w].menus)
    BY <1>2, <2>1 DEF PermsOf, Unread, Kinds
  <2>3. ReadsAs(t, w)'
    BY <1>1, <1>2, <2>1, <2>2 DEF ReadsAs
  <2>4. Unread(w)' \subseteq Unread(w)
    BY <2>1 DEF Unread, Kinds
  <2> QED
    BY <1>1, <1>2, <1>3, <2>1, <2>3, <2>4 DEF View, Verdict
<1>8. CASE CheckRoute(w)
  <2> DEFINE c == check[w]
  <2>1. /\ c.pc = "route" /\ check'[w].pc = "done"
        /\ check'[w].verdict = (IF Opens(Facts, c.perms, c.route) THEN "allow" ELSE "deny")
    BY <1>2, <1>8 DEF CheckRoute, Decide, Way
  <2>2. Opens(Facts, c.perms, c.route) <=> Opens(t, c.perms, c.route)
    BY <1>2, <2>1 DEF Opens, Unread
  <2>3. t.supers \subseteq Roles
    BY DEF View
  <2>4. Opens(t, c.perms, c.route) <=> Granted(t, c.admin, c.route)
    <3>1. /\ c.roles = RolesOf(t, c.admin) /\ c.roles \cap t.supers = {}
          /\ c.menus = MenusOf(t, c.roles) /\ c.perms = PermsOf(t, c.menus)
      BY <1>2, <2>1 DEF ReadsAs
    <3> QED
      BY <2>3, <3>1, OpensGranted, GrantedOpens
  <2> QED
    BY <1>1, <1>2, <2>1, <2>2, <2>4 DEF Answered, Verdict
<1>9. CASE QueryFails(w)
  <2>1. check'[w].pc = "done" /\ check'[w].verdict = "error"
    BY <1>2, <1>9 DEF QueryFails, Decide, Way
  <2> QED
    BY <2>1 DEF Verdict
<1> QED
  BY <1>4, <1>5, <1>6, <1>7, <1>8, <1>9 DEF Queries

LEMMA CheckView ==
  ASSUME RInv, RInv', NEW w \in Requests, Check(w), OneView(w), OneAnswer(w)
  PROVE  OneView(w)' /\ OneAnswer(w)'
<1>1. edits \in Int /\ past[w].since \in Int /\ Facts \in FactSets
      /\ check \in [Requests -> Way] /\ past \in [Requests -> History]
  BY FactsTyped DEF RInv, TypeOK, TablesOK, History
<1>2. ASSUME NEW a \in Accounts, NEW rt \in Routes, Begin(w, a, rt)
      PROVE  OneView(w)' /\ OneAnswer(w)'
  <2>1. /\ check'[w].pc = "roles" /\ check'[w].admin = a /\ check'[w].route = rt
        /\ past'[w] = [ever |-> Facts, always |-> Facts,
                       answers |-> {Granted(Facts, a, rt)}, since |-> edits]
        /\ UNCHANGED tables
    BY <1>1, <1>2 DEF Begin, Idle
  <2>2. Facts' = Facts /\ edits' = edits
    BY <2>1, TablesStand DEF tables
  <2>3. Granted(Facts, a, rt) \in BOOLEAN
    BY DEF Granted
  <2>4. Answered(Facts, w)'
    <3>1. PICK t \in FactSets : t = Facts
      BY <1>1
    <3>2. Granted(t, a, rt) \in past'[w].answers /\ Granted(t, a, rt) \in BOOLEAN
      BY <2>1, <2>3, <3>1
    <3>3. Granted(t, a, rt) => TRUE \in past'[w].answers
      BY <3>2
    <3>4. ~Granted(t, a, rt) => FALSE \in past'[w].answers
      BY <3>2
    <3>5. Answered(t, w)'
      BY <2>1, <3>3, <3>4 DEF Answered
    <3> QED
      BY <2>2, <3>1, <3>5 DEF Answered
  <2>5. ReadsAs(Facts, w)'
    BY <2>1 DEF ReadsAs, AfterRoles, AfterSuper, AfterMenu
  <2>6. View(Facts, w)'
    BY <1>1, <2>2, <2>4, <2>5 DEF View, Facts
  <2> QED
    BY <1>1, <2>1, <2>2, <2>6 DEF OneView, OneAnswer, Verdict, At
<1>3. CASE Queries(w)
  <2>1. past' = past /\ Facts' = Facts /\ edits' = edits /\ check[w].pc \in UnderWay
        /\ check'[w].admin = check[w].admin /\ check'[w].route = check[w].route
    BY <1>3, QueryFrame DEF RInv, tables
  <2>2. CASE edits = past[w].since
    <3>1. PICK t \in FactSets : t = Facts
      BY <1>1
    <3>2. View(t, w)
      BY <2>1, <2>2, <3>1 DEF OneView
    <3>3. /\ check'[w].pc \in UnderWay => View(t, w)'
          /\ Verdict(w, "allow")' => TRUE \in past'[w].answers
          /\ Verdict(w, "deny")'  => FALSE \in past'[w].answers
      BY <1>3, <3>2, QueryView
    <3>4. View(t, w)' => View(Facts, w)'
      BY <2>1, <3>1 DEF View, ReadsAs, Answered
    <3>5. \A k \in Kinds : past'[w].ever[k] = (Facts')[k] /\ past'[w].always[k] = (Facts')[k]
      BY <2>1, <2>2 DEF OneView
    <3>6. past[w].since <= edits /\ edits # past[w].since + 1
      BY <1>1, <2>2
    <3>7. past'[w].since <= edits' /\ edits' # past'[w].since + 1
      BY <2>1, <3>6
    <3>8. OneAnswer(w)'
      BY <3>3 DEF OneAnswer
    <3>9. OneView(w)'
      BY <3>3, <3>4, <3>5, <3>7 DEF OneView
    <3> QED
      BY <3>8, <3>9
  <2>3. CASE edits = past[w].since + 1
    <3>1. CASE \E t \in FactSets : View(t, w)
      <4>1. PICK t \in FactSets : View(t, w)
        BY <3>1
      <4>2. /\ check'[w].pc \in UnderWay => View(t, w)'
            /\ Verdict(w, "allow")' => TRUE \in past'[w].answers
            /\ Verdict(w, "deny")'  => FALSE \in past'[w].answers
        BY <1>3, <4>1, QueryView
      <4>3. check'[w].pc \in UnderWay => \E u \in FactSets : View(u, w)'
        BY <4>2
      <4>4. past'[w].since <= edits' /\ edits' # past'[w].since
        BY <1>1, <2>1, <2>3
      <4>5. OneAnswer(w)'
        BY <4>2 DEF OneAnswer
      <4>6. OneView(w)'
        BY <4>3, <4>4 DEF OneView
      <4> QED
        BY <4>5, <4>6
    <3>2. CASE Answered(past[w].ever, w) /\ Answered(past[w].always, w)
      <4>1. Answered(past[w].ever, w)' /\ Answered(past[w].always, w)'
        BY <2>1, <3>2 DEF Answered
      <4>2. Decided(w)'
        BY DEF RInv, Fine
      <4>3. OneAnswer(w)'
        BY <4>1, <4>2 DEF OneAnswer, Decided, Answered
      <4> QED
        BY <1>1, <2>1, <2>3, <4>1, <4>3 DEF OneView
    <3> QED
      BY <2>1, <2>3, <3>1, <3>2 DEF OneView
  <2>4. CASE edits > past[w].since + 1
    <3>1. /\ past'[w].since <= edits' /\ edits' # past'[w].since
          /\ edits' # past'[w].since + 1 /\ ~(edits' <= past'[w].since + 1)
      BY <1>1, <2>1, <2>4
    <3> QED
      BY <3>1 DEF OneView, OneAnswer
  <2>5. past[w].since <= edits
    BY <2>1 DEF OneView
  <2> QED
    BY <1>1, <2>2, <2>3, <2>4, <2>5
<1>4. CASE Leave(w)
  <2>1. check'[w].pc = "idle"
    BY <1>1, <1>4 DEF Leave, Idle
  <2> QED
    BY <2>1 DEF OneView, OneAnswer, Verdict, At, UnderWay, AfterRoles
<1> QED
  BY <1>2, <1>3, <1>4 DEF Check, Queries

LEMMA OthersView ==
  ASSUME NEW x \in Requests, OneView(x), OneAnswer(x),
         check'[x] = check[x], past'[x] = past[x], UNCHANGED tables
  PROVE  OneView(x)' /\ OneAnswer(x)'
<1>1. Facts' = Facts /\ edits' = edits
  BY TablesStand DEF tables
<1>2. ASSUME NEW t, View(t, x) PROVE View(t, x)'
  BY <1>1, <1>2 DEF View, ReadsAs, Answered, Unread, At
<1>3. View(Facts, x) => View(Facts, x)'
  BY <1>1 DEF View, ReadsAs, Answered, Unread, At
<1>4. /\ Answered(past[x].ever, x) => Answered(past[x].ever, x)'
      /\ Answered(past[x].always, x) => Answered(past[x].always, x)'
  BY DEF Answered
<1>5. (\E t \in FactSets : View(t, x)) => \E t \in FactSets : View(t, x)'
  BY <1>2
<1> QED
  BY <1>1, <1>3, <1>4, <1>5 DEF OneView, OneAnswer, Verdict, At

LEMMA NextView == ASSUME RInv, RInv', ViewInv, [Next]_vars PROVE ViewInv'
<1> SUFFICES ASSUME NEW x \in Requests PROVE OneView(x)' /\ OneAnswer(x)'
  BY DEF ViewInv
<1>1. OneView(x) /\ OneAnswer(x)
  BY DEF ViewInv
<1>2. CASE Change
  BY <1>1, <1>2, ChangeView
<1>3. ASSUME NEW w \in Requests, Check(w) PROVE OneView(x)' /\ OneAnswer(x)'
  <2>1. CASE x = w
    BY <1>1, <1>3, <2>1, CheckView
  <2>2. CASE x # w
    <3>1. check'[x] = check[x] /\ past'[x] = past[x] /\ UNCHANGED tables
      BY <1>3, <2>2 DEF Check, Begin, UserRoleIDs, CheckSuper, MenusOfRoles, PermsOfMenus, CheckRoute,
         QueryFails, Leave, Decide, RInv, TypeOK
    <3> QED
      BY <1>1, <3>1, OthersView
  <2> QED
    BY <2>1, <2>2
<1>4. CASE UNCHANGED vars
  BY <1>1, <1>4, OthersView DEF vars
<1> QED
  BY <1>2, <1>3, <1>4 DEF Next

\* While at most one change commits during a check, its verdict is the one that the
\* tables of before the change give, or the one that those of after give, although
\* they are read with up to five queries (middleware/rbac.go:85-135).
THEOREM OneChangeSeenWhole == Spec => []OneChangeAtomic
<1>1. Init => ViewInv
  <2>1. Init => \A w \in Requests : check[w].pc = "idle"
    BY DEF Init, Idle
  <2> QED
    BY <2>1 DEF ViewInv, OneView, OneAnswer, Verdict, At, UnderWay, AfterRoles
<1>2. RInv /\ RInv' /\ ViewInv /\ [Next]_vars => ViewInv'
  BY NextView
<1>3. ViewInv => OneChangeAtomic
  BY DEF ViewInv, OneAnswer, OneChangeAtomic
<1> QED
  BY <1>1, <1>2, <1>3, RInvHolds, PTL DEF Spec

=============================================================================
