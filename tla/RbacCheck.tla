----------------------------- MODULE RbacCheck ------------------------------
(***************************************************************************)
(* The RBAC middleware: whether an administrator may call a route.  It     *)
(* finds out with up to five queries, each on its own, while operators     *)
(* change the tables (module RbacTables).                                  *)
(***************************************************************************)
EXTENDS RbacTables

CONSTANTS Requests     \* requests in the middleware at the same time

VARIABLES
    check,    \* each request's way through the middleware
    past      \* history: what the tables have said since a check began

vars == <<tables, check, past>>

Idle == [pc |-> "idle", admin |-> Builtin, route |-> "none",
         roles |-> {}, menus |-> {}, perms |-> {}, verdict |-> "none"]

-----------------------------------------------------------------------------
(* What the queries would find now, each kind of fact a set.  *)

\* scopeActive leaves out deleted and disabled rows.
Active(row) == row.is = "live" /\ row.on
Covering(intercept) ==
    {b \in Perms \X Routes :
        Active(perm[b[1]]) /\ b[2] \in perm[b[1]].covers /\ perm[b[1]].intercept = intercept}
Facts ==
    [adminRole |-> adminRole, roleMenu |-> roleMenu, menuPerm |-> menuPerm,
     supers    |-> {r \in Roles : Active(role[r]) /\ role[r].super},
     open      |-> Covering(FALSE),
     guarded   |-> Covering(TRUE)]

Kinds      == {"adminRole", "roleMenu", "menuPerm", "supers", "open", "guarded"}
None       == [k \in Kinds |-> {}]
Join(s, t) == [k \in Kinds |-> s[k] \cup t[k]]
Meet(s, t) == [k \in Kinds |-> s[k] \cap t[k]]

RolesOf(t, a) == {r \in Roles : <<a, r>> \in t.adminRole}
MenusOf(t, R) == {m \in Menus : \E r \in R : <<r, m>> \in t.roleMenu}
PermsOf(t, M) == {p \in Perms : \E m \in M : <<m, p>> \in t.menuPerm}

\* A route without a matching permission is not registered: denied.
UnregisteredAllowed(t, P, rt) ==
    \/ ~\E p \in Perms : <<p, rt>> \in t.open \cup t.guarded
    \/ \E p \in Perms : <<p, rt>> \in t.open
    \/ \E p \in P : <<p, rt>> \in t.guarded
EveryMatchNeeded(t, P, rt) ==
    /\ \E p \in Perms : <<p, rt>> \in t.open \cup t.guarded
    /\ \A p \in Perms : <<p, rt>> \in t.open \cup t.guarded => <<p, rt>> \in t.open \/ p \in P
Opens(t, P, rt) ==
    \/ \E p \in Perms : <<p, rt>> \in t.open
    \/ \E p \in P : <<p, rt>> \in t.guarded

SuperUnscoped(t, R) == \E r \in R : role[r].super
IsSuper(t, R)       == R \cap t.supers # {}

\* What facts t grant: a super administrator may call every route, everybody a
\* route that is not intercepted, others what their roles' menus bring.
Granted(t, a, rt) ==
    \/ \E r \in t.supers : <<a, r>> \in t.adminRole
    \/ \E p \in Perms : <<p, rt>> \in t.open
    \/ \E r \in Roles, m \in Menus, p \in Perms :
         /\ <<a, r>> \in t.adminRole /\ <<r, m>> \in t.roleMenu /\ <<m, p>> \in t.menuPerm
         /\ <<p, rt>> \in t.guarded

Unobserved == [ever |-> None, always |-> None, answers |-> {}, since |-> 0]

Init ==
    /\ InitTables
    /\ check = [w \in Requests |-> Idle]
    /\ past  = [w \in Requests |-> Unobserved]

-----------------------------------------------------------------------------
At(w, step)  == check[w].pc = step
Decide(w, v) == check' = [check EXCEPT ![w].pc = "done", ![w].verdict = v]

\* The administrator's row is not looked at: a token is enough.
Begin(w, a, rt) ==
    /\ At(w, "idle")
    /\ check' = [check EXCEPT ![w] = [Idle EXCEPT !.pc = "roles", !.admin = a, !.route = rt]]
    /\ past'  = [past EXCEPT ![w] = [ever |-> Facts, always |-> Facts,
                                     answers |-> {Granted(Facts, a, rt)}, since |-> edits]]
    /\ UNCHANGED tables

UserRoleIDs(w) ==
    /\ At(w, "roles")
    /\ check' = [check EXCEPT ![w].pc = "super", ![w].roles = RolesOf(Facts, check[w].admin)]
    /\ UNCHANGED <<tables, past>>

CheckSuper(w) ==
    /\ At(w, "super")
    /\ IF IsSuper(Facts, check[w].roles) THEN Decide(w, "allow")
       ELSE check' = [check EXCEPT ![w].pc = IF check[w].roles = {} THEN "route" ELSE "menus"]
    /\ UNCHANGED <<tables, past>>

\* PermIDsOfRoles: two queries, the second only if the first found a menu.
AfterMenusAlways(M) == "perms"
AfterMenus(M)       == IF M = {} THEN "route" ELSE "perms"
MenusOfRoles(w) ==
    LET M == MenusOf(Facts, check[w].roles) IN
    /\ At(w, "menus")
    /\ check' = [check EXCEPT ![w].pc = AfterMenus(M), ![w].menus = M]
    /\ UNCHANGED <<tables, past>>

PermsOfMenus(w) ==
    /\ At(w, "perms")
    /\ check' = [check EXCEPT ![w].pc = "route", ![w].perms = PermsOf(Facts, check[w].menus)]
    /\ UNCHANGED <<tables, past>>

CheckRoute(w) ==
    /\ At(w, "route")
    /\ Decide(w, IF Opens(Facts, check[w].perms, check[w].route) THEN "allow" ELSE "deny")
    /\ UNCHANGED <<tables, past>>

\* Any of the queries fails: the request is refused.
QueryFails(w) ==
    /\ check[w].pc \notin {"idle", "done"}
    /\ Decide(w, "error")
    /\ UNCHANGED <<tables, past>>

\* The handler, or the refusal.
Leave(w) ==
    /\ At(w, "done")
    /\ check' = [check EXCEPT ![w] = Idle]
    /\ past'  = [past EXCEPT ![w] = Unobserved]
    /\ UNCHANGED tables

\* History: a check under way is told of each change.
Observe ==
    past' = [w \in Requests |->
        IF check[w].pc \in {"idle", "done"} THEN past[w]
        ELSE [past[w] EXCEPT !.ever = Join(@, Facts'), !.always = Meet(@, Facts'),
                !.answers = @ \cup {Granted(Facts', check[w].admin, check[w].route)}]]

Check(w) ==
    \/ \E a \in Accounts, rt \in Routes : Begin(w, a, rt)
    \/ UserRoleIDs(w) \/ CheckSuper(w) \/ MenusOfRoles(w) \/ PermsOfMenus(w)
    \/ CheckRoute(w) \/ QueryFails(w) \/ Leave(w)

Change == Edit /\ Observe /\ UNCHANGED check

Next == Change \/ \E w \in Requests : Check(w)

Spec == Init /\ [][Next]_vars

-----------------------------------------------------------------------------
Steps    == {"idle", "roles", "super", "menus", "perms", "route", "done"}
FactSets == [Kinds -> SUBSET ((Admins \X Roles) \cup (Roles \X Menus) \cup (Menus \X Perms)
                              \cup Roles \cup (Perms \X Routes))]

Way      == [pc : Steps, admin : Admins, route : Routes \cup {"none"}, roles : SUBSET Roles,
             menus : SUBSET Menus, perms : SUBSET Perms,
             verdict : {"none", "allow", "deny", "error"}]
History  == [ever : FactSets, always : FactSets, answers : SUBSET BOOLEAN, since : 0 .. MaxEdits]

\* Types; no query is made for an empty list of ids (auth_service.go:224, 237, 247).
TypeOK ==
    /\ TablesOK
    /\ check \in [Requests -> Way] /\ past \in [Requests -> History]
    /\ \A w \in Requests :
         /\ At(w, "menus") => check[w].roles # {}
         /\ At(w, "perms") => check[w].roles # {} /\ check[w].menus # {}

Verdict(w, v) == At(w, "done") /\ check[w].verdict = v

\* Whatever changes while a request is checked, it does not pass on something
\* that was never there: each row and binding that lets it through existed at
\* some moment of the check (middleware/rbac.go:85-135).
AdmissionExplained ==
    \A w \in Requests :
        Verdict(w, "allow") => Granted(past[w].ever, check[w].admin, check[w].route)

\* And what an administrator was granted throughout is not refused, unless a
\* query fails: no change of other rows gets in the way.
RefusalExplained ==
    \A w \in Requests :
        Verdict(w, "deny") => ~Granted(past[w].always, check[w].admin, check[w].route)

\* While at most one change commits, the queries look like one: the decision is
\* the one of before or the one of after the change.
OneChangeAtomic ==
    \A w \in Requests :
        edits <= past[w].since + 1 =>
            /\ Verdict(w, "allow") => TRUE \in past[w].answers
            /\ Verdict(w, "deny")  => FALSE \in past[w].answers

=============================================================================
