----------------------------- MODULE ServerCalls ----------------------------
(***************************************************************************)
(* The requests that the admin service only forwards to ClipSync-Server,   *)
(* over HTTP and without a second way: CreateUser, RenameDevice,           *)
(* CreateAPIKey, RevokeAPIKey.  The HTTP client waits five seconds and     *)
(* never repeats a call; the Server may carry one out that nobody waits    *)
(* for any more.  Meanwhile an operator pages through ListUsers and others *)
(* delete users.                                                           *)
(*                                                                         *)
(* The Server is outside the repository and is modelled from the answers   *)
(* that ServerNotifier tells apart.                                        *)
(***************************************************************************)
EXTENDS Integers, FiniteSets

CONSTANTS
    Names,       \* user names
    Existing,    \* the names of the users that are there at first, by id
    Labels,      \* names for a device
    Workers,     \* request goroutines alive at the same time
    PageSize,
    MaxUsers, MaxKeys,   \* bounds: ids
    MaxCalls,    \* bound: forwarded requests
    MaxDeletes,  \* bound: deleted users
    MaxFaults    \* bound: unanswered calls, lost answers, restarts

UserIds == 1 .. MaxUsers
KeyIds  == 1 .. MaxKeys

ASSUME ExistingAssumption ==
    /\ DOMAIN Existing \subseteq UserIds
    /\ \A i, j \in DOMAIN Existing : Existing[i] \in Names /\ (Existing[i] = Existing[j] => i = j)
    /\ \A i \in DOMAIN Existing, j \in UserIds : j < i => j \in DOMAIN Existing
    /\ Names \cap {"free", "gone"} = {}
ASSUME WorkersAssumption == IsFiniteSet(Workers)
ASSUME BoundsAssumption ==
    /\ PageSize \in Nat \ {0} /\ MaxUsers \in Nat /\ MaxKeys \in Nat
    /\ MaxCalls \in Nat /\ MaxDeletes \in Nat /\ MaxFaults \in Nat

VARIABLES
    users,      \* the Server's users: a name, "free" (id not used yet) or "gone"
    keys,       \* its ApiKeys: "free", "live" or "revoked"
    label,      \* the name of one device
    strays,     \* calls whose caller has given up waiting
    req,        \* each worker's request
    walk,       \* an operator's way through the pages of ListUsers
    calls, deletes, faults,   \* counted against the bounds
    \* History variables; no action reads them.
    handed,     \* keys whose plain text has reached an operator
    unheard,    \* creations of keys that ended without an answer that did
    wished,     \* the device name last answered as given
    blurred     \* whether renames have overlapped or one met a fault

store   == <<users, keys, label>>
history == <<handed, unheard, wished, blurred>>
vars    == <<store, strays, req, walk, calls, deletes, faults, handed, unheard, wished, blurred>>

Call(do, on) == [do |-> do, on |-> on]
Requested    == {Call("CreateUser", n) : n \in Names} \cup {Call("RenameDevice", l) : l \in Labels}
                \cup {Call("CreateAPIKey", 0)} \cup {Call("RevokeAPIKey", k) : k \in KeyIds}
Nothing      == Call("none", 0)
Idle         == [pc |-> "idle", call |-> Nothing, nr |-> 0, answer |-> "none", key |-> 0]

Present      == {i \in UserIds : users[i] \in Names}
Unused(ids)  == {i \in DOMAIN ids : ids[i] = "free"}
NextId(ids)  == CHOOSE i \in Unused(ids) : \A j \in Unused(ids) : i <= j
At(w, pc)    == req[w].pc = pc
Renames(c)   == c.do = "RenameDevice"
Creates(c)   == c.do = "CreateAPIKey"

Unasked == [pc |-> "off", page |-> 1, total |-> 0, seen |-> {}, since |-> {},
            lost |-> 0, slipped |-> 0]

Init ==
    /\ users = [i \in UserIds |-> IF i \in DOMAIN Existing THEN Existing[i] ELSE "free"]
    /\ keys = [k \in KeyIds |-> "free"]
    /\ label = "none" /\ strays = {}
    /\ req = [w \in Workers |-> Idle] /\ walk = Unasked
    /\ calls = 0 /\ deletes = 0 /\ faults = 0
    /\ handed = {} /\ unheard = 0 /\ wished = "none" /\ blurred = FALSE

-----------------------------------------------------------------------------
(* The Server.                                                             *)

\* User names are unique (409), a key that is not there cannot be revoked (404).
NameTaken(n) == \E i \in UserIds : users[i] = n
Answer(c) ==
    CASE c.do = "CreateUser" /\ NameTaken(c.on)            -> "taken"
      [] c.do = "RevokeAPIKey" /\ keys[c.on] # "live"      -> "absent"
      [] OTHER                                             -> "ok"

\* A user who comes between the two queries of a page, or goes, shifts the pages.
Perform(c) ==
    LET done == Answer(c) = "ok" IN
    /\ c.do = "CreateUser" /\ done => Unused(users) # {}
    /\ c.do = "CreateAPIKey"       => Unused(keys) # {}
    /\ users' = IF c.do = "CreateUser" /\ done THEN [users EXCEPT ![NextId(users)] = c.on]
                ELSE users
    /\ keys'  = CASE Creates(c)                     -> [keys EXCEPT ![NextId(keys)] = "live"]
                  [] c.do = "RevokeAPIKey" /\ done  -> [keys EXCEPT ![c.on] = "revoked"]
                  [] OTHER                          -> keys
    /\ label' = IF Renames(c) THEN c.on ELSE label
    /\ walk'  = IF users' # users /\ walk.pc = "find" THEN [walk EXCEPT !.slipped = @ + 1]
                ELSE walk

DeliverStray ==
    \E s \in strays :
        /\ Perform(s.call)
        /\ strays' = strays \ {s}
        /\ UNCHANGED <<req, calls, deletes, faults, history>>

-----------------------------------------------------------------------------
(* ServerNotifier.                                                         *)

\* Outcomes of an HTTP call: answered; never made; given up, and the Server may
\* still carry it out.
Outcomes  == {"ok", "lost", "late"}
Charge(o) == IF o = "ok" THEN faults' = faults
             ELSE faults < MaxFaults /\ faults' = faults + 1

\* The key of a revocation is one that some list has shown.
Ask(w, c) ==
    /\ At(w, "idle")
    /\ calls < MaxCalls /\ calls' = calls + 1
    /\ c.do = "RevokeAPIKey" => keys[c.on] # "free"
    /\ req' = [req EXCEPT ![w] = [Idle EXCEPT !.pc = "call", !.call = c, !.nr = calls']]
    /\ blurred' = (blurred \/ (Renames(c) /\ \E other \in {req[v] : v \in Workers} \cup strays :
                                              Renames(other.call)))
    /\ UNCHANGED <<store, strays, walk, deletes, faults, handed, unheard, wished>>

\* What the caller is told: a call without an answer is an error.
ReportedRegardless(c, o) == Answer(c)
Reported(c, o)           == IF o = "ok" THEN Answer(c) ELSE "error"

Returned(w, c, o) ==
    [req EXCEPT ![w].pc = "reply", ![w].answer = Reported(c, o),
                ![w].key = IF o = "ok" /\ Creates(c) THEN NextId(keys) ELSE 0]
Repeated(w, c, o) == IF o = "late" THEN req ELSE Returned(w, c, o)
\* One attempt.
Attempted(w, c, o) == Returned(w, c, o)

Send(w, o) ==
    LET c == req[w].call IN
    /\ At(w, "call")
    /\ Charge(o)
    /\ IF o = "ok" THEN Perform(c) ELSE UNCHANGED <<store, walk>>
    /\ strays' = IF o = "late" THEN strays \cup {[nr |-> req[w].nr, call |-> c]} ELSE strays
    /\ req' = Attempted(w, c, o)
    /\ wished' = IF Renames(c) /\ Reported(c, o) = "ok" THEN c.on ELSE wished
    /\ UNCHANGED <<calls, deletes, handed, unheard, blurred>>

\* The answer: the plain text of a key is in it and nowhere else.
Reply(w) ==
    /\ At(w, "reply")
    /\ req' = [req EXCEPT ![w] = Idle]
    /\ handed'  = handed \cup ({req[w].key} \ {0})
    /\ unheard' = IF Creates(req[w].call) /\ req[w].answer = "error" THEN unheard + 1 ELSE unheard
    /\ blurred' = (blurred \/ (Renames(req[w].call) /\ req[w].answer = "error"))
    /\ UNCHANGED <<store, strays, walk, calls, deletes, faults, wished>>

\* The operator's browser is gone, or the admin process dies with all that it
\* was doing; what it has sent, the Server may carry out.
Unheard(W) == unheard' = unheard + Cardinality({w \in W : Creates(req[w].call)})
Blurs(W)   == blurred' = (blurred \/ \E w \in W : Renames(req[w].call))

LoseReply(w) ==
    /\ At(w, "reply")
    /\ Charge("lost")
    /\ req' = [req EXCEPT ![w] = Idle]
    /\ Unheard({w}) /\ Blurs({w})
    /\ UNCHANGED <<store, strays, walk, calls, deletes, handed, wished>>

Crash ==
    /\ Charge("lost")
    /\ \E W \in SUBSET {w \in Workers : At(w, "call")} :
         strays' = strays \cup {[nr |-> req[w].nr, call |-> req[w].call] : w \in W}
    /\ req' = [w \in Workers |-> Idle]
    /\ Unheard(Workers) /\ Blurs(Workers)
    /\ walk' = Unasked
    /\ UNCHANGED <<store, calls, deletes, handed, wished>>

-----------------------------------------------------------------------------
(* ListUsers: a count and a select, newest first.                          *)

OffsetPastOne(page) == page * PageSize
Offset(page)        == (page - 1) * PageSize
Rank(i)             == Cardinality({j \in Present : j > i})
PageOf(page)        == {i \in Present : Rank(i) \in Offset(page) .. (Offset(page) + PageSize - 1)}

OpenList ==
    /\ walk.pc = "off"
    /\ walk' = [Unasked EXCEPT !.pc = "count", !.since = Present]
    /\ UNCHANGED <<store, strays, req, calls, deletes, faults, history>>

CountUsers ==
    /\ walk.pc = "count"
    /\ walk' = [walk EXCEPT !.pc = "find", !.total = Cardinality(Present)]
    /\ UNCHANGED <<store, strays, req, calls, deletes, faults, history>>

\* The operator asks for the next page until the total says there is none.
FindUsers ==
    /\ walk.pc = "find"
    /\ walk' = [walk EXCEPT !.seen = @ \cup PageOf(walk.page),
                  !.pc   = IF walk.page * PageSize < walk.total THEN "count" ELSE "done",
                  !.page = IF walk.page * PageSize < walk.total THEN @ + 1 ELSE @]
    /\ UNCHANGED <<store, strays, req, calls, deletes, faults, history>>

CloseList ==
    /\ walk.pc = "done" /\ walk' = Unasked
    /\ UNCHANGED <<store, strays, req, calls, deletes, faults, history>>

DeleteUser(i) ==
    /\ i \in Present
    /\ deletes < MaxDeletes /\ deletes' = deletes + 1
    /\ users' = [users EXCEPT ![i] = "gone"]
    /\ walk'  = IF walk.pc \in {"count", "find"}
                THEN [walk EXCEPT !.lost = @ + 1, !.since = @ \ {i}] ELSE walk
    /\ UNCHANGED <<keys, label, strays, req, calls, faults, history>>

-----------------------------------------------------------------------------
Next ==
    \/ \E w \in Workers :
        \/ \E c \in Requested : Ask(w, c)
        \/ \E o \in Outcomes : Send(w, o)
        \/ Reply(w) \/ LoseReply(w)
    \/ DeliverStray \/ Crash
    \/ OpenList \/ CountUsers \/ FindUsers \/ CloseList
    \/ \E i \in UserIds : DeleteUser(i)

Spec == Init /\ [][Next]_vars

-----------------------------------------------------------------------------
\* Types; the Server gives a name to one user at a time; nobody waits for a call
\* that has been given up, since none is repeated (server_notifier.go:61, 294-332).
TypeOK ==
    /\ users \in [UserIds -> Names \cup {"free", "gone"}]
    /\ keys \in [KeyIds -> {"free", "live", "revoked"}]
    /\ label \in Labels \cup {"none"} /\ wished \in Labels \cup {"none"} /\ blurred \in BOOLEAN
    /\ strays \subseteq [nr : 1 .. MaxCalls, call : Requested]
    /\ req \in [Workers -> [pc : {"idle", "call", "reply"}, call : Requested \cup {Nothing},
                            nr : 0 .. MaxCalls, key : {0} \cup KeyIds,
                            answer : {"none", "ok", "taken", "absent", "error"}]]
    /\ walk \in [pc : {"off", "count", "find", "done"}, page : 1 .. (MaxUsers + 1),
                 total : 0 .. MaxUsers, seen : SUBSET UserIds, since : SUBSET UserIds,
                 lost : 0 .. MaxDeletes, slipped : 0 .. MaxCalls]
    /\ calls \in 0 .. MaxCalls /\ deletes \in 0 .. MaxDeletes /\ faults \in 0 .. MaxFaults
    /\ handed \subseteq KeyIds /\ unheard \in 0 .. MaxCalls
    /\ \A i, j \in Present : users[i] = users[j] => i = j
    /\ \A s \in strays : \A w \in Workers : At(w, "call") => req[w].nr # s.nr

\* A key that can be used is one whose plain text an operator has, or will have
\* with an answer under way; every other is the work of one creation that ended
\* without one: failures do not multiply keys (server_notifier.go:407-444,
\* data_service.go:589-608).
UnknownKeys ==
    {k \in KeyIds : keys[k] = "live"} \ (handed \cup {req[w].key : w \in Workers})
NoKeyUnaccounted == Cardinality(UnknownKeys) <= unheard + Cardinality({w \in Workers :
                        Creates(req[w].call) /\ req[w].answer = "error"})

\* The device has the name that was last answered as given, once no call is
\* under way, unless renames overlapped or an operator was told of a failure
\* (data_service.go:534-549, server_notifier.go:250-278).
NameSettled ==
    wished # "none" /\ ~blurred
    /\ (\A w \in Workers : ~Renames(req[w].call)) /\ (\A s \in strays : ~Renames(s.call))
        => label = wished

\* Who is there all the time that an operator pages through the users is on one
\* of the pages, but for one user for each that was deleted meanwhile or that
\* came between a page's count and its select: new users push the others to
\* later pages, never past the operator (data_service.go:73-86).
NobodySkipped ==
    walk.pc = "done" => Cardinality(walk.since \ walk.seen) <= walk.lost + walk.slipped

=============================================================================
