----------------------------- MODULE LoginGuard -----------------------------
(***************************************************************************)
(* The brute-force guard of AuthService.Login: the Redis counter           *)
(* admin:login_err:<account>, read before the password is checked,         *)
(* incremented after a failure, given a lifetime by the first failure and  *)
(* deleted by a success.  Each call is a step of its own, so that logins   *)
(* of one account run between another's read and its increment.            *)
(***************************************************************************)
EXTENDS Integers, FiniteSets

CONSTANTS
    Accounts,     \* account names offered to the login handler
    Workers,      \* request goroutines alive at the same time
    None,         \* no account
    Limit,        \* security.login_error_limit; 0 switches the guard off
    LockTtl,      \* security.login_error_ttl, in ticks
    MaxFaults     \* bound: failed Redis calls and crashes

ASSUME WorkersAssumption == IsFiniteSet(Workers)
ASSUME NoneAssumption    == None \notin Accounts
ASSUME LimitAssumption   == Limit \in Nat
ASSUME TtlAssumption     == LockTtl \in Nat \ {0}
ASSUME FaultsAssumption  == MaxFaults \in Nat

VARIABLES
    key,      \* each account's counter: n = 0 says the key does not exist
    req,      \* each worker's login
    faults,   \* faults so far, against MaxFaults
    \* History: failed checks since the counter last vanished (or the process
    \* last died), and how many of them were not counted as their INCR was lost.
    tries, lost

vars == <<key, req, faults, tries, lost>>

\* A key without a time to live stays until it is deleted.
Forever == -1
NoKey   == [n |-> 0, left |-> 0]
Idle    == [pc |-> "idle", acc |-> None]
Steps   == {"idle", "verify", "bump", "expire", "clear"}

Outcomes     == {"ok", "lost", "late"}
TookPlace(o) == o # "lost"
Charge(o)    == IF o = "ok" THEN faults' = faults
                ELSE faults < MaxFaults /\ faults' = faults + 1

At(w, step)   == req[w].pc = step
Goto(w, step) == req' = [req EXCEPT ![w].pc = step]
Finish(w)     == req' = [req EXCEPT ![w] = Idle]

Init ==
    /\ key    = [a \in Accounts |-> NoKey]
    /\ req    = [w \in Workers |-> Idle]
    /\ faults = 0
    /\ tries  = [a \in Accounts |-> 0]
    /\ lost   = [a \in Accounts |-> 0]

-----------------------------------------------------------------------------
\* GET of the counter.  Its error is ignored and reads as 0.
BlockedAbove(n) == Limit > 0 /\ n > Limit
Blocked(n)      == Limit > 0 /\ n >= Limit

ReadCounter(w, a, o) ==
    /\ At(w, "idle")
    /\ Charge(o)
    /\ ~Blocked(IF o = "ok" THEN key[a].n ELSE 0)
    /\ req' = [req EXCEPT ![w] = [pc |-> "verify", acc |-> a]]
    /\ UNCHANGED <<key, tries, lost>>

\* The account row and the password.  An unknown account and a wrong password
\* are failures; a disabled or locked row and a database error end the login.
VerifyFails(w) ==
    /\ At(w, "verify")
    /\ Goto(w, "bump")
    /\ tries' = [tries EXCEPT ![req[w].acc] = @ + 1]
    /\ UNCHANGED <<key, faults, lost>>

VerifySucceeds(w) == At(w, "verify") /\ Goto(w, "clear") /\ UNCHANGED <<key, faults, tries, lost>>

Refuse(w) == At(w, "verify") /\ Finish(w) /\ UNCHANGED <<key, faults, tries, lost>>

\* INCR creates the key without a time to live.  Only an answer of 1 is
\* followed by EXPIRE; an error answers 0.
NeverFirst(n) == FALSE
IsFirst(n)    == n = 1

Incremented(k) == [n |-> k.n + 1, left |-> IF k.n = 0 THEN Forever ELSE k.left]

BumpLoginErr(w, o) ==
    LET a == req[w].acc IN
    /\ At(w, "bump")
    /\ Charge(o)
    /\ key'  = IF TookPlace(o) THEN [key EXCEPT ![a] = Incremented(key[a])] ELSE key
    /\ lost' = IF TookPlace(o) THEN lost ELSE [lost EXCEPT ![a] = @ + 1]
    /\ IF o = "ok" /\ IsFirst(key[a].n + 1) THEN Goto(w, "expire") ELSE Finish(w)
    /\ UNCHANGED tries

\* EXPIRE does nothing to a key that is gone.
TwiceBounded(k) == IF k.n > 0 THEN [k EXCEPT !.left = 2 * LockTtl] ELSE k
Bounded(k)      == IF k.n > 0 THEN [k EXCEPT !.left = LockTtl] ELSE k

ExpireCounter(w, o) ==
    LET a == req[w].acc IN
    /\ At(w, "expire")
    /\ Charge(o)
    /\ key' = IF TookPlace(o) THEN [key EXCEPT ![a] = Bounded(key[a])] ELSE key
    /\ Finish(w)
    /\ UNCHANGED <<tries, lost>>

\* A new count begins for the accounts of A.
Vanish(A) ==
    /\ tries' = [a \in Accounts |-> IF a \in A THEN 0 ELSE tries[a]]
    /\ lost'  = [a \in Accounts |-> IF a \in A THEN 0 ELSE lost[a]]

\* DEL after a success, its error ignored; the rest of Login is AdminSession's.
ClearCounter(w, o) ==
    LET a == req[w].acc IN
    /\ At(w, "clear")
    /\ Charge(o)
    /\ key' = IF TookPlace(o) THEN [key EXCEPT ![a] = NoKey] ELSE key
    /\ Vanish(IF TookPlace(o) THEN {a} ELSE {})
    /\ Finish(w)

-----------------------------------------------------------------------------
\* One tick of Redis' clock.
Aged(k) == IF k.left <= 0 THEN k
           ELSE IF k.left = 1 THEN NoKey ELSE [k EXCEPT !.left = @ - 1]

Tick ==
    /\ key' = [a \in Accounts |-> Aged(key[a])]
    /\ Vanish({a \in Accounts : key[a].left = 1})
    /\ UNCHANGED <<req, faults>>

Crash ==
    /\ Charge("lost")
    /\ req' = [w \in Workers |-> Idle]
    /\ Vanish(Accounts)
    /\ UNCHANGED key

\* What a login does once it has begun.
Progress(w) ==
    \/ VerifyFails(w) \/ VerifySucceeds(w) \/ Refuse(w)
    \/ \E o \in Outcomes : BumpLoginErr(w, o) \/ ExpireCounter(w, o) \/ ClearCounter(w, o)

Next ==
    \/ \E w \in Workers, a \in Accounts, o \in Outcomes : ReadCounter(w, a, o)
    \/ \E w \in Workers : Progress(w)
    \/ Tick
    \/ Crash

\* Redis' clock runs and every goroutine goes on to its end; nobody need try
\* to log in.
Fairness == WF_vars(Tick) /\ \A w \in Workers : WF_vars(Progress(w))

Spec == Init /\ [][Next]_vars /\ Fairness

-----------------------------------------------------------------------------
(* Properties.                                                             *)

\* Types; a key that is there has a count and, unless it is to stay forever, a
\* time to live no longer than login_error_ttl.
TypeOK ==
    /\ key \in [Accounts -> [n : Nat, left : {Forever} \cup (0 .. LockTtl)]]
    /\ req \in [Workers -> [pc : Steps, acc : Accounts \cup {None}]]
    /\ faults \in 0 .. MaxFaults
    /\ tries \in [Accounts -> Nat] /\ lost \in [Accounts -> Nat]
    /\ \A a \in Accounts : key[a].n = 0 <=> key[a].left = 0
    /\ \A w \in Workers : req[w].pc = "idle" <=> req[w].acc = None

\* However the logins of an account interleave between reading the counter and
\* incrementing it, no more wrong passwords are tried between two resets of the
\* counter (or two starts of the process, which forgets uncounted failures)
\* than the limit allows, plus the logins that can be in flight, plus one for
\* each Redis failure (an unreadable counter lets the login through).
GuessesBounded ==
    Limit > 0 => \A a \in Accounts :
        tries[a] <= Limit - 1 + Cardinality(Workers) + faults

\* A counter without a time to live is about to get one from the login that
\* created it.
LockoutHasExpiry ==
    \A a \in Accounts : key[a].left = Forever =>
        \E w \in Workers : At(w, "expire") /\ req[w].acc = a

\* README.md:349: a lock lasts login_error_ttl.  That needs a counter that
\* expires, and every one does as long as no Redis call has failed and the
\* process has not died, whatever logins increment and delete the counter around
\* its EXPIRE (auth_service.go:125-135).
ExpiryUnlessFault == faults = 0 => LockoutHasExpiry

\* A locked account does not stay locked: its counter runs out, whatever logins
\* were already past the check when it locked.
LockEnds ==
    \A a \in Accounts : [](Blocked(key[a].n) => <>(~Blocked(key[a].n) \/ faults > 0))

=============================================================================
