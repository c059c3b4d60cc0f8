----------------------------- MODULE NonceWindow ----------------------------
(***************************************************************************)
(* What the Sign middleware does about requests that arrive more than once *)
(* (a browser that sends again what it got no answer to, a doubled click): *)
(* a time stamp has to be close to the server's clock, and a nonce is      *)
(* taken at most once while Redis keeps it.  The check of the time stamp,  *)
(* the SETNX and the comparison of the signature are steps of their own,   *)
(* and the nonce's lifetime counts from the SETNX, not from the time stamp.*)
(***************************************************************************)
EXTENDS Integers, FiniteSets

CONSTANTS
    Submissions,   \* signed requests; the copies of one share time stamp and nonce
    Workers,       \* copies in the middleware at the same time
    Window,        \* signWindow
    NonceTtl,      \* nonceTTL
    Skew,          \* a browser's clock differs from the server's by at most this much
    Span,          \* the SETNX follows the check of the time stamp within this time
    MaxTime, MaxCopies, MaxFaults      \* bounds: clock, copies sent, failed calls and crashes

ASSUME TimesAssumption ==
    /\ Window \in Nat /\ NonceTtl \in Nat \ {0} /\ Skew \in Nat /\ Span \in Nat
ASSUME WorkersAssumption == IsFiniteSet(Workers)
ASSUME BoundsAssumption == MaxTime \in Nat /\ MaxCopies \in Nat /\ MaxFaults \in Nat

VARIABLES
    now,
    stamp,     \* X-Timestamp of a submission; Unsent
    nonce,     \* Redis admin:sign_nonce:<nonce>, by its expiry; 0 if it is not there
    req,       \* each worker's copy
    copies, faults,
    \* History variables; no action reads them.
    taken,     \* when the nonce of a submission was first stored; Never
    served,    \* how often its handler was called
    spoilt     \* submissions of which a copy met a fault

vars == <<now, stamp, nonce, req, copies, faults, taken, served, spoilt>>

Time   == 0 .. MaxTime
Stamps == (0 - Skew) .. (MaxTime + Skew)
Unsent == MaxTime + Skew + 1
Never  == MaxTime + 1
Idle   == [pc |-> "idle", of |-> "none", ck |-> 0, verdict |-> "none"]
At(w, pc) == req[w].pc = pc

Init ==
    /\ now = 0
    /\ stamp = [s \in Submissions |-> Unsent]
    /\ nonce = [s \in Submissions |-> 0]
    /\ req   = [w \in Workers |-> Idle]
    /\ copies = 0 /\ faults = 0
    /\ taken  = [s \in Submissions |-> Never]
    /\ served = [s \in Submissions |-> 0]
    /\ spoilt = {}

-----------------------------------------------------------------------------
\* Outcomes of a Redis call: done; failed without effect; done, but reported as
\* failed.
Outcomes     == {"ok", "lost", "late"}
TookPlace(o) == o # "lost"
Charge(s, o) == IF o = "ok" THEN UNCHANGED <<faults, spoilt>>
                ELSE /\ faults < MaxFaults /\ faults' = faults + 1
                     /\ spoilt' = spoilt \cup {s}

Sign(s, t) ==
    /\ stamp[s] = Unsent /\ stamp' = [stamp EXCEPT ![s] = t]
    /\ now - Skew <= t /\ t <= now + Skew
    /\ UNCHANGED <<now, nonce, req, copies, faults, taken, served, spoilt>>

CloseOneSide(s) == -Window <= now - stamp[s] /\ now - stamp[s] <= 2 * Window
\* diff < -signWindow || diff > signWindow is refused.
Close(s)        == LET diff == now - stamp[s] IN -Window <= diff /\ diff <= Window

Refuse(w, why) == req' = [req EXCEPT ![w].pc = "refused", ![w].verdict = why]

CheckStamp(w, s) ==
    /\ At(w, "idle") /\ stamp[s] # Unsent
    /\ copies < MaxCopies /\ copies' = copies + 1
    /\ Close(s)
    /\ req' = [req EXCEPT ![w] =
                  [pc |-> "nonce", of |-> s, ck |-> now, verdict |-> "none"]]
    /\ UNCHANGED <<now, stamp, nonce, faults, taken, served, spoilt>>

\* SETNX: the key is the nonce, the lifetime that of a new key only.
KeyByStamp(s) == CHOOSE x \in Submissions : stamp[x] = stamp[s]
Key(s)        == s
LateExpiry    == now + NonceTtl + 1
Expiry        == now + NonceTtl

SetNXNonce(w, o) ==
    LET s == req[w].of
        free == nonce[Key(s)] = 0
    IN
    /\ At(w, "nonce")
    /\ Charge(s, o)
    /\ nonce' = IF free /\ TookPlace(o) THEN [nonce EXCEPT ![Key(s)] = Expiry] ELSE nonce
    /\ taken' = IF free /\ TookPlace(o) /\ taken[s] = Never THEN [taken EXCEPT ![s] = now]
                ELSE taken
    /\ IF o # "ok" THEN Refuse(w, "error")
       ELSE IF ~free THEN Refuse(w, "repeated")
       ELSE req' = [req EXCEPT ![w].pc = "compare"]
    /\ UNCHANGED <<now, stamp, copies, served>>

\* The secret is read and the signature compared; a GET that fails leaves no
\* secret and the request is refused, its nonce spent.
CompareSignature(w, o) ==
    LET s == req[w].of IN
    /\ At(w, "compare")
    /\ Charge(s, o)
    /\ IF o = "ok" THEN /\ served' = [served EXCEPT ![s] = @ + 1]
                        /\ req' = [req EXCEPT ![w] = Idle]
       ELSE Refuse(w, "error") /\ UNCHANGED served
    /\ UNCHANGED <<now, stamp, nonce, copies, taken>>

Leave(w) ==
    /\ At(w, "refused")
    /\ req' = [req EXCEPT ![w] = Idle]
    /\ UNCHANGED <<now, stamp, nonce, copies, faults, taken, served, spoilt>>

\* A copy waits no longer than Span for its SETNX.
Tick ==
    /\ now < MaxTime /\ now' = now + 1
    /\ \A w \in Workers : At(w, "nonce") => now < req[w].ck + Span
    /\ nonce' = [s \in Submissions |-> IF nonce[s] <= now' THEN 0 ELSE nonce[s]]
    /\ UNCHANGED <<stamp, req, copies, faults, taken, served, spoilt>>

Crash ==
    /\ faults < MaxFaults /\ faults' = faults + 1
    /\ req' = [w \in Workers |-> Idle]
    /\ spoilt' = spoilt \cup ({req[w].of : w \in Workers} \cap Submissions)
    /\ UNCHANGED <<now, stamp, nonce, copies, taken, served>>

Next ==
    \/ \E s \in Submissions, t \in Stamps : Sign(s, t)
    \/ \E w \in Workers :
        \/ \E s \in Submissions : CheckStamp(w, s)
        \/ \E o \in Outcomes : SetNXNonce(w, o) \/ CompareSignature(w, o)
        \/ Leave(w)
    \/ Tick \/ Crash

Spec == Init /\ [][Next]_vars

-----------------------------------------------------------------------------
\* Types; a nonce is kept for one lifetime at most, and a copy past its check of
\* the time stamp belongs to a submission.
TypeOK ==
    /\ now \in Time
    /\ stamp \in [Submissions -> Stamps \cup {Unsent}]
    /\ nonce \in [Submissions -> 0 .. (MaxTime + NonceTtl)]
    /\ req \in [Workers -> [pc : {"idle", "nonce", "compare", "refused"},
                            of : Submissions \cup {"none"}, ck : Time,
                            verdict : {"none", "error", "repeated"}]]
    /\ copies \in 0 .. MaxCopies /\ faults \in 0 .. MaxFaults
    /\ taken \in [Submissions -> Time \cup {Never}]
    /\ served \in [Submissions -> Nat] /\ spoilt \subseteq Submissions
    /\ \A s \in Submissions : nonce[s] # 0 => nonce[s] > now /\ nonce[s] <= now + NonceTtl
    /\ \A w \in Workers : ~At(w, "idle") => req[w].of \in Submissions

\* However many copies of a submission arrive and whatever fails, it is carried
\* out once, and once more at most for every NonceTtl that lies between the first
\* storing of its nonce and the last moment at which its time stamp still lets a
\* copy come to the SETNX: for a repeat the nonce has to be gone and the stamp
\* still close.  A submission that is first seen when less than NonceTtl of that
\* is left is carried out once; a prompt one, or one stamped ahead, can be
\* carried out again (sign.go:19-23, 64-84).
ServedPaced ==
    \A s \in Submissions :
        taken[s] # Never => (served[s] - 1) * NonceTtl <= stamp[s] + Window + Span - taken[s]

\* A copy of a submission has been let in: carried out, on its way to be, or
\* failed after its SETNX.
LetIn(s) == \/ served[s] > 0
            \/ s \in spoilt
            \/ \E x \in Workers : At(x, "compare") /\ req[x].of = s

\* A copy is refused as repeated only if another copy of the same submission has
\* been let in (sign.go:80-84).
RepeatExplained ==
    \A w \in Workers :
        At(w, "refused") /\ req[w].verdict = "repeated" => LetIn(req[w].of)

=============================================================================
