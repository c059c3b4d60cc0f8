-------------------------- MODULE NonceWindowProofs --------------------------
(***************************************************************************)
(* Theorems about NonceWindow for every value of its constants.            *)
(***************************************************************************)
EXTENDS NonceWindow, FiniteSetTheorems, TLAPS

Taken(s)        == taken[s] # Never
Comparing(w, s) == At(w, "compare") /\ req[w].of = s
Compared(s)     == {w \in Workers : Comparing(w, s)}
\* The copies that got past the SETNX, and how long the nonce is held for sure.
Passed(s)       == served[s] + Cardinality(Compared(s))
Held(s)         == IF nonce[s] = 0 THEN now ELSE nonce[s]

\* A copy on its way to its SETNX has had its time stamp checked, not long ago.
Checked ==
    \A w \in Workers : At(w, "nonce") =>
        LET s == req[w].of IN
        /\ stamp[s] # Unsent /\ req[w].ck - stamp[s] <= Window
        /\ req[w].ck <= now /\ now <= req[w].ck + Span

\* The handler is reached only after a SETNX.
Untaken ==
    \A s \in Submissions : ~Taken(s) =>
        nonce[s] = 0 /\ served[s] = 0 /\ \A w \in Workers : ~Comparing(w, s)

\* A nonce is stored after its submission has been signed.
Stored == \A s \in Submissions : Taken(s) => stamp[s] # Unsent /\ taken[s] <= now

\* Each copy that got past the SETNX has used up one lifetime of the nonce, the
\* last one within what the time stamp allows.
PacedBy(s) ==
    /\ Passed(s) * NonceTtl <= Held(s) - taken[s]
    /\ (Passed(s) - 1) * NonceTtl <= stamp[s] + Window + Span - taken[s]
Paced == \A s \in Submissions : Taken(s) => PacedBy(s)

\* Who holds a nonce has been let in.
Explained == \A s \in Submissions : nonce[s] # 0 => LetIn(s)

IInv == TypeOK /\ Checked /\ Untaken /\ Stored /\ Paced /\ Explained /\ RepeatExplained

-----------------------------------------------------------------------------
(* The initial state, and each action.                                     *)

USE TimesAssumption, BoundsAssumption DEF Time, Stamps, Unsent, Never

LEMMA Times ==
    ASSUME NEW a \in Int, NEW b \in Int, a <= b, NEW k \in Nat
    PROVE  a * k <= b * k /\ (a + 1) * k = a * k + k
<1>1. (b - a) * k >= 0 /\ b * k = a * k + (b - a) * k
  <2>1. PICK d \in Nat : d = b - a /\ b = a + d
    OBVIOUS
  <2> QED  BY <2>1, d * k \in Nat
<1> QED  BY <1>1

LEMMA ComparedFinite ==
    ASSUME NEW s
    PROVE  /\ IsFiniteSet(Compared(s)) /\ Cardinality(Compared(s)) \in Nat
           /\ IsFiniteSet(Compared(s)') /\ Cardinality(Compared(s)') \in Nat
<1>1. Compared(s) \subseteq Workers /\ Compared(s)' \subseteq Workers
  BY DEF Compared
<1> QED  BY <1>1, WorkersAssumption, FS_Subset, FS_CardinalityType

\* No more copies got past, and the nonce is held no shorter.
LEMMA StaysPaced ==
    ASSUME IInv, TypeOK', NEW s \in Submissions, Taken(s),
           taken'[s] = taken[s], stamp'[s] = stamp[s],
           Passed(s)' <= Passed(s), Held(s)' >= Held(s)
    PROVE  PacedBy(s)'
<1>1. Passed(s) \in Int /\ Passed(s)' \in Int
  BY ComparedFinite DEF IInv, TypeOK, Passed
<1>2. PacedBy(s)
  BY DEF IInv, Paced
<1> DEFINE a == Passed(s)'  b == Passed(s)
<1>3. a * NonceTtl <= b * NonceTtl /\ (a - 1) * NonceTtl <= (b - 1) * NonceTtl
  <2>1. a \in Int /\ b \in Int /\ a - 1 \in Int /\ b - 1 \in Int /\ a <= b /\ a - 1 <= b - 1
    BY <1>1
  <2> HIDE DEF a, b
  <2> QED  BY <2>1, Times
<1>4. Held(s) \in Int /\ Held(s)' \in Int /\ taken[s] \in Int /\ stamp[s] \in Int
  BY DEF IInv, TypeOK, Held
<1>5. a * NonceTtl \in Int /\ b * NonceTtl \in Int
      /\ (a - 1) * NonceTtl \in Int /\ (b - 1) * NonceTtl \in Int
  BY <1>1
<1>6. a * NonceTtl <= Held(s)' - taken'[s]
  BY <1>2, <1>3, <1>4, <1>5 DEF PacedBy
<1>7. (a - 1) * NonceTtl <= stamp'[s] + Window + Span - taken'[s]
  BY <1>2, <1>3, <1>4, <1>5 DEF PacedBy
<1> QED  BY <1>6, <1>7 DEF PacedBy

LEMMA KeepsPaced ==
    ASSUME IInv, TypeOK',
           \A s \in Submissions : Taken(s)' =>
               /\ Taken(s) /\ taken'[s] = taken[s] /\ stamp'[s] = stamp[s]
               /\ served'[s] = served[s] /\ Compared(s)' \subseteq Compared(s)
               /\ Held(s)' >= Held(s)
    PROVE  Paced'
<1>1. ASSUME NEW s \in Submissions, Taken(s)' PROVE PacedBy(s)'
  <2>1. Cardinality(Compared(s)') <= Cardinality(Compared(s))
    BY <1>1, ComparedFinite, FS_Subset
  <2>2. Passed(s)' <= Passed(s)
    BY <1>1, <2>1, ComparedFinite DEF Passed, IInv, TypeOK
  <2> QED  BY <1>1, <2>2, StaysPaced
<1> QED  BY <1>1 DEF Paced

LEMMA InitHolds == Init => IInv
BY DEF Init, IInv, TypeOK, Checked, Untaken, Stored, Paced, Explained, RepeatExplained,
       LetIn, Taken, Comparing, At, Idle

LEMMA SignKeeps ==
    ASSUME IInv, NEW s \in Submissions, NEW t \in Stamps, Sign(s, t)
    PROVE  IInv'
<1>0. /\ ~Taken(s) /\ stamp[s] = Unsent
      /\ stamp' = [stamp EXCEPT ![s] = t]
      /\ UNCHANGED <<now, nonce, req, copies, faults, taken, served, spoilt>>
  BY DEF IInv, Stored, Taken, Sign
<1>1. TypeOK'
  BY <1>0 DEF IInv, TypeOK, At
<1>2. Checked'
  BY <1>0 DEF IInv, TypeOK, Checked, At
<1>3. Untaken'
  BY <1>0 DEF IInv, Untaken, Taken, Comparing, At
<1>4. Stored'
  BY <1>0 DEF IInv, TypeOK, Stored, Taken
<1>5. Paced'
  <2>1. \A q \in Submissions : Taken(q)' => q # s /\ Taken(q) /\ stamp'[q] = stamp[q]
    BY <1>0 DEF IInv, TypeOK, Taken
  <2>2. \A q \in Submissions : Compared(q)' = Compared(q) /\ Held(q)' = Held(q)
    BY <1>0 DEF Compared, Comparing, At, Held
  <2>3. \A q \in Submissions : Held(q) \in Int
    BY DEF Held, IInv, TypeOK
  <2> QED  BY <1>0, <1>1, <2>1, <2>2, <2>3, KeepsPaced
<1>6. Explained' /\ RepeatExplained'
  BY <1>0 DEF IInv, TypeOK, Explained, RepeatExplained, LetIn, At
<1> QED
  BY <1>1, <1>2, <1>3, <1>4, <1>5, <1>6 DEF IInv

LEMMA CheckStampKeeps ==
    ASSUME IInv, NEW w \in Workers, NEW s \in Submissions, CheckStamp(w, s)
    PROVE  IInv'
<1>0. /\ At(w, "idle") /\ stamp[s] # Unsent /\ now - stamp[s] <= Window
      /\ copies < MaxCopies /\ copies' = copies + 1
      /\ req' = [req EXCEPT ![w] =
                   [pc |-> "nonce", of |-> s, ck |-> now, verdict |-> "none"]]
      /\ UNCHANGED <<now, stamp, nonce, faults, taken, served, spoilt>>
  BY DEF CheckStamp, Close
<1>1. TypeOK'
  BY <1>0 DEF IInv, TypeOK, At
<1>2. Checked'
  BY <1>0 DEF IInv, TypeOK, Checked, At
<1>3. Untaken'
  BY <1>0 DEF IInv, TypeOK, Untaken, Taken, Comparing, At
<1>4. Stored'
  BY <1>0 DEF IInv, Stored, Taken
<1>5. Paced'
  <2>1. \A q \in Submissions :
          Compared(q)' \subseteq Compared(q) /\ Held(q)' = Held(q) /\ Taken(q)' = Taken(q)
    BY <1>0 DEF Compared, Comparing, At, Held, IInv, TypeOK, Taken
  <2>2. \A q \in Submissions : Held(q) \in Int
    BY DEF Held, IInv, TypeOK
  <2> QED  BY <1>0, <1>1, <2>1, <2>2, KeepsPaced
<1>6. Explained' /\ RepeatExplained'
  BY <1>0 DEF IInv, TypeOK, Explained, RepeatExplained, LetIn, At
<1> QED
  BY <1>1, <1>2, <1>3, <1>4, <1>5, <1>6 DEF IInv

\* A nonce stored again: the lifetime of the last storing has passed.
LEMMA StoredAgain ==
    ASSUME IInv, TypeOK', NEW w \in Workers, NEW s \in Submissions, At(w, "nonce"),
           req[w].of = s, nonce[s] = 0, Taken(s), taken'[s] = taken[s], stamp' = stamp,
           nonce'[s] = now + NonceTtl, now' = now, Passed(s)' <= Passed(s) + 1
    PROVE  PacedBy(s)'
<1> DEFINE a == Passed(s)'  b == Passed(s)
<1>1. now <= stamp[s] + Window + Span
  BY DEF IInv, TypeOK, Checked, At
<1>2. a \in Int /\ b \in Int /\ a <= b + 1
  <2>1. Passed(s)' \in Nat /\ Passed(s) \in Nat
    BY ComparedFinite DEF IInv, TypeOK, Passed
  <2> QED  BY <2>1
<1>3. b * NonceTtl <= now - taken[s]
  BY <1>1 DEF IInv, Paced, PacedBy, Held
<1>4. a * NonceTtl <= b * NonceTtl + NonceTtl /\ (a - 1) * NonceTtl <= b * NonceTtl
  <2> HIDE DEF a, b
  <2>1. b + 1 \in Int /\ a - 1 \in Int /\ a - 1 <= b
    BY <1>2
  <2>2. a * NonceTtl <= (b + 1) * NonceTtl
    BY <1>2, <2>1, Times
  <2>3. (b + 1) * NonceTtl = b * NonceTtl + NonceTtl
    BY <1>2, Times
  <2>4. (a - 1) * NonceTtl <= b * NonceTtl
    BY <1>2, <2>1, Times
  <2> QED  BY <2>2, <2>3, <2>4
<1>5. /\ now \in Int /\ taken[s] \in Int /\ stamp[s] \in Int /\ now + NonceTtl # 0
      /\ a * NonceTtl \in Int /\ b * NonceTtl \in Int /\ (a - 1) * NonceTtl \in Int
  BY <1>1, <1>2 DEF IInv, TypeOK
<1>6. a * NonceTtl <= Held(s)' - taken'[s]
  <2>1. Held(s)' = now + NonceTtl
    BY <1>5 DEF Held
  <2> HIDE DEF a, b
  <2> QED  BY <1>3, <1>4, <1>5, <2>1
<1>7. (a - 1) * NonceTtl <= stamp'[s] + Window + Span - taken'[s]
  <2> HIDE DEF a, b
  <2> QED  BY <1>1, <1>3, <1>4, <1>5
<1> QED  BY <1>6, <1>7 DEF PacedBy

\* The first storing.
LEMMA StoredFirst ==
    ASSUME IInv, TypeOK', NEW w \in Workers, NEW s \in Submissions, At(w, "nonce"),
           req[w].of = s, nonce[s] = 0, ~Taken(s), taken'[s] = now, stamp' = stamp,
           nonce'[s] = now + NonceTtl, now' = now, Passed(s)' <= Passed(s) + 1
    PROVE  PacedBy(s)'
<1> DEFINE a == Passed(s)'
<1>1. now <= stamp[s] + Window + Span
  BY DEF IInv, TypeOK, Checked, At
<1>2. Compared(s) = {} /\ served[s] = 0
  BY <1>1 DEF IInv, Untaken, Compared
<1>3. Passed(s) = 0
  BY <1>2, FS_EmptySet DEF Passed
<1>4. a \in {0, 1}
  <2>1. Passed(s)' \in Nat
    BY ComparedFinite DEF Passed, TypeOK
  <2> QED  BY <1>3, <2>1
<1>5. a * NonceTtl <= NonceTtl /\ (a - 1) * NonceTtl <= 0
  <2> HIDE DEF a
  <2>1. CASE a = 0
    BY <2>1
  <2>2. CASE a = 1
    BY <2>2
  <2> QED  BY <1>4, <2>1, <2>2
<1>6. now \in Int /\ stamp[s] \in Int /\ now + NonceTtl # 0
      /\ a * NonceTtl \in Int /\ (a - 1) * NonceTtl \in Int
  BY <1>1, <1>4 DEF IInv, TypeOK
<1>7. a * NonceTtl <= Held(s)' - taken'[s]
  <2>1. Held(s)' = now + NonceTtl
    BY <1>6 DEF Held
  <2> HIDE DEF a
  <2> QED  BY <1>5, <1>6, <2>1
<1>8. (a - 1) * NonceTtl <= stamp'[s] + Window + Span - taken'[s]
  <2> HIDE DEF a
  <2> QED  BY <1>1, <1>5, <1>6
<1> QED  BY <1>7, <1>8 DEF PacedBy

LEMMA SetNXNonceKeeps ==
    ASSUME IInv, NEW w \in Workers, NEW o \in Outcomes, SetNXNonce(w, o)
    PROVE  IInv'
<1> DEFINE s    == req[w].of
           free == nonce[s] = 0
           set  == free /\ o # "lost"
<1>0. /\ At(w, "nonce") /\ s \in Submissions
      /\ nonce' = IF set THEN [nonce EXCEPT ![s] = now + NonceTtl] ELSE nonce
      /\ taken' = IF set /\ ~Taken(s) THEN [taken EXCEPT ![s] = now] ELSE taken
      /\ UNCHANGED <<now, stamp, copies, served>>
  BY DEF IInv, TypeOK, SetNXNonce, Key, Expiry, TookPlace, At, Taken
<1>a. /\ faults' \in 0 .. MaxFaults /\ spoilt \subseteq spoilt' /\ spoilt' \subseteq Submissions
      /\ o # "ok" => s \in spoilt'
  BY <1>0 DEF IInv, TypeOK, SetNXNonce, Charge
<1>b. /\ req'[w].of = s /\ req'[w] \in [pc : {"compare", "refused"}, of : Submissions, ck : Time,
                                        verdict : {"none", "error", "repeated"}]
      /\ \A x \in Workers \ {w} : req'[x] = req[x]
      /\ req' \in [Workers -> [pc : {"idle", "nonce", "compare", "refused"},
                               of : Submissions \cup {"none"}, ck : Time,
                               verdict : {"none", "error", "repeated"}]]
      /\ req'[w].pc = "compare" => o = "ok" /\ free
      /\ req'[w].pc = "refused" /\ req'[w].verdict = "repeated" => o = "ok" /\ ~free
      /\ o = "ok" /\ free => req'[w].pc = "compare"
  BY <1>0 DEF IInv, TypeOK, SetNXNonce, Refuse, Key, At
<1>1. TypeOK'
  BY <1>0, <1>a, <1>b DEF IInv, TypeOK, At, Taken
<1>2. Checked'
  BY <1>0, <1>b DEF IInv, TypeOK, Checked, At
<1>3. Untaken'
  BY <1>0, <1>b DEF IInv, TypeOK, Untaken, Taken, Comparing, At
<1>4. Stored'
  BY <1>0 DEF IInv, TypeOK, Checked, Stored, Taken, At
<1>5. Paced'
  <2>1. ASSUME NEW q \in Submissions, q # s \/ ~set, Taken(q)' PROVE PacedBy(q)'
    <3>1. Taken(q) /\ taken'[q] = taken[q] /\ nonce'[q] = nonce[q]
      BY <1>0, <2>1 DEF IInv, TypeOK, Taken
    <3>2. Compared(q)' \subseteq Compared(q)
      BY <1>0, <1>b, <2>1 DEF Compared, Comparing, At
    <3>3. Cardinality(Compared(q)') <= Cardinality(Compared(q))
      BY <3>2, ComparedFinite, FS_Subset
    <3>4. Passed(q)' <= Passed(q)
      BY <1>0, <3>3, ComparedFinite DEF Passed, IInv, TypeOK
    <3>5. Held(q)' = Held(q) /\ Held(q) \in Int
      BY <1>0, <3>1 DEF Held, IInv, TypeOK
    <3> QED  BY <1>0, <1>1, <3>1, <3>4, <3>5, StaysPaced
  <2>2. ASSUME NEW q \in Submissions, q = s, set PROVE PacedBy(q)'
    <3>1. Compared(q)' \subseteq Compared(q) \cup {w}
      BY <1>b, <2>2 DEF Compared, Comparing, At
    <3>2. IsFiniteSet(Compared(q) \cup {w})
          /\ Cardinality(Compared(q) \cup {w}) \in {Cardinality(Compared(q)),
                                                   Cardinality(Compared(q)) + 1}
      BY ComparedFinite, FS_AddElement
    <3>3. Cardinality(Compared(q)') <= Cardinality(Compared(q) \cup {w})
      BY <3>1, <3>2, FS_Subset
    <3>4. Passed(q)' <= Passed(q) + 1
      <4>1. served'[q] = served[q] /\ served[q] \in Nat
        BY <1>0 DEF IInv, TypeOK
      <4> QED  BY <3>2, <3>3, <4>1, ComparedFinite DEF Passed
    <3>5. nonce'[q] = now + NonceTtl /\ nonce[q] = 0
      BY <1>0, <2>2 DEF IInv, TypeOK
    <3>6. CASE Taken(q)
      <4>1. taken'[q] = taken[q]
        BY <1>0, <2>2, <3>6
      <4> QED  BY <1>0, <1>1, <2>2, <3>4, <3>5, <3>6, <4>1, StoredAgain
    <3>7. CASE ~Taken(q)
      <4>1. taken'[q] = now
        BY <1>0, <2>2, <3>7 DEF IInv, TypeOK
      <4> QED  BY <1>0, <1>1, <2>2, <3>4, <3>5, <3>7, <4>1, StoredFirst
    <3> QED  BY <3>6, <3>7
  <2> QED  BY <1>0, <2>1, <2>2 DEF Paced
<1>6. \A q \in Submissions : LetIn(q) => LetIn(q)'
  BY <1>0, <1>a, <1>b DEF LetIn, At
<1>7. \A q \in Submissions : q = s /\ set => LetIn(q)'
  BY <1>0, <1>a, <1>b DEF LetIn, At
<1>8. Explained'
  <2>1. \A q \in Submissions : nonce'[q] # 0 => nonce[q] # 0 \/ (q = s /\ set)
    BY <1>0 DEF IInv, TypeOK
  <2> QED
    BY <2>1, <1>6, <1>7 DEF IInv, Explained
<1>9. RepeatExplained'
  BY <1>0, <1>b, <1>6 DEF IInv, TypeOK, Explained, RepeatExplained, At
<1> QED
  BY <1>1, <1>2, <1>3, <1>4, <1>5, <1>8, <1>9 DEF IInv

LEMMA CompareSignatureKeeps ==
    ASSUME IInv, NEW w \in Workers, NEW o \in Outcomes, CompareSignature(w, o)
    PROVE  IInv'
<1> DEFINE s == req[w].of
<1>0. /\ At(w, "compare") /\ s \in Submissions
      /\ served' = IF o = "ok" THEN [served EXCEPT ![s] = @ + 1] ELSE served
      /\ UNCHANGED <<now, stamp, nonce, copies, taken>>
  BY DEF IInv, TypeOK, CompareSignature, At
<1>a. /\ faults' \in 0 .. MaxFaults /\ spoilt \subseteq spoilt' /\ spoilt' \subseteq Submissions
      /\ o # "ok" => s \in spoilt'
  BY <1>0 DEF IInv, TypeOK, CompareSignature, Charge
<1>b. /\ \A x \in Workers \ {w} : req'[x] = req[x]
      /\ req'[w].pc \in {"idle", "refused"} /\ req'[w].verdict # "repeated"
      /\ req'[w].pc # "idle" => req'[w].of = s
      /\ req' \in [Workers -> [pc : {"idle", "nonce", "compare", "refused"},
                               of : Submissions \cup {"none"}, ck : Time,
                               verdict : {"none", "error", "repeated"}]]
  BY <1>0 DEF IInv, TypeOK, CompareSignature, Refuse, Idle, At
<1>1. TypeOK'
  BY <1>0, <1>a, <1>b DEF IInv, TypeOK, At
<1>2. Checked'
  BY <1>0, <1>b DEF IInv, TypeOK, Checked, At
<1>3. Untaken'
  BY <1>0, <1>b DEF IInv, TypeOK, Untaken, Taken, Comparing, At
<1>4. Stored'
  BY <1>0 DEF IInv, TypeOK, Stored, Taken
<1>5. Paced'
  <2>1. ASSUME NEW q \in Submissions, Taken(q)' PROVE PacedBy(q)'
    <3>1. Taken(q) /\ Held(q)' = Held(q) /\ Held(q) \in Int
      BY <1>0, <2>1 DEF Taken, Held, IInv, TypeOK
    <3>2. Compared(q)' = IF q = s THEN Compared(q) \ {w} ELSE Compared(q)
      BY <1>0, <1>b DEF Compared, Comparing, At
    <3>3. q = s => Cardinality(Compared(q)') = Cardinality(Compared(q)) - 1
      <4>1. q = s => w \in Compared(q)
        BY <1>0 DEF Compared, Comparing
      <4>2. q = s => Cardinality(Compared(q) \ {w}) = Cardinality(Compared(q)) - 1
        BY <4>1, ComparedFinite, FS_RemoveElement
      <4> QED  BY <3>2, <4>2
    <3>4. served[q] \in Nat /\ served'[q] <= IF q = s THEN served[q] + 1 ELSE served[q]
      BY <1>0 DEF IInv, TypeOK
    <3>5. served'[q] \in Nat
      BY <1>1 DEF TypeOK
    <3>6. Passed(q)' <= Passed(q)
      <4>1. CASE q = s
        BY <3>3, <3>4, <3>5, <4>1, ComparedFinite DEF Passed
      <4>2. CASE q # s
        <5>1. Cardinality(Compared(q)') = Cardinality(Compared(q))
          BY <3>2, <4>2
        <5> QED  BY <3>4, <3>5, <4>2, <5>1, ComparedFinite DEF Passed
      <4> QED  BY <4>1, <4>2
    <3> QED  BY <1>0, <1>1, <3>1, <3>6, StaysPaced
  <2> QED  BY <2>1 DEF Paced
<1>6. \A q \in Submissions : LetIn(q) => LetIn(q)'
  BY <1>0, <1>a, <1>b DEF IInv, TypeOK, LetIn, At
<1>7. Explained' /\ RepeatExplained'
  BY <1>0, <1>b, <1>6 DEF IInv, TypeOK, Explained, RepeatExplained, At
<1> QED
  BY <1>1, <1>2, <1>3, <1>4, <1>5, <1>7 DEF IInv

LEMMA LeaveKeeps ==
    ASSUME IInv, NEW w \in Workers, Leave(w)
    PROVE  IInv'
<1>0. /\ At(w, "refused") /\ req' = [req EXCEPT ![w] = Idle]
      /\ UNCHANGED <<now, stamp, nonce, copies, faults, taken, served, spoilt>>
  BY DEF Leave
<1>1. TypeOK'
  BY <1>0 DEF IInv, TypeOK, At, Idle
<1>2. Checked' /\ Untaken' /\ Stored'
  BY <1>0 DEF IInv, TypeOK, Checked, Untaken, Stored, Taken, Comparing, At, Idle
<1>4. Paced'
  <2>1. \A q \in Submissions : Compared(q)' \subseteq Compared(q) /\ Held(q)' = Held(q)
    BY <1>0 DEF Compared, Comparing, At, Held, Idle, IInv, TypeOK
  <2>2. \A q \in Submissions : Held(q) \in Int /\ Taken(q)' = Taken(q)
    BY <1>0 DEF Held, IInv, TypeOK, Taken
  <2> QED  BY <1>0, <1>1, <2>1, <2>2, KeepsPaced
<1>3. Explained' /\ RepeatExplained'
  BY <1>0 DEF IInv, TypeOK, Explained, RepeatExplained, LetIn, At, Idle
<1> QED
  BY <1>1, <1>2, <1>3, <1>4 DEF IInv

LEMMA TickKeeps ==
    ASSUME IInv, Tick
    PROVE  IInv'
<1>0. /\ now < MaxTime /\ now' = now + 1
      /\ \A w \in Workers : At(w, "nonce") => now < req[w].ck + Span
      /\ nonce' = [s \in Submissions |-> IF nonce[s] <= now' THEN 0 ELSE nonce[s]]
      /\ UNCHANGED <<stamp, req, copies, faults, taken, served, spoilt>>
  BY DEF Tick
<1>1. TypeOK'
  BY <1>0 DEF IInv, TypeOK, At
<1>2. Checked' /\ Untaken'
  BY <1>0 DEF IInv, TypeOK, Checked, Untaken, Taken, Comparing, At
<1>3. Stored'
  BY <1>0 DEF IInv, TypeOK, Stored, Taken
<1>4. Paced'
  <2>1. \A q \in Submissions : Compared(q)' = Compared(q) /\ Taken(q)' = Taken(q)
    BY <1>0 DEF Compared, Comparing, At, Taken
  <2>2. \A q \in Submissions : Held(q)' >= Held(q)
    BY <1>0 DEF Held, IInv, TypeOK
  <2> QED  BY <1>0, <1>1, <2>1, <2>2, KeepsPaced
<1>5. Explained' /\ RepeatExplained'
  BY <1>0 DEF IInv, TypeOK, Explained, RepeatExplained, LetIn, At
<1> QED
  BY <1>1, <1>2, <1>3, <1>4, <1>5 DEF IInv

LEMMA CrashKeeps ==
    ASSUME IInv, Crash
    PROVE  IInv'
<1>0. /\ faults < MaxFaults /\ faults' = faults + 1
      /\ req' = [w \in Workers |-> Idle]
      /\ spoilt' = spoilt \cup ({req[w].of : w \in Workers} \cap Submissions)
      /\ UNCHANGED <<now, stamp, nonce, copies, taken, served>>
  BY DEF Crash
<1>1. TypeOK'
  BY <1>0 DEF IInv, TypeOK, At, Idle
<1>2. Checked' /\ Untaken' /\ Stored'
  BY <1>0 DEF IInv, TypeOK, Checked, Untaken, Stored, Taken, Comparing, At, Idle
<1>4. Paced'
  <2>1. \A q \in Submissions : Compared(q)' \subseteq Compared(q) /\ Held(q)' = Held(q)
    BY <1>0 DEF Compared, Comparing, At, Held, Idle, IInv, TypeOK
  <2>2. \A q \in Submissions : Held(q) \in Int /\ Taken(q)' = Taken(q)
    BY <1>0 DEF Held, IInv, TypeOK, Taken
  <2> QED  BY <1>0, <1>1, <2>1, <2>2, KeepsPaced
<1>3. Explained' /\ RepeatExplained'
  BY <1>0 DEF IInv, TypeOK, Explained, RepeatExplained, LetIn, At, Idle
<1> QED
  BY <1>1, <1>2, <1>3, <1>4 DEF IInv

LEMMA NextKeeps == IInv /\ [Next]_vars => IInv'
<1> SUFFICES ASSUME IInv, [Next]_vars PROVE IInv'
  OBVIOUS
<1>1. CASE UNCHANGED vars
  <2>1. UNCHANGED <<now, stamp, nonce, req, copies, faults, taken, served, spoilt>>
    BY <1>1 DEF vars
  <2>2. TypeOK' /\ Checked' /\ Untaken' /\ Stored' /\ Explained' /\ RepeatExplained'
    BY <2>1 DEF IInv, TypeOK, Checked, Untaken, Stored, Explained, RepeatExplained, LetIn, Taken,
                Comparing, At
  <2>3. \A q \in Submissions :
          Compared(q)' = Compared(q) /\ Held(q)' = Held(q) /\ Taken(q)' = Taken(q)
    BY <2>1 DEF Compared, Comparing, At, Held, Taken
  <2>4. \A q \in Submissions : Held(q) \in Int
    BY DEF Held, IInv, TypeOK
  <2>5. Paced'
    BY <2>1, <2>2, <2>3, <2>4, KeepsPaced
  <2> QED  BY <2>2, <2>5 DEF IInv
<1>2. CASE Next
  BY <1>2, SignKeeps, CheckStampKeeps, SetNXNonceKeeps, CompareSignatureKeeps, LeaveKeeps,
     TickKeeps, CrashKeeps DEF Next
<1> QED
  BY <1>1, <1>2

LEMMA Inductive == Spec => []IInv
BY InitHolds, NextKeeps, PTL DEF Spec

-----------------------------------------------------------------------------
(* The results.                                                            *)

\* TypeOK: no nonce outlives one lifetime (sign.go:23, 74).
THEOREM TypeCorrect == Spec => []TypeOK
<1>1. IInv => TypeOK
  BY DEF IInv
<1> QED
  BY Inductive, <1>1, PTL

\* ServedPaced, for any number of copies and workers and whatever fails, as long as
\* a SETNX takes effect within Span of the check of the time stamp
\* (sign.go:63-84).
THEOREM RepeatsPaced == Spec => []ServedPaced
<1>1. IInv => ServedPaced
  <2> SUFFICES ASSUME IInv, NEW s \in Submissions, Taken(s)
               PROVE  (served[s] - 1) * NonceTtl <= stamp[s] + Window + Span - taken[s]
    BY DEF ServedPaced, Taken
  <2> DEFINE a == served[s] - 1  b == Passed(s) - 1
  <2>1. a \in Int /\ b \in Int /\ a <= b
    BY ComparedFinite DEF IInv, TypeOK, Passed
  <2>2. a * NonceTtl <= b * NonceTtl
    <3> HIDE DEF a, b
    <3> QED  BY <2>1, Times
  <2>3. b * NonceTtl <= stamp[s] + Window + Span - taken[s]
    BY DEF IInv, Paced, PacedBy
  <2>4. /\ stamp[s] \in Int /\ taken[s] \in Int
        /\ a * NonceTtl \in Int /\ b * NonceTtl \in Int
    BY <2>1 DEF IInv, TypeOK
  <2> QED  BY <2>2, <2>3, <2>4
<1> QED
  BY Inductive, <1>1, PTL

\* RepeatExplained: nobody is told of a repetition without there being one
\* (sign.go:80-84).
THEOREM RepetitionsReal == Spec => []RepeatExplained
<1>1. IInv => RepeatExplained
  BY DEF IInv
<1> QED
  BY Inductive, <1>1, PTL

=============================================================================
