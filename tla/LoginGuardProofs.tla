-------------------------- MODULE LoginGuardProofs --------------------------
(***************************************************************************)
(* Theorems about LoginGuard for every value of its constants.             *)
(***************************************************************************)
EXTENDS LoginGuard, FiniteSetTheorems, TLAPS

\* The logins of account a that were let through and are not counted yet, and
\* those of them that have failed.
Pending(a) == {w \in Workers : req[w].acc = a /\ req[w].pc \in {"verify", "bump"}}
Failed(a)  == {w \in Workers : req[w].acc = a /\ req[w].pc = "bump"}

LEMMA PendingFinite ==
    ASSUME NEW a
    PROVE  /\ IsFiniteSet(Pending(a)) /\ IsFiniteSet(Failed(a))
           /\ Cardinality(Failed(a)) \in Nat /\ Cardinality(Pending(a)) \in Nat
           /\ Cardinality(Workers) \in Nat
           /\ Cardinality(Failed(a)) <= Cardinality(Pending(a))
           /\ Cardinality(Pending(a)) <= Cardinality(Workers)
<1>1. Failed(a) \subseteq Pending(a) /\ Pending(a) \subseteq Workers
  BY DEF Failed, Pending
<1>2. IsFiniteSet(Pending(a)) /\ Cardinality(Pending(a)) <= Cardinality(Workers)
  BY <1>1, WorkersAssumption, FS_Subset
<1>3. IsFiniteSet(Failed(a)) /\ Cardinality(Failed(a)) <= Cardinality(Pending(a))
  BY <1>1, <1>2, FS_Subset
<1> QED  BY <1>2, <1>3, WorkersAssumption, FS_CardinalityType

LEMMA PendingFiniteNext ==
    ASSUME NEW a
    PROVE  /\ IsFiniteSet(Pending(a)') /\ IsFiniteSet(Failed(a)')
           /\ Cardinality(Failed(a)') \in Nat /\ Cardinality(Pending(a)') \in Nat
           /\ Cardinality(Pending(a)') <= Cardinality(Workers)
<1>1. Failed(a)' \subseteq Workers /\ Pending(a)' \subseteq Workers
  BY DEF Failed, Pending
<1> QED  BY <1>1, WorkersAssumption, FS_Subset, FS_CardinalityType

-----------------------------------------------------------------------------
LEMMA TypeInit == Init => TypeOK
BY NoneAssumption, FaultsAssumption, TtlAssumption DEF Init, TypeOK, NoKey, Idle, Steps, Forever

LEMMA TypeStep == TypeOK /\ [Next]_vars => TypeOK'
<1> SUFFICES ASSUME TypeOK, [Next]_vars PROVE TypeOK'
  OBVIOUS
<1> DEFINE Keys == [Accounts -> [n : Nat, left : {Forever} \cup (0 .. LockTtl)]]
           Reqs == [Workers -> [pc : Steps, acc : Accounts \cup {None}]]
<1>1. ASSUME NEW o, Charge(o) PROVE faults' \in 0 .. MaxFaults
  BY <1>1, FaultsAssumption DEF Charge, TypeOK
<1>2. ASSUME NEW A, Vanish(A)
      PROVE  tries' \in [Accounts -> Nat] /\ lost' \in [Accounts -> Nat]
  BY <1>2 DEF Vanish, TypeOK
<1>3. ASSUME NEW w \in Workers, Finish(w)
      PROVE  req' \in Reqs /\ \A x \in Workers : req'[x].pc = "idle" <=> req'[x].acc = None
  BY <1>3 DEF Finish, Idle, Steps, TypeOK
<1>4. ASSUME NEW w \in Workers, NEW s \in Steps \ {"idle"}, Goto(w, s), req[w].pc # "idle"
      PROVE  req' \in Reqs /\ \A x \in Workers : req'[x].pc = "idle" <=> req'[x].acc = None
  BY <1>4 DEF Goto, TypeOK
<1>5. ASSUME NEW w \in Workers, NEW a \in Accounts, NEW o, ReadCounter(w, a, o) PROVE TypeOK'
  BY <1>5, <1>1, NoneAssumption DEF ReadCounter, TypeOK, Steps
<1>6. ASSUME NEW w \in Workers, VerifyFails(w) PROVE TypeOK'
  <2>1. req[w].acc \in Accounts /\ req[w].pc # "idle"
    BY <1>6 DEF VerifyFails, At, TypeOK
  <2> QED  BY <1>4, <1>6, <2>1 DEF VerifyFails, TypeOK, Steps
<1>7. ASSUME NEW w \in Workers, VerifySucceeds(w) \/ Refuse(w) PROVE TypeOK'
  BY <1>3, <1>4, <1>7 DEF VerifySucceeds, Refuse, At, TypeOK, Steps
<1>8. ASSUME NEW w \in Workers, NEW o, BumpLoginErr(w, o) PROVE TypeOK'
  <2> DEFINE a == req[w].acc
  <2>1. a \in Accounts /\ req[w].pc # "idle"
    BY <1>8 DEF BumpLoginErr, At, TypeOK
  <2>2. req' \in Reqs /\ \A x \in Workers : req'[x].pc = "idle" <=> req'[x].acc = None
    BY <1>3, <1>4, <1>8, <2>1 DEF BumpLoginErr, Steps
  <2>3. Incremented(key[a]) \in [n : Nat, left : {Forever} \cup (0 .. LockTtl)]
        /\ Incremented(key[a]).n # 0 /\ Incremented(key[a]).left # 0
    BY <2>1 DEF Incremented, TypeOK, Forever
  <2>4. key' \in Keys /\ \A b \in Accounts : key'[b].n = 0 <=> key'[b].left = 0
    BY <1>8, <2>1, <2>3 DEF BumpLoginErr, TypeOK
  <2>5. lost' \in [Accounts -> Nat] /\ tries' = tries
    BY <1>8, <2>1 DEF BumpLoginErr, TypeOK
  <2> QED  BY <1>1, <1>8, <2>2, <2>4, <2>5 DEF BumpLoginErr, TypeOK
<1>9. ASSUME NEW w \in Workers, NEW o, ExpireCounter(w, o) PROVE TypeOK'
  <2> DEFINE a == req[w].acc
  <2>2. a \in Accounts
    BY <1>9 DEF ExpireCounter, At, TypeOK
  <2>3. Bounded(key[a]) \in [n : Nat, left : {Forever} \cup (0 .. LockTtl)]
        /\ Bounded(key[a]).n = key[a].n /\ (Bounded(key[a]).n = 0 <=> Bounded(key[a]).left = 0)
    BY <2>2, TtlAssumption DEF TypeOK, Bounded
  <2>4. key' = key \/ key' = [key EXCEPT ![a] = Bounded(key[a])]
    BY <1>9 DEF ExpireCounter
  <2>1. key' \in Keys /\ \A b \in Accounts : key'[b].n = 0 <=> key'[b].left = 0
    BY <2>2, <2>3, <2>4 DEF TypeOK
  <2> QED  BY <1>1, <1>3, <1>9, <2>1 DEF ExpireCounter, TypeOK
<1>10. ASSUME NEW w \in Workers, NEW o, ClearCounter(w, o) PROVE TypeOK'
  <2>2. NoKey \in [n : Nat, left : {Forever} \cup (0 .. LockTtl)] /\ NoKey.n = 0 /\ NoKey.left = 0
    BY TtlAssumption DEF NoKey
  <2>3. key' = key \/ key' = [key EXCEPT ![req[w].acc] = NoKey]
    BY <1>10 DEF ClearCounter
  <2>1. key' \in Keys /\ \A b \in Accounts : key'[b].n = 0 <=> key'[b].left = 0
    BY <2>2, <2>3 DEF TypeOK
  <2> QED  BY <1>1, <1>2, <1>3, <1>10, <2>1 DEF ClearCounter, TypeOK
<1>11. CASE Tick
  <2>1. \A a \in Accounts : /\ Aged(key[a]) \in [n : Nat, left : {Forever} \cup (0 .. LockTtl)]
                            /\ Aged(key[a]).n = 0 <=> Aged(key[a]).left = 0
    BY TtlAssumption DEF Aged, NoKey, TypeOK, Forever
  <2> QED  BY <1>2, <1>11, <2>1 DEF Tick, TypeOK
<1>12. CASE Crash
  BY <1>1, <1>2, <1>12 DEF Crash, Idle, Steps, TypeOK
<1>13. CASE UNCHANGED vars
  BY <1>13 DEF vars, TypeOK
<1> QED
  BY <1>5, <1>6, <1>7, <1>8, <1>9, <1>10, <1>11, <1>12, <1>13 DEF Next, Progress

\* Every variable of the guard keeps its type (auth_service.go's counter key).
THEOREM TypeCorrect == Spec => []TypeOK
BY TypeInit, TypeStep, PTL DEF Spec

-----------------------------------------------------------------------------
(* The bound on guesses.  Counted says that a failed check is in the       *)
(* counter, on its way to it, or lost; Admitted is the bound itself, for   *)
(* the counter and everything let through but not yet counted.             *)

Counted == \A a \in Accounts : tries[a] <= key[a].n + Cardinality(Failed(a)) + lost[a]

Admitted ==
    Limit > 0 => \A a \in Accounts :
        key[a].n + Cardinality(Pending(a)) + lost[a] <= Limit - 1 + Cardinality(Workers) + faults

LostAreFaults == \A a \in Accounts : lost[a] <= faults

GInv == TypeOK /\ Counted /\ Admitted /\ LostAreFaults

LEMMA GInvImplies == GInv => GuessesBounded
<1> SUFFICES ASSUME GInv, Limit > 0, NEW a \in Accounts
             PROVE  tries[a] <= Limit - 1 + Cardinality(Workers) + faults
  BY DEF GuessesBounded
<1>1. key[a].n \in Nat /\ tries[a] \in Nat /\ lost[a] \in Nat /\ faults \in Nat /\ Limit \in Nat
  BY FaultsAssumption, LimitAssumption DEF GInv, TypeOK
<1> QED  BY <1>1, PendingFinite DEF GInv, Counted, Admitted

\* A step that lets nobody through and takes no count away from the books:
\* it shrinks what is pending by as much as it counts or loses.
LEMMA GInvKept ==
    ASSUME GInv, TypeOK', faults <= faults',
           \A a \in Accounts :
             /\ tries'[a] <= key'[a].n + Cardinality(Failed(a)') + lost'[a]
             /\ key'[a].n + Cardinality(Pending(a)') + lost'[a]
                  <= key[a].n + Cardinality(Pending(a)) + lost[a]
             /\ lost'[a] <= faults'
    PROVE  GInv'
<1>1. faults \in Nat /\ faults' \in Nat /\ Limit \in Nat
  BY FaultsAssumption, LimitAssumption DEF GInv, TypeOK
<1>2. \A a \in Accounts : key[a].n \in Nat /\ key'[a].n \in Nat /\ lost[a] \in Nat /\ lost'[a] \in Nat
  BY DEF GInv, TypeOK
<1>3. Admitted'
  <2> SUFFICES ASSUME Limit > 0, NEW a \in Accounts
               PROVE  key'[a].n + Cardinality(Pending(a)') + lost'[a]
                        <= Limit - 1 + Cardinality(Workers) + faults'
    BY DEF Admitted
  <2>1. key[a].n + Cardinality(Pending(a)) + lost[a] <= Limit - 1 + Cardinality(Workers) + faults
    BY DEF GInv, Admitted
  <2> QED  BY <1>1, <1>2, <2>1, PendingFinite, PendingFiniteNext
<1> QED  BY <1>3 DEF GInv, Counted, LostAreFaults

LEMMA GInvInit == Init => GInv
<1> SUFFICES ASSUME Init PROVE GInv
  OBVIOUS
<1>1. \A a : Pending(a) = {} /\ Failed(a) = {}
  BY DEF Init, Pending, Failed, Idle
<1>2. Cardinality(Workers) \in Nat /\ Cardinality({}) = 0
  BY WorkersAssumption, FS_CardinalityType, FS_EmptySet
<1>3. Counted /\ Admitted /\ LostAreFaults
  BY <1>1, <1>2, LimitAssumption DEF Init, Counted, Admitted, LostAreFaults, NoKey
<1> QED  BY <1>3, TypeInit DEF GInv

LEMMA GInvRead ==
    ASSUME GInv, TypeOK', NEW w \in Workers, NEW b \in Accounts, NEW o \in Outcomes,
           ReadCounter(w, b, o)
    PROVE  GInv'
<1>1. /\ UNCHANGED <<key, tries, lost>> /\ req[w].pc = "idle" /\ req[w].acc = None
      /\ req'[w] = [pc |-> "verify", acc |-> b] /\ \A x \in Workers \ {w} : req'[x] = req[x]
  BY DEF ReadCounter, At, GInv, TypeOK
<1>2. faults \in Nat /\ faults' \in Nat /\ Limit \in Nat /\ faults <= faults'
  BY FaultsAssumption, LimitAssumption DEF ReadCounter, Charge, GInv, TypeOK
<1>3. \A a \in Accounts : Failed(a)' = Failed(a)
  BY <1>1 DEF Failed
<1>4. \A a \in Accounts : key[a].n \in Nat /\ lost[a] \in Nat /\ lost[a] <= faults
  BY DEF GInv, TypeOK, LostAreFaults
<1>5. Counted' /\ LostAreFaults'
  BY <1>1, <1>2, <1>3, <1>4 DEF GInv, Counted, LostAreFaults
<1>6. Admitted'
  <2> SUFFICES ASSUME Limit > 0, NEW a \in Accounts
               PROVE  key[a].n + Cardinality(Pending(a)') + lost[a]
                        <= Limit - 1 + Cardinality(Workers) + faults'
    BY <1>1 DEF Admitted
  <2>1. key[a].n + Cardinality(Pending(a)) + lost[a] <= Limit - 1 + Cardinality(Workers) + faults
    BY DEF GInv, Admitted
  <2>2. CASE a # b
    <3>1. Pending(a)' = Pending(a)
      BY <1>1, <2>2, NoneAssumption DEF Pending
    <3> QED  BY <2>1, <3>1, <1>2, <1>4, PendingFinite
  <2>3. CASE a = b /\ o = "ok"
    <3>1. key[a].n <= Limit - 1
      BY <2>3, <1>2, <1>4 DEF ReadCounter, Blocked
    <3>2. Cardinality(Pending(a)') <= Cardinality(Workers) /\ Cardinality(Pending(a)') \in Nat
          /\ Cardinality(Workers) \in Nat
      BY PendingFinite, PendingFiniteNext
    <3>3. lost[a] \in Nat /\ lost[a] <= faults'
      BY <1>2, <1>4
    <3> HIDE DEF Pending
    <3> QED  BY <3>1, <3>2, <3>3, <1>2, <1>4
  <2>4. CASE a = b /\ o # "ok"
    <3>1. faults' = faults + 1
      BY <2>4 DEF ReadCounter, Charge
    <3>2. Pending(a)' = Pending(a) \cup {w}
      BY <1>1, <2>4, NoneAssumption DEF Pending
    <3>3. Cardinality(Pending(a)') <= Cardinality(Pending(a)) + 1
      <4>1. IsFiniteSet(Pending(a)) /\ Cardinality(Pending(a)) \in Nat
        BY PendingFinite
      <4>2. Cardinality(Pending(a) \cup {w}) \in {Cardinality(Pending(a)), Cardinality(Pending(a)) + 1}
        BY <4>1, FS_AddElement
      <4> QED  BY <3>2, <4>1, <4>2
    <3> QED  BY <2>1, <3>1, <3>3, <1>2, <1>4, PendingFinite, PendingFiniteNext
  <2> QED  BY <2>2, <2>3, <2>4
<1> QED  BY <1>5, <1>6 DEF GInv

LEMMA GInvVerify ==
    ASSUME GInv, TypeOK', NEW w \in Workers, VerifyFails(w) \/ VerifySucceeds(w) \/ Refuse(w)
    PROVE  GInv'
<1>0. PICK b \in Accounts : b = req[w].acc
  BY DEF VerifyFails, VerifySucceeds, Refuse, At, GInv, TypeOK
<1>1. /\ UNCHANGED <<key, lost, faults>> /\ req[w].pc = "verify" /\ req[w].acc = b
      /\ \A x \in Workers \ {w} : req'[x] = req[x]
  BY <1>0 DEF VerifyFails, VerifySucceeds, Refuse, At, Goto, Finish, GInv, TypeOK
<1>2. \A a \in Accounts : key[a].n \in Nat /\ lost[a] \in Nat /\ tries[a] \in Nat /\ lost[a] <= faults
  BY DEF GInv, TypeOK, LostAreFaults
<1>3. faults \in Nat /\ faults <= faults'
  BY <1>1, FaultsAssumption DEF GInv, TypeOK
<1>4. \A a \in Accounts : tries[a] <= key[a].n + Cardinality(Failed(a)) + lost[a]
  BY DEF GInv, Counted
<1>5. CASE VerifyFails(w)
  <2>1. req'[w].pc = "bump" /\ req'[w].acc = b /\ tries' = [tries EXCEPT ![b] = tries[b] + 1]
    BY <1>1, <1>5 DEF VerifyFails, Goto, GInv, TypeOK
  <2>2. \A a \in Accounts : Pending(a)' = Pending(a)
    BY <1>1, <2>1 DEF Pending
  <2>3. \A a \in Accounts \ {b} : Failed(a)' = Failed(a) /\ tries'[a] = tries[a]
    BY <1>1, <2>1 DEF Failed, GInv, TypeOK
  <2>4. Failed(b)' = Failed(b) \cup {w} /\ w \notin Failed(b) /\ tries'[b] = tries[b] + 1
    BY <1>1, <2>1 DEF Failed, GInv, TypeOK
  <2>5. Cardinality(Failed(b)') = Cardinality(Failed(b)) + 1
    BY <2>4, PendingFinite, FS_AddElement
  <2>6. ASSUME NEW a \in Accounts PROVE tries'[a] <= key[a].n + Cardinality(Failed(a)') + lost[a]
    <3>1. CASE a = b
      BY <3>1, <1>2, <1>4, <2>4, <2>5, PendingFinite
    <3>2. CASE a # b
      BY <3>2, <1>4, <2>3
    <3> QED  BY <3>1, <3>2
  <2>7. \A a \in Accounts : key[a].n + Cardinality(Pending(a)') + lost[a]
                              <= key[a].n + Cardinality(Pending(a)) + lost[a]
    BY <1>2, <2>2, PendingFinite
  <2> QED  BY <1>1, <1>2, <1>3, <2>6, <2>7, GInvKept
<1>6. CASE VerifySucceeds(w) \/ Refuse(w)
  <2>1. tries' = tries /\ req'[w].pc \notin {"verify", "bump"}
    BY <1>6 DEF VerifySucceeds, Refuse, Goto, Finish, Idle, GInv, TypeOK
  <2>2. \A a \in Accounts : Pending(a)' \subseteq Pending(a) /\ Failed(a)' = Failed(a)
    BY <1>1, <2>1 DEF Pending, Failed
  <2>3. \A a \in Accounts : Cardinality(Pending(a)') <= Cardinality(Pending(a))
    BY <2>2, PendingFinite, FS_Subset
  <2>4. \A a \in Accounts : key[a].n + Cardinality(Pending(a)') + lost[a]
                              <= key[a].n + Cardinality(Pending(a)) + lost[a]
    BY <1>2, <2>3, PendingFinite, PendingFiniteNext
  <2> QED  BY <1>1, <1>2, <1>3, <1>4, <2>1, <2>2, <2>4, GInvKept
<1> QED  BY <1>5, <1>6

LEMMA GInvBump ==
    ASSUME GInv, TypeOK', NEW w \in Workers, NEW o \in Outcomes, BumpLoginErr(w, o)
    PROVE  GInv'
<1>0. PICK b \in Accounts : b = req[w].acc
  BY DEF BumpLoginErr, At, GInv, TypeOK
<1>1. /\ tries' = tries /\ req[w].pc = "bump" /\ req[w].acc = b
      /\ \A x \in Workers \ {w} : req'[x] = req[x]
      /\ req'[w].pc \notin {"verify", "bump"}
  BY <1>0 DEF BumpLoginErr, At, Goto, Finish, Idle, GInv, TypeOK
<1>2. \A a \in Accounts : key[a].n \in Nat /\ lost[a] \in Nat /\ tries[a] \in Nat /\ lost[a] <= faults
  BY DEF GInv, TypeOK, LostAreFaults
<1>3. faults \in Nat /\ faults' \in Nat /\ faults <= faults'
  BY FaultsAssumption DEF BumpLoginErr, Charge, GInv, TypeOK
<1>4. \A a \in Accounts : tries[a] <= key[a].n + Cardinality(Failed(a)) + lost[a]
  BY DEF GInv, Counted
<1>5. \A a \in Accounts \ {b} : /\ key'[a] = key[a] /\ lost'[a] = lost[a]
                                /\ Pending(a)' = Pending(a) /\ Failed(a)' = Failed(a)
  <2>1. \A a \in Accounts \ {b} : key'[a] = key[a] /\ lost'[a] = lost[a]
    BY <1>1 DEF BumpLoginErr, GInv, TypeOK
  <2>2. \A a \in Accounts \ {b} : Pending(a)' = Pending(a) /\ Failed(a)' = Failed(a)
    BY <1>1 DEF Pending, Failed
  <2> QED  BY <2>1, <2>2
<1>6. \/ key'[b].n = key[b].n + 1 /\ lost'[b] = lost[b]
      \/ key'[b].n = key[b].n /\ lost'[b] = lost[b] + 1 /\ faults' = faults + 1
  BY <1>1 DEF BumpLoginErr, Incremented, TookPlace, Charge, Outcomes, GInv, TypeOK
<1>7. /\ Failed(b)' = Failed(b) \ {w} /\ w \in Failed(b)
      /\ Pending(b)' = Pending(b) \ {w} /\ w \in Pending(b)
  BY <1>1 DEF Failed, Pending
<1>8. /\ Cardinality(Failed(b)') = Cardinality(Failed(b)) - 1
      /\ Cardinality(Pending(b)') = Cardinality(Pending(b)) - 1
  <2>1. IsFiniteSet(Failed(b)) /\ IsFiniteSet(Pending(b))
    BY PendingFinite
  <2> QED  BY <1>7, <2>1, FS_RemoveElement
<1>9. ASSUME NEW a \in Accounts
      PROVE  /\ tries'[a] <= key'[a].n + Cardinality(Failed(a)') + lost'[a]
             /\ key'[a].n + Cardinality(Pending(a)') + lost'[a]
                             <= key[a].n + Cardinality(Pending(a)) + lost[a]
             /\ lost'[a] <= faults'
  <2>1. Cardinality(Failed(a)) \in Nat /\ Cardinality(Pending(a)) \in Nat
    BY PendingFinite
  <2>2. CASE a = b
    BY <2>1, <2>2, <1>1, <1>2, <1>3, <1>4, <1>6, <1>8
  <2>3. CASE a # b
    BY <2>1, <2>3, <1>1, <1>2, <1>3, <1>4, <1>5
  <2> QED  BY <2>2, <2>3
<1> QED  BY <1>3, <1>9, GInvKept

\* The counter of an account goes on, or it and its history start afresh.
LEMMA GInvReset ==
    ASSUME GInv, TypeOK', faults <= faults',
           \A a \in Accounts : /\ Cardinality(Pending(a)') <= Cardinality(Pending(a))
                               /\ \/ /\ key'[a].n = key[a].n /\ tries'[a] = tries[a]
                                     /\ lost'[a] = lost[a] /\ Failed(a)' = Failed(a)
                                  \/ /\ key'[a].n \in {0, key[a].n}
                                     /\ tries'[a] = 0 /\ lost'[a] = 0
    PROVE  GInv'
<1>1. \A a \in Accounts : /\ key[a].n \in Nat /\ key'[a].n \in Nat /\ lost[a] \in Nat
                          /\ lost'[a] \in Nat /\ tries[a] \in Nat /\ lost[a] <= faults
  BY DEF GInv, TypeOK, LostAreFaults
<1>2. \A a \in Accounts : tries[a] <= key[a].n + Cardinality(Failed(a)) + lost[a]
  BY DEF GInv, Counted
<1>3. faults \in Nat /\ faults' \in Nat
  BY FaultsAssumption DEF GInv, TypeOK
<1>4. \A a \in Accounts :
        /\ tries'[a] <= key'[a].n + Cardinality(Failed(a)') + lost'[a]
        /\ key'[a].n + Cardinality(Pending(a)') + lost'[a]
             <= key[a].n + Cardinality(Pending(a)) + lost[a]
        /\ lost'[a] <= faults'
  BY <1>1, <1>2, <1>3, PendingFinite, PendingFiniteNext
<1> QED  BY <1>4, GInvKept

LEMMA GInvOther ==
    ASSUME GInv, TypeOK',
           \/ \E w \in Workers, o \in Outcomes : ExpireCounter(w, o) \/ ClearCounter(w, o)
           \/ Tick \/ Crash \/ UNCHANGED vars
    PROVE  GInv'
<1>1. faults <= faults'
  <2>1. faults \in Nat
    BY FaultsAssumption DEF GInv, TypeOK
  <2>2. ASSUME NEW o, Charge(o) PROVE faults <= faults'
    BY <2>1, <2>2 DEF Charge
  <2>3. CASE \E w \in Workers, o \in Outcomes : ExpireCounter(w, o) \/ ClearCounter(w, o)
    BY <2>2, <2>3 DEF ExpireCounter, ClearCounter
  <2>4. CASE Crash
    BY <2>2, <2>4 DEF Crash
  <2>5. CASE Tick \/ UNCHANGED vars
    BY <2>1, <2>5 DEF Tick, vars
  <2> QED  BY <2>3, <2>4, <2>5
<1>2. \A a : Cardinality(Pending(a)) <= Cardinality(Pending(a))
  BY PendingFinite
<1>3. ASSUME NEW w \in Workers, NEW o \in Outcomes, ExpireCounter(w, o) \/ ClearCounter(w, o)
      PROVE  GInv'
  <2>1. /\ req[w].pc \in {"expire", "clear"} /\ req' = [req EXCEPT ![w] = Idle]
    BY <1>3 DEF ExpireCounter, ClearCounter, At, Finish
  <2>2. \A a : Pending(a)' = Pending(a) /\ Failed(a)' = Failed(a)
    BY <2>1 DEF Pending, Failed, Idle, GInv, TypeOK
  <2>3. ASSUME NEW a \in Accounts
        PROVE  \/ key'[a].n = key[a].n /\ tries'[a] = tries[a] /\ lost'[a] = lost[a]
               \/ key'[a].n = 0 /\ tries'[a] = 0 /\ lost'[a] = 0
    BY <1>3, <2>3 DEF ExpireCounter, ClearCounter, Bounded, Vanish, NoKey, GInv, TypeOK
  <2> QED  BY <1>1, <1>2, <2>2, <2>3, GInvReset
<1>4. CASE Tick
  <2>1. \A a : Pending(a)' = Pending(a) /\ Failed(a)' = Failed(a)
    BY <1>4 DEF Tick, Pending, Failed
  <2>2. ASSUME NEW a \in Accounts
        PROVE  \/ key'[a].n = key[a].n /\ tries'[a] = tries[a] /\ lost'[a] = lost[a]
               \/ key'[a].n = 0 /\ tries'[a] = 0 /\ lost'[a] = 0
    BY <1>4, <2>2 DEF Tick, Aged, Vanish, NoKey, GInv, TypeOK
  <2> QED  BY <1>1, <1>2, <2>1, <2>2, GInvReset
<1>5. CASE Crash
  <2>1. \A a : Pending(a)' = {}
    BY <1>5, NoneAssumption DEF Crash, Pending, Idle
  <2>2. \A a : Cardinality(Pending(a)') <= Cardinality(Pending(a))
    BY <2>1, PendingFinite, FS_EmptySet
  <2>3. \A a \in Accounts : key'[a].n = key[a].n /\ tries'[a] = 0 /\ lost'[a] = 0
    BY <1>5 DEF Crash, Vanish
  <2> QED  BY <1>1, <2>2, <2>3, GInvReset
<1>6. CASE UNCHANGED vars
  BY <1>6 DEF vars, GInv, TypeOK, Counted, Admitted, LostAreFaults, Pending, Failed
<1> QED  BY <1>3, <1>4, <1>5, <1>6

LEMMA GInvStep == GInv /\ [Next]_vars => GInv'
<1> SUFFICES ASSUME GInv, [Next]_vars PROVE GInv'
  OBVIOUS
<1>1. TypeOK'
  BY TypeStep DEF GInv
<1> QED
  BY <1>1, GInvRead, GInvVerify, GInvBump, GInvOther DEF Next, Progress

\* The limit bounds the wrong passwords tried, whatever the interleaving.
THEOREM GuessesAreBounded == Spec => []GuessesBounded
BY GInvInit, GInvStep, GInvImplies, PTL DEF Spec

-----------------------------------------------------------------------------
(* A lock that ends.                                                       *)

LEMMA ExpiryInit == Init => ExpiryUnlessFault
BY DEF Init, ExpiryUnlessFault, LockoutHasExpiry, NoKey, Forever

LEMMA ExpiryStep == TypeOK /\ ExpiryUnlessFault /\ [Next]_vars => ExpiryUnlessFault'
<1> SUFFICES ASSUME TypeOK, ExpiryUnlessFault, [Next]_vars, faults' = 0,
                    NEW a \in Accounts, key'[a].left = Forever
             PROVE  \E w \in Workers : req'[w].pc = "expire" /\ req'[w].acc = a
  BY DEF ExpiryUnlessFault, LockoutHasExpiry, At
<1>0. faults \in Nat
  BY FaultsAssumption DEF TypeOK
<1>1. ASSUME NEW o, Charge(o) PROVE o = "ok" /\ faults = 0
  BY <1>0, <1>1 DEF Charge
\* A step that moves no worker away from "expire" and makes no key eternal.
<1>2. ASSUME faults = 0, key[a].left = Forever,
             \A x \in Workers : req[x].pc = "expire" => req'[x] = req[x]
      PROVE  \E w \in Workers : req'[w].pc = "expire" /\ req'[w].acc = a
  BY <1>2 DEF ExpiryUnlessFault, LockoutHasExpiry, At
<1>3. ASSUME NEW w \in Workers, NEW b \in Accounts, NEW o, ReadCounter(w, b, o)
      PROVE  \E x \in Workers : req'[x].pc = "expire" /\ req'[x].acc = a
  BY <1>1, <1>2, <1>3 DEF ReadCounter, At, TypeOK
<1>4. ASSUME NEW w \in Workers, VerifyFails(w) \/ VerifySucceeds(w) \/ Refuse(w)
      PROVE  \E x \in Workers : req'[x].pc = "expire" /\ req'[x].acc = a
  BY <1>2, <1>4 DEF VerifyFails, VerifySucceeds, Refuse, At, Goto, Finish, TypeOK
<1>5. ASSUME NEW w \in Workers, NEW o, BumpLoginErr(w, o)
      PROVE  \E x \in Workers : req'[x].pc = "expire" /\ req'[x].acc = a
  <2>0. PICK b \in Accounts : b = req[w].acc
    BY <1>5 DEF BumpLoginErr, At, TypeOK
  <2>1. o = "ok" /\ faults = 0 /\ req[w].pc = "bump" /\ key' = [key EXCEPT ![b] = Incremented(key[b])]
    BY <1>1, <1>5, <2>0 DEF BumpLoginErr, At, TookPlace
  <2>2. \A x \in Workers \ {w} : req'[x] = req[x]
    BY <1>5 DEF BumpLoginErr, Goto, Finish, TypeOK
  <2>3. CASE a = b /\ key[a].n = 0
    <3>1. IsFirst(key[b].n + 1)
      BY <2>3 DEF IsFirst
    <3>2. Goto(w, "expire")
      BY <1>5, <2>0, <2>1, <3>1 DEF BumpLoginErr
    <3> QED  BY <2>0, <2>3, <3>2 DEF Goto, TypeOK
  <2>4. CASE ~(a = b /\ key[a].n = 0)
    <3>1. key[a].left = Forever
      BY <2>1, <2>4 DEF Incremented, TypeOK
    <3> QED  BY <1>2, <2>1, <2>2, <3>1
  <2> QED  BY <2>3, <2>4
<1>6. ASSUME NEW w \in Workers, NEW o, ExpireCounter(w, o)
      PROVE  \E x \in Workers : req'[x].pc = "expire" /\ req'[x].acc = a
  <2>0. PICK b \in Accounts : b = req[w].acc
    BY <1>6 DEF ExpireCounter, At, TypeOK
  <2>1. key' = [key EXCEPT ![b] = Bounded(key[b])] /\ \A x \in Workers \ {w} : req'[x] = req[x]
    BY <1>1, <1>6, <2>0 DEF ExpireCounter, TookPlace, Finish, TypeOK
  <2>2. a # b
    <3>1. Bounded(key[b]).left # Forever
      BY TtlAssumption DEF Bounded, Forever, TypeOK
    <3> QED  BY <2>1, <3>1 DEF TypeOK
  <2>3. key[a].left = Forever
    BY <2>1, <2>2 DEF TypeOK
  <2>4. PICK x \in Workers : req[x].pc = "expire" /\ req[x].acc = a
    BY <1>1, <1>6, <2>3 DEF ExpireCounter, ExpiryUnlessFault, LockoutHasExpiry, At
  <2> QED  BY <2>0, <2>1, <2>2, <2>4
<1>7. ASSUME NEW w \in Workers, NEW o, ClearCounter(w, o)
      PROVE  \E x \in Workers : req'[x].pc = "expire" /\ req'[x].acc = a
  <2>1. req[w].pc = "clear" /\ \A x \in Workers \ {w} : req'[x] = req[x]
    BY <1>7 DEF ClearCounter, At, Finish, TypeOK
  <2>2. key' = key \/ key' = [key EXCEPT ![req[w].acc] = NoKey]
    BY <1>7 DEF ClearCounter
  <2>3. key[a].left = Forever
    BY <2>2 DEF NoKey, Forever, TypeOK
  <2> QED  BY <1>1, <1>2, <1>7, <2>1, <2>3 DEF ClearCounter
<1>8. CASE Tick
  <2>1. key[a].left = Forever
    BY <1>8 DEF Tick, Aged, NoKey, Forever, TypeOK
  <2> QED  BY <1>2, <1>8, <2>1 DEF Tick
<1>9. CASE Crash
  <2>1. FALSE
    BY <1>1, <1>9 DEF Crash
  <2> QED  BY <2>1
<1>10. CASE UNCHANGED vars
  BY <1>2, <1>10 DEF vars
<1> QED
  BY <1>3, <1>4, <1>5, <1>6, <1>7, <1>8, <1>9, <1>10 DEF Next, Progress

\* As long as no Redis call has failed and the process has not died, every lock
\* has an end: bumpLoginErr's EXPIRE is on its way for a counter that lacks one.
THEOREM LockoutExpires == Spec => []ExpiryUnlessFault
BY TypeInit, TypeStep, ExpiryInit, ExpiryStep, PTL DEF Spec

=============================================================================
