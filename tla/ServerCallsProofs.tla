-------------------------- MODULE ServerCallsProofs -------------------------
(***************************************************************************)
(* Theorems about ServerCalls for every value of its constants: its types, *)
(* that failures do not multiply keys, that a device ends up with the name *)
(* its operator was told, and that paging through the users misses nobody  *)
(* for whom there is no deletion or late arrival to blame.                 *)
(***************************************************************************)
EXTENDS ServerCalls, FiniteSetTheorems, TLAPS

-----------------------------------------------------------------------------
(* The invariant.                                                          *)

\* A request is idle, on its way to the Server with its number, or answered; only
\* the answer to a creation that succeeded holds a key.
Called   == [pc : {"call"}, call : Requested, nr : 1 .. calls, answer : {"none"}, key : {0}]
Answered == {r \in [pc : {"reply"}, call : Requested, nr : 1 .. calls,
                    answer : {"ok", "taken", "absent", "error"}, key : {0} \cup KeyIds] :
                r.key # 0 => Creates(r.call) /\ r.answer = "ok"}
Requests == req \in [Workers -> {Idle} \cup Called \cup Answered]

\* Calls that the Server has not carried out but may have different numbers.
Sent    == {w \in Workers : At(w, "call")}
Pending == {req[w].nr : w \in Sent} \cup {s.nr : s \in strays}
Numbered ==
    /\ strays \subseteq [nr : 1 .. calls, call : Requested] /\ IsFiniteSet(strays)
    /\ \A s, t \in strays : s.nr = t.nr => s = t
    /\ \A v, w \in Sent : req[v].nr = req[w].nr => v = w
    /\ \A w \in Sent, s \in strays : req[w].nr # s.nr

Bounded ==
    /\ calls \in 0 .. MaxCalls /\ deletes \in 0 .. MaxDeletes /\ faults \in 0 .. MaxFaults
    /\ handed \subseteq KeyIds /\ unheard \in Nat

\* Ids are given out from the lowest.
Accounts ==
    /\ users \in [UserIds -> Names \cup {"free", "gone"}]
    /\ \A i, j \in Present : users[i] = users[j] => i = j
    /\ \A i, j \in UserIds : users[i] = "free" /\ i < j => users[j] = "free"
KeysOK == keys \in [KeyIds -> {"free", "live", "revoked"}]

Creators  == {w \in Workers : Creates(req[w].call)}
Failing   == {w \in Creators : req[w].answer = "error"}
StrayKeys == {s \in strays : Creates(s.call)}
KeysCounted ==
    Cardinality(UnknownKeys) + Cardinality(StrayKeys) <= unheard + Cardinality(Failing)
UnheardCounted == unheard + Cardinality(Creators) <= calls
SlipsCounted   == walk.slipped + Cardinality(Pending) <= calls

Renamers == {w \in Workers : Renames(req[w].call)}
Unsure   == \E w \in Renamers : req[w].answer = "error"
Named ==
    /\ label \in Labels \cup {"none"} /\ wished \in Labels \cup {"none"} /\ blurred \in BOOLEAN
    /\ ~blurred => /\ \A v, w \in Renamers : v = w
                   /\ (\E s \in strays : Renames(s.call)) => Unsure
                   /\ wished = "none" \/ label = wished \/ Unsure

Missed(p) == {i \in walk.since \ walk.seen : Rank(i) < Offset(p)}
WalkOK == walk \in [pc : {"off", "count", "find", "done"}, page : 1 .. (MaxUsers + 1),
                 total : 0 .. MaxUsers, seen : SUBSET UserIds, since : SUBSET UserIds,
                 lost : 0 .. deletes, slipped : Nat]
Paged ==
    /\ walk.pc \in {"count", "find"} =>
          /\ walk.since \subseteq Present
          /\ Cardinality(Missed(walk.page)) <= walk.lost + walk.slipped
    /\ walk.pc = "find" => Cardinality(Missed(walk.page)) + Cardinality(Present)
                               <= walk.total + walk.lost + walk.slipped
    /\ NobodySkipped
CallsInv ==
    /\ Requests /\ Numbered /\ Bounded /\ Accounts /\ KeysOK /\ KeysCounted
    /\ UnheardCounted /\ SlipsCounted /\ Named /\ WalkOK /\ Paged

-----------------------------------------------------------------------------
(* Counting.                                                               *)

LEMMA CountType ==
    ASSUME NEW S, IsFiniteSet(S)
    PROVE  Cardinality(S) \in Nat
BY FS_CardinalityType

LEMMA SubsetCount ==
    ASSUME NEW T, IsFiniteSet(T), NEW S, S \subseteq T
    PROVE  IsFiniteSet(S) /\ Cardinality(S) \in Nat /\ Cardinality(T) \in Nat
           /\ Cardinality(S) <= Cardinality(T)
BY FS_Subset, FS_CardinalityType

LEMMA AddCount ==
    ASSUME NEW T, IsFiniteSet(T), NEW x, NEW S, S \subseteq T \cup {x}
    PROVE  IsFiniteSet(S) /\ Cardinality(S) \in Nat /\ Cardinality(T) \in Nat
           /\ Cardinality(S) <= Cardinality(T) + 1
<1>1. /\ IsFiniteSet(T \cup {x}) /\ Cardinality(T) \in Nat
      /\ Cardinality(T \cup {x}) <= Cardinality(T) + 1
  BY FS_AddElement, CountType
<1>2. /\ IsFiniteSet(S) /\ Cardinality(S) \in Nat /\ Cardinality(T \cup {x}) \in Nat
      /\ Cardinality(S) <= Cardinality(T \cup {x})
  BY <1>1, SubsetCount
<1> QED  BY <1>1, <1>2

LEMMA DropCount ==
    ASSUME NEW T, IsFiniteSet(T), NEW x \in T, NEW S, S \subseteq T \ {x}
    PROVE  IsFiniteSet(S) /\ Cardinality(S) \in Nat /\ Cardinality(T) \in Nat
           /\ Cardinality(S) + 1 <= Cardinality(T)
<1>1. /\ IsFiniteSet(T \ {x}) /\ Cardinality(T) \in Nat
      /\ Cardinality(T \ {x}) = Cardinality(T) - 1
  BY FS_RemoveElement, CountType
<1>2. /\ IsFiniteSet(S) /\ Cardinality(S) \in Nat
      /\ Cardinality(S) <= Cardinality(T \ {x})
  BY <1>1, SubsetCount
<1> QED  BY <1>1, <1>2

LEMMA UnionCount ==
    ASSUME NEW T, IsFiniteSet(T), NEW U, IsFiniteSet(U), NEW S, S \subseteq T \cup U
    PROVE  IsFiniteSet(S) /\ Cardinality(S) \in Nat
           /\ Cardinality(S) <= Cardinality(T) + Cardinality(U)
<1>1. /\ IsFiniteSet(T \cup U) /\ Cardinality(T) \in Nat /\ Cardinality(U) \in Nat
      /\ Cardinality(T \cup U) = Cardinality(T) + Cardinality(U) - Cardinality(T \cap U)
  BY FS_Union, CountType
<1>2. Cardinality(T \cap U) \in Nat
  BY FS_Intersection, CountType
<1>3. /\ IsFiniteSet(S) /\ Cardinality(S) \in Nat
      /\ Cardinality(S) <= Cardinality(T \cup U)
  BY <1>1, SubsetCount
<1> QED  BY <1>1, <1>2, <1>3

LEMMA ApartCount ==
    ASSUME NEW S, IsFiniteSet(S), NEW T, NEW U, T \subseteq S, U \subseteq S, T \cap U = {}
    PROVE  Cardinality(T) + Cardinality(U) <= Cardinality(S)
<1>1. IsFiniteSet(T) /\ IsFiniteSet(U) /\ Cardinality(T) \in Nat /\ Cardinality(U) \in Nat
  BY SubsetCount
<1>2. /\ IsFiniteSet(T \cup U)
      /\ Cardinality(T \cup U) = Cardinality(T) + Cardinality(U) - Cardinality(T \cap U)
  BY <1>1, FS_Union
<1>3. Cardinality(T \cap U) = 0
  BY FS_EmptySet
<1>4. Cardinality(T \cup U) <= Cardinality(S)
  BY SubsetCount
<1> QED  BY <1>1, <1>2, <1>3, <1>4

LEMMA ImageCount ==
    ASSUME NEW S, IsFiniteSet(S), NEW f, f \in [S -> {f[x] : x \in S}]
    PROVE  IsFiniteSet({f[x] : x \in S})
           /\ Cardinality({f[x] : x \in S}) <= Cardinality(S)
<1> DEFINE T == {f[x] : x \in S}
<1>1. \A t \in T : \E x \in S : f[x] = t
  OBVIOUS
<1>2. f \in Surjection(S, T)
  <2> HIDE DEF T
  <2> QED  BY <1>1 DEF T, Surjection
<1> QED
  <2> HIDE DEF T
  <2>1. IsFiniteSet(T) /\ Cardinality(T) <= Cardinality(S)
    BY <1>2, FS_Surjection
  <2> QED  BY <2>1 DEF T

LEMMA LeastExists ==
    ASSUME NEW S, S \subseteq Nat, S # {}
    PROVE  \E i \in S : \A j \in S : i <= j
<1> DEFINE R == StrictSubsetOrdering(Nat)
           T == {0 .. i : i \in S}
<1>1. IsWellFoundedOn(R, FiniteSubsetsOf(Nat))
  BY FS_StrictSubsetOrderingWellFounded
<1>2. T \subseteq FiniteSubsetsOf(Nat) /\ T # {}
  <2>1. ASSUME NEW i \in S PROVE 0 .. i \in FiniteSubsetsOf(Nat)
    <3>1. i \in Int /\ 0 .. i \subseteq Nat
      OBVIOUS
    <3> QED  BY <3>1, FS_Interval DEF FiniteSubsetsOf
  <2> QED  BY <2>1
<1>3. \E x \in T : \A y \in T : <<y, x>> \notin R
  <2> HIDE DEF R, T
  <2> QED  BY <1>1, <1>2, WFMin
<1>4. PICK i \in S : \A j \in S : <<0 .. j, 0 .. i>> \notin R
  BY <1>3
<1>5. ASSUME NEW j \in S, ~ (i <= j) PROVE FALSE
  <2>1. i \in Nat /\ j \in Nat
    OBVIOUS
  <2>2. i \in 0 .. i /\ i \notin 0 .. j /\ 0 .. j \subseteq 0 .. i
    BY <1>5, <2>1, SMT
  <2> DEFINE A == 0 .. i  B == 0 .. j
  <2>3. A \in SUBSET Nat /\ B \in SUBSET Nat /\ A # B
    BY <2>1, <2>2
  <2>4. <<B, A>> \in R
    <3> HIDE DEF A, B
    <3>1. B \subseteq A
      BY <2>2 DEF A, B
    <3> QED  BY <2>3, <3>1 DEF StrictSubsetOrdering
  <2> QED  BY <1>4, <2>4
<1> QED  BY <1>5

\* The next id is free, and no lower one is.
LEMMA NextIdLeast ==
    ASSUME NEW ids, NEW m \in Nat, DOMAIN ids = 1 .. m, Unused(ids) # {}
    PROVE  /\ NextId(ids) \in 1 .. m /\ ids[NextId(ids)] = "free"
           /\ \A j \in 1 .. m : j < NextId(ids) => ids[j] # "free"
<1>1. Unused(ids) \subseteq Nat
  BY DEF Unused
<1>2. \E i \in Unused(ids) : \A j \in Unused(ids) : i <= j
  BY <1>1, LeastExists
<1>3. NextId(ids) \in Unused(ids) /\ \A j \in Unused(ids) : NextId(ids) <= j
  BY <1>2 DEF NextId
<1> QED  BY <1>1, <1>3 DEF Unused

-----------------------------------------------------------------------------
(* What the Server does with a call.                                       *)

LEMMA RequestedFacts ==
    ASSUME NEW c \in Requested
    PROVE  /\ c.do \in {"CreateUser", "RenameDevice", "CreateAPIKey", "RevokeAPIKey"}
           /\ c.do = "CreateUser" => c.on \in Names
           /\ c.do = "RenameDevice" => c.on \in Labels
           /\ c.do = "RevokeAPIKey" => c.on \in KeyIds
BY DEF Requested, Call

\* A user enters with the next id.
Enters(i) ==
    /\ users[i] = "free" /\ \A j \in UserIds : j < i => users[j] # "free"
    /\ \E n \in Names : users' = [users EXCEPT ![i] = n] /\ \A j \in UserIds : users[j] # n

LEMMA PerformUsers ==
    ASSUME Accounts, NEW c \in Requested, Perform(c)
    PROVE  \/ users' = users /\ walk' = walk
           \/ /\ \E i \in UserIds : Enters(i)
              /\ walk' = IF walk.pc = "find" THEN [walk EXCEPT !.slipped = @ + 1] ELSE walk
<1>1. CASE c.do = "CreateUser" /\ Answer(c) = "ok"
  <2> DEFINE i == NextId(users)
  <2>1. users' = [users EXCEPT ![i] = c.on] /\ Unused(users) # {}
    BY <1>1 DEF Perform
  <2>2. i \in UserIds /\ users[i] = "free" /\ \A j \in UserIds : j < i => users[j] # "free"
    BY <2>1, NextIdLeast, BoundsAssumption DEF Accounts, UserIds
  <2> HIDE DEF i
  <2>3. c.on \in Names /\ \A j \in UserIds : users[j] # c.on
    BY <1>1, RequestedFacts DEF Answer, NameTaken
  <2>4. users' # users
    BY <2>1, <2>2, <2>3, ExistingAssumption DEF Accounts
  <2>5. Enters(i)
    BY <2>1, <2>2, <2>3 DEF Enters
  <2> QED  BY <2>2, <2>4, <2>5 DEF Perform
<1>2. CASE ~ (c.do = "CreateUser" /\ Answer(c) = "ok")
  BY <1>2 DEF Perform
<1> QED  BY <1>1, <1>2

Alive == {k \in KeyIds : keys[k] = "live"}

LEMMA PerformKeys ==
    ASSUME KeysOK, NEW c \in Requested, Perform(c)
    PROVE  /\ KeysOK'
           /\ ~Creates(c) => Alive' \subseteq Alive
           /\ Creates(c) => /\ NextId(keys) \in KeyIds /\ keys[NextId(keys)] = "free"
                            /\ Alive' \subseteq Alive \cup {NextId(keys)}
<1>1. CASE Creates(c)
  <2> DEFINE k == NextId(keys)
  <2>1. keys' = [keys EXCEPT ![k] = "live"] /\ Unused(keys) # {}
    BY <1>1 DEF Perform, Creates
  <2>2. k \in KeyIds /\ keys[k] = "free"
    BY <2>1, NextIdLeast, BoundsAssumption DEF KeysOK, KeyIds
  <2> HIDE DEF k
  <2>3. KeysOK' /\ Alive' \subseteq Alive \cup {k}
    BY <2>1, <2>2 DEF KeysOK, Alive
  <2> QED  BY <1>1, <2>2, <2>3 DEF k
<1>2. CASE ~Creates(c) /\ c.do = "RevokeAPIKey" /\ Answer(c) = "ok"
  <2>1. keys' = [keys EXCEPT ![c.on] = "revoked"]
    BY <1>2 DEF Perform
  <2> QED  BY <1>2, <2>1, RequestedFacts DEF KeysOK, Alive
<1>3. CASE ~Creates(c) /\ ~ (c.do = "RevokeAPIKey" /\ Answer(c) = "ok")
  BY <1>3 DEF Perform, KeysOK, Alive
<1> QED  BY <1>1, <1>2, <1>3

-----------------------------------------------------------------------------
(* How requests move.                                                      *)

LEMMA ReqFacts ==
    ASSUME Requests, NEW w \in Workers
    PROVE  /\ At(w, "idle")  => req[w] = Idle
           /\ At(w, "call")  => req[w] \in Called
           /\ At(w, "reply") => req[w] \in Answered
           /\ ~At(w, "reply") => req[w].answer = "none" /\ req[w].key = 0
           /\ req[w].key # 0 => Creates(req[w].call) /\ req[w].answer = "ok" /\ req[w].key \in KeyIds
           /\ At(w, "idle") => ~Creates(req[w].call) /\ ~Renames(req[w].call)
           /\ At(w, "idle") \/ At(w, "call") \/ At(w, "reply")
<1>1. req[w] \in {Idle} \cup Called \cup Answered
  BY DEF Requests
<1>2. CASE req[w] = Idle
  BY <1>2 DEF Idle, At, Creates, Renames, Nothing, Call
<1>3. CASE req[w] \in Called
  BY <1>3 DEF Called, At
<1>4. CASE req[w] \in Answered
  BY <1>4 DEF Answered, At
<1> QED  BY <1>1, <1>2, <1>3, <1>4

\* Worker w alone moves, to r.
Turns(w, r) == /\ DOMAIN req' = Workers /\ req'[w] = r
               /\ \A v \in Workers \ {w} : req'[v] = req[v]

LEMMA TurnsRequests ==
    ASSUME Requests, calls \in Nat, calls' \in Nat, calls <= calls',
           NEW w \in Workers, NEW r, Turns(w, r), req' = [v \in Workers |-> req'[v]],
           r = Idle \/ r \in Called' \/ r \in Answered'
    PROVE  Requests'
<1>1. Called \subseteq Called' /\ Answered \subseteq Answered'
  <2>1. 1 .. calls \subseteq 1 .. calls'
    OBVIOUS
  <2>2. ASSUME NEW x \in Called PROVE x \in Called'
    BY <2>1, <2>2 DEF Called
  <2>3. ASSUME NEW x \in Answered PROVE x \in Answered'
    BY <2>1, <2>3 DEF Answered
  <2> QED  BY <2>2, <2>3
<1>2. ASSUME NEW v \in Workers PROVE req'[v] \in {Idle} \cup Called' \cup Answered'
  BY <1>1 DEF Turns, Requests
<1> QED  BY <1>2 DEF Requests

LEMMA AskTurns ==
    ASSUME Requests, Bounded, NEW w \in Workers, NEW c \in Requested, Ask(w, c)
    PROVE  /\ Requests' /\ Bounded'
           /\ \E r \in Called' : r.call = c /\ r.nr = calls' /\ Turns(w, r)
           /\ calls' = calls + 1 /\ req[w] = Idle
<1> DEFINE r == [Idle EXCEPT !.pc = "call", !.call = c, !.nr = calls']
<1>1. calls \in Nat /\ calls' = calls + 1 /\ calls' \in 1 .. MaxCalls
  BY BoundsAssumption DEF Bounded, Ask
<1>2. r \in [pc : {"call"}, call : {c}, nr : {calls'}, answer : {"none"}, key : {0}]
  BY DEF Idle
<1>3. r \in Called' /\ r.call = c /\ r.nr = calls'
  <2>1. calls' \in 1 .. calls'
    BY <1>1
  <2> QED  BY <1>2, <2>1 DEF Called
<1> HIDE DEF r
<1>4. req' = [req EXCEPT ![w] = r]
  BY DEF Ask, r
<1>5. Turns(w, r) /\ req' = [v \in Workers |-> req'[v]]
  BY <1>4 DEF Turns, Requests
<1>6. Requests'
  BY <1>1, <1>3, <1>5, TurnsRequests
<1>7. Bounded'
  BY <1>1 DEF Bounded, Ask
<1>8. req[w] = Idle
  BY ReqFacts DEF Ask
<1> QED  BY <1>1, <1>3, <1>5, <1>6, <1>7, <1>8

LEMMA ChargeBounds ==
    ASSUME Bounded, NEW o, Charge(o)
    PROVE  faults' \in 0 .. MaxFaults
BY BoundsAssumption DEF Bounded, Charge

LEMMA SendTurns ==
    ASSUME Requests, Bounded, KeysOK, NEW w \in Workers, NEW o \in Outcomes, Send(w, o)
    PROVE  /\ Requests' /\ Bounded'
           /\ req[w] \in Called
           /\ \E r \in Answered' :
                /\ Turns(w, r) /\ r.call = req[w].call
                /\ r.answer = (IF o = "ok" THEN Answer(req[w].call) ELSE "error")
                /\ r.key = IF o = "ok" /\ Creates(req[w].call) THEN NextId(keys) ELSE 0
<1> DEFINE c == req[w].call
           a == Reported(c, o)
           k == IF o = "ok" /\ Creates(c) THEN NextId(keys) ELSE 0
           r == [pc |-> "reply", call |-> c, nr |-> req[w].nr, answer |-> a, key |-> k]
<1>1. req[w] \in Called
  BY ReqFacts DEF Send
<1>2. req' = [req EXCEPT ![w].pc = "reply", ![w].answer = a, ![w].key = k]
  BY DEF Send, Attempted, Returned
<1>3. Turns(w, r) /\ req' = [v \in Workers |-> req'[v]]
  BY <1>1, <1>2 DEF Turns, Requests, Called
<1>4. a \in {"ok", "taken", "absent", "error"}
  BY DEF Reported, Answer
<1>5. ASSUME o = "ok", Creates(c)
      PROVE  NextId(keys) \in KeyIds /\ a = "ok"
  <2>1. Perform(c) /\ c \in Requested
    BY <1>1, <1>5 DEF Send, Called
  <2> QED  BY <1>5, <2>1, PerformKeys DEF Reported, Answer, Creates
<1>6. r \in Answered'
  BY <1>1, <1>4, <1>5 DEF Answered, Called, Send
<1>7. Bounded'
  <2>1. Charge(o)
    BY DEF Send
  <2> QED  BY <2>1, ChargeBounds DEF Bounded, Send
<1>8. Requests'
  <2>1. calls \in Nat /\ calls' = calls
    BY DEF Bounded, Send
  <2> QED  BY <1>3, <1>6, <2>1, TurnsRequests
<1> QED  BY <1>1, <1>3, <1>6, <1>7, <1>8 DEF Reported

\* An answer is read, or lost.
LEMMA ReplyTurns ==
    ASSUME Requests, Bounded, NEW w \in Workers, Reply(w)
    PROVE  /\ Requests' /\ Bounded'
           /\ req[w] \in Answered /\ Turns(w, Idle)
<1>1. req[w] \in Answered /\ req' = [req EXCEPT ![w] = Idle]
  BY ReqFacts DEF Reply
<1>2. Turns(w, Idle) /\ req' = [v \in Workers |-> req'[v]]
  BY <1>1 DEF Turns, Requests
<1>3. Requests'
  <2>1. calls \in Nat /\ calls' = calls
    BY DEF Bounded, Reply
  <2> QED  BY <1>2, <2>1, TurnsRequests
<1>4. Bounded'
  BY <1>1 DEF Bounded, Reply, Answered
<1> QED  BY <1>1, <1>2, <1>3, <1>4

LEMMA LoseTurns ==
    ASSUME Requests, Bounded, NEW w \in Workers, LoseReply(w)
    PROVE  /\ Requests' /\ Bounded'
           /\ req[w] \in Answered /\ Turns(w, Idle)
           /\ unheard' = IF Creates(req[w].call) THEN unheard + 1 ELSE unheard
<1>1. req[w] \in Answered /\ req' = [req EXCEPT ![w] = Idle]
  BY ReqFacts DEF LoseReply
<1>2. Turns(w, Idle) /\ req' = [v \in Workers |-> req'[v]]
  BY <1>1 DEF Turns, Requests
<1>3. Requests'
  <2>1. calls \in Nat /\ calls' = calls
    BY DEF Bounded, LoseReply
  <2> QED  BY <1>2, <2>1, TurnsRequests
<1>4. unheard' = IF Creates(req[w].call) THEN unheard + 1 ELSE unheard
  <2> DEFINE S == {v \in {w} : Creates(req[v].call)}
  <2>1. unheard' = unheard + Cardinality(S) /\ unheard \in Nat
    BY DEF LoseReply, Unheard, Bounded
  <2>2. S = IF Creates(req[w].call) THEN {w} ELSE {}
    OBVIOUS
  <2> HIDE DEF S
  <2>3. Cardinality(S) = IF Creates(req[w].call) THEN 1 ELSE 0
    BY <2>2, FS_Singleton, FS_EmptySet
  <2> QED  BY <2>1, <2>3
<1>5. Bounded'
  <2>1. Charge("lost")
    BY DEF LoseReply
  <2> QED  BY <1>4, <2>1, ChargeBounds DEF Bounded, LoseReply
<1> QED  BY <1>1, <1>2, <1>3, <1>4, <1>5

LEMMA CreatorsFinite == IsFiniteSet(Creators) /\ IsFiniteSet(Failing) /\ IsFiniteSet(Sent)
<1>1. Creators \subseteq Workers /\ Failing \subseteq Workers /\ Sent \subseteq Workers
  BY DEF Creators, Failing, Sent
<1> QED  BY <1>1, SubsetCount, WorkersAssumption

LEMMA CrashTurns ==
    ASSUME Requests, Bounded, Crash
    PROVE  /\ Requests' /\ Bounded'
           /\ req' = [w \in Workers |-> Idle]
           /\ unheard' = unheard + Cardinality(Creators)
<1>1. req' = [w \in Workers |-> Idle] /\ unheard' = unheard + Cardinality(Creators)
  BY DEF Crash, Unheard, Creators
<1>2. Requests'
  BY <1>1 DEF Requests
<1>3. Bounded'
  <2>1. Charge("lost")
    BY DEF Crash
  <2>2. unheard' \in Nat
    BY <1>1, CreatorsFinite, CountType DEF Bounded
  <2> QED  BY <2>1, <2>2, ChargeBounds DEF Bounded, Crash
<1> QED  BY <1>1, <1>2, <1>3

\* The other steps do not touch requests, keys or the device.
Aside ==
    /\ UNCHANGED <<keys, label, strays, req, calls, faults, handed, unheard, wished, blurred>>
    /\ deletes' \in 0 .. MaxDeletes /\ deletes <= deletes'

LEMMA AsideSteps ==
    ASSUME Bounded,
           OpenList \/ CountUsers \/ FindUsers \/ CloseList
             \/ (\E i \in UserIds : DeleteUser(i)) \/ UNCHANGED vars
    PROVE  Aside
<1>1. deletes \in Nat
  BY DEF Bounded
<1>2. ASSUME NEW i \in UserIds, DeleteUser(i) PROVE Aside
  <2>1. deletes' = deletes + 1 /\ deletes < MaxDeletes
    BY <1>2 DEF DeleteUser
  <2>2. deletes' \in 0 .. MaxDeletes /\ deletes <= deletes'
    BY <1>1, <2>1, BoundsAssumption
  <2>3. UNCHANGED <<keys, label, strays, req, calls, faults, handed, unheard, wished, blurred>>
    BY <1>2 DEF DeleteUser, history
  <2> QED  BY <2>2, <2>3 DEF Aside
<1>3. CASE OpenList \/ CountUsers \/ FindUsers \/ CloseList
  BY <1>1, <1>3 DEF Aside, Bounded, OpenList, CountUsers, FindUsers, CloseList, store, history
<1>4. CASE UNCHANGED vars
  BY <1>1, <1>4 DEF Aside, Bounded, vars, store
<1> QED  BY <1>2, <1>3, <1>4

\* Who takes a step.
LEMMA Steps ==
    ASSUME Bounded, [Next]_vars
    PROVE  \/ \E w \in Workers :
                 \/ \E c \in Requested : Ask(w, c)
                 \/ \E o \in Outcomes : Send(w, o)
                 \/ Reply(w) \/ LoseReply(w)
           \/ DeliverStray \/ Crash \/ Aside
BY AsideSteps DEF Next

LEMMA RequestsStep ==
    ASSUME Requests, Bounded, KeysOK, [Next]_vars
    PROVE  Requests' /\ Bounded'
<1>1. ASSUME NEW w \in Workers, NEW c \in Requested, Ask(w, c) PROVE Requests' /\ Bounded'
  BY <1>1, AskTurns
<1>2. ASSUME NEW w \in Workers, NEW o \in Outcomes, Send(w, o) PROVE Requests' /\ Bounded'
  BY <1>2, SendTurns
<1>3. ASSUME NEW w \in Workers, Reply(w) \/ LoseReply(w) PROVE Requests' /\ Bounded'
  BY <1>3, ReplyTurns, LoseTurns
<1>4. CASE Crash
  BY <1>4, CrashTurns
<1>5. CASE DeliverStray
  BY <1>5 DEF DeliverStray, Requests, Bounded, Called, Answered, history
<1>6. CASE Aside
  BY <1>6 DEF Aside, Requests, Bounded, Called, Answered
<1> QED  BY <1>1, <1>2, <1>3, <1>4, <1>5, <1>6, Steps

-----------------------------------------------------------------------------
(* The numbers of calls.                                                   *)

LEMMA PendingFinite ==
    ASSUME Requests, Numbered, Bounded
    PROVE  Pending \subseteq 1 .. calls /\ IsFiniteSet(Pending) /\ Cardinality(Pending) \in Nat
<1>1. ASSUME NEW w \in Sent PROVE req[w].nr \in 1 .. calls
  BY <1>1, ReqFacts DEF Sent, Called
<1>2. Pending \subseteq 1 .. calls
  BY <1>1 DEF Pending, Numbered
<1>3. IsFiniteSet(1 .. calls)
  BY FS_Interval DEF Bounded
<1> QED  BY <1>2, <1>3, SubsetCount

LEMMA AskNumbered ==
    ASSUME Requests, Bounded, Numbered, NEW w \in Workers, NEW c \in Requested, Ask(w, c)
    PROVE  Numbered' /\ Pending' \subseteq Pending \cup {calls'}
<1>1. PICK r \in Called' : r.nr = calls' /\ Turns(w, r)
  BY AskTurns
<1>2. calls' = calls + 1 /\ calls \in Nat /\ req[w] = Idle
  BY AskTurns DEF Bounded
<1>3. Sent' = Sent \cup {w} /\ w \notin Sent
  BY <1>1, <1>2 DEF Sent, At, Turns, Called, Idle
<1>4. strays' = strays
  BY DEF Ask
<1>5. \A v \in Sent : req'[v].nr = req[v].nr /\ req[v].nr \in 1 .. calls
  BY <1>1, <1>3, ReqFacts DEF Turns, Sent, Called
<1>6. req'[w].nr = calls'
  BY <1>1 DEF Turns
<1>7. Pending' \subseteq Pending \cup {calls'}
  BY <1>3, <1>4, <1>5, <1>6 DEF Pending
<1>8. strays' \subseteq [nr : 1 .. calls', call : Requested] /\ IsFiniteSet(strays')
      /\ \A s \in strays : s.nr \in 1 .. calls
  BY <1>2, <1>4 DEF Numbered
<1>9. Numbered'
  BY <1>2, <1>3, <1>4, <1>5, <1>6, <1>8 DEF Numbered
<1> QED  BY <1>7, <1>9

\* Calls are only answered or given up.
Fewer(N) == Numbered' /\ Pending' \subseteq N

LEMMA SendNumbered ==
    ASSUME Requests, Bounded, KeysOK, Numbered, NEW w \in Workers, NEW o \in Outcomes, Send(w, o)
    PROVE  /\ Fewer(Pending) /\ req[w].nr \in Pending
           /\ o = "ok" => Pending' \subseteq Pending \ {req[w].nr}
<1>1. PICK r \in Answered' : Turns(w, r)
  BY SendTurns
<1>2. req[w] \in Called /\ calls' = calls
  BY SendTurns DEF Send
<1>3. Sent' = Sent \ {w} /\ w \in Sent /\ \A v \in Sent' : req'[v] = req[v]
  BY <1>1, <1>2 DEF Sent, At, Turns, Called, Answered
<1> DEFINE s == [nr |-> req[w].nr, call |-> req[w].call]
<1>4. s \in [nr : 1 .. calls, call : Requested]
  BY <1>2 DEF Called
<1>5. strays' = IF o = "late" THEN strays \cup {s} ELSE strays
  BY DEF Send
<1>6. s.nr = req[w].nr
  OBVIOUS
<1> HIDE DEF s
<1>7. /\ strays' \subseteq [nr : 1 .. calls', call : Requested] /\ IsFiniteSet(strays')
      /\ \A t, u \in strays' : t.nr = u.nr => t = u
  BY <1>2, <1>3, <1>4, <1>5, <1>6, FS_AddElement DEF Numbered
<1>8. /\ \A u, v \in Sent' : req'[u].nr = req'[v].nr => u = v
      /\ \A v \in Sent', t \in strays' : req'[v].nr # t.nr
  BY <1>3, <1>5, <1>6 DEF Numbered
<1>9. Numbered'
  BY <1>7, <1>8 DEF Numbered
<1>10. req[w].nr \in Pending /\ Pending' \subseteq Pending
  BY <1>3, <1>5, <1>6 DEF Pending
<1>11. o = "ok" => req[w].nr \notin Pending'
  BY <1>3, <1>5 DEF Pending, Numbered
<1> QED  BY <1>9, <1>10, <1>11 DEF Fewer

LEMMA EndNumbered ==
    ASSUME Requests, Bounded, Numbered, NEW w \in Workers, Reply(w) \/ LoseReply(w)
    PROVE  Fewer(Pending)
<1>1. Turns(w, Idle) /\ req[w] \in Answered
  BY ReplyTurns, LoseTurns
<1>2. strays' = strays /\ calls' = calls
  BY DEF Reply, LoseReply
<1>3. Sent' = Sent /\ \A v \in Sent : req'[v] = req[v]
  BY <1>1 DEF Sent, At, Turns, Answered, Idle
<1> QED  BY <1>2, <1>3 DEF Fewer, Numbered, Pending

LEMMA StrayNumbered ==
    ASSUME Requests, Bounded, Numbered, NEW s \in strays, strays' = strays \ {s},
           UNCHANGED <<req, calls>>
    PROVE  Fewer(Pending \ {s.nr}) /\ s.nr \in Pending
<1>1. Sent' = Sent
  BY DEF Sent, At
<1>2. IsFiniteSet(strays') /\ strays' \subseteq strays
  BY FS_RemoveElement DEF Numbered
<1>3. Numbered'
  BY <1>1, <1>2 DEF Numbered
<1>4. Pending' \subseteq Pending /\ s.nr \in Pending
  BY <1>1, <1>2 DEF Pending
<1>5. s.nr \notin Pending'
  BY <1>1 DEF Pending, Numbered
<1> QED  BY <1>3, <1>4, <1>5 DEF Fewer

\* The strays that a crash leaves behind.
Left(W) == {[nr |-> req[w].nr, call |-> req[w].call] : w \in W}

LEMMA LeftCount ==
    ASSUME NEW W, IsFiniteSet(W)
    PROVE  IsFiniteSet(Left(W)) /\ Cardinality(Left(W)) <= Cardinality(W)
<1> DEFINE f == [w \in W |-> [nr |-> req[w].nr, call |-> req[w].call]]
<1>1. Left(W) = {f[w] : w \in W}
  BY DEF Left
<1>2. f \in [W -> {f[w] : w \in W}]
  OBVIOUS
<1> HIDE DEF f
<1> QED  BY <1>1, <1>2, ImageCount

LEMMA CrashNumbered ==
    ASSUME Requests, Bounded, Numbered, Crash
    PROVE  /\ Fewer(Pending)
           /\ \E W \in SUBSET Sent : strays' = strays \cup Left(W)
<1>1. PICK W \in SUBSET Sent : strays' = strays \cup Left(W)
  BY DEF Crash, Sent, Left
<1>2. calls' = calls /\ Sent' = {}
  BY CrashTurns DEF Crash, Sent, At, Idle
<1>3. IsFiniteSet(strays')
  <2>1. IsFiniteSet(W)
    BY CreatorsFinite, SubsetCount
  <2> QED  BY <1>1, <2>1, LeftCount, FS_Union DEF Numbered
<1>4. ASSUME NEW w \in W
      PROVE  req[w].nr \in 1 .. calls /\ req[w].call \in Requested /\ w \in Sent
  BY <1>4, ReqFacts DEF Sent, Called
<1>5. strays' \subseteq [nr : 1 .. calls, call : Requested]
  BY <1>1, <1>4 DEF Left, Numbered
<1>6. \A s, t \in strays' : s.nr = t.nr => s = t
  <2> SUFFICES ASSUME NEW s \in strays', NEW t \in strays', s.nr = t.nr PROVE s = t
    OBVIOUS
  <2>1. CASE s \in strays /\ t \in strays
    BY <2>1 DEF Numbered
  <2>2. CASE s \in strays /\ t \in Left(W)
    BY <1>4, <2>2 DEF Left, Numbered
  <2>3. CASE s \in Left(W) /\ t \in strays
    BY <1>4, <2>3 DEF Left, Numbered
  <2>4. CASE s \in Left(W) /\ t \in Left(W)
    <3>1. PICK v \in W : s = [nr |-> req[v].nr, call |-> req[v].call]
      BY <2>4 DEF Left
    <3>2. PICK w \in W : t = [nr |-> req[w].nr, call |-> req[w].call]
      BY <2>4 DEF Left
    <3>3. v = w
      BY <1>4, <3>1, <3>2 DEF Numbered
    <3> QED  BY <3>1, <3>2, <3>3
  <2> QED  BY <1>1, <2>1, <2>2, <2>3, <2>4
<1>7. Numbered'
  BY <1>2, <1>3, <1>5, <1>6 DEF Numbered
<1>8. Pending' \subseteq Pending
  BY <1>1, <1>2, <1>4 DEF Pending, Left
<1> QED  BY <1>1, <1>7, <1>8 DEF Fewer

LEMMA NumberedStep ==
    ASSUME Requests, Bounded, KeysOK, Numbered, [Next]_vars
    PROVE  Numbered'
<1>1. ASSUME NEW w \in Workers, NEW c \in Requested, Ask(w, c) PROVE Numbered'
  BY <1>1, AskNumbered
<1>2. ASSUME NEW w \in Workers, NEW o \in Outcomes, Send(w, o) PROVE Numbered'
  BY <1>2, SendNumbered DEF Fewer
<1>3. ASSUME NEW w \in Workers, Reply(w) \/ LoseReply(w) PROVE Numbered'
  BY <1>3, EndNumbered DEF Fewer
<1>4. CASE Crash
  BY <1>4, CrashNumbered DEF Fewer
<1>5. CASE DeliverStray
  BY <1>5, StrayNumbered DEF DeliverStray, Fewer
<1>6. CASE Aside
  BY <1>6 DEF Aside, Numbered, Sent, At
<1> QED  BY <1>1, <1>2, <1>3, <1>4, <1>5, <1>6, Steps

-----------------------------------------------------------------------------
(* The count of keys.                                                      *)

LEMMA KeyCountTypes ==
    ASSUME Numbered
    PROVE  /\ IsFiniteSet(UnknownKeys) /\ Cardinality(UnknownKeys) \in Nat
           /\ IsFiniteSet(StrayKeys) /\ Cardinality(StrayKeys) \in Nat
           /\ Cardinality(Failing) \in Nat
<1>1. IsFiniteSet(KeyIds)
  BY FS_Interval, BoundsAssumption DEF KeyIds
<1>2. UnknownKeys \subseteq KeyIds /\ StrayKeys \subseteq strays
  BY DEF UnknownKeys, StrayKeys
<1> QED  BY <1>1, <1>2, SubsetCount, CreatorsFinite, CountType DEF Numbered

\* A key is unknown if it is live, was not handed out and is in no answer.
LEMMA UnknownIff ==
    \A k : k \in UnknownKeys
             <=> k \in Alive /\ k \notin handed /\ \A w \in Workers : req[w].key # k
BY DEF UnknownKeys, Alive

LEMMA UnknownIffNext ==
    \A k : k \in UnknownKeys'
             <=> k \in Alive' /\ k \notin handed' /\ \A w \in Workers : req'[w].key # k
BY DEF UnknownKeys, Alive

LEMMA AliveNotZero == 0 \notin Alive /\ 0 \notin UnknownKeys
BY BoundsAssumption DEF Alive, UnknownKeys, KeyIds

LEMMA AskKeys ==
    ASSUME Requests, Bounded, Numbered, KeysCounted,
           NEW w \in Workers, NEW c \in Requested, Ask(w, c)
    PROVE  KeysCounted'
<1>1. PICK r \in Called' : Turns(w, r) /\ r.key = 0 /\ r.answer = "none"
  BY AskTurns DEF Called
<1>2. req[w] = Idle /\ UNCHANGED <<keys, handed, unheard, strays>>
  BY AskTurns DEF Ask, store
<1>3. Alive' = Alive
  BY <1>2 DEF Alive
<1>4. ASSUME NEW k \in UnknownKeys' PROVE k \in UnknownKeys
  <2>1. k \in Alive /\ k \notin handed /\ \A v \in Workers : req'[v].key # k
    BY <1>2, <1>3, <1>4, UnknownIffNext
  <2>2. req[w].key # k
    BY <1>2, <2>1, AliveNotZero DEF Idle
  <2>3. \A v \in Workers : req[v].key # k
    BY <1>1, <2>1, <2>2 DEF Turns
  <2> QED  BY <2>1, <2>3, UnknownIff
<1>5. Failing' = Failing
  BY <1>1, <1>2 DEF Failing, Creators, Turns, Idle
<1>6. StrayKeys' = StrayKeys
  BY <1>2 DEF StrayKeys
<1>7. Cardinality(UnknownKeys') <= Cardinality(UnknownKeys) /\ Cardinality(UnknownKeys') \in Nat
  BY <1>4, KeyCountTypes, SubsetCount
<1> QED  BY <1>2, <1>5, <1>6, <1>7, KeyCountTypes DEF KeysCounted, Bounded

\* A call that succeeds hands its key to the answer.
LEMMA SendKnown ==
    ASSUME Requests, Bounded, KeysOK, Numbered, NEW w \in Workers, NEW o \in Outcomes, Send(w, o)
    PROVE  UnknownKeys' \subseteq UnknownKeys
<1> DEFINE c == req[w].call
<1>1. PICK r \in Answered' :
        Turns(w, r) /\ r.key = IF o = "ok" /\ Creates(c) THEN NextId(keys) ELSE 0
  BY SendTurns
<1>2. req[w].key = 0 /\ c \in Requested /\ handed' = handed
  BY SendTurns DEF Send, Called
<1>3. /\ ~ (o = "ok" /\ Creates(c)) => Alive' \subseteq Alive
      /\ o = "ok" /\ Creates(c) => Alive' \subseteq Alive \cup {NextId(keys)}
  <2>1. CASE o = "ok"
    <3>1. Perform(c)
      BY <2>1 DEF Send
    <3> QED  BY <1>2, <2>1, <3>1, PerformKeys
  <2>2. CASE o # "ok"
    BY <2>2 DEF Send, store, Alive
  <2> QED  BY <2>1, <2>2
<1>4. ASSUME NEW k \in UnknownKeys' PROVE k \in UnknownKeys
  <2>1. k \in Alive' /\ k \notin handed /\ \A v \in Workers : req'[v].key # k
    BY <1>2, <1>4, UnknownIffNext
  <2>2. k # r.key
    BY <1>1, <2>1 DEF Turns
  <2>3. k \in Alive
    BY <1>1, <1>3, <2>1, <2>2
  <2>4. req[w].key # k
    BY <1>2, <2>3, AliveNotZero
  <2>5. \A v \in Workers : req[v].key # k
    BY <1>1, <2>1, <2>4 DEF Turns
  <2> QED  BY <2>1, <2>3, <2>5, UnknownIff
<1> QED  BY <1>4

LEMMA SendKeys ==
    ASSUME Requests, Bounded, KeysOK, Numbered, KeysCounted,
           NEW w \in Workers, NEW o \in Outcomes, Send(w, o)
    PROVE  KeysCounted'
<1> DEFINE c == req[w].call
           s == [nr |-> req[w].nr, call |-> c]
<1>1. PICK r \in Answered' : /\ Turns(w, r) /\ r.call = c
                             /\ r.answer = (IF o = "ok" THEN Answer(c) ELSE "error")
  BY SendTurns
<1>2. req[w].answer = "none" /\ unheard' = unheard
  BY SendTurns DEF Send, Called
<1>3. Answer(c) # "error"
  BY DEF Answer
<1>4. strays' = IF o = "late" THEN strays \cup {s} ELSE strays
  BY DEF Send
<1>5. s.call = c
  OBVIOUS
<1> HIDE DEF s
<1>6. w \notin Failing
  BY <1>2 DEF Failing
<1>7. CASE Creates(c) /\ o # "ok"
  <2>1. Failing' = Failing \cup {w}
    BY <1>1, <1>7 DEF Failing, Creators, Turns
  <2>2. Cardinality(Failing') = Cardinality(Failing) + 1
    BY <1>6, <2>1, CreatorsFinite, FS_AddElement
  <2>3. StrayKeys' \subseteq StrayKeys \cup {s}
    BY <1>4 DEF StrayKeys
  <2>4. /\ Cardinality(StrayKeys') \in Nat /\ Cardinality(UnknownKeys') \in Nat
        /\ Cardinality(StrayKeys') <= Cardinality(StrayKeys) + 1
        /\ Cardinality(UnknownKeys') <= Cardinality(UnknownKeys)
    BY <2>3, KeyCountTypes, SendKnown, AddCount, SubsetCount
  <2> QED  BY <1>2, <2>2, <2>4, KeyCountTypes DEF KeysCounted, Bounded
<1>8. CASE ~ (Creates(c) /\ o # "ok")
  <2>1. Failing' = Failing
    BY <1>1, <1>2, <1>3, <1>8 DEF Failing, Creators, Turns
  <2>2. StrayKeys' = StrayKeys
    BY <1>4, <1>5, <1>8 DEF StrayKeys
  <2>3. Cardinality(UnknownKeys') \in Nat /\ Cardinality(UnknownKeys') <= Cardinality(UnknownKeys)
    BY KeyCountTypes, SendKnown, SubsetCount
  <2> QED  BY <1>2, <2>1, <2>2, <2>3, KeyCountTypes DEF KeysCounted, Bounded
<1> QED  BY <1>7, <1>8

LEMMA ReplyKeys ==
    ASSUME Requests, Bounded, Numbered, KeysCounted, NEW w \in Workers, Reply(w)
    PROVE  KeysCounted'
<1>1. Turns(w, Idle) /\ req[w] \in Answered
  BY ReplyTurns
<1>2. UNCHANGED <<keys, strays>> /\ handed' = handed \cup ({req[w].key} \ {0})
  BY DEF Reply, store
<1>3. ASSUME NEW k \in UnknownKeys' PROVE k \in UnknownKeys
  <2>1. k \in Alive /\ k \notin handed' /\ \A v \in Workers : req'[v].key # k
    BY <1>2, <1>3, UnknownIffNext DEF Alive
  <2>2. k # req[w].key
    BY <1>2, <2>1, AliveNotZero
  <2> QED  BY <1>1, <1>2, <2>1, <2>2, UnknownIff DEF Turns
<1>4. Cardinality(UnknownKeys') \in Nat /\ Cardinality(UnknownKeys') <= Cardinality(UnknownKeys)
  BY <1>3, KeyCountTypes, SubsetCount
<1>5. StrayKeys' = StrayKeys
  BY <1>2 DEF StrayKeys
<1>6. Failing' = Failing \ {w}
  BY <1>1 DEF Failing, Creators, Turns, Idle
<1>7. unheard' = IF w \in Failing THEN unheard + 1 ELSE unheard
  BY DEF Reply, Failing, Creators
<1>8. Cardinality(Failing') = IF w \in Failing THEN Cardinality(Failing) - 1
                              ELSE Cardinality(Failing)
  BY <1>6, CreatorsFinite, FS_RemoveElement
<1> QED  BY <1>4, <1>5, <1>7, <1>8, KeyCountTypes DEF KeysCounted, Bounded

LEMMA LoseKeys ==
    ASSUME Requests, Bounded, Numbered, KeysCounted, NEW w \in Workers, LoseReply(w)
    PROVE  KeysCounted'
<1>1. Turns(w, Idle) /\ req[w] \in Answered
  BY LoseTurns
<1>2. UNCHANGED <<keys, strays, handed>>
  BY DEF LoseReply, store
<1>3. unheard' = IF Creates(req[w].call) THEN unheard + 1 ELSE unheard
  BY LoseTurns
<1>4. ASSUME NEW k \in UnknownKeys' PROVE k \in UnknownKeys \cup {req[w].key}
  <2>1. k \in Alive /\ k \notin handed /\ \A v \in Workers : req'[v].key # k
    BY <1>2, <1>4, UnknownIffNext DEF Alive
  <2> QED  BY <1>1, <2>1, UnknownIff DEF Turns
<1>5. 0 \notin UnknownKeys'
  BY BoundsAssumption DEF UnknownKeys, KeyIds
<1>6. StrayKeys' = StrayKeys
  BY <1>2 DEF StrayKeys
<1>7. Failing' = Failing \ {w}
  BY <1>1 DEF Failing, Creators, Turns, Idle
<1>8. Cardinality(Failing') = IF w \in Failing THEN Cardinality(Failing) - 1
                              ELSE Cardinality(Failing)
  BY <1>7, CreatorsFinite, FS_RemoveElement
<1>9. CASE req[w].key # 0
  <2>1. Creates(req[w].call) /\ w \notin Failing
    BY <1>9, ReqFacts DEF Failing
  <2>2. /\ Cardinality(UnknownKeys') \in Nat
        /\ Cardinality(UnknownKeys') <= Cardinality(UnknownKeys) + 1
    <3>1. UnknownKeys' \subseteq UnknownKeys \cup {req[w].key}
      BY <1>4
    <3> QED  BY <3>1, KeyCountTypes, AddCount
  <2> QED  BY <1>3, <1>6, <1>8, <2>1, <2>2, KeyCountTypes DEF KeysCounted, Bounded
<1>10. CASE req[w].key = 0
  <2>1. w \in Failing => Creates(req[w].call)
    BY DEF Failing, Creators
  <2>2. /\ Cardinality(UnknownKeys') \in Nat
        /\ Cardinality(UnknownKeys') <= Cardinality(UnknownKeys)
    <3>1. UnknownKeys' \subseteq UnknownKeys
      BY <1>4, <1>5, <1>10
    <3> QED  BY <3>1, KeyCountTypes, SubsetCount
  <2> QED  BY <1>3, <1>6, <1>8, <2>1, <2>2, KeyCountTypes DEF KeysCounted, Bounded
<1> QED  BY <1>9, <1>10

LEMMA StrayCallKeys ==
    ASSUME Bounded, KeysOK, Numbered, KeysCounted, DeliverStray
    PROVE  KeysCounted'
<1>1. PICK s \in strays : Perform(s.call) /\ strays' = strays \ {s}
  BY DEF DeliverStray
<1>2. UNCHANGED <<req, handed, unheard>> /\ s.call \in Requested
  BY DEF DeliverStray, history, Numbered
<1>3. Failing' = Failing
  BY <1>2 DEF Failing, Creators
<1>4. \A k \in UnknownKeys' : k \in Alive' /\ (k \in Alive => k \in UnknownKeys)
  BY <1>2, UnknownIff, UnknownIffNext
<1>5. CASE Creates(s.call)
  <2>1. s \in StrayKeys /\ StrayKeys' \subseteq StrayKeys \ {s}
    BY <1>1, <1>5 DEF StrayKeys
  <2>2. UnknownKeys' \subseteq UnknownKeys \cup {NextId(keys)}
    BY <1>1, <1>2, <1>4, <1>5, PerformKeys
  <2>3. /\ Cardinality(UnknownKeys') \in Nat /\ Cardinality(StrayKeys') \in Nat
        /\ Cardinality(UnknownKeys') <= Cardinality(UnknownKeys) + 1
        /\ Cardinality(StrayKeys') + 1 <= Cardinality(StrayKeys)
    <3>1. IsFiniteSet(UnknownKeys) /\ IsFiniteSet(StrayKeys)
      BY KeyCountTypes
    <3>2. /\ Cardinality(UnknownKeys') \in Nat
          /\ Cardinality(UnknownKeys') <= Cardinality(UnknownKeys) + 1
      BY <2>2, <3>1, AddCount
    <3>3. Cardinality(StrayKeys') \in Nat /\ Cardinality(StrayKeys') + 1 <= Cardinality(StrayKeys)
      BY <2>1, <3>1, DropCount
    <3> QED  BY <3>2, <3>3
  <2> QED  BY <1>2, <1>3, <2>3, KeyCountTypes DEF KeysCounted, Bounded
<1>6. CASE ~Creates(s.call)
  <2>1. StrayKeys' = StrayKeys
    BY <1>1, <1>6 DEF StrayKeys
  <2>2. UnknownKeys' \subseteq UnknownKeys
    BY <1>1, <1>2, <1>4, <1>6, PerformKeys
  <2>3. Cardinality(UnknownKeys') \in Nat /\ Cardinality(UnknownKeys') <= Cardinality(UnknownKeys)
    BY <2>2, KeyCountTypes, SubsetCount
  <2> QED  BY <1>2, <1>3, <2>1, <2>3, KeyCountTypes DEF KeysCounted, Bounded
<1> QED  BY <1>5, <1>6

\* At a crash each creation that is under way has failed already, holds its key
\* in an answer, or becomes a stray: each counts once.
LEMMA CrashKeys ==
    ASSUME Requests, Bounded, Numbered, KeysCounted, Crash
    PROVE  KeysCounted'
<1> DEFINE Keyed == {w \in Workers : req[w].key # 0}
           key   == [w \in Keyed |-> req[w].key]
           Keys  == {key[w] : w \in Keyed}
<1>1. PICK W \in SUBSET Sent : strays' = strays \cup Left(W)
  BY CrashNumbered
<1> DEFINE Made == {w \in W : Creates(req[w].call)}
<1>2. req' = [w \in Workers |-> Idle] /\ unheard' = unheard + Cardinality(Creators)
  BY CrashTurns
<1>3. UNCHANGED <<keys, handed>>
  BY DEF Crash, store
<1>4. /\ Keyed \subseteq Creators /\ Failing \subseteq Creators /\ Made \subseteq Creators
      /\ Keyed \cap Failing = {} /\ (Keyed \cup Failing) \cap Made = {}
  <2>1. \A w \in Keyed : Creates(req[w].call) /\ req[w].answer = "ok"
    BY ReqFacts
  <2>2. \A w \in Made : w \in Workers /\ At(w, "call") /\ Creates(req[w].call)
    BY DEF Sent
  <2>3. \A w \in Made : req[w].answer = "none" /\ req[w].key = 0
    BY <2>2, ReqFacts DEF At
  <2>4. \A w \in Failing : req[w].answer = "error" /\ w \in Creators
    BY DEF Failing
  <2>5. Keyed \subseteq Creators /\ Made \subseteq Creators
    BY <2>1, <2>2 DEF Creators
  <2>6. Keyed \cap Failing = {} /\ Failing \cap Made = {}
    BY <2>1, <2>3, <2>4
  <2>7. Keyed \cap Made = {}
    BY <2>3
  <2> QED  BY <2>4, <2>5, <2>6, <2>7
<1>5. Cardinality(Keyed) + Cardinality(Failing) + Cardinality(Made) <= Cardinality(Creators)
  <2> HIDE DEF Keyed, Made
  <2>1. /\ IsFiniteSet(Keyed) /\ IsFiniteSet(Failing) /\ IsFiniteSet(Made)
        /\ IsFiniteSet(Keyed \cup Failing)
    <3>1. Keyed \cup Failing \subseteq Creators
      BY <1>4
    <3> QED  BY <1>4, <3>1, CreatorsFinite, SubsetCount
  <2>2. Cardinality(Keyed) + Cardinality(Failing) <= Cardinality(Keyed \cup Failing)
    <3>1. Keyed \subseteq Keyed \cup Failing /\ Failing \subseteq Keyed \cup Failing
      OBVIOUS
    <3> QED  BY <1>4, <2>1, <3>1, ApartCount
  <2>3. Cardinality(Keyed \cup Failing) + Cardinality(Made) <= Cardinality(Creators)
    <3>1. Keyed \cup Failing \subseteq Creators
      BY <1>4
    <3> QED  BY <1>4, <3>1, CreatorsFinite, ApartCount
  <2>4. /\ Cardinality(Keyed) \in Nat /\ Cardinality(Failing) \in Nat /\ Cardinality(Made) \in Nat
        /\ Cardinality(Keyed \cup Failing) \in Nat /\ Cardinality(Creators) \in Nat
    BY <2>1, CreatorsFinite, CountType
  <2> QED  BY <2>2, <2>3, <2>4
<1>6. IsFiniteSet(Keyed) /\ IsFiniteSet(Made)
  <2> HIDE DEF Keyed, Made
  <2> QED  BY <1>4, CreatorsFinite, SubsetCount
<1>7. IsFiniteSet(Keys) /\ Cardinality(Keys) <= Cardinality(Keyed)
  <2>1. key \in [Keyed -> Keys]
    OBVIOUS
  <2> HIDE DEF key
  <2> QED  BY <1>6, <2>1, ImageCount
<1>8. UnknownKeys' \subseteq UnknownKeys \cup Keys
  <2> SUFFICES ASSUME NEW k \in UnknownKeys', k \notin UnknownKeys PROVE k \in Keys
    OBVIOUS
  <2>1. k \in Alive /\ k \notin handed
    BY <1>3, UnknownIffNext DEF Alive
  <2>2. PICK w \in Workers : req[w].key = k
    BY <2>1, UnknownIff
  <2>3. w \in Keyed /\ key[w] = k
    BY <2>1, <2>2, AliveNotZero
  <2> QED  BY <2>3
<1>9. StrayKeys' \subseteq StrayKeys \cup Left(Made)
  <2> SUFFICES ASSUME NEW s \in StrayKeys', s \notin StrayKeys PROVE s \in Left(Made)
    OBVIOUS
  <2>1. s \in Left(W) /\ Creates(s.call)
    BY <1>1 DEF StrayKeys
  <2>2. PICK w \in W : s = [nr |-> req[w].nr, call |-> req[w].call]
    BY <2>1 DEF Left
  <2>3. w \in Made
    BY <2>1, <2>2
  <2> QED  BY <2>2, <2>3 DEF Left
<1>10. Failing' = {}
  BY <1>2 DEF Failing, Creators, Idle
<1> HIDE DEF Keyed, Keys, Made
<1>11. /\ Cardinality(UnknownKeys') \in Nat
       /\ Cardinality(UnknownKeys') <= Cardinality(UnknownKeys) + Cardinality(Keyed)
  <2>1. IsFiniteSet(UnknownKeys) /\ Cardinality(UnknownKeys) \in Nat
    BY KeyCountTypes
  <2>2. /\ Cardinality(UnknownKeys') \in Nat
        /\ Cardinality(UnknownKeys') <= Cardinality(UnknownKeys) + Cardinality(Keys)
    BY <1>7, <1>8, <2>1, UnionCount
  <2>3. Cardinality(Keys) \in Nat /\ Cardinality(Keyed) \in Nat
    BY <1>6, <1>7, CountType
  <2> QED  BY <1>7, <2>1, <2>2, <2>3
<1>12. /\ Cardinality(StrayKeys') \in Nat
       /\ Cardinality(StrayKeys') <= Cardinality(StrayKeys) + Cardinality(Made)
  <2>1. IsFiniteSet(StrayKeys) /\ Cardinality(StrayKeys) \in Nat
    BY KeyCountTypes
  <2>2. IsFiniteSet(Left(Made)) /\ Cardinality(Left(Made)) <= Cardinality(Made)
    BY <1>6, LeftCount
  <2>3. /\ Cardinality(StrayKeys') \in Nat
        /\ Cardinality(StrayKeys') <= Cardinality(StrayKeys) + Cardinality(Left(Made))
    BY <1>9, <2>1, <2>2, UnionCount
  <2>4. Cardinality(Left(Made)) \in Nat /\ Cardinality(Made) \in Nat
    BY <1>6, <2>2, CountType
  <2> QED  BY <2>1, <2>2, <2>3, <2>4
<1>13. Cardinality(Failing') = 0
  BY <1>10, FS_EmptySet
<1>14. /\ Cardinality(Keyed) \in Nat /\ Cardinality(Made) \in Nat /\ Cardinality(Creators) \in Nat
       /\ Cardinality(UnknownKeys) \in Nat /\ Cardinality(StrayKeys) \in Nat
       /\ Cardinality(Failing) \in Nat /\ unheard \in Nat
  BY <1>6, CreatorsFinite, CountType, KeyCountTypes DEF Bounded
<1> QED  BY <1>2, <1>5, <1>11, <1>12, <1>13, <1>14 DEF KeysCounted

LEMMA KeysStep ==
    ASSUME Requests, Bounded, KeysOK, Numbered, KeysCounted, [Next]_vars
    PROVE  KeysOK' /\ KeysCounted'
<1>1. ASSUME NEW w \in Workers, NEW c \in Requested, Ask(w, c) PROVE KeysOK' /\ KeysCounted'
  BY <1>1, AskKeys DEF Ask, store, KeysOK
<1>2. ASSUME NEW w \in Workers, NEW o \in Outcomes, Send(w, o) PROVE KeysOK' /\ KeysCounted'
  <2>1. KeysOK'
    <3>1. CASE o = "ok"
      <4>1. Perform(req[w].call) /\ req[w].call \in Requested
        BY <1>2, <3>1, SendTurns DEF Send, Called
      <4> QED  BY <4>1, PerformKeys
    <3>2. CASE o # "ok"
      BY <1>2, <3>2 DEF Send, store, KeysOK
    <3> QED  BY <3>1, <3>2
  <2> QED  BY <1>2, <2>1, SendKeys
<1>3. ASSUME NEW w \in Workers, Reply(w) PROVE KeysOK' /\ KeysCounted'
  BY <1>3, ReplyKeys DEF Reply, store, KeysOK
<1>4. ASSUME NEW w \in Workers, LoseReply(w) PROVE KeysOK' /\ KeysCounted'
  BY <1>4, LoseKeys DEF LoseReply, store, KeysOK
<1>5. CASE Crash
  BY <1>5, CrashKeys DEF Crash, store, KeysOK
<1>6. CASE DeliverStray
  <2>1. PICK s \in strays : Perform(s.call) /\ s.call \in Requested
    BY <1>6 DEF DeliverStray, Numbered
  <2> QED  BY <1>6, <2>1, PerformKeys, StrayCallKeys
<1>7. CASE Aside
  BY <1>7 DEF Aside, KeysOK, KeysCounted, UnknownKeys, StrayKeys, Failing, Creators
<1> QED  BY <1>1, <1>2, <1>3, <1>4, <1>5, <1>6, <1>7, Steps

-----------------------------------------------------------------------------
(* The count of creations, and of users who came between two queries.      *)

LEMMA UnheardStep ==
    ASSUME Requests, Bounded, KeysOK, Numbered, UnheardCounted, [Next]_vars
    PROVE  UnheardCounted'
<1>1. calls \in Nat /\ unheard \in Nat /\ Cardinality(Creators) \in Nat
  BY CreatorsFinite, CountType DEF Bounded
<1>2. ASSUME NEW w \in Workers, NEW c \in Requested, Ask(w, c) PROVE UnheardCounted'
  <2>1. PICK r \in Called' : Turns(w, r)
    BY <1>2, AskTurns
  <2>2. calls' = calls + 1 /\ unheard' = unheard
    BY <1>2, AskTurns DEF Ask
  <2>3. Creators' \subseteq Creators \cup {w}
    BY <2>1 DEF Creators, Turns
  <2>4. Cardinality(Creators') \in Nat /\ Cardinality(Creators') <= Cardinality(Creators) + 1
    BY <2>3, CreatorsFinite, AddCount
  <2> QED  BY <1>1, <2>2, <2>4 DEF UnheardCounted
<1>3. ASSUME NEW w \in Workers, NEW o \in Outcomes, Send(w, o) PROVE UnheardCounted'
  <2>1. PICK r \in Answered' : Turns(w, r) /\ r.call = req[w].call
    BY <1>3, SendTurns
  <2>2. Creators' = Creators
    BY <2>1 DEF Creators, Turns
  <2> QED  BY <1>3, <2>2 DEF UnheardCounted, Send
<1>4. ASSUME NEW w \in Workers, Reply(w) \/ LoseReply(w) PROVE UnheardCounted'
  <2>1. Turns(w, Idle)
    BY <1>4, ReplyTurns, LoseTurns
  <2>2. unheard' \in {unheard, unheard + 1} /\ (w \notin Creators => unheard' = unheard)
    BY <1>4, LoseTurns DEF Reply, Creators
  <2>3. Creators' = Creators \ {w}
    BY <2>1 DEF Creators, Turns, Idle, Nothing, Call, Creates
  <2>4. Cardinality(Creators') = IF w \in Creators THEN Cardinality(Creators) - 1
                                 ELSE Cardinality(Creators)
    BY <2>3, CreatorsFinite, FS_RemoveElement
  <2>5. calls' = calls
    BY <1>4 DEF Reply, LoseReply
  <2> QED  BY <1>1, <2>2, <2>4, <2>5 DEF UnheardCounted
<1>5. CASE Crash
  <2>1. Creators' = {}
    BY <1>5, CrashTurns DEF Creators, Idle, Nothing, Call, Creates
  <2>2. Cardinality(Creators') = 0
    BY <2>1, FS_EmptySet
  <2>3. calls' = calls /\ unheard' = unheard + Cardinality(Creators)
    BY <1>5, CrashTurns DEF Crash
  <2> QED  BY <1>1, <2>2, <2>3 DEF UnheardCounted
<1>6. CASE DeliverStray \/ Aside
  <2>1. UNCHANGED <<req, calls, unheard>>
    BY <1>6 DEF DeliverStray, Aside, history
  <2> QED  BY <2>1 DEF UnheardCounted, Creators
<1> QED  BY <1>2, <1>3, <1>4, <1>5, <1>6, Steps

\* The pages slip only when the Server carries out a call.
LEMMA PerformSlips ==
    ASSUME Accounts, WalkOK, NEW c \in Requested, Perform(c)
    PROVE  walk'.slipped \in {walk.slipped, walk.slipped + 1}
<1>1. \/ walk' = walk
      \/ walk' = IF walk.pc = "find" THEN [walk EXCEPT !.slipped = @ + 1] ELSE walk
  BY PerformUsers
<1> QED  BY <1>1 DEF WalkOK

LEMMA SlipsStep ==
    ASSUME Requests, Bounded, KeysOK, Numbered, Accounts, WalkOK, SlipsCounted, [Next]_vars
    PROVE  SlipsCounted'
<1>1. calls \in Nat /\ walk.slipped \in Nat /\ IsFiniteSet(Pending) /\ Cardinality(Pending) \in Nat
  BY PendingFinite DEF Bounded, WalkOK
\* No call has ended, and nothing has slipped.
<1>2. ASSUME Pending' \subseteq Pending, calls' = calls,
             walk'.slipped = walk.slipped \/ walk'.slipped = 0
      PROVE  SlipsCounted'
  <2>1. Cardinality(Pending') \in Nat /\ Cardinality(Pending') <= Cardinality(Pending)
    BY <1>1, <1>2, SubsetCount
  <2> QED  BY <1>1, <1>2, <2>1 DEF SlipsCounted
\* One call has ended.
<1>3. ASSUME NEW n \in Pending, Pending' \subseteq Pending \ {n}, calls' = calls,
             NEW c \in Requested, Perform(c)
      PROVE  SlipsCounted'
  <2>1. Cardinality(Pending') \in Nat /\ Cardinality(Pending') + 1 <= Cardinality(Pending)
    BY <1>1, <1>3, DropCount
  <2>2. walk'.slipped \in {walk.slipped, walk.slipped + 1}
    BY <1>3, PerformSlips
  <2> QED  BY <1>1, <1>3, <2>1, <2>2 DEF SlipsCounted
<1>4. ASSUME NEW w \in Workers, NEW c \in Requested, Ask(w, c) PROVE SlipsCounted'
  <2>1. Pending' \subseteq Pending \cup {calls'} /\ calls' = calls + 1 /\ walk' = walk
    BY <1>4, AskNumbered, AskTurns DEF Ask
  <2>2. Cardinality(Pending') \in Nat /\ Cardinality(Pending') <= Cardinality(Pending) + 1
    BY <1>1, <2>1, AddCount
  <2> QED  BY <1>1, <2>1, <2>2 DEF SlipsCounted
<1>5. ASSUME NEW w \in Workers, NEW o \in Outcomes, Send(w, o) PROVE SlipsCounted'
  <2>1. calls' = calls /\ Fewer(Pending)
    BY <1>5, SendNumbered DEF Send
  <2>2. CASE o = "ok"
    <3>1. Perform(req[w].call) /\ req[w].call \in Requested
      BY <1>5, <2>2, SendTurns DEF Send, Called
    <3>2. req[w].nr \in Pending /\ Pending' \subseteq Pending \ {req[w].nr}
      BY <1>5, <2>2, SendNumbered
    <3> QED  BY <1>3, <2>1, <3>1, <3>2
  <2>3. CASE o # "ok"
    <3>1. walk' = walk
      BY <1>5, <2>3 DEF Send
    <3> QED  BY <1>2, <2>1, <3>1 DEF Fewer
  <2> QED  BY <2>2, <2>3
<1>6. ASSUME NEW w \in Workers, Reply(w) \/ LoseReply(w) PROVE SlipsCounted'
  BY <1>2, <1>6, EndNumbered DEF Reply, LoseReply, Fewer
<1>7. CASE Crash
  BY <1>2, <1>7, CrashNumbered DEF Crash, Fewer, Unasked
<1>8. CASE DeliverStray
  <2>1. PICK s \in strays : Perform(s.call) /\ strays' = strays \ {s} /\ UNCHANGED <<req, calls>>
    BY <1>8 DEF DeliverStray
  <2>2. Pending' \subseteq Pending \ {s.nr} /\ s.nr \in Pending /\ s.call \in Requested
    BY <2>1, StrayNumbered DEF Fewer, Numbered
  <2> QED  BY <1>3, <2>1, <2>2
<1>9. ASSUME UNCHANGED <<strays, req, calls>>, walk'.slipped = walk.slipped \/ walk'.slipped = 0
      PROVE  SlipsCounted'
  <2>1. Pending' = Pending
    BY <1>9 DEF Pending, Sent, At
  <2> QED  BY <1>2, <1>9, <2>1
<1>10. CASE OpenList \/ CloseList \/ UNCHANGED vars
  <2>1. UNCHANGED <<strays, req, calls>>
    BY <1>10 DEF OpenList, CloseList, vars
  <2>2. CASE OpenList
    <3>1. walk' = [Unasked EXCEPT !.pc = "count", !.since = Present]
      BY <2>2 DEF OpenList
    <3>2. walk'.slipped = 0
      BY <3>1 DEF Unasked
    <3> QED  BY <1>9, <2>1, <3>2
  <2>3. CASE CloseList
    <3>1. walk'.slipped = 0
      BY <2>3 DEF CloseList, Unasked
    <3> QED  BY <1>9, <2>1, <3>1
  <2>4. CASE UNCHANGED vars
    <3>1. walk'.slipped = walk.slipped
      BY <2>4 DEF vars
    <3> QED  BY <1>9, <2>1, <3>1
  <2> QED  BY <1>10, <2>2, <2>3, <2>4
<1>11. CASE CountUsers \/ FindUsers
  BY <1>9, <1>11 DEF CountUsers, FindUsers, WalkOK
<1>12. ASSUME NEW i \in UserIds, DeleteUser(i) PROVE SlipsCounted'
  <2>1. walk'.slipped = walk.slipped
    BY <1>12 DEF DeleteUser, WalkOK
  <2> QED  BY <1>9, <1>12, <2>1 DEF DeleteUser
<1> QED
  BY <1>4, <1>5, <1>6, <1>7, <1>8, <1>10, <1>11, <1>12 DEF Next

-----------------------------------------------------------------------------
(* The name of the device.                                                 *)

LEMMA IdleRenamesNothing == ~Renames(Idle.call) /\ Idle.answer = "none"
BY DEF Idle, Nothing, Call, Renames

LEMMA NamedStep ==
    ASSUME Requests, Bounded, KeysOK, Numbered, Named, [Next]_vars
    PROVE  Named'
<1>1. ASSUME NEW w \in Workers, NEW c \in Requested, Ask(w, c) PROVE Named'
  <2>1. PICK r \in Called' : r.call = c /\ Turns(w, r)
    BY <1>1, AskTurns
  <2>2. UNCHANGED <<label, wished, strays>> /\ req[w] = Idle
    BY <1>1, AskTurns DEF Ask, store
  <2>3. blurred' = (blurred \/ (Renames(c) /\ \E other \in {req[v] : v \in Workers} \cup strays :
                                               Renames(other.call)))
    BY <1>1 DEF Ask
  <2>4. CASE Renames(c)
    <3>1. SUFFICES ASSUME ~blurred' PROVE Named'
      BY <2>2, <2>3 DEF Named
    <3>2. ~blurred /\ Renamers = {} /\ \A s \in strays : ~Renames(s.call)
      BY <2>3, <2>4, <3>1 DEF Renamers, Named
    <3>3. Renamers' = {w}
      BY <2>1, <2>4, <3>2 DEF Renamers, Turns
    <3>4. wished = "none" \/ label = wished
      BY <3>2 DEF Named, Unsure
    <3> QED  BY <2>2, <2>3, <3>2, <3>3, <3>4 DEF Named
  <2>5. CASE ~Renames(c)
    <3>1. Renamers' = Renamers /\ w \notin Renamers /\ blurred' = blurred
      BY <2>1, <2>2, <2>3, <2>5, IdleRenamesNothing DEF Renamers, Turns, Named
    <3>2. Unsure => Unsure'
      BY <2>1, <3>1 DEF Unsure, Renamers, Turns
    <3> QED  BY <2>2, <3>1, <3>2 DEF Named
  <2> QED  BY <2>4, <2>5
<1>2. ASSUME NEW w \in Workers, NEW o \in Outcomes, Send(w, o) PROVE Named'
  <2> DEFINE c == req[w].call
             s == [nr |-> req[w].nr, call |-> c]
  <2>1. PICK r \in Answered' : /\ Turns(w, r) /\ r.call = c
                               /\ r.answer = (IF o = "ok" THEN Answer(c) ELSE "error")
    BY <1>2, SendTurns
  <2>2. Renamers' = Renamers /\ blurred' = blurred
    BY <1>2, <2>1 DEF Renamers, Turns, Send
  <2>3. c \in Requested /\ req[w].answer = "none"
    BY <1>2, SendTurns DEF Called
  <2>4. strays' = IF o = "late" THEN strays \cup {s} ELSE strays
    BY <1>2 DEF Send
  <2>5. s.call = c
    OBVIOUS
  <2>6. wished' = IF Renames(c) /\ r.answer = "ok" THEN c.on ELSE wished
    BY <1>2, <2>1 DEF Send, Reported
  <2>7. label' = IF o = "ok" /\ Renames(c) THEN c.on ELSE label
    BY <1>2 DEF Send, Perform, store
  <2>8. Renames(c) => c.on \in Labels /\ (r.answer = "ok" <=> o = "ok")
    BY <2>1, <2>3, RequestedFacts DEF Renames, Answer
  <2>9. Unsure => Unsure'
    BY <2>1, <2>2, <2>3 DEF Unsure, Turns, Renamers
  <2>10. CASE Renames(c)
    <3>1. w \in Renamers
      BY <2>10 DEF Renamers
    <3>2. ~blurred => /\ ~Unsure /\ \A t \in strays : ~Renames(t.call)
      BY <2>3, <3>1 DEF Named, Unsure
    <3>3. o # "ok" => Unsure'
      BY <2>1, <2>2, <3>1 DEF Unsure, Turns
    <3> HIDE DEF s
    <3>4. CASE o = "ok"
      BY <2>2, <2>4, <2>6, <2>7, <2>8, <2>10, <3>2, <3>4 DEF Named
    <3>5. CASE o # "ok"
      BY <2>2, <2>6, <2>7, <2>8, <2>10, <3>3, <3>5 DEF Named
    <3> QED  BY <3>4, <3>5
  <2>11. CASE ~Renames(c)
    <3> HIDE DEF s
    <3>1. (\E t \in strays' : Renames(t.call)) => \E t \in strays : Renames(t.call)
      BY <2>4, <2>5, <2>11
    <3> QED  BY <2>2, <2>6, <2>7, <2>9, <2>11, <3>1 DEF Named
  <2> QED  BY <2>10, <2>11
<1>3. ASSUME NEW w \in Workers, Reply(w) \/ LoseReply(w) PROVE Named'
  <2>1. Turns(w, Idle)
    BY <1>3, ReplyTurns, LoseTurns
  <2>2. UNCHANGED <<label, wished, strays>>
    BY <1>3 DEF Reply, LoseReply, store
  <2>3. \/ blurred' = (blurred \/ (w \in Renamers /\ req[w].answer = "error"))
        \/ blurred' = (blurred \/ w \in Renamers)
    BY <1>3 DEF Reply, LoseReply, Blurs, Renamers
  <2>4. Renamers' = Renamers \ {w} /\ \A v \in Renamers' : req'[v] = req[v]
    BY <2>1, IdleRenamesNothing DEF Renamers, Turns
  <2>5. ~blurred' => ~blurred /\ (Unsure => Unsure')
    <3> SUFFICES ASSUME ~blurred', Unsure PROVE ~blurred /\ Unsure'
      BY <2>3 DEF Named
    <3>1. ~blurred /\ ~ (w \in Renamers /\ req[w].answer = "error")
      BY <2>3
    <3>2. PICK v \in Renamers : req[v].answer = "error"
      BY DEF Unsure
    <3> QED  BY <2>4, <3>1, <3>2 DEF Unsure
  <2>6. blurred' \in BOOLEAN
    BY <2>3 DEF Named
  <2> QED  BY <2>2, <2>4, <2>5, <2>6 DEF Named
<1>4. CASE Crash
  <2>1. UNCHANGED <<label, wished>> /\ blurred' = (blurred \/ \E w \in Workers : w \in Renamers)
    BY <1>4 DEF Crash, store, Blurs, Renamers
  <2>2. PICK W \in SUBSET Sent : strays' = strays \cup Left(W)
    BY <1>4, CrashNumbered
  <2>3. Renamers' = {}
    BY <1>4, CrashTurns, IdleRenamesNothing DEF Renamers
  <2>4. ASSUME ~blurred'
        PROVE  /\ \A s \in strays' : ~Renames(s.call)
               /\ wished = "none" \/ label = wished
    <3>1. Renamers = {} /\ ~blurred
      BY <2>1, <2>4 DEF Renamers
    <3>2. \A s \in Left(W) : ~Renames(s.call)
      BY <3>1 DEF Left, Renamers, Sent
    <3> QED  BY <2>2, <3>1, <3>2 DEF Named, Unsure
  <2>5. blurred' \in BOOLEAN
    BY <2>1 DEF Named
  <2> QED  BY <2>1, <2>3, <2>4, <2>5 DEF Named
<1>5. CASE DeliverStray
  <2>1. PICK s \in strays : Perform(s.call) /\ strays' = strays \ {s}
    BY <1>5 DEF DeliverStray
  <2>2. UNCHANGED <<req, wished, blurred>> /\ s.call \in Requested
    BY <1>5 DEF DeliverStray, history, Numbered
  <2>3. label' = IF Renames(s.call) THEN s.call.on ELSE label
    BY <2>1 DEF Perform
  <2>4. Renames(s.call) => s.call.on \in Labels /\ (~blurred => Unsure)
    BY <2>2, RequestedFacts DEF Named, Renames
  <2>5. Renamers' = Renamers /\ Unsure' = Unsure
    BY <2>2 DEF Renamers, Unsure
  <2> QED  BY <2>1, <2>2, <2>3, <2>4, <2>5 DEF Named
<1>6. CASE Aside
  <2>1. Renamers' = Renamers /\ Unsure' = Unsure
    BY <1>6 DEF Aside, Renamers, Unsure
  <2> QED  BY <1>6, <2>1 DEF Aside, Named
<1> QED  BY <1>1, <1>2, <1>3, <1>4, <1>5, <1>6, Steps

-----------------------------------------------------------------------------
(* Ranks.                                                                  *)

Above(P, i)  == {j \in P : j > i}
RankIn(P, i) == Cardinality(Above(P, i))

LEMMA UsersFinite ==
    ASSUME NEW P, P \subseteq UserIds
    PROVE  IsFiniteSet(P) /\ Cardinality(P) \in 0 .. MaxUsers
<1>1. IsFiniteSet(UserIds) /\ Cardinality(UserIds) = MaxUsers
  BY FS_Interval, BoundsAssumption DEF UserIds
<1>2. IsFiniteSet(P) /\ Cardinality(P) \in Nat /\ Cardinality(P) <= MaxUsers
  BY <1>1, SubsetCount
<1> QED  BY <1>2, BoundsAssumption

LEMMA RankBounds ==
    ASSUME NEW P, P \subseteq UserIds, NEW i \in P
    PROVE  RankIn(P, i) \in Nat /\ RankIn(P, i) + 1 <= Cardinality(P)
<1>1. Above(P, i) \subseteq P \ {i}
  BY DEF Above, UserIds
<1> QED  BY <1>1, UsersFinite, DropCount DEF RankIn

LEMMA RankFalls ==
    ASSUME NEW P, P \subseteq UserIds, NEW i \in P, NEW j \in P, i < j
    PROVE  RankIn(P, j) < RankIn(P, i)
<1>1. Above(P, j) \subseteq Above(P, i) \ {j} /\ j \in Above(P, i)
  <2>1. \A k \in P : k \in Int
    BY DEF UserIds
  <2>2. \A k \in P : k > j => k > i /\ k # j
    BY <2>1
  <2>3. j > i
    BY <2>1
  <2> QED  BY <2>2, <2>3 DEF Above
<1>2. IsFiniteSet(Above(P, i))
  BY UsersFinite, SubsetCount DEF Above
<1>3. /\ RankIn(P, i) \in Nat /\ RankIn(P, j) \in Nat
      /\ RankIn(P, j) + 1 <= RankIn(P, i)
  BY <1>1, <1>2, DropCount DEF RankIn
<1> QED  BY <1>3

LEMMA RankUnique ==
    ASSUME NEW P, P \subseteq UserIds, NEW i \in P, NEW j \in P, RankIn(P, i) = RankIn(P, j)
    PROVE  i = j
<1>1. RankIn(P, i) \in Nat
  BY RankBounds
<1>2. P \subseteq Int
  BY DEF UserIds
<1>3. ~ (i < j) /\ ~ (j < i)
  <2>1. i < j => RankIn(P, j) < RankIn(P, i)
    BY RankFalls
  <2>2. j < i => RankIn(P, i) < RankIn(P, j)
    BY RankFalls
  <2> QED  BY <1>1, <2>1, <2>2
<1> QED  BY <1>2, <1>3

LEMMA RankGrows ==
    ASSUME NEW Q, Q \subseteq UserIds, NEW P, P \subseteq Q, NEW i \in P
    PROVE  RankIn(P, i) \in Nat /\ RankIn(Q, i) \in Nat /\ RankIn(P, i) <= RankIn(Q, i)
<1>1. Above(P, i) \subseteq Above(Q, i)
  BY DEF Above
<1>2. IsFiniteSet(Above(Q, i))
  BY UsersFinite, SubsetCount DEF Above
<1> QED  BY <1>1, <1>2, SubsetCount DEF RankIn

LEMMA RankShrinks ==
    ASSUME NEW P, P \subseteq UserIds, NEW x, NEW i \in P
    PROVE  /\ RankIn(P, i) \in Nat /\ RankIn(P \ {x}, i) \in Nat
           /\ RankIn(P, i) <= RankIn(P \ {x}, i) + 1
<1>1. Above(P, i) \subseteq Above(P \ {x}, i) \cup {x}
  BY DEF Above
<1>2. IsFiniteSet(Above(P \ {x}, i))
  BY UsersFinite, SubsetCount DEF Above
<1> QED  BY <1>1, <1>2, AddCount DEF RankIn

\* Ranks are distinct and below the number of users: no more than Cardinality(P) - t
\* of them are t or higher.
LEMMA RankedFrom ==
    ASSUME NEW P, P \subseteq UserIds, NEW t \in Nat, NEW S,
           S \subseteq P, \A i \in S : RankIn(P, i) >= t
    PROVE  /\ Cardinality(S) \in Nat
           /\ Cardinality(S) + t <= Cardinality(P) \/ S = {}
<1> DEFINE T == t .. (Cardinality(P) - 1)
           f == [i \in S |-> RankIn(P, i)]
<1>1. IsFiniteSet(P) /\ Cardinality(P) \in Nat
  BY UsersFinite
<1>2. IsFiniteSet(T) /\ Cardinality(T) = IF t > Cardinality(P) - 1 THEN 0 ELSE Cardinality(P) - t
  <2> DEFINE n == Cardinality(P) - 1
  <2>1. n \in Int /\ n - t + 1 = Cardinality(P) - t
    BY <1>1
  <2> HIDE DEF n
  <2>2. IsFiniteSet(t .. n) /\ Cardinality(t .. n) = IF t > n THEN 0 ELSE n - t + 1
    BY <2>1, FS_Interval
  <2> QED  BY <2>1, <2>2 DEF n
<1>3. ASSUME NEW i \in S PROVE RankIn(P, i) \in T
  BY <1>1, <1>3, RankBounds
<1>4. f \in Injection(S, T)
  <2>1. f \in [S -> T]
    BY <1>3
  <2>2. \A i, j \in S : f[i] = f[j] => i = j
    BY RankUnique
  <2> HIDE DEF T, f
  <2> QED  BY <2>1, <2>2 DEF Injection, IsInjective
<1>5. IsFiniteSet(S) /\ Cardinality(S) <= Cardinality(T) /\ Cardinality(S) \in Nat
  <2> HIDE DEF T, f
  <2> QED  BY <1>2, <1>4, FS_Injection, CountType
<1>6. S # {} => Cardinality(S) # 0
  BY <1>5, FS_EmptySet
<1> HIDE DEF T, f
<1> QED  BY <1>1, <1>2, <1>5, <1>6

-----------------------------------------------------------------------------
(* The pages.                                                              *)

LEMMA OffsetFacts ==
    ASSUME NEW p \in Nat \ {0}
    PROVE  /\ Offset(p) \in Int /\ Offset(p) + PageSize = p * PageSize
           /\ Offset(p + 1) = p * PageSize /\ p * PageSize \in Nat /\ p <= p * PageSize
           /\ Offset(1) = 0
<1>1. PageSize \in Nat /\ PageSize >= 1
  BY BoundsAssumption
<1>2. (p - 1) * PageSize + PageSize = p * PageSize /\ (p - 1) * PageSize \in Int
  BY <1>1
<1>3. (p + 1) - 1 = p /\ (1 - 1) * PageSize = 0
  BY <1>1
<1>4. p * PageSize \in Nat /\ p <= p * PageSize
  BY <1>1
<1> QED  BY <1>2, <1>3, <1>4 DEF Offset

LEMMA PresentFacts ==
    Present \subseteq UserIds /\ IsFiniteSet(Present) /\ Cardinality(Present) \in 0 .. MaxUsers
BY UsersFinite DEF Present

LEMMA MissedFacts ==
    ASSUME WalkOK, NEW p
    PROVE  /\ Missed(p) \subseteq UserIds /\ IsFiniteSet(Missed(p)) /\ Cardinality(Missed(p)) \in Nat
           /\ Missed(p) = {i \in walk.since \ walk.seen : RankIn(Present, i) < Offset(p)}
           /\ \A i : Rank(i) = RankIn(Present, i)
<1>1. Missed(p) \subseteq UserIds
  BY DEF Missed, WalkOK
<1>2. \A i : Rank(i) = RankIn(Present, i)
  BY DEF Rank, RankIn, Above
<1> QED  BY <1>1, <1>2, UsersFinite DEF Missed

LEMMA EntersFacts ==
    ASSUME Accounts, NEW i \in UserIds, Enters(i)
    PROVE  Accounts' /\ Present' = Present \cup {i} /\ i \notin Present
<1>1. PICK n \in Names : users' = [users EXCEPT ![i] = n] /\ \A j \in UserIds : users[j] # n
  BY DEF Enters
<1>2. users[i] = "free" /\ \A j \in UserIds : j < i => users[j] # "free"
  BY DEF Enters
<1>3. "free" \notin Names /\ "gone" \notin Names
  BY ExistingAssumption
<1>4. Present' = Present \cup {i} /\ i \notin Present
  BY <1>1, <1>2, <1>3 DEF Accounts, Present
<1>5. users' \in [UserIds -> Names \cup {"free", "gone"}]
  BY <1>1 DEF Accounts
<1>6. \A a, b \in Present' : users'[a] = users'[b] => a = b
  <2>1. \A a \in Present : users'[a] = users[a] /\ a \in UserIds
    BY <1>1, <1>4 DEF Accounts, Present
  <2>2. users'[i] = n
    BY <1>1 DEF Accounts
  <2> QED  BY <1>1, <1>4, <2>1, <2>2 DEF Accounts
<1>7. \A a, b \in UserIds : users'[a] = "free" /\ a < b => users'[b] = "free"
  <2> SUFFICES ASSUME NEW a \in UserIds, NEW b \in UserIds, users'[a] = "free", a < b
               PROVE  users'[b] = "free"
    OBVIOUS
  <2>1. a # i /\ users[a] = "free"
    BY <1>1, <1>3 DEF Accounts
  <2>2. b # i /\ users[b] = "free"
    BY <1>2, <2>1 DEF Accounts
  <2> QED  BY <1>1, <2>2 DEF Accounts
<1> QED  BY <1>4, <1>5, <1>6, <1>7 DEF Accounts

LEMMA DeleteFacts ==
    ASSUME Accounts, NEW i \in UserIds, DeleteUser(i)
    PROVE  Accounts' /\ Present' = Present \ {i} /\ i \in Present
<1>1. users' = [users EXCEPT ![i] = "gone"] /\ i \in Present
  BY DEF DeleteUser
<1>2. "free" \notin Names /\ "gone" \notin Names
  BY ExistingAssumption
<1>3. Present' = Present \ {i}
  BY <1>1, <1>2 DEF Accounts, Present
<1>4. users' \in [UserIds -> Names \cup {"free", "gone"}]
  BY <1>1 DEF Accounts
<1>5. \A a \in Present' : users'[a] = users[a] /\ a \in Present
  BY <1>1, <1>3 DEF Accounts, Present
<1>6. \A a, b \in UserIds : users'[a] = "free" /\ a < b => users'[b] = "free"
  <2> SUFFICES ASSUME NEW a \in UserIds, NEW b \in UserIds, users'[a] = "free", a < b
               PROVE  users'[b] = "free"
    OBVIOUS
  <2>1. users[a] = "free" /\ users[b] = "free"
    BY <1>1 DEF Accounts
  <2>2. users[i] # "free"
    BY <1>1, <1>2 DEF Present
  <2> QED  BY <1>1, <2>1, <2>2 DEF Accounts
<1> QED  BY <1>1, <1>3, <1>4, <1>5, <1>6 DEF Accounts

\* What a step does to the users and to an operator's walk.
Slips == walk' = IF walk.pc = "find" THEN [walk EXCEPT !.slipped = @ + 1] ELSE walk

LEMMA UsersStep ==
    ASSUME Requests, Bounded, KeysOK, Numbered, Accounts, [Next]_vars
    PROVE  /\ deletes \in Nat /\ deletes' \in Nat /\ deletes <= deletes'
           /\ \/ users' = users /\ walk' \in {walk, Unasked}
              \/ (\E i \in UserIds : Enters(i)) /\ Slips
              \/ users' = users /\ (OpenList \/ CountUsers \/ FindUsers)
              \/ \E i \in UserIds : DeleteUser(i)
<1>1. deletes \in Nat
  BY DEF Bounded
<1>2. ASSUME NEW w \in Workers, NEW c \in Requested, Ask(w, c)
      PROVE  UNCHANGED <<users, walk, deletes>>
  BY <1>2 DEF Ask, store
<1>3. ASSUME NEW w \in Workers, NEW o \in Outcomes, Send(w, o)
      PROVE  /\ deletes' = deletes
             /\ UNCHANGED <<users, walk>> \/ ((\E i \in UserIds : Enters(i)) /\ Slips)
  <2>1. CASE o = "ok"
    <3>1. Perform(req[w].call) /\ req[w].call \in Requested
      BY <1>3, <2>1, SendTurns DEF Send, Called
    <3> QED  BY <1>3, <3>1, PerformUsers DEF Send, Slips
  <2>2. CASE o # "ok"
    BY <1>3, <2>2 DEF Send, store
  <2> QED  BY <2>1, <2>2
<1>4. ASSUME NEW w \in Workers, Reply(w) \/ LoseReply(w)
      PROVE  UNCHANGED <<users, walk, deletes>>
  BY <1>4 DEF Reply, LoseReply, store
<1>5. CASE DeliverStray
  <2>1. PICK s \in strays : Perform(s.call)
    BY <1>5 DEF DeliverStray
  <2>2. s.call \in Requested /\ deletes' = deletes
    BY <1>5 DEF DeliverStray, Numbered
  <2> QED  BY <1>1, <2>1, <2>2, PerformUsers DEF Slips
<1>6. CASE Crash
  BY <1>1, <1>6 DEF Crash, store
<1>7. CASE OpenList \/ CountUsers \/ FindUsers \/ CloseList
  BY <1>1, <1>7 DEF OpenList, CountUsers, FindUsers, CloseList, store
<1>8. ASSUME NEW i \in UserIds, DeleteUser(i)
      PROVE  deletes' = deletes + 1
  BY <1>8 DEF DeleteUser
<1>9. CASE UNCHANGED vars
  BY <1>1, <1>9 DEF vars, store
<1> QED
  BY <1>1, <1>2, <1>3, <1>4, <1>5, <1>6, <1>7, <1>8, <1>9 DEF Next

LEMMA UnaskedPaged == walk' = Unasked => Paged'
BY DEF Unasked, Paged, NobodySkipped

\* A user more pushes others back, never past the operator.
LEMMA EntersPaged ==
    ASSUME Accounts, WalkOK, Paged, NEW i \in UserIds, Enters(i), Slips
    PROVE  Paged'
<1>1. Present' = Present \cup {i} /\ i \notin Present
  BY EntersFacts
<1>2. IsFiniteSet(Present) /\ Cardinality(Present) \in Nat
      /\ Cardinality(Present') = Cardinality(Present) + 1
  BY <1>1, PresentFacts, FS_AddElement
<1>3. /\ walk'.pc = walk.pc /\ walk'.page = walk.page /\ walk'.total = walk.total
      /\ walk'.seen = walk.seen /\ walk'.since = walk.since /\ walk'.lost = walk.lost
      /\ walk'.slipped = IF walk.pc = "find" THEN walk.slipped + 1 ELSE walk.slipped
  BY DEF Slips, WalkOK
<1>4. /\ walk.slipped \in Nat /\ walk.lost \in Nat /\ walk.total \in Nat
      /\ walk.page \in Nat \ {0}
  BY BoundsAssumption DEF WalkOK
<1>5. NobodySkipped'
  BY <1>3 DEF NobodySkipped, Paged
<1>6. ASSUME walk.pc \in {"count", "find"}
      PROVE  /\ walk'.since \subseteq Present'
             /\ Cardinality((Missed(walk.page))') \in Nat
             /\ Cardinality((Missed(walk.page))') <= Cardinality(Missed(walk.page))
  <2>1. walk.since \subseteq Present
    BY <1>6 DEF Paged
  <2>2. (Missed(walk.page))' \subseteq Missed(walk.page)
    <3> SUFFICES ASSUME NEW j \in (Missed(walk.page))' PROVE j \in Missed(walk.page)
      OBVIOUS
    <3>1. j \in walk.since \ walk.seen /\ RankIn(Present', j) < Offset(walk.page)
      BY <1>3 DEF Missed, Rank, RankIn, Above
    <3>2. RankIn(Present, j) <= RankIn(Present', j)
          /\ RankIn(Present, j) \in Nat /\ RankIn(Present', j) \in Nat
      <4>1. Present' \subseteq UserIds /\ Present \subseteq Present' /\ j \in Present
        BY <1>1, <2>1, <3>1, PresentFacts
      <4> QED  BY <4>1, RankGrows
    <3>3. Offset(walk.page) \in Int
      BY <1>4, OffsetFacts
    <3> QED  BY <3>1, <3>2, <3>3, MissedFacts
  <2>3. IsFiniteSet(Missed(walk.page))
    BY MissedFacts
  <2> QED  BY <1>1, <1>3, <2>1, <2>2, <2>3, SubsetCount
<1>7. Cardinality(Missed(walk.page)) \in Nat
  BY MissedFacts
<1>8. CASE walk.pc = "find"
  BY <1>2, <1>3, <1>4, <1>5, <1>6, <1>7, <1>8 DEF Paged
<1>9. CASE walk.pc = "count"
  BY <1>2, <1>3, <1>4, <1>5, <1>6, <1>7, <1>9 DEF Paged
<1>10. CASE walk.pc \in {"off", "done"}
  BY <1>3, <1>5, <1>10 DEF Paged
<1> QED  BY <1>8, <1>9, <1>10 DEF WalkOK

\* A user less moves at most one of the others past the operator.
LEMMA DeletePaged ==
    ASSUME Accounts, WalkOK, Paged, NEW i \in UserIds, DeleteUser(i)
    PROVE  Paged'
<1>1. Present' = Present \ {i} /\ i \in Present
  BY DeleteFacts
<1>2. IsFiniteSet(Present) /\ Cardinality(Present) \in Nat
      /\ Cardinality(Present') = Cardinality(Present) - 1
  BY <1>1, PresentFacts, FS_RemoveElement
<1>3. CASE walk.pc \in {"count", "find"}
  <2>1. /\ walk'.pc = walk.pc /\ walk'.page = walk.page /\ walk'.total = walk.total
        /\ walk'.seen = walk.seen /\ walk'.since = walk.since \ {i}
        /\ walk'.lost = walk.lost + 1 /\ walk'.slipped = walk.slipped
    BY <1>3 DEF DeleteUser, WalkOK
  <2>2. /\ walk.slipped \in Nat /\ walk.lost \in Nat /\ walk.total \in Nat
        /\ walk.page \in Nat \ {0} /\ Offset(walk.page) \in Int
    BY BoundsAssumption, OffsetFacts DEF WalkOK
  <2>3. walk.since \subseteq Present /\ walk'.since \subseteq Present'
    BY <1>1, <1>3, <2>1 DEF Paged
  <2>4. ASSUME NEW j \in (Missed(walk.page))', j \notin Missed(walk.page)
        PROVE  j \in Present /\ RankIn(Present, j) = Offset(walk.page)
    <3>1. j \in walk'.since \ walk.seen /\ RankIn(Present', j) < Offset(walk.page)
      BY <2>1, <2>4 DEF Missed, Rank, RankIn, Above
    <3>2. ~ (RankIn(Present, j) < Offset(walk.page)) /\ j \in Present
      BY <2>1, <2>3, <2>4, <3>1, MissedFacts
    <3>3. /\ RankIn(Present, j) \in Nat /\ RankIn(Present', j) \in Nat
          /\ RankIn(Present, j) <= RankIn(Present', j) + 1
      BY <1>1, <3>2, PresentFacts, RankShrinks
    <3> QED  BY <2>2, <3>1, <3>2, <3>3
  <2>5. PICK x : (Missed(walk.page))' \subseteq Missed(walk.page) \cup {x}
    <3>1. CASE (Missed(walk.page))' \subseteq Missed(walk.page)
      BY <3>1
    <3>2. CASE \E x \in (Missed(walk.page))' : x \notin Missed(walk.page)
      <4>1. PICK x \in (Missed(walk.page))' : x \notin Missed(walk.page)
        BY <3>2
      <4>2. \A j \in (Missed(walk.page))' : j \in Missed(walk.page) \/ j = x
        <5> SUFFICES ASSUME NEW j \in (Missed(walk.page))', j \notin Missed(walk.page) PROVE j = x
          OBVIOUS
        <5>1. /\ j \in Present /\ x \in Present
              /\ RankIn(Present, j) = RankIn(Present, x)
          BY <2>4, <4>1
        <5> QED  BY <5>1, PresentFacts, RankUnique
      <4> QED  BY <4>2
    <3> QED  BY <3>1, <3>2
  <2>6. /\ Cardinality((Missed(walk.page))') \in Nat /\ Cardinality(Missed(walk.page)) \in Nat
        /\ Cardinality((Missed(walk.page))') <= Cardinality(Missed(walk.page)) + 1
    BY <2>5, MissedFacts, AddCount
  <2>7. NobodySkipped'
    BY <1>3, <2>1 DEF NobodySkipped
  <2> QED  BY <1>2, <1>3, <2>1, <2>2, <2>3, <2>6, <2>7 DEF Paged
<1>4. CASE ~ (walk.pc \in {"count", "find"})
  BY <1>4 DEF DeleteUser, Paged, NobodySkipped
<1> QED  BY <1>3, <1>4

LEMMA OpenPaged ==
    ASSUME WalkOK, Paged, users' = users, OpenList
    PROVE  Paged'
<1>1. walk' = [Unasked EXCEPT !.pc = "count", !.since = Present]
  BY DEF OpenList
<1>2. /\ walk'.pc = "count" /\ walk'.page = 1 /\ walk'.since = Present
      /\ walk'.lost = 0 /\ walk'.slipped = 0
  BY <1>1 DEF Unasked
<1>3. Present' = Present
  BY DEF Present
<1>4. (Missed(walk.page))' = {}
  <2> SUFFICES ASSUME NEW j \in (Missed(walk.page))' PROVE FALSE
    OBVIOUS
  <2>1. j \in Present /\ RankIn(Present, j) < Offset(1)
    BY <1>2, <1>3 DEF Missed, Rank, RankIn, Above
  <2>2. RankIn(Present, j) \in Nat /\ Offset(1) = 0
    BY <2>1, PresentFacts, RankBounds, OffsetFacts
  <2> QED  BY <2>1, <2>2
<1>5. Cardinality((Missed(walk.page))') = 0
  BY <1>4, FS_EmptySet
<1> QED  BY <1>2, <1>3, <1>5 DEF Paged, NobodySkipped

LEMMA CountPaged ==
    ASSUME WalkOK, Paged, users' = users, CountUsers
    PROVE  Paged'
<1>1. /\ walk.pc = "count" /\ walk'.pc = "find" /\ walk'.page = walk.page
      /\ walk'.total = Cardinality(Present) /\ walk'.seen = walk.seen
      /\ walk'.since = walk.since /\ walk'.lost = walk.lost /\ walk'.slipped = walk.slipped
  BY DEF CountUsers, WalkOK
<1>2. Present' = Present
  BY DEF Present
<1>3. (Missed(walk.page))' = Missed(walk.page)
  BY <1>1, <1>2 DEF Missed, Rank
<1>4. /\ Cardinality(Missed(walk.page)) \in Nat /\ Cardinality(Present) \in Nat
      /\ walk.lost \in Nat /\ walk.slipped \in Nat
  BY MissedFacts, PresentFacts DEF WalkOK
<1> QED  BY <1>1, <1>2, <1>3, <1>4 DEF Paged, NobodySkipped

\* After a page, those missed before the next one are those missed before this one;
\* after the last one, there are also those whom the total did not count.
LEMMA FindPaged ==
    ASSUME WalkOK, Paged, users' = users, FindUsers
    PROVE  Paged'
<1> DEFINE p == walk.page
<1>1. /\ walk.pc = "find" /\ walk'.total = walk.total
      /\ walk'.seen = walk.seen \cup PageOf(p)
      /\ walk'.since = walk.since /\ walk'.lost = walk.lost /\ walk'.slipped = walk.slipped
      /\ p * PageSize < walk.total => walk'.pc = "count" /\ walk'.page = p + 1
      /\ ~ (p * PageSize < walk.total) => walk'.pc = "done"
  BY DEF FindUsers, WalkOK
<1>2. Present' = Present
  BY DEF Present
<1>3. /\ walk.lost \in Nat /\ walk.slipped \in Nat /\ walk.total \in Nat
      /\ p \in Nat \ {0}
  BY BoundsAssumption DEF WalkOK
<1>4. /\ Offset(p) \in Int /\ p * PageSize \in Nat /\ Offset(p + 1) = p * PageSize
      /\ Offset(p) + PageSize = p * PageSize /\ PageSize \in Nat
  BY <1>3, OffsetFacts, BoundsAssumption
<1>5. /\ walk.since \subseteq Present
      /\ Cardinality(Missed(p)) \in Nat /\ Cardinality(Missed(p)) <= walk.lost + walk.slipped
      /\ Cardinality(Missed(p)) + Cardinality(Present) <= walk.total + walk.lost + walk.slipped
      /\ Cardinality(Present) \in Nat /\ IsFiniteSet(Missed(p))
  BY <1>1, MissedFacts, PresentFacts DEF Paged
\* Who is on no page so far was missed before this one or is further on.
<1>6. ASSUME NEW j \in walk'.since \ walk'.seen, j \notin Missed(p)
      PROVE  j \in Present /\ RankIn(Present, j) \in Nat /\ RankIn(Present, j) >= p * PageSize
  <2>1. j \in Present /\ j \in walk.since \ walk.seen /\ j \notin PageOf(p)
    BY <1>1, <1>5, <1>6
  <2>2. RankIn(Present, j) \in Nat
    BY <2>1, PresentFacts, RankBounds
  <2>3. ~ (RankIn(Present, j) < Offset(p))
    BY <1>6, <2>1, MissedFacts
  <2>4. RankIn(Present, j) \notin Offset(p) .. (Offset(p) + PageSize - 1)
    BY <2>1, MissedFacts DEF PageOf
  <2> QED  BY <1>4, <2>1, <2>2, <2>3, <2>4
<1>7. CASE p * PageSize < walk.total
  <2>1. walk'.pc = "count" /\ walk'.page = p + 1
    BY <1>1, <1>7
  <2>2. (Missed(walk.page))' \subseteq Missed(p)
    <3> SUFFICES ASSUME NEW j \in (Missed(walk.page))' PROVE j \in Missed(p)
      OBVIOUS
    <3>1. j \in walk'.since \ walk'.seen /\ RankIn(Present, j) < p * PageSize
      BY <1>2, <1>4, <2>1 DEF Missed, Rank, RankIn, Above
    <3> QED  BY <1>4, <1>6, <3>1
  <2>3. Cardinality((Missed(walk.page))') \in Nat
        /\ Cardinality((Missed(walk.page))') <= Cardinality(Missed(p))
    BY <1>5, <2>2, SubsetCount
  <2> QED  BY <1>1, <1>2, <1>3, <1>5, <2>1, <2>3 DEF Paged, NobodySkipped
<1>8. CASE ~ (p * PageSize < walk.total)
  <2> DEFINE Late == {j \in walk'.since \ walk'.seen : j \notin Missed(p)}
  <2>1. walk'.pc = "done"
    BY <1>1, <1>8
  <2>2. /\ Cardinality(Late) \in Nat
        /\ Cardinality(Late) + p * PageSize <= Cardinality(Present) \/ Late = {}
    <3>1. Late \subseteq Present /\ \A j \in Late : RankIn(Present, j) >= p * PageSize
      BY <1>6
    <3> HIDE DEF Late
    <3> QED  BY <1>4, <3>1, PresentFacts, RankedFrom
  <2>3. walk'.since \ walk'.seen \subseteq Missed(p) \cup Late
    OBVIOUS
  <2> HIDE DEF Late
  <2>4. IsFiniteSet(Late) /\ (Late = {} => Cardinality(Late) = 0)
    <3>1. Late \subseteq UserIds
      BY <1>1, <2>3 DEF WalkOK, Late
    <3> QED  BY <3>1, UsersFinite, FS_EmptySet
  <2>5. /\ Cardinality(walk'.since \ walk'.seen) \in Nat
        /\ Cardinality(walk'.since \ walk'.seen) <= Cardinality(Missed(p)) + Cardinality(Late)
    BY <1>5, <2>3, <2>4, UnionCount
  <2>6. Cardinality(walk'.since \ walk'.seen) <= walk.lost + walk.slipped
    BY <1>3, <1>4, <1>5, <1>8, <2>2, <2>4, <2>5
  <2> QED  BY <1>1, <2>1, <2>6 DEF Paged, NobodySkipped
<1> QED  BY <1>7, <1>8

LEMMA WalkStep ==
    ASSUME Requests, Bounded, KeysOK, Numbered, Accounts, WalkOK, [Next]_vars
    PROVE  WalkOK'
<1>1. deletes \in Nat /\ deletes' \in Nat /\ deletes <= deletes'
  BY UsersStep
<1>2. 0 .. deletes \subseteq 0 .. deletes' /\ 0 \in 0 .. deletes' /\ 1 \in 1 .. (MaxUsers + 1)
      /\ 0 \in 0 .. MaxUsers
  BY <1>1, BoundsAssumption
<1>3. walk \in [pc : {"off", "count", "find", "done"}, page : 1 .. (MaxUsers + 1),
                total : 0 .. MaxUsers, seen : SUBSET UserIds, since : SUBSET UserIds,
                lost : 0 .. deletes', slipped : Nat]
  BY <1>2 DEF WalkOK
<1>4. Unasked \in [pc : {"off", "count", "find", "done"}, page : 1 .. (MaxUsers + 1),
                total : 0 .. MaxUsers, seen : SUBSET UserIds, since : SUBSET UserIds,
                lost : 0 .. deletes', slipped : Nat]
  BY <1>2 DEF Unasked
<1>5. CASE walk' \in {walk, Unasked}
  BY <1>3, <1>4, <1>5 DEF WalkOK
<1>6. CASE Slips
  BY <1>3, <1>6 DEF WalkOK, Slips
<1>7. CASE OpenList
  <2>1. Present \in SUBSET UserIds
    BY PresentFacts
  <2> QED  BY <1>4, <1>7, <2>1 DEF WalkOK, OpenList
<1>8. CASE CountUsers
  <2>1. Cardinality(Present) \in 0 .. MaxUsers
    BY PresentFacts
  <2> QED  BY <1>3, <1>8, <2>1 DEF WalkOK, CountUsers
<1>9. CASE FindUsers
  <2>1. walk.seen \cup PageOf(walk.page) \in SUBSET UserIds
    BY <1>3, PresentFacts DEF PageOf
  <2>2. walk.page * PageSize < walk.total => walk.page + 1 \in 1 .. (MaxUsers + 1)
    <3>1. walk.page \in Nat \ {0} /\ walk.total \in Nat /\ walk.total <= MaxUsers /\ MaxUsers \in Nat
      BY <1>3, BoundsAssumption
    <3>2. walk.page <= walk.page * PageSize /\ walk.page * PageSize \in Nat
      BY <3>1, OffsetFacts
    <3> QED  BY <3>1, <3>2
  <2>3. walk' = [walk EXCEPT !.seen = @ \cup PageOf(walk.page),
                   !.pc   = IF walk.page * PageSize < walk.total THEN "count" ELSE "done",
                   !.page = IF walk.page * PageSize < walk.total THEN @ + 1 ELSE @]
    BY <1>9 DEF FindUsers
  <2> QED  BY <1>3, <2>1, <2>2, <2>3 DEF WalkOK
<1>10. ASSUME NEW i \in UserIds, DeleteUser(i) PROVE WalkOK'
  <2>1. deletes' = deletes + 1
    BY <1>10 DEF DeleteUser
  <2>2. walk.lost + 1 \in 0 .. deletes' /\ walk.since \ {i} \in SUBSET UserIds
    BY <1>1, <2>1 DEF WalkOK
  <2> QED  BY <1>3, <1>10, <2>2 DEF WalkOK, DeleteUser
<1> QED  BY <1>5, <1>6, <1>7, <1>8, <1>9, <1>10, UsersStep

LEMMA PagedStep ==
    ASSUME Requests, Bounded, KeysOK, Numbered, Accounts, WalkOK, Paged, [Next]_vars
    PROVE  Accounts' /\ Paged'
<1>1. CASE users' = users
  <2>1. Accounts'
    BY <1>1 DEF Accounts, Present
  <2>2. CASE walk' = walk
    BY <1>1, <2>1, <2>2 DEF Paged, NobodySkipped, Missed, Rank, Present
  <2>3. CASE walk' = Unasked
    BY <2>1, <2>3, UnaskedPaged
  <2>4. CASE OpenList \/ CountUsers \/ FindUsers
    BY <1>1, <2>1, <2>4, OpenPaged, CountPaged, FindPaged
  <2>5. CASE (\E i \in UserIds : Enters(i)) /\ Slips
    BY <2>5, EntersFacts, EntersPaged
  <2>6. CASE \E i \in UserIds : DeleteUser(i)
    BY <2>6, DeleteFacts, DeletePaged
  <2> QED  BY <2>1, <2>2, <2>3, <2>4, <2>5, <2>6, UsersStep
<1>2. CASE (\E i \in UserIds : Enters(i)) /\ Slips
  BY <1>2, EntersFacts, EntersPaged
<1>3. CASE \E i \in UserIds : DeleteUser(i)
  BY <1>3, DeleteFacts, DeletePaged
<1> QED  BY <1>1, <1>2, <1>3, UsersStep

-----------------------------------------------------------------------------
(* The theorems.                                                           *)

LEMMA CallsInit == Init => CallsInv
<1> SUFFICES ASSUME Init PROVE CallsInv
  OBVIOUS
<1>1. req = [w \in Workers |-> Idle] /\ walk = Unasked /\ strays = {}
  BY DEF Init
<1>2. Requests /\ Bounded /\ KeysOK
  BY <1>1, BoundsAssumption DEF Init, Requests, Bounded, KeysOK
<1>3. Sent = {} /\ Creators = {} /\ Renamers = {} /\ Pending = {} /\ StrayKeys = {} /\ Failing = {}
  BY <1>1 DEF Sent, At, Creators, Renamers, Pending, StrayKeys, Failing, Idle, Nothing, Call,
     Creates, Renames
<1>4. Numbered
  BY <1>1, <1>3, FS_EmptySet DEF Numbered
<1>5. UnknownKeys = {}
  BY DEF Init, UnknownKeys
<1>6. KeysCounted /\ UnheardCounted /\ SlipsCounted
  <2>1. calls = 0 /\ unheard = 0 /\ walk.slipped = 0
    BY <1>1 DEF Init, Unasked
  <2> QED  BY <1>3, <1>5, <2>1, FS_EmptySet DEF KeysCounted, UnheardCounted, SlipsCounted
<1>7. Named
  BY <1>1, <1>3 DEF Init, Named
<1>8. Accounts
  <2>1. users = [i \in UserIds |-> IF i \in DOMAIN Existing THEN Existing[i] ELSE "free"]
    BY DEF Init
  <2>2. \A i \in UserIds : i \in Present <=> i \in DOMAIN Existing
    BY <2>1, ExistingAssumption DEF Present
  <2>3. \A i, j \in UserIds : users[i] = "free" /\ i < j => users[j] = "free"
    BY <2>1, ExistingAssumption
  <2>4. \A i, j \in Present : users[i] = users[j] => i = j
    BY <2>1, <2>2, ExistingAssumption DEF Present
  <2> QED  BY <2>1, <2>3, <2>4, ExistingAssumption DEF Accounts
<1>9. WalkOK /\ Paged
  <2>1. deletes = 0
    BY DEF Init
  <2> QED  BY <1>1, <2>1, BoundsAssumption DEF WalkOK, Paged, NobodySkipped, Unasked
<1> QED  BY <1>2, <1>4, <1>6, <1>7, <1>8, <1>9 DEF CallsInv

LEMMA CallsNext == CallsInv /\ [Next]_vars => CallsInv'
BY RequestsStep, NumberedStep, KeysStep, UnheardStep, SlipsStep, NamedStep, WalkStep, PagedStep
   DEF CallsInv

LEMMA Invariance == Spec => []CallsInv
BY CallsInit, CallsNext, PTL DEF Spec

LEMMA CallsTypes == CallsInv => TypeOK
<1> SUFFICES ASSUME CallsInv PROVE TypeOK
  OBVIOUS
<1>1. /\ calls \in Nat /\ calls <= MaxCalls /\ deletes \in Nat /\ deletes <= MaxDeletes
      /\ MaxCalls \in Nat /\ unheard \in Nat
  BY BoundsAssumption DEF CallsInv, Bounded
<1>2. unheard \in 0 .. MaxCalls
  BY <1>1, CreatorsFinite, CountType DEF CallsInv, UnheardCounted
<1>3. walk.slipped \in 0 .. MaxCalls
  BY <1>1, PendingFinite DEF CallsInv, SlipsCounted, WalkOK
<1>4. walk \in [pc : {"off", "count", "find", "done"}, page : 1 .. (MaxUsers + 1),
                 total : 0 .. MaxUsers, seen : SUBSET UserIds, since : SUBSET UserIds,
                 lost : 0 .. MaxDeletes, slipped : 0 .. MaxCalls]
  <2>1. 0 .. deletes \subseteq 0 .. MaxDeletes
    BY <1>1, BoundsAssumption
  <2> QED  BY <1>3, <2>1 DEF CallsInv, WalkOK
<1>5. 1 .. calls \subseteq 1 .. MaxCalls /\ 1 .. calls \subseteq 0 .. MaxCalls /\ 0 \in 0 .. MaxCalls
  BY <1>1
<1>6. strays \subseteq [nr : 1 .. MaxCalls, call : Requested]
  BY <1>5 DEF CallsInv, Numbered
<1>7. req \in [Workers -> [pc : {"idle", "call", "reply"}, call : Requested \cup {Nothing},
                            nr : 0 .. MaxCalls, key : {0} \cup KeyIds,
                            answer : {"none", "ok", "taken", "absent", "error"}]]
  <2> DEFINE R == [pc : {"idle", "call", "reply"}, call : Requested \cup {Nothing},
                   nr : 0 .. MaxCalls, key : {0} \cup KeyIds,
                   answer : {"none", "ok", "taken", "absent", "error"}]
  <2>1. Idle \in R
    BY <1>5 DEF Idle
  <2>2. ASSUME NEW r \in Called PROVE r \in R
    BY <1>5, <2>2 DEF Called
  <2>3. ASSUME NEW r \in Answered PROVE r \in R
    BY <1>5, <2>3 DEF Answered
  <2> HIDE DEF R
  <2>4. req \in [Workers -> R]
    BY <2>1, <2>2, <2>3 DEF CallsInv, Requests
  <2> QED  BY <2>4 DEF R
<1>8. \A s \in strays : \A w \in Workers : At(w, "call") => req[w].nr # s.nr
  BY DEF CallsInv, Numbered, Sent
<1> QED
  BY <1>2, <1>4, <1>6, <1>7, <1>8 DEF TypeOK, CallsInv, Bounded, Accounts, KeysOK, Named

LEMMA KeysAccounted == CallsInv => NoKeyUnaccounted
<1> SUFFICES ASSUME CallsInv PROVE NoKeyUnaccounted
  OBVIOUS
<1>1. Failing = {w \in Workers : Creates(req[w].call) /\ req[w].answer = "error"}
  BY DEF Failing, Creators
<1>2. /\ Cardinality(UnknownKeys) \in Nat /\ Cardinality(StrayKeys) \in Nat
      /\ Cardinality(Failing) \in Nat /\ unheard \in Nat
  BY KeyCountTypes DEF CallsInv, Bounded
<1>3. Cardinality(UnknownKeys) <= unheard + Cardinality(Failing)
  BY <1>2 DEF CallsInv, KeysCounted
<1> QED  BY <1>1, <1>3 DEF NoKeyUnaccounted

\* The variables have their types and bounds, user names are unique, and nobody
\* waits for a call that was given up, whatever is lost or late
\* (server_notifier.go:61, 294-332).
THEOREM TypeCorrect == Spec => []TypeOK
BY Invariance, CallsTypes, PTL

\* However many creations of keys run at once, time out, are carried out late or
\* lose their answers, each of them leaves at most one live key that no operator
\* has (server_notifier.go:407-444, data_service.go:589-608).
THEOREM KeysAreAccounted == Spec => []NoKeyUnaccounted
BY Invariance, KeysAccounted, PTL

\* Once no rename is under way, the device has the name that was last answered as
\* given, if renames neither overlapped nor failed (data_service.go:534-549).
THEOREM NamesSettle == Spec => []NameSettled
<1>1. CallsInv => NameSettled
  BY DEF CallsInv, Named, NameSettled, Unsure, Renamers
<1> QED  BY <1>1, Invariance, PTL

\* Whatever the size of a page and the number of users, each deletion and each
\* late arrival hides at most one user from an operator who pages through all of
\* them (data_service.go:73-86).
THEOREM PagesMissNobody == Spec => []NobodySkipped
<1>1. CallsInv => NobodySkipped
  BY DEF CallsInv, Paged
<1> QED  BY <1>1, Invariance, PTL

=============================================================================
