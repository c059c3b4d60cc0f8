-------------------------- MODULE ServerLinkProofs --------------------------
(***************************************************************************)
(* Theorems about ServerLink for every value of its constants: its types,  *)
(* that a connection against its rows has a command on its way or lost     *)
(* one, and that what happens to a connection is what Presence allows.     *)
(***************************************************************************)
EXTENDS ServerLink, FiniteSetTheorems, TLAPS

-----------------------------------------------------------------------------
(* The invariant.                                                          *)

\* A request that is idle, or under way with the targets of its operation.  A
\* user's request has one target; what is not asked to enable is to end.
Plain(r) == /\ r \in [pc : {"store", "publish", "http"}, op : Ops, st : Status,
                      items : Seq(Users \cup Devices)]
            /\ \/ r.op \in UserOps /\ \E u \in Users : r.items = <<u>>
               \/ r.op \in DeviceOps /\ r.items \in Seq(Devices) /\ r.items # <<>>
            /\ r.op \notin {"UpdateUser", "UpdateUserStatus", "SetDeviceStatus"} => r.st = "off"
Fit(r) == r = Idle \/ Plain(r)
Requests == \A w \in Workers : Fit(req[w])

\* A password changes once for each request for it.
Resets  == {w \in Workers : At(w, "store") /\ req[w].op = "ResetUserPassword"}
Counted == IsFiniteSet(Resets) /\ \A u \in Users : pwd[u] + Cardinality(Resets) <= ops

\* Only connected devices have missed anything.
MissedOnline == \A d \in missed : conn[d] # Offline

RowsOK   == /\ user \in [Users -> Status \cup {"gone"}] /\ pwd \in [Users -> Nat]
            /\ device \in [Devices -> Status \cup {"gone"}]
            /\ want \in [Devices -> Status \cup {"none"}]
ServerOK == /\ subscribed \in {"yes", "no"} /\ inbox \in Seq(Commands)
            /\ strays \subseteq Commands /\ (subscribed = "no" => inbox = <<>>)
HistOK   == missed \subseteq Devices /\ tainted \subseteq Devices
ConnOK   == conn \in [Devices -> {Offline} \cup (0 .. MaxOps)]
BoundOK  == addr \in {"set", "unset"} /\ ops \in 0 .. MaxOps /\ faults \in 0 .. MaxFaults
ReqOK    == req \in [Workers -> {Idle} \cup [pc : {"store", "publish", "http"}, op : Ops,
                                  st : Status, items : Seq(Users \cup Devices)]] /\ Requests

LinkInv == /\ RowsOK /\ ServerOK /\ HistOK /\ ConnOK /\ BoundOK /\ ReqOK /\ Counted
           /\ MissedOnline /\ OnlineExplained

LEMMA LinkInvTypes == LinkInv => TypeOK
<1> SUFFICES ASSUME LinkInv PROVE TypeOK
  OBVIOUS
<1>1. pwd \in [Users -> 0 .. MaxOps]
  <2> SUFFICES ASSUME NEW u \in Users PROVE pwd[u] \in 0 .. MaxOps
    BY DEF LinkInv, RowsOK
  <2>1. Cardinality(Resets) \in Nat /\ pwd[u] + Cardinality(Resets) <= ops
    BY FS_CardinalityType DEF LinkInv, Counted
  <2> QED  BY <2>1, BoundsAssumption DEF LinkInv, RowsOK, BoundOK
<1>2. ASSUME NEW w \in Workers, Busy(w)
      PROVE  /\ req[w].items # <<>>
             /\ req[w].op \in UserOps  => req[w].items[1] \in Users
             /\ req[w].op \in DeviceOps =>
                  \A i \in DOMAIN req[w].items : req[w].items[i] \in Devices
  <2>1. Plain(req[w])
    BY <1>2 DEF LinkInv, ReqOK, Requests, Fit, Busy, Idle
  <2>2. CASE req[w].op \in UserOps
    <3>1. PICK u \in Users : req[w].items = <<u>>
      BY <2>1, <2>2 DEF Plain, UserOps, DeviceOps
    <3> QED  BY <2>2, <3>1 DEF UserOps, DeviceOps
  <2>3. CASE req[w].op \in DeviceOps
    <3>1. req[w].items \in Seq(Devices) /\ req[w].items # <<>>
      BY <2>1, <2>3 DEF Plain, UserOps, DeviceOps
    <3> QED  BY <2>3, <3>1 DEF UserOps, DeviceOps
  <2> QED  BY <2>1, <2>2, <2>3 DEF Plain
<1>3. Idle \in [pc : Steps, op : Ops \cup {"none"}, st : Status, items : Seq(Users \cup Devices)]
  BY DEF Idle, Steps, Status
<1>4. req \in [Workers -> [pc : Steps, op : Ops \cup {"none"}, st : Status,
                           items : Seq(Users \cup Devices)]]
  BY <1>3 DEF LinkInv, ReqOK, Steps
<1> QED
  BY <1>1, <1>2, <1>4 DEF TypeOK, LinkInv, RowsOK, ServerOK, HistOK, ConnOK, BoundOK

LEMMA LinkInit == Init => LinkInv
<1> SUFFICES ASSUME Init PROVE LinkInv
  OBVIOUS
<1>1. Resets = {}
  BY DEF Init, Resets, At, Idle
<1>2. Counted
  BY <1>1, FS_EmptySet DEF Counted, Init
<1>3. RowsOK /\ ServerOK /\ HistOK /\ ConnOK /\ BoundOK /\ ReqOK
  BY BoundsAssumption DEF Init, RowsOK, ServerOK, HistOK, ConnOK, BoundOK, ReqOK, Requests, Fit,
     Status
<1>4. MissedOnline /\ OnlineExplained
  BY DEF Init, MissedOnline, OnlineExplained, MustGo
<1> QED  BY <1>2, <1>3, <1>4 DEF LinkInv

-----------------------------------------------------------------------------
(* How a request moves.                                                    *)

\* Worker w alone moves, to a request that fits; a password request is not begun.
Moves(w) ==
    /\ \A x \in Workers \ {w} : req'[x] = req[x]
    /\ req' \in [Workers -> {Idle} \cup [pc : {"store", "publish", "http"}, op : Ops,
                                  st : Status, items : Seq(Users \cup Devices)]]
    /\ Fit(req'[w])
    /\ w \notin Resets'

LEMMA GotoMoves ==
    ASSUME ReqOK, NEW w \in Workers, req[w].pc # "idle", NEW s \in {"publish", "http"},
           Goto(w, s)
    PROVE  /\ Moves(w) /\ req'[w].pc = s
           /\ Command(req'[w]) = Command(req[w])
<1>1. Plain(req[w])
  BY DEF ReqOK, Requests, Fit, Idle
<1>2. req' = [req EXCEPT ![w] = [req[w] EXCEPT !.pc = s]]
  BY DEF Goto
<1> DEFINE r == [req[w] EXCEPT !.pc = s]
<1>3. /\ r \in [pc : {"store", "publish", "http"}, op : Ops, st : Status,
                items : Seq(Users \cup Devices)]
      /\ r.pc = s /\ r.op = req[w].op /\ r.st = req[w].st /\ r.items = req[w].items
  BY <1>1 DEF Plain
<1>4. Plain(r)
  BY <1>1, <1>3 DEF Plain
<1> HIDE DEF r
<1>5. req'[w] = r /\ \A x \in Workers \ {w} : req'[x] = req[x]
  BY <1>2 DEF ReqOK, r
<1>6. Command(r) = Command(req[w])
  BY <1>3 DEF Command, Action, Target
<1>7. req' \in [Workers -> {Idle} \cup [pc : {"store", "publish", "http"}, op : Ops,
                                  st : Status, items : Seq(Users \cup Devices)]]
  BY <1>2, <1>3 DEF ReqOK, r
<1>8. w \notin Resets'
  BY <1>3, <1>5 DEF Resets, At
<1> QED  BY <1>3, <1>4, <1>5, <1>6, <1>7, <1>8 DEF Moves, Fit

LEMMA FirstStep ==
    \A op \in UserOps \cup DeviceOps : First(op) \in {"store", "publish", "http"}
BY DEF First, UserOps, DeviceOps

LEMMA NextItemMoves ==
    ASSUME ReqOK, NEW w \in Workers, req[w].pc # "idle", NextItem(w)
    PROVE  Moves(w)
<1>1. Plain(req[w])
  BY DEF ReqOK, Requests, Fit, Idle
<1>2. CASE Len(req[w].items) > 1
  <2> DEFINE r == Rest(req[w], req[w].items)
  <2>1. req' = [req EXCEPT ![w] = r]
    BY <1>2 DEF NextItem
  <2>2. /\ req[w].op \in DeviceOps /\ req[w].op \notin UserOps
        /\ req[w].items \in Seq(Devices) /\ req[w].items # <<>>
    <3>1. ASSUME NEW u \in Users, req[w].items = <<u>> PROVE FALSE
      BY <3>1, <1>2
    <3> QED  BY <1>1, <3>1 DEF Plain, UserOps, DeviceOps
  <2>3. Tail(req[w].items) \in Seq(Devices) /\ Tail(req[w].items) # <<>>
    BY <1>2, <2>2
  <2>4. Tail(req[w].items) \in Seq(Users \cup Devices)
    BY <2>2, <1>1 DEF Plain
  <2>5. First(req[w].op) \in {"store", "publish", "http"}
    BY <2>2, FirstStep
  <2>6. /\ r \in [pc : {"store", "publish", "http"}, op : Ops, st : Status,
                  items : Seq(Users \cup Devices)]
        /\ r.items = Tail(req[w].items) /\ r.op = req[w].op /\ r.st = req[w].st
    BY <1>1, <2>4, <2>5 DEF Plain, Rest
  <2>7. Plain(r)
    BY <1>1, <2>2, <2>3, <2>6 DEF Plain
  <2> HIDE DEF r
  <2>8. req'[w] = r /\ \A x \in Workers \ {w} : req'[x] = req[x]
    BY <2>1 DEF ReqOK
  <2>9. req' \in [Workers -> {Idle} \cup [pc : {"store", "publish", "http"}, op : Ops,
                                  st : Status, items : Seq(Users \cup Devices)]]
    BY <2>1, <2>6 DEF ReqOK
  <2>10. w \notin Resets'
    BY <2>2, <2>6, <2>8 DEF Resets, DeviceOps
  <2> QED  BY <2>7, <2>8, <2>9, <2>10 DEF Moves, Fit
<1>3. CASE ~(Len(req[w].items) > 1)
  <2>1. req' = [req EXCEPT ![w] = Idle]
    BY <1>3 DEF NextItem
  <2>2. req'[w] = Idle /\ \A x \in Workers \ {w} : req'[x] = req[x]
    BY <2>1 DEF ReqOK
  <2>3. w \notin Resets'
    BY <2>2 DEF Resets, At, Idle
  <2> QED  BY <2>1, <2>2, <2>3 DEF Moves, Fit, ReqOK
<1> QED  BY <1>2, <1>3

LEMMA WorkMoves ==
    ASSUME ReqOK, NEW w \in Workers, Work(w)
    PROVE  Moves(w) /\ req[w].pc # "idle"
<1>1. PICK o \in Outcomes :
        \/ UpdateUser(w, o) \/ UpdateUserStatus(w, o) \/ ResetUserPassword(w, o)
        \/ DeleteUser(w, o) \/ SetDeviceStatus(w, o)
        \/ Publish(w, o) \/ CommandViaHTTP(w, o)
  BY DEF Work
<1>2. /\ req[w].pc # "idle"
      /\ NextItem(w) \/ \E s \in {"publish", "http"} : Goto(w, s)
  BY <1>1 DEF UpdateUser, UpdateUserStatus, WriteUserStatus, ResetUserPassword, DeleteUser,
     SetDeviceStatus, Stored, Publish, CommandViaHTTP, At
<1> QED  BY <1>2, NextItemMoves, GotoMoves

\* An operation begins: one more is counted, which may be for a password.
Begins(w) ==
    /\ req[w].pc = "idle"
    /\ \A x \in Workers \ {w} : req'[x] = req[x]
    /\ ReqOK'
    /\ req'[w].pc = First(req'[w].op)
    /\ ops < MaxOps /\ ops' = ops + 1
    /\ UNCHANGED <<addr, rows, server, faults, missed, tainted, want>>

LEMMA ReceiveBegins ==
    ASSUME ReqOK, NEW w \in Workers, NEW st \in Status, NEW op \in UserOps \cup DeviceOps,
           NEW items, items \in Seq(Users \cup Devices), Receive(w, op, st, items),
           op \in UserOps => \E u \in Users : items = <<u>>,
           op \in DeviceOps => items \in Seq(Devices) /\ items # <<>>,
           op \notin {"UpdateUser", "UpdateUserStatus", "SetDeviceStatus"} => st = "off"
    PROVE  Begins(w)
<1> DEFINE r == [pc |-> First(op), op |-> op, st |-> st, items |-> items]
<1>1. r \in [pc : {"store", "publish", "http"}, op : Ops, st : Status,
             items : Seq(Users \cup Devices)]
  BY FirstStep DEF Receive
<1>2. Plain(r)
  BY <1>1 DEF Plain
<1>3. req' = [req EXCEPT ![w] = r]
  BY DEF Receive
<1> HIDE DEF r
<1>4. ReqOK'
  BY <1>1, <1>2, <1>3 DEF ReqOK, Requests, Fit
<1>5. req'[w] = r /\ \A x \in Workers \ {w} : req'[x] = req[x]
  BY <1>3 DEF ReqOK
<1>6. req'[w].pc = First(req'[w].op)
  BY <1>5 DEF r
<1> QED  BY <1>4, <1>5, <1>6 DEF Begins, Receive, At

LEMMA UserRequestBegins ==
    ASSUME ReqOK, NEW w \in Workers, NEW st \in Status, NEW op \in UserOps, NEW u \in Users,
           ReceiveUserRequest(w, op, st, u)
    PROVE  Begins(w)
<1>1. <<u>> \in Seq(Users \cup Devices) /\ Receive(w, op, st, <<u>>)
  BY DEF ReceiveUserRequest
<1>2. op \notin {"UpdateUser", "UpdateUserStatus", "SetDeviceStatus"} => st = "off"
  BY DEF ReceiveUserRequest
<1>3. op \notin DeviceOps
  BY DEF UserOps, DeviceOps
<1> HIDE DEF UserOps, DeviceOps
<1> QED  BY <1>1, <1>2, <1>3, ReceiveBegins

LEMMA DeviceRequestBegins ==
    ASSUME ReqOK, NEW w \in Workers, NEW st \in Status, NEW op \in DeviceOps,
           NEW items \in Batches, ReceiveDeviceRequest(w, op, st, items)
    PROVE  Begins(w)
<1>1. items \in Seq(Devices) /\ items # <<>> /\ items \in Seq(Users \cup Devices)
  <2>1. PICK n \in 1 .. MaxBatch : items \in [1 .. n -> Devices]
    BY DEF Batches
  <2>2. n \in Nat /\ n # 0
    BY <2>1, BoundsAssumption
  <2>3. items \in Seq(Devices) /\ items \in Seq(Users \cup Devices) /\ Len(items) = n
    BY <2>1, <2>2
  <2> QED  BY <2>2, <2>3
<1>2. op \notin {"UpdateUser", "UpdateUserStatus", "SetDeviceStatus"} => st = "off"
  BY DEF ReceiveDeviceRequest
<1>3. op \notin UserOps /\ Receive(w, op, st, items)
  BY DEF UserOps, DeviceOps, ReceiveDeviceRequest
<1> QED  BY <1>1, <1>2, <1>3, ReceiveBegins

\* Every step is of one of these kinds.
Outside == \/ Deliver \/ DeliverStray \/ (\E d \in Devices : Connect(d) \/ HangUp(d))
           \/ Unsubscribe \/ Subscribe \/ ServerRestart \/ UNCHANGED vars

LEMMA Steps4 ==
    ASSUME ReqOK, [Next]_vars
    PROVE  \/ \E w \in Workers : Begins(w)
           \/ \E w \in Workers : Work(w)
           \/ Crash
           \/ Outside
<1>1. ASSUME NEW w \in Workers, NEW st \in Status,
             \/ \E op \in UserOps, u \in Users : ReceiveUserRequest(w, op, st, u)
             \/ \E op \in DeviceOps, items \in Batches : ReceiveDeviceRequest(w, op, st, items)
      PROVE  Begins(w)
  BY <1>1, UserRequestBegins, DeviceRequestBegins
<1> QED  BY <1>1 DEF Next, Outside

LEMMA OutsideKeepsReq ==
    ASSUME Outside
    PROVE  UNCHANGED <<addr, req, ops, user, pwd>>
BY DEF Outside, Deliver, DeliverStray, Connect, HangUp, Unsubscribe, Subscribe, ServerRestart,
   vars, rows

LEMMA ReqStep == ASSUME ReqOK, [Next]_vars PROVE ReqOK'
<1>1. ASSUME NEW w \in Workers, Work(w) PROVE ReqOK'
  BY <1>1, WorkMoves DEF Moves, ReqOK, Requests
<1>2. CASE Crash
  BY <1>2 DEF Crash, ReqOK, Requests, Fit
<1>3. CASE Outside
  BY <1>3, OutsideKeepsReq DEF ReqOK, Requests
<1> QED  BY <1>1, <1>2, <1>3, Steps4 DEF Begins

-----------------------------------------------------------------------------
(* Password versions.                                                      *)

\* Only a request for it changes a password, and by one.
LEMMA WorkPwd ==
    ASSUME RowsOK, ReqOK, NEW w \in Workers, Work(w)
    PROVE  /\ UNCHANGED ops /\ pwd' \in [Users -> Nat]
           /\ \/ pwd' = pwd
              \/ w \in Resets /\ \A u \in Users : pwd'[u] <= pwd[u] + 1
<1>1. PICK o \in Outcomes :
        \/ UpdateUser(w, o) \/ UpdateUserStatus(w, o) \/ ResetUserPassword(w, o)
        \/ DeleteUser(w, o) \/ SetDeviceStatus(w, o)
        \/ Publish(w, o) \/ CommandViaHTTP(w, o)
  BY DEF Work
<1>2. CASE ResetUserPassword(w, o)
  <2>1. w \in Resets /\ UNCHANGED ops
    BY <1>2 DEF ResetUserPassword, Stored, Resets, At
  <2>2. pwd' = pwd \/ pwd' = [pwd EXCEPT ![Target(req[w])] = @ + 1]
    BY <1>2 DEF ResetUserPassword
  <2>3. pwd' \in [Users -> Nat] /\ \A u \in Users : pwd'[u] <= pwd[u] + 1
    BY <2>2 DEF RowsOK
  <2> QED  BY <2>1, <2>3
<1>3. CASE ~ResetUserPassword(w, o)
  BY <1>1, <1>3 DEF UpdateUser, UpdateUserStatus, WriteUserStatus, DeleteUser, SetDeviceStatus,
     Stored, Publish, CommandViaHTTP, RowsOK, rows
<1> QED  BY <1>2, <1>3

LEMMA CountStep ==
    ASSUME RowsOK, ReqOK, BoundOK, Counted, [Next]_vars
    PROVE  Counted' /\ pwd' \in [Users -> Nat] /\ ops' \in 0 .. MaxOps
<1>0. Cardinality(Resets) \in Nat /\ ops \in Nat /\ MaxOps \in Nat
  BY FS_CardinalityType, BoundsAssumption DEF Counted, BoundOK
<1>1. ASSUME NEW w \in Workers, Work(w) PROVE Counted' /\ pwd' \in [Users -> Nat] /\ UNCHANGED ops
  <2>1. Resets' = Resets \ {w}
    <3>1. \A x \in Workers \ {w} : req'[x] = req[x]
      BY <1>1, WorkMoves DEF Moves
    <3>2. w \notin Resets'
      BY <1>1, WorkMoves DEF Moves
    <3> QED  BY <3>1, <3>2 DEF Resets, At
  <2>2. IsFiniteSet(Resets') /\ Cardinality(Resets') =
           IF w \in Resets THEN Cardinality(Resets) - 1 ELSE Cardinality(Resets)
    BY <2>1, FS_RemoveElement DEF Counted
  <2>3. /\ UNCHANGED ops /\ pwd' \in [Users -> Nat]
        /\ \/ pwd' = pwd
           \/ w \in Resets /\ \A u \in Users : pwd'[u] <= pwd[u] + 1
    BY <1>1, WorkPwd
  <2>4. \A u \in Users : pwd'[u] + Cardinality(Resets') <= ops
    BY <2>2, <2>3, <1>0 DEF Counted, RowsOK
  <2> QED  BY <2>2, <2>3, <2>4 DEF Counted
<1>2. ASSUME NEW w \in Workers, Begins(w)
      PROVE  Counted' /\ UNCHANGED pwd /\ ops' \in 0 .. MaxOps
  <2>1. Resets' \subseteq Resets \cup {w}
    BY <1>2 DEF Begins, Resets, At
  <2>2. IsFiniteSet(Resets \cup {w}) /\ Cardinality(Resets \cup {w}) <= Cardinality(Resets) + 1
    <3>1. IsFiniteSet(Resets)
      BY DEF Counted
    <3>2. IsFiniteSet(Resets \cup {w}) /\ Cardinality(Resets \cup {w}) =
             IF w \in Resets THEN Cardinality(Resets) ELSE Cardinality(Resets) + 1
      BY <3>1, FS_AddElement
    <3> QED  BY <3>2, <1>0
  <2>3. IsFiniteSet(Resets') /\ Cardinality(Resets') <= Cardinality(Resets \cup {w})
    BY <2>1, <2>2, FS_Subset
  <2>4. Cardinality(Resets') \in Nat /\ Cardinality(Resets \cup {w}) \in Nat
    BY <2>2, <2>3, FS_CardinalityType
  <2>5. UNCHANGED pwd /\ ops' = ops + 1 /\ ops < MaxOps
    BY <1>2 DEF Begins, rows
  <2>6. \A u \in Users : pwd'[u] + Cardinality(Resets') <= ops'
    BY <2>2, <2>3, <2>4, <2>5, <1>0 DEF Counted, RowsOK
  <2> QED  BY <2>3, <2>5, <2>6, <1>0 DEF Counted
<1>3. CASE Crash
  <2>1. Resets' = {} /\ UNCHANGED <<pwd, ops>>
    BY <1>3 DEF Crash, Resets, At, Idle, rows
  <2>2. IsFiniteSet(Resets') /\ Cardinality(Resets') = 0
    BY <2>1, FS_EmptySet
  <2>3. \A u \in Users : pwd[u] <= ops
    BY <1>0 DEF Counted, RowsOK
  <2> QED  BY <2>1, <2>2, <2>3 DEF Counted, RowsOK, BoundOK
<1>4. CASE Outside
  BY <1>4, OutsideKeepsReq DEF Counted, Resets, At, RowsOK, BoundOK
<1> QED  BY <1>1, <1>2, <1>3, <1>4, Steps4 DEF RowsOK, BoundOK

-----------------------------------------------------------------------------
(* The rows and what the Server holds.                                     *)

LEMMA CommandTyped ==
    ASSUME NEW r, Plain(r)
    PROVE  /\ Command(r) \in Commands
           /\ r.op \in UserOps => Target(r) \in Users
           /\ r.op \in DeviceOps => Target(r) \in Devices
<1>1. CASE r.op \in UserOps
  <2>1. PICK u \in Users : r.items = <<u>>
    BY <1>1 DEF Plain, UserOps, DeviceOps
  <2>2. Target(r) = u
    BY <2>1 DEF Target
  <2>3. Action(r) = "kick_user" /\ r.op \notin DeviceOps
    BY <1>1 DEF Action, UserOps, DeviceOps
  <2> QED  BY <1>1, <2>2, <2>3 DEF Command, Commands
<1>2. CASE r.op \in DeviceOps
  <2>1. r.items \in Seq(Devices) /\ r.items # <<>>
    BY <1>2 DEF Plain, UserOps, DeviceOps
  <2>2. Target(r) \in Devices
    BY <2>1 DEF Target
  <2>3. Action(r) \in {"disable_device", "enable_device", "kick_device", "delete_device"}
        /\ r.op \notin UserOps
    BY <1>2 DEF Action, UserOps, DeviceOps
  <2> QED  BY <1>2, <2>2, <2>3 DEF Command, Commands
<1> QED  BY <1>1, <1>2 DEF Plain

LEMMA PerformTyped ==
    ASSUME RowsOK, ConnOK, NEW c, Perform(c)
    PROVE  /\ device' \in [Devices -> Status \cup {"gone"}] /\ ConnOK'
           /\ \A d \in Devices : conn'[d] \in {conn[d], Offline}
<1>1. device' \in [Devices -> Status \cup {"gone"}]
  BY DEF Perform, RowsOK, Status
<1>2. conn' = [d \in Devices |-> IF Cuts(c, d) \/ Deletes(c, d) THEN Offline ELSE conn[d]]
  BY DEF Perform
<1> QED  BY <1>1, <1>2 DEF ConnOK

\* A call to the database, for an operation on users or on a device.
StoreStep(w, o) ==
    \/ UpdateUser(w, o) \/ UpdateUserStatus(w, o) \/ ResetUserPassword(w, o)
    \/ DeleteUser(w, o) \/ SetDeviceStatus(w, o)

LEMMA StoreFacts ==
    ASSUME NEW w \in Workers, NEW o \in Outcomes, StoreStep(w, o)
    PROVE  /\ req[w].pc = "store" /\ UNCHANGED <<addr, server, ops, want>> /\ Charge(o)
           /\ \E D : Missing(D) /\ (D = {} \/ D = CutBy(Command(req[w])))
BY DEF StoreStep, UpdateUser, UpdateUserStatus, WriteUserStatus, ResetUserPassword, DeleteUser,
   SetDeviceStatus, Stored, At

LEMMA BusyPlain ==
    ASSUME ReqOK, NEW w \in Workers, req[w].pc # "idle"
    PROVE  Plain(req[w])
BY DEF ReqOK, Requests, Fit, Idle

LEMMA StoreRows ==
    ASSUME RowsOK, ReqOK, NEW w \in Workers, NEW o \in Outcomes, StoreStep(w, o)
    PROVE  /\ user' \in [Users -> Status \cup {"gone"}]
           /\ device' \in [Devices -> Status \cup {"gone"}]
           /\ tainted \subseteq Devices => tainted' \subseteq Devices
<1>1. Plain(req[w]) /\ req[w].st \in Status
  BY StoreFacts, BusyPlain DEF Plain
<1>2. CASE UpdateUser(w, o) \/ UpdateUserStatus(w, o) \/ ResetUserPassword(w, o) \/ DeleteUser(w, o)
  BY <1>1, <1>2 DEF UpdateUser, UpdateUserStatus, WriteUserStatus, ResetUserPassword, DeleteUser,
     RowsOK
<1>3. CASE SetDeviceStatus(w, o)
  <2>1. Target(req[w]) \in Devices
    BY <1>1, <1>3, CommandTyped DEF SetDeviceStatus, Stored, DeviceOps
  <2> QED  BY <1>1, <1>3, <2>1 DEF SetDeviceStatus, Taint, RowsOK
<1> QED  BY <1>2, <1>3 DEF StoreStep

LEMMA Sets ==
    /\ \A c : CutBy(c) \subseteq Devices
    /\ \A C : WrittenBy(C) \subseteq Devices
    /\ \A c : Overtaken(c) \subseteq Devices
BY DEF CutBy, WrittenBy, Overtaken

LEMMA ChargeTyped ==
    ASSUME BoundOK, NEW o, Charge(o) PROVE faults' \in 0 .. MaxFaults
BY BoundsAssumption DEF BoundOK, Charge

Typed == RowsOK /\ ServerOK /\ HistOK /\ ConnOK /\ BoundOK

LEMMA StoreTyped ==
    ASSUME Typed, ReqOK, Counted, [Next]_vars,
           NEW w \in Workers, NEW o \in Outcomes, StoreStep(w, o)
    PROVE  Typed'
<1> USE DEF Typed
<1>1. pwd' \in [Users -> Nat] /\ ops' \in 0 .. MaxOps
  BY CountStep
<1>2. UNCHANGED <<addr, server, ops, want>> /\ faults' \in 0 .. MaxFaults
  BY StoreFacts, ChargeTyped
<1>3. RowsOK'
  BY <1>1, <1>2, StoreRows DEF RowsOK
<1>4. HistOK'
  BY StoreRows, StoreFacts, Sets DEF HistOK, Missing
<1> QED  BY <1>1, <1>2, <1>3, <1>4 DEF ServerOK, ConnOK, BoundOK, server

LEMMA WantTyped ==
    ASSUME RowsOK, NEW r, r.st \in Status
    PROVE  Wanted(r) \in [Devices -> Status \cup {"none"}]
BY DEF RowsOK, Wanted

LEMMA PublishTyped ==
    ASSUME Typed, ReqOK, NEW w \in Workers, NEW o \in Outcomes, Publish(w, o)
    PROVE  Typed'
<1> USE DEF Typed
<1>1. Plain(req[w]) /\ req[w].st \in Status /\ Command(req[w]) \in Commands
  BY BusyPlain, CommandTyped DEF Publish, At, Plain
<1>2. UNCHANGED <<addr, user, pwd, device, conn, subscribed, strays, ops>>
      /\ faults' \in 0 .. MaxFaults
  BY ChargeTyped DEF Publish, rows
<1>3. inbox' = inbox \/ (subscribed = "yes" /\ inbox' = Append(inbox, Command(req[w])))
  BY DEF Publish, Arrived
<1>4. ServerOK'
  BY <1>1, <1>2, <1>3 DEF ServerOK
<1>5. want' \in [Devices -> Status \cup {"none"}]
  BY <1>1, WantTyped DEF Publish, RowsOK
<1>6. HistOK'
  BY Sets DEF Publish, HistOK, Missing, Taint
<1> QED  BY <1>2, <1>4, <1>5, <1>6 DEF RowsOK, ConnOK, BoundOK

LEMMA ForgottenTyped ==
    ASSUME NEW c, NEW wishes \in [Devices -> Status \cup {"none"}]
    PROVE  Forgotten(c, wishes) \in [Devices -> Status \cup {"none"}]
BY DEF Forgotten

LEMMA HTTPTyped ==
    ASSUME Typed, ReqOK, NEW w \in Workers, NEW o \in Outcomes, CommandViaHTTP(w, o)
    PROVE  Typed'
<1> USE DEF Typed
<1>1. Plain(req[w]) /\ req[w].st \in Status /\ Command(req[w]) \in Commands
  BY BusyPlain, CommandTyped DEF CommandViaHTTP, At, Plain
<1>2. UNCHANGED <<addr, user, pwd, subscribed, inbox, ops>> /\ faults' \in 0 .. MaxFaults
  BY ChargeTyped DEF CommandViaHTTP
<1>3. device' \in [Devices -> Status \cup {"gone"}] /\ ConnOK'
  <2>1. CASE Perform(Command(req[w]))
    BY <2>1, PerformTyped
  <2>2. CASE UNCHANGED <<device, conn>>
    BY <2>2 DEF RowsOK, ConnOK
  <2> QED  BY <2>1, <2>2 DEF CommandViaHTTP
<1>4. strays' \subseteq Commands
  BY <1>1 DEF CommandViaHTTP, ServerOK
<1>5. want' \in [Devices -> Status \cup {"none"}]
  <2>1. Wanted(req[w]) \in [Devices -> Status \cup {"none"}]
    BY <1>1, WantTyped
  <2>2. want' = IF o = "ok" THEN Forgotten(Command(req[w]), Wanted(req[w])) ELSE Wanted(req[w])
    BY DEF CommandViaHTTP
  <2> QED  BY <2>1, <2>2, ForgottenTyped
<1>6. HistOK'
  BY Sets DEF CommandViaHTTP, HistOK, Missing, Taint
<1> QED  BY <1>2, <1>3, <1>4, <1>5, <1>6 DEF RowsOK, ServerOK, BoundOK

LEMMA DeliveryTyped ==
    ASSUME Typed, Deliver \/ DeliverStray
    PROVE  Typed'
<1> USE DEF Typed
<1>1. UNCHANGED <<addr, user, pwd, subscribed, ops, faults, tainted>> /\ Missing({})
  BY DEF Deliver, DeliverStray
<1>2. PICK c : Perform(c) /\ want' = Forgotten(c, want)
  BY DEF Deliver, DeliverStray
<1>3. device' \in [Devices -> Status \cup {"gone"}] /\ ConnOK'
  BY <1>2, PerformTyped
<1>4. want' \in [Devices -> Status \cup {"none"}]
  BY <1>2, ForgottenTyped DEF RowsOK
<1>5. HistOK'
  BY <1>1 DEF HistOK, Missing
<1>6. inbox' \in Seq(Commands) /\ (inbox = <<>> => inbox' = <<>>) /\ strays' \subseteq Commands
  BY DEF Deliver, DeliverStray, ServerOK
<1> QED  BY <1>1, <1>3, <1>4, <1>5, <1>6 DEF RowsOK, ServerOK, BoundOK

LEMMA DeviceTyped ==
    ASSUME Typed, Counted, NEW d \in Devices, Connect(d) \/ HangUp(d)
    PROVE  Typed'
<1> USE DEF Typed
<1>1. UNCHANGED <<addr, user, pwd, subscribed, inbox, strays, ops, faults, tainted, want>>
  BY DEF Connect, HangUp, rows
<1>2. CASE Connect(d)
  <2>1. pwd[Owner[d]] \in 0 .. MaxOps
    <3>1. Owner[d] \in Users /\ Cardinality(Resets) \in Nat
      BY OwnerAssumption, FS_CardinalityType DEF Counted
    <3>2. pwd[Owner[d]] + Cardinality(Resets) <= ops
      BY <3>1 DEF Counted
    <3> QED  BY <3>1, <3>2, BoundsAssumption DEF RowsOK, BoundOK
  <2> QED  BY <1>1, <1>2, <2>1 DEF Connect, RowsOK, ServerOK, HistOK, ConnOK, BoundOK, Status
<1>3. CASE HangUp(d)
  BY <1>1, <1>3 DEF HangUp, rows, RowsOK, ServerOK, HistOK, ConnOK, BoundOK, Missing
<1> QED  BY <1>2, <1>3

LEMMA FaultTyped ==
    ASSUME Typed, Unsubscribe \/ Subscribe \/ ServerRestart \/ Crash
    PROVE  Typed'
<1> USE DEF Typed
<1>1. UNCHANGED <<addr, user, pwd, device, ops, want>>
  BY DEF Unsubscribe, Subscribe, ServerRestart, Crash, rows
<1>2. faults' \in 0 .. MaxFaults
  BY ChargeTyped DEF Unsubscribe, Subscribe, ServerRestart, Crash, BoundOK
<1>3. ServerOK'
  <2>1. CASE Unsubscribe
    <3>1. inbox' = <<>> /\ <<>> \in Seq(Commands) /\ strays' = strays /\ subscribed' = "no"
      BY <2>1 DEF Unsubscribe
    <3> QED  BY <3>1 DEF ServerOK
  <2>4. CASE Subscribe
    BY <2>4 DEF Subscribe, ServerOK
  <2>2. CASE ServerRestart
    BY <2>2 DEF ServerRestart, ServerOK
  <2>3. CASE Crash
    BY <2>3 DEF Crash, server, ServerOK
  <2> QED  BY <2>1, <2>2, <2>3, <2>4
<1>4. ConnOK'
  BY DEF Unsubscribe, Subscribe, ServerRestart, Crash, server, ConnOK
<1>5. HistOK'
  <2>1. CASE Unsubscribe
    BY <2>1, Sets DEF Unsubscribe, HistOK, Missing, Taint
  <2>2. CASE Subscribe
    BY <2>2 DEF Subscribe, HistOK
  <2>3. CASE ServerRestart
    BY <2>3, Sets DEF ServerRestart, HistOK, Missing, Taint
  <2>4. CASE Crash
    BY <2>4, Sets DEF Crash, HistOK, Missing, Taint
  <2> QED  BY <2>1, <2>2, <2>3, <2>4
<1> QED  BY <1>1, <1>2, <1>3, <1>4, <1>5 DEF RowsOK, BoundOK

LEMMA TypedStep ==
    ASSUME Typed, ReqOK, Counted, [Next]_vars
    PROVE  Typed'
<1>1. ASSUME NEW w \in Workers, Work(w) PROVE Typed'
  BY <1>1, StoreTyped, PublishTyped, HTTPTyped DEF Work, StoreStep
<1>2. ASSUME NEW w \in Workers, Begins(w) PROVE Typed'
  BY <1>2, CountStep DEF Begins, rows, server, Typed, RowsOK, ServerOK, HistOK, ConnOK, BoundOK
<1>3. CASE UNCHANGED vars
  BY <1>3 DEF vars, rows, server, Typed, RowsOK, ServerOK, HistOK, ConnOK, BoundOK
<1>4. CASE Outside
  BY <1>3, <1>4, DeliveryTyped, DeviceTyped, FaultTyped DEF Outside
<1> QED  BY <1>1, <1>2, <1>4, FaultTyped, Steps4 DEF Typed

-----------------------------------------------------------------------------
(* A connection against its rows: why it is still there.                   *)

\* What a step keeps of the reasons: who has missed a command and stays
\* connected is remembered, a command does not vanish without being carried
\* out or missed, and no row turns against a connection without one.
Remembers == \A d \in missed : conn'[d] # Offline => d \in missed'
Carries   == \A c \in Held \cup Inbox : \A d \in Devices :
                 Cuts(c, d) /\ conn'[d] # Offline => c \in Held' \cup Inbox' \/ d \in missed'
Announces == \A d \in Devices :
                 MustGo(d)' => MustGo(d) \/ CutPending(d)' \/ d \in missed'

LEMMA OnlineKept ==
    ASSUME OnlineExplained, Remembers, Carries, Announces
    PROVE  OnlineExplained'
<1> SUFFICES ASSUME NEW d \in Devices, MustGo(d)'
             PROVE  CutPending(d)' \/ d \in missed'
  BY DEF OnlineExplained
<1>1. conn'[d] # Offline
  BY DEF MustGo
<1>2. CASE MustGo(d) /\ d \in missed
  BY <1>1, <1>2 DEF Remembers
<1>3. CASE MustGo(d) /\ CutPending(d)
  BY <1>1, <1>3 DEF Carries, CutPending
<1> QED  BY <1>2, <1>3 DEF OnlineExplained, Announces

LEMMA HeldIs ==
    ASSUME NEW c
    PROVE  c \in Held <=> \E w \in Workers : req[w].pc \in {"publish", "http"}
                                             /\ c = Command(req[w])
BY DEF Held, HeldBy

\* The others keep what they hold.
LEMMA OthersHold ==
    ASSUME NEW w \in Workers, \A x \in Workers \ {w} : req'[x] = req[x], NEW c \in Held
    PROVE  \/ c \in Held'
           \/ req[w].pc \in {"publish", "http"} /\ c = Command(req[w])
<1>1. PICK x \in Workers : req[x].pc \in {"publish", "http"} /\ c = Command(req[x])
  BY HeldIs
<1>2. CASE x # w
  <2>1. req'[x].pc \in {"publish", "http"} /\ c = Command(req'[x])
    BY <1>1, <1>2
  <2> QED  BY <2>1 DEF Held, HeldBy
<1> QED  BY <1>1, <1>2

LEMMA MissingRemembers ==
    ASSUME NEW D, Missing(D) PROVE Remembers /\ MissedOnline'
BY DEF Missing, Remembers, MissedOnline

\* Of a write that turns a row against a connection, either the command is held
\* next or it is recorded as missed.
LEMMA StoreAnnounces ==
    ASSUME Typed, ReqOK, NEW w \in Workers, NEW o \in Outcomes, StoreStep(w, o)
    PROVE  Announces
<1> DEFINE r == req[w]
<1>1. Plain(r) /\ r.pc = "store" /\ UNCHANGED conn
  BY StoreFacts, BusyPlain DEF server
<1> SUFFICES ASSUME NEW d \in Devices, MustGo(d)', ~MustGo(d), d \notin missed'
             PROVE  CutPending(d)'
  BY DEF Announces
<1>2. conn[d] # Offline /\ conn' = conn /\ user[Owner[d]] = "on" /\ device[d] # "off"
      /\ conn[d] = pwd[Owner[d]]
  BY <1>1 DEF MustGo
<1>3. ASSUME Goto(w, "publish"), Cuts(Command(r), d) PROVE CutPending(d)'
  <2>1. req'[w].pc = "publish" /\ Command(req'[w]) = Command(r)
    BY <1>1, <1>3, GotoMoves
  <2>2. Command(r) \in Held'
    BY <2>1 DEF Held, HeldBy
  <2> QED  BY <1>3, <2>2 DEF CutPending
<1>4. ASSUME NEW op, NEW affected \in BOOLEAN, Stored(w, op, o, affected),
             TookPlace(o), affected, r.st = "off", Cuts(Command(r), d)
      PROVE  CutPending(d)'
  <2>1. d \in CutBy(Command(r))
    BY <1>4 DEF CutBy
  <2>2. o = "ok" /\ r.op # "UpdateUser"
    BY <1>1, <1>2, <1>4, <2>1 DEF Stored, Missing
  <2>3. Notifies(r)
    BY <1>4, <2>2 DEF Notifies
  <2> QED  BY <1>3, <1>4, <2>2, <2>3 DEF Stored
<1>5. ASSUME NEW u, u = Owner[d], u = Target(r), r.op \in UserOps
      PROVE  Cuts(Command(r), d)
  BY <1>5 DEF Cuts, Concerns, Command, Action, UserOps
<1>6. CASE UpdateUser(w, o) \/ UpdateUserStatus(w, o)
  <2>1. PICK op \in {"UpdateUser", "UpdateUserStatus"}, affected \in BOOLEAN :
          /\ Stored(w, op, o, affected) /\ r.op = op /\ UNCHANGED <<pwd, device>>
          /\ user' = IF TookPlace(o) /\ affected THEN [user EXCEPT ![Target(r)] = r.st] ELSE user
    BY <1>6 DEF UpdateUser, UpdateUserStatus, WriteUserStatus, MayAffect
  <2>2. user'[Owner[d]] # "on"
    BY <1>2, <2>1 DEF MustGo
  <2>3. TookPlace(o) /\ affected /\ Owner[d] = Target(r) /\ r.st = "off"
    BY <1>1, <1>2, <2>1, <2>2 DEF Plain, Status, Typed, RowsOK
  <2> QED  BY <1>4, <1>5, <2>1, <2>3 DEF UserOps
<1>7. CASE ResetUserPassword(w, o)
  <2> DEFINE affected == user[Target(r)] # "gone"
  <2>1. /\ Stored(w, "ResetUserPassword", o, affected) /\ r.op = "ResetUserPassword"
        /\ UNCHANGED <<user, device>>
        /\ pwd' = IF TookPlace(o) /\ affected THEN [pwd EXCEPT ![Target(r)] = @ + 1] ELSE pwd
    BY <1>7 DEF ResetUserPassword, Stored
  <2>2. pwd'[Owner[d]] # pwd[Owner[d]]
    BY <1>2, <2>1 DEF MustGo
  <2>3. TookPlace(o) /\ affected /\ Owner[d] = Target(r) /\ r.st = "off"
    BY <1>1, <2>1, <2>2 DEF Plain, Typed, RowsOK
  <2> QED  BY <1>4, <1>5, <2>1, <2>3 DEF UserOps
<1>8. CASE DeleteUser(w, o)
  <2> DEFINE affected == user[Target(r)] # "gone"
  <2>1. /\ Stored(w, "DeleteUser", o, affected) /\ r.op = "DeleteUser"
        /\ UNCHANGED <<pwd, device>>
        /\ user' = IF TookPlace(o) THEN [user EXCEPT ![Target(r)] = "gone"] ELSE user
    BY <1>8 DEF DeleteUser, Stored
  <2>2. user'[Owner[d]] # "on"
    BY <1>2, <2>1 DEF MustGo
  <2>3. TookPlace(o) /\ Owner[d] = Target(r) /\ r.st = "off"
    BY <1>1, <1>2, <2>1, <2>2 DEF Plain, Typed, RowsOK
  <2>4. affected
    BY <1>2, <2>3
  <2> HIDE DEF affected
  <2> QED  BY <1>4, <1>5, <2>1, <2>3, <2>4 DEF UserOps
<1>9. CASE SetDeviceStatus(w, o)
  <2> DEFINE affected == device[Target(r)] \notin {"gone", r.st}
  <2>1. /\ Stored(w, "SetDeviceStatus", o, affected) /\ r.op = "SetDeviceStatus"
        /\ UNCHANGED <<user, pwd>>
        /\ device' = IF TookPlace(o) /\ affected THEN [device EXCEPT ![Target(r)] = r.st] ELSE device
    BY <1>9 DEF SetDeviceStatus, Stored
  <2>2. device'[d] = "off"
    BY <1>2, <2>1 DEF MustGo
  <2>3. TookPlace(o) /\ affected /\ d = Target(r) /\ r.st = "off"
    BY <1>2, <2>1, <2>2 DEF Typed, RowsOK
  <2>4. Cuts(Command(r), d)
    BY <2>1, <2>3 DEF Cuts, Concerns, Command, Action
  <2> HIDE DEF affected
  <2> QED  BY <1>4, <2>1, <2>3, <2>4
<1> QED  BY <1>6, <1>7, <1>8, <1>9 DEF StoreStep

LEMMA StoreOnline ==
    ASSUME Typed, ReqOK, OnlineExplained,
           NEW w \in Workers, NEW o \in Outcomes, StoreStep(w, o)
    PROVE  OnlineExplained' /\ MissedOnline' /\ Remembers
<1>1. Remembers /\ MissedOnline'
  BY StoreFacts, MissingRemembers
<1>2. Inbox' = Inbox /\ req[w].pc = "store"
  BY StoreFacts DEF Inbox, server
<1>3. \A x \in Workers \ {w} : req'[x] = req[x]
  <2>1. Work(w)
    BY DEF Work, StoreStep
  <2> QED  BY <2>1, WorkMoves DEF Moves
<1>4. Carries
  BY <1>2, <1>3, OthersHold DEF Carries
<1> QED  BY <1>1, <1>4, StoreAnnounces, OnlineKept

LEMMA PublishOnline ==
    ASSUME Typed, ReqOK, OnlineExplained,
           NEW w \in Workers, NEW o \in Outcomes, Publish(w, o)
    PROVE  OnlineExplained' /\ MissedOnline' /\ Remembers
<1> DEFINE c == Command(req[w])
           lostForGood == (o # "ok" /\ addr = "unset") \/ (o = "ok" /\ subscribed = "no")
<1>1. /\ req[w].pc = "publish" /\ UNCHANGED <<user, pwd, device, conn>>
      /\ Missing(IF lostForGood THEN CutBy(c) ELSE {})
      /\ inbox' = IF TookPlace(o) THEN Arrived(c) ELSE inbox
      /\ o # "ok" /\ addr = "set" => Goto(w, "http")
  BY DEF Publish, At, rows
<1>2. Remembers /\ MissedOnline'
  BY <1>1, MissingRemembers
<1>3. Announces
  BY <1>1 DEF Announces, MustGo
<1>4. Inbox \subseteq Inbox' /\ (o = "ok" /\ subscribed = "yes" => c \in Inbox')
  <2>1. inbox \in Seq(Commands) /\ c \in Commands
    BY <1>1, BusyPlain, CommandTyped DEF Typed, ServerOK
  <2>2. CASE inbox' = inbox
    <3>1. ~(o = "ok" /\ subscribed = "yes")
      <4>1. SUFFICES ASSUME o = "ok", subscribed = "yes" PROVE FALSE
        OBVIOUS
      <4>2. inbox' = Append(inbox, c)
        BY <1>1, <4>1 DEF TookPlace, Arrived
      <4> HIDE DEF c
      <4> QED  BY <2>1, <2>2, <4>2
    <3> QED  BY <2>2, <3>1 DEF Inbox
  <2>3. CASE inbox' = Append(inbox, c)
    <3> HIDE DEF c
    <3>1. /\ Len(inbox') = Len(inbox) + 1 /\ inbox'[Len(inbox')] = c
          /\ \A i \in 1 .. Len(inbox) : inbox'[i] = inbox[i]
          /\ DOMAIN inbox = 1 .. Len(inbox) /\ DOMAIN inbox' = 1 .. Len(inbox')
          /\ Len(inbox) \in Nat
      BY <2>1, <2>3
    <3> QED  BY <3>1 DEF Inbox
  <2> QED  BY <1>1, <2>2, <2>3 DEF Arrived
<1>5. ASSUME o # "ok", addr = "set" PROVE c \in Held'
  <2>1. req'[w].pc = "http" /\ Command(req'[w]) = c
    BY <1>1, <1>5, GotoMoves
  <2> QED  BY <2>1 DEF Held, HeldBy
<1>6. \A x \in Workers \ {w} : req'[x] = req[x]
  <2>1. Work(w)
    BY DEF Work
  <2> QED  BY <2>1, WorkMoves DEF Moves
<1>7. ASSUME NEW d \in Devices, Cuts(c, d), conn'[d] # Offline
      PROVE  c \in Held' \cup Inbox' \/ d \in missed'
  <2>1. CASE lostForGood
    BY <1>1, <1>7, <2>1 DEF Missing, CutBy
  <2>2. CASE ~lostForGood
    BY <1>4, <1>5, <2>2 DEF Typed, ServerOK, BoundOK
  <2> QED  BY <2>1, <2>2
<1>8. Carries
  <2> SUFFICES ASSUME NEW b \in Held \cup Inbox, NEW d \in Devices, Cuts(b, d), conn'[d] # Offline
               PROVE  b \in Held' \cup Inbox' \/ d \in missed'
    BY DEF Carries
  <2>1. CASE b \in Inbox
    BY <2>1, <1>4
  <2>2. CASE b \in Held
    BY <2>2, <1>6, <1>7, OthersHold
  <2> QED  BY <2>1, <2>2
<1> QED  BY <1>2, <1>3, <1>8, OnlineKept

\* What the Server carries out turns no row against a connection it leaves.
LEMMA PerformAnnounces ==
    ASSUME RowsOK, NEW c, Perform(c), UNCHANGED <<user, pwd>>
    PROVE  /\ Announces
           /\ \A d \in Devices : Cuts(c, d) => conn'[d] = Offline
<1> SUFFICES ASSUME NEW d \in Devices
             PROVE  /\ MustGo(d)' => MustGo(d)
                    /\ Cuts(c, d) => conn'[d] = Offline
  BY DEF Announces
<1>1. conn'[d] = IF Cuts(c, d) \/ Deletes(c, d) THEN Offline ELSE conn[d]
  BY DEF Perform
<1>2. device'[d] = "off" => device[d] = "off" \/ Cuts(c, d)
  BY DEF Perform, Cuts, Concerns
<1> QED  BY <1>1, <1>2 DEF MustGo

LEMMA HTTPOnline ==
    ASSUME Typed, ReqOK, OnlineExplained,
           NEW w \in Workers, NEW o \in Outcomes, CommandViaHTTP(w, o)
    PROVE  OnlineExplained' /\ MissedOnline' /\ Remembers
<1> DEFINE c == Command(req[w])
<1>1. /\ UNCHANGED <<user, pwd, inbox>>
      /\ Missing(IF o = "ok" THEN {} ELSE CutBy(c))
      /\ IF o = "ok" THEN Perform(c) ELSE UNCHANGED <<device, conn>>
  BY DEF CommandViaHTTP
<1>2. Remembers /\ MissedOnline'
  BY <1>1, MissingRemembers
<1>3. Announces
  <2>1. CASE o = "ok"
    BY <1>1, <2>1, PerformAnnounces DEF Typed
  <2>2. CASE o # "ok"
    BY <1>1, <2>2 DEF Announces, MustGo
  <2> QED  BY <2>1, <2>2
<1>4. ASSUME NEW d \in Devices, Cuts(c, d), conn'[d] # Offline PROVE d \in missed'
  <2>1. CASE o = "ok"
    BY <1>1, <1>4, <2>1, PerformAnnounces DEF Typed
  <2>2. CASE o # "ok"
    BY <1>1, <1>4, <2>2 DEF Missing, CutBy
  <2> QED  BY <2>1, <2>2
<1>5. \A x \in Workers \ {w} : req'[x] = req[x]
  <2>1. Work(w)
    BY DEF Work
  <2> QED  BY <2>1, WorkMoves DEF Moves
<1>6. Inbox' = Inbox
  BY <1>1 DEF Inbox
<1>7. Carries
  BY <1>4, <1>5, <1>6, OthersHold DEF Carries
<1> QED  BY <1>2, <1>3, <1>7, OnlineKept

LEMMA HeldSame == ASSUME UNCHANGED req PROVE Held' = Held
BY DEF Held, HeldBy

LEMMA DeliveryOnline ==
    ASSUME Typed, OnlineExplained, Deliver \/ DeliverStray
    PROVE  OnlineExplained' /\ MissedOnline' /\ Remembers
<1>1. UNCHANGED <<user, pwd, req>> /\ Missing({})
  BY DEF Deliver, DeliverStray
<1>2. Remembers /\ MissedOnline'
  BY <1>1, MissingRemembers
<1>3. PICK c : Perform(c) /\ \A b \in Inbox : b \in Inbox' \/ b = c
  <2>1. CASE Deliver
    <3>1. inbox \in Seq(Commands) /\ inbox # <<>> /\ inbox' = Tail(inbox)
          /\ Perform(Head(inbox))
      BY <2>1 DEF Deliver, Typed, ServerOK
    <3>2. /\ DOMAIN inbox = 1 .. Len(inbox) /\ Len(inbox) \in Nat
          /\ DOMAIN inbox' = 1 .. Len(inbox) - 1
          /\ \A i \in 1 .. Len(inbox) - 1 : inbox'[i] = inbox[i + 1]
          /\ Head(inbox) = inbox[1]
      BY <3>1
    <3>3. ASSUME NEW i \in 1 .. Len(inbox) PROVE inbox[i] \in Inbox' \/ inbox[i] = Head(inbox)
      <4>1. CASE i = 1
        BY <4>1, <3>2
      <4>2. CASE i # 1
        <5>1. i - 1 \in DOMAIN inbox' /\ inbox'[i - 1] = inbox[i]
          BY <4>2, <3>2, <3>3
        <5> QED  BY <5>1 DEF Inbox
      <4> QED  BY <4>1, <4>2
    <3> QED  BY <3>1, <3>2, <3>3 DEF Inbox
  <2>2. CASE DeliverStray
    BY <2>2 DEF DeliverStray, Inbox
  <2> QED  BY <2>1, <2>2
<1>4. Announces /\ \A d \in Devices : Cuts(c, d) => conn'[d] = Offline
  BY <1>1, <1>3, PerformAnnounces DEF Typed
<1>5. Carries
  BY <1>1, <1>3, <1>4, HeldSame DEF Carries
<1> QED  BY <1>2, <1>4, <1>5, OnlineKept

\* The Server lets in only whom the rows allow.
LEMMA DeviceOnline ==
    ASSUME Typed, OnlineExplained, MissedOnline, NEW d \in Devices, Connect(d) \/ HangUp(d)
    PROVE  OnlineExplained' /\ MissedOnline' /\ Remembers
<1>1. Held' = Held /\ Inbox' = Inbox /\ UNCHANGED <<user, pwd>>
  BY HeldSame DEF Connect, HangUp, rows, Inbox
<1>2. CASE Connect(d)
  <2>1. /\ conn' = [conn EXCEPT ![d] = pwd[Owner[d]]] /\ conn[d] = Offline
        /\ device' = [device EXCEPT ![d] = "on"] /\ user[Owner[d]] = "on" /\ missed' = missed
    BY <1>2 DEF Connect
  <2>2. conn'[d] = pwd[Owner[d]] /\ device'[d] = "on"
        /\ \A e \in Devices \ {d} : conn'[e] = conn[e] /\ device'[e] = device[e]
    BY <2>1 DEF Typed, ConnOK, RowsOK
  <2>3. \A e \in Devices : MustGo(e)' => MustGo(e)
    BY <1>1, <2>1, <2>2 DEF MustGo
  <2>4. Remembers /\ Announces /\ Carries
    BY <1>1, <2>1, <2>3 DEF Remembers, Announces, Carries
  <2>5. MissedOnline'
    BY <2>1, <2>2 DEF MissedOnline, Typed, HistOK
  <2> QED  BY <2>4, <2>5, OnlineKept
<1>3. CASE HangUp(d)
  <2>1. Remembers /\ MissedOnline'
    BY <1>3, MissingRemembers DEF HangUp
  <2>2. \A e \in Devices : MustGo(e)' => MustGo(e)
    BY <1>3, <1>1 DEF HangUp, rows, MustGo, Typed, ConnOK
  <2>3. Announces /\ Carries
    BY <1>1, <2>2 DEF Announces, Carries
  <2> QED  BY <2>1, <2>3, OnlineKept
<1> QED  BY <1>2, <1>3

\* What a fault takes is recorded.
LEMMA FaultOnline ==
    ASSUME Typed, ReqOK, OnlineExplained, MissedOnline,
           Unsubscribe \/ Subscribe \/ ServerRestart \/ Crash
    PROVE  OnlineExplained' /\ MissedOnline' /\ Remembers
<1>1. CASE Unsubscribe
  <2>1. Remembers /\ MissedOnline'
    BY <1>1, MissingRemembers DEF Unsubscribe
  <2>2. UNCHANGED <<user, pwd, device, conn>> /\ Held' = Held
    BY <1>1, HeldSame DEF Unsubscribe, rows
  <2>3. \A c \in Inbox, d \in Devices : Cuts(c, d) /\ conn'[d] # Offline => d \in missed'
    BY <1>1 DEF Unsubscribe, Missing, CutBy
  <2>4. Announces /\ Carries
    BY <2>2, <2>3 DEF Announces, Carries, MustGo
  <2> QED  BY <2>1, <2>4, OnlineKept
<1>2. CASE Subscribe
  <2>1. UNCHANGED <<user, pwd, device, conn, missed>> /\ Held' = Held /\ Inbox' = Inbox
    BY <1>2, HeldSame DEF Subscribe, rows, Inbox
  <2>2. Announces /\ Carries /\ Remembers /\ MissedOnline'
    BY <2>1 DEF Announces, Carries, Remembers, MissedOnline, MustGo
  <2> QED  BY <2>2, OnlineKept
<1>3. CASE ServerRestart
  <2>1. Remembers /\ MissedOnline'
    BY <1>3, MissingRemembers DEF ServerRestart
  <2>2. \A d \in Devices : conn'[d] = Offline
    BY <1>3 DEF ServerRestart
  <2>3. OnlineExplained'
    BY <2>2 DEF OnlineExplained, MustGo
  <2> QED  BY <2>1, <2>3
<1>4. CASE Crash
  <2>1. Remembers /\ MissedOnline'
    BY <1>4, MissingRemembers DEF Crash
  <2>2. UNCHANGED <<user, pwd, device, conn>> /\ Inbox' = Inbox
    BY <1>4 DEF Crash, rows, server, Inbox
  <2>3. \A c \in Held, d \in Devices : Cuts(c, d) /\ conn'[d] # Offline => d \in missed'
    BY <1>4 DEF Crash, Missing, CutBy
  <2>4. Announces /\ Carries
    BY <2>2, <2>3 DEF Announces, Carries, MustGo
  <2> QED  BY <2>1, <2>4, OnlineKept
<1> QED  BY <1>1, <1>2, <1>3, <1>4

LEMMA OnlineStep ==
    ASSUME Typed, ReqOK, OnlineExplained, MissedOnline, [Next]_vars
    PROVE  OnlineExplained' /\ MissedOnline' /\ Remembers
<1>1. ASSUME NEW w \in Workers, Work(w) PROVE OnlineExplained' /\ MissedOnline' /\ Remembers
  BY <1>1, StoreOnline, PublishOnline, HTTPOnline DEF Work, StoreStep
<1>2. ASSUME NEW w \in Workers, Begins(w) PROVE OnlineExplained' /\ MissedOnline' /\ Remembers
  <2>1. UNCHANGED <<user, pwd, device, conn, missed>> /\ Inbox' = Inbox
    BY <1>2 DEF Begins, rows, server, Inbox
  <2>2. \A c \in Held : c \in Held'
    BY <1>2, OthersHold DEF Begins
  <2>3. Announces /\ Carries /\ Remembers /\ MissedOnline'
    BY <2>1, <2>2 DEF Announces, Carries, Remembers, MissedOnline, MustGo
  <2> QED  BY <2>3, OnlineKept
<1>3. CASE UNCHANGED vars
  <2>1. UNCHANGED <<user, pwd, device, conn, missed>> /\ Held' = Held /\ Inbox' = Inbox
    BY <1>3, HeldSame DEF vars, rows, server, Inbox
  <2>2. Announces /\ Carries /\ Remembers /\ MissedOnline'
    BY <2>1 DEF Announces, Carries, Remembers, MissedOnline, MustGo
  <2> QED  BY <2>2, OnlineKept
<1>4. CASE Outside
  BY <1>3, <1>4, DeliveryOnline, DeviceOnline, FaultOnline DEF Outside
<1> QED  BY <1>1, <1>2, <1>4, FaultOnline, Steps4

-----------------------------------------------------------------------------
(* The status a device was last given.                                     *)

\* A command that asks for a status of d, or removes its row.
Asks(c, d, st) == c.to = d /\ c.act = IF st = "off" THEN "disable_device" ELSE "enable_device"
Removes(c, d)   == c.to = d /\ c.act = "delete_device"

\* A request that has written the status of d and not sent its command yet.
Setter(w, d) == /\ req[w].pc \in {"publish", "http"}
                /\ req[w].op = "SetDeviceStatus" /\ Target(req[w]) = d
Set(d)       == \E w \in Workers : Setter(w, d)

\* The last status command for d that the Server has not read asks for what is
\* wanted; if there is none, the row has it already.
Last(i, d)  == Gives(inbox[i], d) /\ \A j \in DOMAIN inbox : j > i => ~Gives(inbox[j], d)
Unasked(d)  == \A i \in DOMAIN inbox : ~Gives(inbox[i], d)
AsWanted(d) == /\ \A i \in DOMAIN inbox : Last(i, d) => Asks(inbox[i], d, want[d])
               /\ Unasked(d) => device[d] = want[d]

\* While a request is about to send its command, the row, the inbox and the
\* wishes may disagree: that command settles them.
Followed(d) == d \notin tainted =>
    /\ device[d] = "gone" => want[d] = "none"
    /\ want[d] # "none" /\ ~Set(d) => AsWanted(d)

\* Commands given up on are accounted for, and so is every wish.
Settling == WrittenBy(strays) \subseteq tainted /\ \A d \in Devices : Followed(d)

LEMMA SettlingInit == Init => Settling
BY DEF Init, Settling, WrittenBy, Followed, Set, Setter, Idle

LEMMA SettlingSettles == Settling => SettledStatus
<1> SUFFICES ASSUME Settling, NEW d \in Devices \ tainted, want[d] # "none", device[d] # "gone",
                    d \notin WrittenBy(Held \cup Inbox \cup strays)
             PROVE  device[d] = want[d]
  BY DEF SettledStatus
<1>1. ASSUME NEW w \in Workers, Setter(w, d) PROVE FALSE
  <2>1. Command(req[w]) \in Held /\ Writes(Command(req[w]), d)
    BY <1>1 DEF Setter, Held, HeldBy, Writes, Command, Action
  <2> QED  BY <2>1 DEF WrittenBy
<1>2. ASSUME NEW i \in DOMAIN inbox, Gives(inbox[i], d) PROVE FALSE
  BY <1>2 DEF Gives, Writes, WrittenBy, Inbox
<1> QED  BY <1>1, <1>2 DEF Settling, Followed, Set, AsWanted, Unasked

\* After an item, the next one of the same operation begins with its first step.
LEMMA ItemEnds ==
    ASSUME ReqOK, NEW w \in Workers, req[w].pc # "idle", NextItem(w), NEW d
    PROVE  ~Setter(w, d)'
<1>1. Plain(req[w])
  BY BusyPlain
<1> DEFINE r == Rest(req[w], req[w].items)
<1>2. r.pc = First(req[w].op) /\ r.op = req[w].op
  BY <1>1 DEF Plain, Rest
<1>3. req'[w] = r \/ req'[w] = Idle
  BY DEF NextItem, ReqOK
<1> HIDE DEF r
<1>4. CASE req'[w] = r
  BY <1>2, <1>4 DEF Setter, First
<1>5. CASE req'[w] = Idle
  BY <1>5 DEF Setter, Idle
<1> QED  BY <1>3, <1>4, <1>5

LEMMA GotoSets ==
    ASSUME ReqOK, NEW w \in Workers, req[w].pc # "idle", NEW s \in {"publish", "http"},
           Goto(w, s), NEW d
    PROVE  Setter(w, d)' <=> req[w].op = "SetDeviceStatus" /\ Target(req[w]) = d
<1>1. Plain(req[w])
  BY BusyPlain
<1> DEFINE r == [req[w] EXCEPT !.pc = s]
<1>2. r.pc = s /\ r.op = req[w].op /\ r.items = req[w].items
  BY <1>1 DEF Plain
<1>3. req'[w] = r
  BY DEF Goto, ReqOK
<1> HIDE DEF r
<1> QED  BY <1>2, <1>3 DEF Setter, Target

\* Whether d is being set, when w alone moves.
LEMMA SetSplits ==
    ASSUME NEW w \in Workers, \A x \in Workers \ {w} : req'[x] = req[x], NEW d,
           Setter(w, d)' <=> Setter(w, d)
    PROVE  Set(d)' <=> Set(d)
<1>1. \A x \in Workers : Setter(x, d)' <=> Setter(x, d)
  BY DEF Setter, Target
<1> QED  BY <1>1 DEF Set

LEMMA SetterWrites ==
    ASSUME NEW w \in Workers, NEW W, w \in W, NEW d \in Devices, Setter(w, d)
    PROVE  d \in WrittenBy(HeldBy(W))
<1>1. Command(req[w]) \in HeldBy(W)
  BY DEF Setter, HeldBy
<1>2. Writes(Command(req[w]), d)
  BY DEF Setter, Writes, Command, Action
<1> QED  BY <1>1, <1>2 DEF WrittenBy

\* What the inbox says of a wish, as commands come and go.
LEMMA PushKeeps ==
    ASSUME ServerOK, NEW c \in Commands, inbox' = Append(inbox, c), NEW d, ~Gives(c, d),
           UNCHANGED <<device[d], want[d]>>, AsWanted(d)
    PROVE  AsWanted(d)'
<1>1. /\ Len(inbox) \in Nat /\ DOMAIN inbox = 1 .. Len(inbox)
      /\ DOMAIN inbox' = 1 .. Len(inbox) + 1 /\ inbox'[Len(inbox) + 1] = c
      /\ \A i \in 1 .. Len(inbox) : inbox'[i] = inbox[i]
  BY DEF ServerOK
<1>2. \A j \in DOMAIN inbox' : j \in DOMAIN inbox \/ ~Gives(inbox'[j], d)
  BY <1>1
<1>3. DOMAIN inbox \subseteq DOMAIN inbox' /\ \A j \in DOMAIN inbox : inbox'[j] = inbox[j]
  BY <1>1
<1>4. ASSUME NEW i \in DOMAIN inbox', Last(i, d)' PROVE Asks(inbox'[i], d, want'[d])
  <2>1. i \in DOMAIN inbox /\ Last(i, d)
    BY <1>2, <1>3, <1>4 DEF Last
  <2> QED  BY <1>3, <2>1 DEF AsWanted
<1>5. Unasked(d)' => Unasked(d)
  BY <1>3 DEF Unasked
<1> QED  BY <1>4, <1>5 DEF AsWanted

LEMMA PushAsks ==
    ASSUME ServerOK, NEW c \in Commands, inbox' = Append(inbox, c), NEW d,
           Gives(c, d), Asks(c, d, want'[d])
    PROVE  AsWanted(d)'
<1>1. /\ Len(inbox) \in Nat
      /\ DOMAIN inbox' = 1 .. Len(inbox) + 1 /\ inbox'[Len(inbox) + 1] = c
  BY DEF ServerOK
<1>2. Len(inbox) + 1 \in DOMAIN inbox'
  BY <1>1
<1>3. \A i \in DOMAIN inbox' : i = Len(inbox) + 1 \/ Len(inbox) + 1 > i
  BY <1>1
<1>4. ~Unasked(d)'
  BY <1>1, <1>2 DEF Unasked
<1>5. \A i \in DOMAIN inbox' : Last(i, d)' => i = Len(inbox) + 1
  BY <1>1, <1>2, <1>3 DEF Last
<1> QED  BY <1>1, <1>4, <1>5 DEF AsWanted

LEMMA TailIs ==
    ASSUME ServerOK, inbox # <<>>, inbox' = Tail(inbox)
    PROVE  /\ 1 \in DOMAIN inbox /\ Head(inbox) = inbox[1] /\ Head(inbox) \in Commands
           /\ \A j \in DOMAIN inbox' : /\ j \in Nat /\ j + 1 \in DOMAIN inbox
                                       /\ inbox'[j] = inbox[j + 1]
           /\ \A i \in DOMAIN inbox : i \in Nat /\ (i = 1 \/ i - 1 \in DOMAIN inbox')
<1>1. /\ Len(inbox) \in Nat \ {0} /\ DOMAIN inbox = 1 .. Len(inbox)
      /\ DOMAIN inbox' = 1 .. Len(inbox) - 1 /\ Head(inbox) = inbox[1]
      /\ \A i \in 1 .. Len(inbox) - 1 : inbox'[i] = inbox[i + 1]
  BY DEF ServerOK
<1>2. Head(inbox) \in Commands
  BY DEF ServerOK
<1> QED  BY <1>1, <1>2

\* Either what is read was the last word on d, or the last word is still there.
LEMMA ReadKeeps ==
    ASSUME ServerOK, inbox # <<>>, inbox' = Tail(inbox), NEW d,
           UNCHANGED want[d], AsWanted(d),
           Asks(Head(inbox), d, want[d]) => device'[d] = want[d],
           Gives(Head(inbox), d) \/ device'[d] = device[d]
    PROVE  AsWanted(d)'
<1>1. /\ 1 \in DOMAIN inbox /\ Head(inbox) = inbox[1]
      /\ \A j \in DOMAIN inbox' : /\ j \in Nat /\ j + 1 \in DOMAIN inbox
                                  /\ inbox'[j] = inbox[j + 1]
      /\ \A i \in DOMAIN inbox : i \in Nat /\ (i = 1 \/ i - 1 \in DOMAIN inbox')
  BY TailIs
<1>2. \A i \in DOMAIN inbox : i = 1 \/ \E j \in DOMAIN inbox' : i = j + 1 /\ inbox[i] = inbox'[j]
  <2> SUFFICES ASSUME NEW i \in DOMAIN inbox, i # 1
               PROVE  \E j \in DOMAIN inbox' : i = j + 1 /\ inbox[i] = inbox'[j]
    OBVIOUS
  <2>1. i - 1 \in DOMAIN inbox' /\ i \in Nat
    BY <1>1
  <2>2. i = (i - 1) + 1
    BY <2>1
  <2> QED  BY <1>1, <2>1, <2>2
<1>3. ASSUME NEW i \in DOMAIN inbox', Last(i, d)' PROVE Asks(inbox'[i], d, want'[d])
  <2>1. i \in Nat /\ i + 1 \in DOMAIN inbox /\ inbox'[i] = inbox[i + 1]
    BY <1>1
  <2>2. ASSUME NEW k \in DOMAIN inbox, k > i + 1 PROVE ~Gives(inbox[k], d)
    <3>1. k # 1
      BY <2>1, <2>2
    <3>2. PICK j \in DOMAIN inbox' : k = j + 1 /\ inbox[k] = inbox'[j]
      BY <1>2, <3>1
    <3>3. j > i
      BY <1>1, <2>1, <2>2, <3>2
    <3> QED  BY <1>3, <3>2, <3>3 DEF Last
  <2>3. Last(i + 1, d)
    BY <1>3, <2>1, <2>2 DEF Last
  <2> QED  BY <2>1, <2>3 DEF AsWanted
<1>4. ASSUME Unasked(d)' PROVE device'[d] = want'[d]
  <2>1. \A i \in DOMAIN inbox : i = 1 \/ ~Gives(inbox[i], d)
    BY <1>2, <1>4 DEF Unasked
  <2>2. CASE Gives(inbox[1], d)
    <3>1. Last(1, d)
      BY <1>1, <2>1, <2>2 DEF Last
    <3> QED  BY <1>1, <3>1 DEF AsWanted
  <2>3. CASE ~Gives(inbox[1], d)
    BY <1>1, <2>1, <2>3 DEF AsWanted, Unasked
  <2> QED  BY <2>2, <2>3
<1> QED  BY <1>3, <1>4 DEF AsWanted

\* What a command does to the row of d.
LEMMA PerformRow ==
    ASSUME RowsOK, NEW c \in Commands, Perform(c), NEW d \in Devices
    PROVE  /\ ~Gives(c, d) /\ ~Removes(c, d) => device'[d] = device[d] /\ ~Deletes(c, d)
           /\ Gives(c, d) => /\ device[d] = "gone" => device'[d] = "gone"
                             /\ device[d] # "gone" => device'[d] # "gone"
                             /\ ~Deletes(c, d)
           /\ \A st \in Status : Asks(c, d, st) /\ device[d] # "gone" => device'[d] = st
           /\ Removes(c, d) => \/ Deletes(c, d) /\ device'[d] = "gone"
                               \/ ~Deletes(c, d) /\ device'[d] = device[d]
<1>1. device'[d] = IF Deletes(c, d) THEN "gone"
                   ELSE IF c.to # d \/ device[d] = "gone" THEN device[d]
                   ELSE CASE c.act = "disable_device" -> "off"
                          [] c.act = "enable_device"  -> "on"
                          [] OTHER                    -> device[d]
  BY DEF Perform
<1>2. CASE c.act = "disable_device"
  BY <1>1, <1>2 DEF Gives, Removes, Asks, Deletes, Status
<1>3. CASE c.act = "enable_device"
  BY <1>1, <1>3 DEF Gives, Removes, Asks, Deletes, Status
<1>4. CASE c.act = "delete_device"
  BY <1>1, <1>4 DEF Gives, Removes, Asks, Deletes, Status
<1>5. CASE c.act \notin {"disable_device", "enable_device", "delete_device"}
  BY <1>1, <1>5 DEF Gives, Removes, Asks, Deletes, Status
<1> QED  BY <1>2, <1>3, <1>4, <1>5

LEMMA WritesIs == \A c, d : Writes(c, d) <=> Gives(c, d) \/ Removes(c, d)
BY DEF Writes, Gives, Removes

\* The command of a request.
LEMMA CommandGives ==
    ASSUME NEW r, Plain(r), NEW d \in Devices
    PROVE  /\ r.op = "SetDeviceStatus" /\ Target(r) = d => Asks(Command(r), d, r.st)
           /\ Gives(Command(r), d) <=> r.op = "SetDeviceStatus" /\ Target(r) = d
           /\ Removes(Command(r), d) <=> r.op = "DeleteDevice" /\ Target(r) = d
BY DEF Plain, Asks, Gives, Removes, Command, Action, UserOps, DeviceOps, Status

\* A device whose row, wish and inbox stay as they are.
LEMMA FollowedSame ==
    ASSUME NEW d \in Devices, Followed(d), tainted \subseteq tainted',
           UNCHANGED <<device[d], want[d], inbox>>, d \notin tainted' => (Set(d)' <=> Set(d))
    PROVE  Followed(d)'
BY DEF Followed, AsWanted, Last, Unasked

LEMMA StoreSettles ==
    ASSUME Typed, ReqOK, Settling, NEW w \in Workers, NEW o \in Outcomes, StoreStep(w, o)
    PROVE  Settling'
<1>1. /\ UNCHANGED <<inbox, strays, want>> /\ tainted \subseteq tainted'
      /\ req[w].pc = "store" /\ Plain(req[w])
      /\ \A x \in Workers \ {w} : req'[x] = req[x]
  <2>1. Work(w)
    BY DEF Work, StoreStep
  <2>2. \A x \in Workers \ {w} : req'[x] = req[x]
    BY <2>1, WorkMoves DEF Moves
  <2>3. tainted \subseteq tainted'
    BY DEF StoreStep, UpdateUser, UpdateUserStatus, WriteUserStatus, ResetUserPassword,
       DeleteUser, SetDeviceStatus, Taint
  <2> QED  BY <2>2, <2>3, StoreFacts, BusyPlain DEF server
<1>2. WrittenBy(strays') \subseteq tainted'
  BY <1>1 DEF Settling
<1> SUFFICES ASSUME NEW d \in Devices PROVE Followed(d)'
  BY <1>1, <1>2 DEF Settling
<1>3. ~Setter(w, d)
  BY <1>1 DEF Setter
<1>4. CASE ~SetDeviceStatus(w, o)
  <2>1. /\ UNCHANGED device /\ (NextItem(w) \/ Goto(w, "publish"))
        /\ req[w].op # "SetDeviceStatus"
    BY <1>4 DEF StoreStep, UpdateUser, UpdateUserStatus, WriteUserStatus, ResetUserPassword,
       DeleteUser, Stored
  <2>2. ~Setter(w, d)'
    BY <1>1, <2>1, ItemEnds, GotoSets
  <2>3. Set(d)' <=> Set(d)
    BY <1>1, <1>3, <2>2, SetSplits
  <2>4. device'[d] = device[d] /\ Followed(d)
    BY <2>1 DEF Settling
  <2> QED  BY <1>1, <2>3, <2>4, FollowedSame
<1>5. CASE SetDeviceStatus(w, o)
  <2> DEFINE t        == Target(req[w])
             st       == req[w].st
             affected == device[t] \notin {"gone", st}
  <2>1. /\ Stored(w, "SetDeviceStatus", o, affected) /\ req[w].op = "SetDeviceStatus"
        /\ device' = IF TookPlace(o) /\ affected THEN [device EXCEPT ![t] = st] ELSE device
        /\ Taint(IF o = "late" THEN {t} ELSE {})
    BY <1>5 DEF SetDeviceStatus, Stored
  <2>2. IF o = "ok" /\ affected THEN Goto(w, "publish") ELSE NextItem(w)
    BY <2>1 DEF Stored, Notifies
  <2>3. st \in Status
    BY <1>1 DEF Plain
  <2> HIDE DEF t, st, affected
  <2>4. CASE d # t
    <3>1. ~Setter(w, d)'
      BY <1>1, <2>2, <2>4, ItemEnds, GotoSets DEF t
    <3>2. device'[d] = device[d]
      BY <2>1, <2>4 DEF Typed, RowsOK
    <3> QED  BY <1>1, <1>3, <3>1, <3>2, SetSplits, FollowedSame DEF Settling
  <2>5. CASE d = t /\ ~(o = "ok" /\ affected) /\ d \notin tainted'
    <3>1. device' = device
      BY <2>1, <2>5 DEF Taint, Outcomes, TookPlace
    <3>2. ~Setter(w, d)'
      BY <1>1, <2>2, <2>5, ItemEnds
    <3> QED  BY <1>1, <1>3, <3>1, <3>2, SetSplits, FollowedSame DEF Settling
  <2>6. CASE d = t /\ o = "ok" /\ affected /\ d \notin tainted'
    <3>1. device'[d] = st
      BY <2>1, <2>6 DEF Typed, RowsOK, TookPlace
    <3>2. device'[d] # "gone"
      BY <3>1, <2>3 DEF Status
    <3>3. Setter(w, d)'
      BY <1>1, <2>1, <2>2, <2>6, GotoSets DEF t
    <3> QED  BY <1>1, <3>2, <3>3 DEF Followed, Set
  <2> QED  BY <2>4, <2>5, <2>6 DEF Followed
<1> QED  BY <1>4, <1>5

\* The wishes after the answer of a request.
LEMMA WantedIs ==
    ASSUME Typed, NEW r, Plain(r), NEW d \in Devices
    PROVE  /\ Wanted(r) \in [Devices -> Status \cup {"none"}]
           /\ Wanted(r)[d] = IF Gives(Command(r), d) /\ device[d] # "gone" THEN r.st ELSE want[d]
<1>1. r.st \in Status /\ want \in [Devices -> Status \cup {"none"}]
  BY DEF Plain, Typed, RowsOK
<1>2. Gives(Command(r), d) <=> r.op = "SetDeviceStatus" /\ Target(r) = d
  BY CommandGives
<1> QED  BY <1>1, <1>2 DEF Wanted

LEMMA PublishSettles ==
    ASSUME Typed, ReqOK, Settling, NEW w \in Workers, NEW o \in Outcomes, Publish(w, o)
    PROVE  Settling'
<1> DEFINE r == req[w]
           c == Command(r)
           lostForGood == (o # "ok" /\ addr = "unset") \/ (o = "ok" /\ subscribed = "no")
<1>1. /\ UNCHANGED <<device, strays>> /\ r.pc = "publish" /\ Plain(r)
      /\ inbox' = IF TookPlace(o) THEN Arrived(c) ELSE inbox
      /\ IF o # "ok" /\ addr = "set" THEN Goto(w, "http") /\ UNCHANGED want
         ELSE NextItem(w) /\ want' = Wanted(r)
      /\ Taint(IF lostForGood THEN WrittenBy({c}) ELSE {})
  BY BusyPlain DEF Publish, At, rows
<1>2. /\ tainted \subseteq tainted' /\ c \in Commands
      /\ \A x \in Workers \ {w} : req'[x] = req[x]
      /\ inbox' = inbox \/ inbox' = Append(inbox, c)
  <2>1. Work(w)
    BY DEF Work
  <2>2. \A x \in Workers \ {w} : req'[x] = req[x]
    BY <2>1, WorkMoves DEF Moves
  <2>3. tainted \subseteq tainted' /\ (inbox' = inbox \/ inbox' = Append(inbox, c))
    BY <1>1 DEF Taint, Arrived
  <2> QED  BY <1>1, <2>2, <2>3, CommandTyped
<1>3. WrittenBy(strays') \subseteq tainted'
  BY <1>1, <1>2 DEF Settling
<1> SUFFICES ASSUME NEW d \in Devices, d \notin tainted' PROVE Followed(d)'
  BY <1>3 DEF Settling, Followed
<1>4. Followed(d) /\ d \notin tainted
  BY <1>2 DEF Settling
<1>5. /\ Gives(c, d) <=> r.op = "SetDeviceStatus" /\ Target(r) = d
      /\ Gives(c, d) => Asks(c, d, r.st)
      /\ Writes(c, d) <=> Gives(c, d) \/ Removes(c, d)
  BY <1>1, CommandGives, WritesIs
<1>6. want'[d] = want[d] \/ (want'[d] = r.st /\ Gives(c, d) /\ device[d] # "gone")
  BY <1>1, WantedIs
<1>7. device'[d] = "gone" => want'[d] = "none"
  BY <1>1, <1>4, <1>6 DEF Followed
<1>8. CASE ~Gives(c, d)
  <2>1. ~Setter(w, d) /\ ~Setter(w, d)'
    <3>1. ~Setter(w, d)
      BY <1>5, <1>8 DEF Setter
    <3>2. ~Setter(w, d)'
      BY <1>1, <1>5, <1>8, ItemEnds, GotoSets
    <3> QED  BY <3>1, <3>2
  <2>2. Set(d)' <=> Set(d)
    BY <1>2, <2>1, SetSplits
  <2>3. want'[d] # "none" /\ ~Set(d)' => AsWanted(d)'
    <3> SUFFICES ASSUME want'[d] # "none", ~Set(d)' PROVE AsWanted(d)'
      OBVIOUS
    <3>1. AsWanted(d) /\ want'[d] = want[d]
      BY <1>4, <1>6, <1>8, <2>2 DEF Followed
    <3>2. CASE inbox' = inbox
      BY <1>1, <3>1, <3>2 DEF AsWanted, Last, Unasked
    <3>3. CASE inbox' = Append(inbox, c)
      BY <1>1, <1>2, <1>8, <3>1, <3>3, PushKeeps DEF Typed
    <3> QED  BY <1>2, <3>2, <3>3
  <2> QED  BY <1>7, <2>3 DEF Followed
<1>9. CASE Gives(c, d)
  <2>1. ~lostForGood
    BY <1>1, <1>5, <1>9 DEF Taint, WrittenBy
  <2>2. CASE o # "ok" /\ addr = "set"
    <3>1. Setter(w, d)'
      BY <1>1, <1>5, <1>9, <2>2, GotoSets
    <3> QED  BY <1>7, <3>1 DEF Followed, Set
  <2>3. CASE o = "ok" /\ subscribed = "yes"
    <3>1. want' = Wanted(r) /\ inbox' = Append(inbox, c)
      BY <1>1, <2>3 DEF TookPlace, Arrived
    <3>2. device[d] # "gone" => want'[d] = r.st
      BY <1>1, <1>9, <3>1, WantedIs
    <3>3. device[d] # "gone" => AsWanted(d)'
      BY <1>2, <1>5, <1>9, <3>1, <3>2, PushAsks DEF Typed
    <3> QED  BY <1>1, <1>7, <3>3 DEF Followed
  <2> QED  BY <2>1, <2>2, <2>3 DEF Typed, BoundOK, ServerOK
<1> QED  BY <1>8, <1>9

LEMMA HTTPSettles ==
    ASSUME Typed, ReqOK, Settling, NEW w \in Workers, NEW o \in Outcomes, CommandViaHTTP(w, o)
    PROVE  Settling'
<1> DEFINE r == req[w]
           c == Command(r)
<1>1. /\ UNCHANGED inbox /\ r.pc = "http" /\ Plain(r)
      /\ IF o = "ok" THEN Perform(c) ELSE UNCHANGED <<device, conn>>
      /\ strays' = IF o = "late" THEN strays \cup {c} ELSE strays
      /\ want' = IF o = "ok" THEN Forgotten(c, Wanted(r)) ELSE Wanted(r)
      /\ NextItem(w)
      /\ Taint(IF o = "ok" THEN Overtaken(c) ELSE WrittenBy({c}))
  BY BusyPlain DEF CommandViaHTTP, At
<1>2. /\ tainted \subseteq tainted' /\ c \in Commands
      /\ \A x \in Workers \ {w} : req'[x] = req[x]
  <2>1. Work(w)
    BY DEF Work
  <2>2. \A x \in Workers \ {w} : req'[x] = req[x]
    BY <2>1, WorkMoves DEF Moves
  <2> QED  BY <1>1, <2>2, CommandTyped DEF Taint
<1>3. WrittenBy(strays') \subseteq tainted'
  <2>1. CASE strays' = strays
    BY <1>2, <2>1 DEF Settling
  <2>2. CASE o = "late" /\ strays' = strays \cup {c}
    <3>1. WrittenBy(strays') \subseteq WrittenBy(strays) \cup WrittenBy({c})
      BY <2>2 DEF WrittenBy
    <3>2. WrittenBy({c}) \subseteq tainted'
      BY <1>1, <2>2 DEF Taint
    <3> QED  BY <1>2, <3>1, <3>2 DEF Settling
  <2> QED  BY <1>1, <2>1, <2>2
<1> SUFFICES ASSUME NEW d \in Devices, d \notin tainted' PROVE Followed(d)'
  BY <1>3 DEF Settling, Followed
<1>4. Followed(d) /\ d \notin tainted
  BY <1>2 DEF Settling
<1>5. /\ Gives(c, d) <=> r.op = "SetDeviceStatus" /\ Target(r) = d
      /\ Gives(c, d) => Asks(c, d, r.st)
      /\ Writes(c, d) <=> Gives(c, d) \/ Removes(c, d)
  BY <1>1, CommandGives, WritesIs
<1>6. /\ Wanted(r)[d] = IF Gives(c, d) /\ device[d] # "gone" THEN r.st ELSE want[d]
      /\ o # "ok" => want'[d] = Wanted(r)[d]
      /\ o = "ok" => want'[d] = IF Deletes(c, d) THEN "none" ELSE Wanted(r)[d]
  BY <1>1, WantedIs DEF Forgotten
<1>7. ~Setter(w, d)' /\ \A x \in Workers \ {w} : Setter(x, d)' <=> Setter(x, d)
  BY <1>1, <1>2, ItemEnds DEF Setter, Target
<1>8. ASSUME ~Gives(c, d), device'[d] = device[d], want'[d] = want[d]
      PROVE  Followed(d)'
  <2>1. ~Setter(w, d)
    BY <1>5, <1>8 DEF Setter
  <2>2. Set(d)' <=> Set(d)
    BY <1>2, <1>7, <2>1, SetSplits
  <2> QED  BY <1>1, <1>2, <1>4, <1>8, <2>2, FollowedSame
<1>9. CASE ~Writes(c, d)
  <2>1. CASE o = "ok"
    <3>1. device'[d] = device[d] /\ ~Deletes(c, d)
      BY <1>1, <1>2, <1>5, <1>9, <2>1, PerformRow DEF Typed
    <3> QED  BY <1>5, <1>6, <1>8, <1>9, <2>1, <3>1
  <2>2. CASE o # "ok"
    BY <1>1, <1>5, <1>6, <1>8, <1>9, <2>2
  <2> QED  BY <2>1, <2>2
<1>10. ASSUME Writes(c, d) PROVE o = "ok"
  BY <1>1, <1>10 DEF Taint, WrittenBy
<1>11. CASE Removes(c, d)
  <2>1. o = "ok" /\ ~Gives(c, d)
    BY <1>5, <1>10, <1>11 DEF Gives, Removes
  <2>2. \/ device'[d] = "gone" /\ want'[d] = "none"
        \/ device'[d] = device[d] /\ want'[d] = want[d]
    BY <1>1, <1>2, <1>6, <1>11, <2>1, PerformRow DEF Typed
  <2> QED  BY <1>8, <2>1, <2>2 DEF Followed
<1>12. CASE Gives(c, d)
  <2>1. o = "ok"
    BY <1>5, <1>10, <1>12
  <2>2. CASE device[d] = "gone"
    <3>1. device'[d] = "gone" /\ want'[d] = "none"
      BY <1>1, <1>2, <1>4, <1>6, <1>12, <2>1, <2>2, PerformRow DEF Typed, Followed
    <3> QED  BY <3>1 DEF Followed
  <2>3. CASE device[d] # "gone"
    <3>1. r.st \in Status
      BY <1>1 DEF Plain
    <3>2. device'[d] = r.st /\ device'[d] # "gone" /\ want'[d] = r.st
      BY <1>1, <1>2, <1>5, <1>6, <1>12, <2>1, <2>3, <3>1, PerformRow DEF Typed
    <3>3. d \notin Overtaken(c)
      BY <1>1, <2>1 DEF Taint
    <3>4. \A i \in DOMAIN inbox : Gives(inbox[i], d) => inbox[i] = c
      BY <1>12, <3>3 DEF Overtaken, Inbox
    <3>5. AsWanted(d)'
      BY <1>1, <1>5, <1>12, <3>2, <3>4 DEF AsWanted, Last
    <3> QED  BY <3>2, <3>5 DEF Followed
  <2> QED  BY <2>2, <2>3
<1> QED  BY <1>5, <1>9, <1>11, <1>12

LEMMA DeliverySettles ==
    ASSUME Typed, Settling, Deliver PROVE Settling'
<1> DEFINE c == Head(inbox)
<1>1. /\ UNCHANGED <<strays, req, tainted>> /\ inbox # <<>> /\ inbox' = Tail(inbox)
      /\ Perform(c) /\ want' = Forgotten(c, want)
  BY DEF Deliver
<1>2. /\ 1 \in DOMAIN inbox /\ c = inbox[1] /\ c \in Commands
      /\ \A j \in DOMAIN inbox' : /\ j \in Nat /\ j + 1 \in DOMAIN inbox
                                  /\ inbox'[j] = inbox[j + 1]
  BY <1>1, TailIs DEF Typed
<1> HIDE DEF c
<1>3. WrittenBy(strays') \subseteq tainted'
  BY <1>1 DEF Settling
<1> SUFFICES ASSUME NEW d \in Devices, d \notin tainted PROVE Followed(d)'
  BY <1>1, <1>3 DEF Settling, Followed
<1>4. Followed(d) /\ (Set(d)' <=> Set(d))
  BY <1>1 DEF Settling, Set, Setter, Target
<1>5. want'[d] = IF Deletes(c, d) THEN "none" ELSE want[d]
  BY <1>1 DEF Forgotten
<1>6. ASSUME ~Removes(c, d) PROVE Followed(d)'
  <2>1. /\ ~Gives(c, d) => device'[d] = device[d]
        /\ Gives(c, d) => (device'[d] = "gone" <=> device[d] = "gone")
        /\ want'[d] = want[d]
    BY <1>1, <1>2, <1>5, <1>6, PerformRow DEF Typed
  <2>3. device'[d] = "gone" => want'[d] = "none"
    BY <1>4, <2>1 DEF Followed
  <2>4. ASSUME want'[d] # "none", ~Set(d)' PROVE AsWanted(d)'
    <3>1. AsWanted(d) /\ device[d] # "gone" /\ want[d] \in Status
      BY <1>4, <2>1, <2>4 DEF Followed, Typed, RowsOK
    <3>2. Asks(c, d, want[d]) => device'[d] = want[d]
      BY <1>1, <1>2, <3>1, PerformRow DEF Typed
    <3> QED  BY <1>1, <2>1, <3>1, <3>2, ReadKeeps DEF Typed, c
  <2> QED  BY <2>3, <2>4 DEF Followed
<1>7. ASSUME Removes(c, d) PROVE Followed(d)'
  <2>1. ~Gives(c, d)
    BY <1>7 DEF Removes, Gives
  <2>2. \/ device'[d] = "gone" /\ want'[d] = "none"
        \/ device'[d] = device[d] /\ want'[d] = want[d]
    BY <1>1, <1>2, <1>5, <1>7, PerformRow DEF Typed
  <2>3. ASSUME device'[d] = device[d], want'[d] = want[d], want[d] # "none", ~Set(d)
        PROVE  AsWanted(d)'
    <3>1. AsWanted(d) /\ ~Asks(c, d, want[d])
      BY <1>4, <2>1, <2>3 DEF Followed, Asks, Gives
    <3> QED  BY <1>1, <2>3, <3>1, ReadKeeps DEF Typed, c
  <2> QED  BY <1>4, <2>2, <2>3 DEF Followed
<1> QED  BY <1>6, <1>7

\* A late command writes only what is tainted.
LEMMA StraySettles ==
    ASSUME Typed, Settling, DeliverStray PROVE Settling'
<1>1. PICK c \in strays : Perform(c) /\ strays' = strays \ {c} /\ want' = Forgotten(c, want)
  BY DEF DeliverStray
<1>2. UNCHANGED <<inbox, req, tainted>> /\ c \in Commands
  BY DEF DeliverStray, Typed, ServerOK
<1>3. WrittenBy(strays') \subseteq tainted'
  BY <1>1, <1>2 DEF Settling, WrittenBy
<1> SUFFICES ASSUME NEW d \in Devices, d \notin tainted PROVE Followed(d)'
  BY <1>2, <1>3 DEF Settling, Followed
<1>4. ~Gives(c, d) /\ ~Removes(c, d)
  BY WritesIs DEF Settling, WrittenBy
<1>5. device'[d] = device[d] /\ want'[d] = want[d]
  BY <1>1, <1>2, <1>4, PerformRow DEF Typed, Forgotten
<1>6. Set(d)' <=> Set(d)
  BY <1>2 DEF Set, Setter, Target
<1> QED  BY <1>2, <1>5, <1>6, FollowedSame DEF Settling

\* A device the Server registers anew is nobody's wish.
LEMMA DeviceSettles ==
    ASSUME Typed, Settling, NEW e \in Devices, Connect(e) \/ HangUp(e) PROVE Settling'
<1>1. UNCHANGED <<inbox, strays, req, tainted, want>>
  BY DEF Connect, HangUp
<1>2. WrittenBy(strays') \subseteq tainted'
  BY <1>1 DEF Settling
<1> SUFFICES ASSUME NEW d \in Devices, d \notin tainted PROVE Followed(d)'
  BY <1>1, <1>2 DEF Settling, Followed
<1>3. Followed(d) /\ (Set(d)' <=> Set(d))
  BY <1>1 DEF Settling, Set, Setter, Target
<1>4. CASE device'[d] = device[d]
  BY <1>1, <1>3, <1>4, FollowedSame
<1>5. CASE device'[d] # device[d]
  <2>1. device'[d] = "on" /\ device[d] = "gone"
    BY <1>5 DEF Connect, HangUp, rows, Typed, RowsOK, Status
  <2>2. want'[d] = "none"
    BY <1>1, <1>3, <2>1 DEF Followed
  <2> QED  BY <2>1, <2>2 DEF Followed
<1> QED  BY <1>4, <1>5

\* What a fault takes is tainted.
LEMMA FaultSettles ==
    ASSUME Typed, Settling, Unsubscribe \/ Subscribe \/ ServerRestart \/ Crash PROVE Settling'
<1>1. /\ UNCHANGED <<device, want>> /\ tainted \subseteq tainted' /\ strays' \subseteq strays
      /\ req' = req \/ Crash
  BY DEF Unsubscribe, Subscribe, ServerRestart, Crash, rows, server, Taint
<1>2. WrittenBy(strays') \subseteq tainted'
  BY <1>1 DEF Settling, WrittenBy
<1> SUFFICES ASSUME NEW d \in Devices, d \notin tainted' PROVE Followed(d)'
  BY <1>2 DEF Settling, Followed
<1>3. Followed(d) /\ d \notin tainted
  BY <1>1 DEF Settling
<1>4. Set(d)' <=> Set(d)
  <2>1. CASE Crash
    <3>1. ~Set(d)'
      BY <2>1 DEF Crash, Set, Setter, Idle
    <3>2. d \notin WrittenBy(Held)
      BY <2>1 DEF Crash, Taint
    <3> QED  BY <3>1, <3>2, SetterWrites DEF Set, Held
  <2>2. CASE req' = req
    BY <2>2 DEF Set, Setter, Target
  <2> QED  BY <1>1, <2>1, <2>2
<1>5. CASE inbox' = inbox
  BY <1>1, <1>3, <1>4, <1>5, FollowedSame
<1>6. CASE inbox' # inbox
  <2>1. inbox' = <<>> /\ d \notin WrittenBy(Inbox)
    BY <1>6 DEF Unsubscribe, Subscribe, ServerRestart, Crash, server, Taint, WrittenBy
  <2>2. Unasked(d)
    BY <2>1, WritesIs DEF WrittenBy, Inbox, Unasked
  <2>3. AsWanted(d) => device[d] = want[d]
    BY <2>2 DEF AsWanted
  <2>4. DOMAIN inbox' = {}
    BY <2>1
  <2> QED  BY <1>1, <1>3, <1>4, <2>3, <2>4 DEF Followed, AsWanted
<1> QED  BY <1>5, <1>6

LEMMA SettlingStep ==
    ASSUME Typed, ReqOK, Settling, [Next]_vars PROVE Settling'
<1>1. ASSUME NEW w \in Workers, Work(w) PROVE Settling'
  BY <1>1, StoreSettles, PublishSettles, HTTPSettles DEF Work, StoreStep
<1>2. ASSUME NEW w \in Workers, Begins(w) PROVE Settling'
  <2>1. UNCHANGED <<device, want, inbox, strays, tainted>>
    BY <1>2 DEF Begins, rows, server
  <2>2. WrittenBy(strays') \subseteq tainted'
    BY <2>1 DEF Settling
  <2> SUFFICES ASSUME NEW d \in Devices PROVE Followed(d)'
    BY <2>2 DEF Settling
  <2>3. ~Setter(w, d) /\ ~Setter(w, d)'
    BY <1>2 DEF Begins, Setter, First
  <2>4. Set(d)' <=> Set(d)
    BY <1>2, <2>3, SetSplits DEF Begins
  <2> QED  BY <2>1, <2>4, FollowedSame DEF Settling
<1>3. CASE UNCHANGED vars
  <2>1. UNCHANGED <<device, want, inbox, strays, tainted, req>>
    BY <1>3 DEF vars, rows, server
  <2>2. WrittenBy(strays') \subseteq tainted'
    BY <2>1 DEF Settling
  <2> SUFFICES ASSUME NEW d \in Devices PROVE Followed(d)'
    BY <2>2 DEF Settling
  <2>3. Set(d)' <=> Set(d)
    BY <2>1 DEF Set, Setter, Target
  <2> QED  BY <2>1, <2>3, FollowedSame DEF Settling
<1>4. CASE Outside
  BY <1>3, <1>4, DeliverySettles, StraySettles, DeviceSettles, FaultSettles DEF Outside
<1> QED  BY <1>1, <1>2, <1>4, FaultSettles, Steps4

-----------------------------------------------------------------------------
(* The theorems.                                                           *)

LEMMA LinkStep == LinkInv /\ [Next]_vars => LinkInv' /\ Remembers
<1> SUFFICES ASSUME LinkInv, [Next]_vars PROVE LinkInv' /\ Remembers
  OBVIOUS
<1>1. Typed /\ ReqOK /\ Counted /\ OnlineExplained /\ MissedOnline
  BY DEF LinkInv, Typed
<1>2. Typed' /\ ReqOK' /\ Counted' /\ OnlineExplained' /\ MissedOnline' /\ Remembers
  <2>1. ReqOK'
    BY <1>1, ReqStep
  <2>2. Typed'
    BY <1>1, TypedStep
  <2>3. Counted'
    BY <1>1, CountStep DEF Typed
  <2>4. OnlineExplained' /\ MissedOnline' /\ Remembers
    BY <1>1, OnlineStep
  <2> QED  BY <2>1, <2>2, <2>3, <2>4
<1> QED  BY <1>2 DEF LinkInv, Typed

LEMMA LinkInvariance == Spec => []LinkInv
BY LinkInit, LinkStep, PTL DEF Spec

\* Every variable keeps its type, and every request under way has targets its
\* operation is about, in batches of any length (data_service.go, data_handler.go:330).
THEOREM TypeCorrect == Spec => []TypeOK
BY LinkInvTypes, LinkInvariance, PTL

\* A device that is still connected against its rows has a command on its way
\* that will cut it off, or a fault took the command, or UpdateUser sent none
\* (data_service.go:266-331, 513-530; server_notifier.go:74-99).
THEOREM ConnectionsExplained == Spec => []OnlineExplained
<1>1. LinkInv => OnlineExplained
  BY DEF LinkInv
<1> QED  BY <1>1, LinkInvariance, PTL

\* Once the Server has read everything sent for a device, its row has the status
\* that the last answered SetDeviceStatus of it asked for, in whatever order any
\* number of operators and the Server write the row, unless a write or command
\* for it was lost, late or overtaken (data_service.go:513-530,
\* server_notifier.go:74-99).
THEOREM StatusSettles == Spec => []SettledStatus
<1>1. LinkInv /\ [Next]_vars /\ Settling => Settling'
  BY SettlingStep DEF LinkInv, Typed
<1> QED  BY <1>1, LinkInvariance, SettlingInit, SettlingSettles, PTL DEF Spec

\* What Presence sees, and how it may change.
places == [d \in Devices |-> Place(d)]

LEMMA Admitted ==
    ASSUME Typed, ReqOK, [Next]_vars, NEW d \in Devices, conn[d] = Offline, conn'[d] # Offline
    PROVE  Connect(d)
<1>1. ASSUME NEW w \in Workers, Work(w) PROVE conn'[d] = Offline
  <2>1. PICK o \in Outcomes : StoreStep(w, o) \/ Publish(w, o) \/ CommandViaHTTP(w, o)
    BY <1>1 DEF Work, StoreStep
  <2>2. UNCHANGED conn \/ \E c : Perform(c)
    BY <2>1, StoreFacts DEF Publish, CommandViaHTTP, server
  <2> QED  BY <2>2, PerformTyped DEF Typed
<1>2. CASE Outside
  <2>1. CASE Deliver \/ DeliverStray
    BY <2>1, PerformTyped DEF Deliver, DeliverStray, Typed
  <2>2. ASSUME NEW e \in Devices, Connect(e) \/ HangUp(e) PROVE Connect(d)
    BY <2>2 DEF Connect, HangUp, Typed, ConnOK
  <2>3. CASE Unsubscribe \/ Subscribe \/ ServerRestart \/ UNCHANGED vars
    BY <2>3 DEF Unsubscribe, Subscribe, ServerRestart, vars, server
  <2> QED  BY <1>2, <2>1, <2>2, <2>3 DEF Outside
<1> QED  BY <1>1, <1>2, Steps4 DEF Crash, Begins, server

LEMMA PlaceStep ==
    ASSUME LinkInv, LinkInv', Remembers, [Next]_vars
    PROVE  Connections!Next
<1>1. \A d \in Devices : Place(d)' \in Connections!Places
  BY DEF Place, Connections!Places
<1> SUFFICES ASSUME NEW d \in Devices
             PROVE  Place(d)' \in Connections!Follows(Place(d))
  BY <1>1 DEF Connections!Next
<1>2. CASE conn[d] = Offline
  <2>1. CASE conn'[d] = Offline
    BY <1>2, <2>1 DEF Place, Connections!Follows
  <2>2. CASE conn'[d] # Offline
    <3>1. Connect(d)
      BY <1>2, <2>2, Admitted DEF LinkInv, Typed
    <3>2. conn'[d] = pwd'[Owner[d]] /\ user'[Owner[d]] = "on" /\ device'[d] = "on"
          /\ missed' = missed
      BY <3>1 DEF Connect, LinkInv, ConnOK, RowsOK
    <3>3. d \notin missed
      BY <1>2 DEF LinkInv, MissedOnline
    <3>4. ~MustGo(d)'
      BY <3>2 DEF MustGo
    <3>5. Place(d)' = "welcome" /\ Place(d) = "away"
      BY <1>2, <2>2, <3>2, <3>3, <3>4 DEF Place
    <3> QED  BY <3>5 DEF Connections!Follows
  <2> QED  BY <2>1, <2>2
<1>3. CASE conn[d] # Offline /\ d \in missed
  BY <1>3 DEF Remembers, Place, Connections!Follows
<1>4. CASE conn[d] # Offline /\ d \notin missed
  BY <1>1, <1>4 DEF Place, Connections!Follows
<1> QED  BY <1>2, <1>3, <1>4

\* To who looks at the connections only, the requests, commands, deliveries and
\* faults are steps of Presence: nobody is let in who may not connect, and what
\* was missed is not forgotten.  (That whoever is due leaves in the end is left to TLC.)
THEOREM PresenceSafe == Spec => Connections!Init /\ [][Connections!Next]_places
<1>1. Init => Connections!Init
  BY DEF Init, Place, Connections!Init
<1>2. LinkInv /\ LinkInv' /\ [Next]_vars => Connections!Next
  BY LinkStep, PlaceStep
<1> QED  BY <1>1, <1>2, LinkInvariance, PTL DEF Spec

=============================================================================
