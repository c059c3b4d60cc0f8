----------------------------- MODULE ServerLink -----------------------------
(***************************************************************************)
(* What the admin service does to the users and devices of ClipSync-Server:*)
(* AdminDataService writes a row of the shared MySQL tables, then          *)
(* ServerNotifier sends the Server a command, over Redis Pub/Sub or, when  *)
(* that fails and server.addr is configured, over HTTP.                    *)
(*                                                                         *)
(* The database write and each attempt to notify are steps of their own:   *)
(* other requests, the delivery of commands and the reconnects of devices  *)
(* run between them.  The Server, the network and the devices are outside  *)
(* the repository and are modelled from what the notifier's commands and   *)
(* comments say of them.                                                   *)
(***************************************************************************)
EXTENDS Integers, Sequences, FiniteSets

CONSTANTS
    Users, Devices,
    Owner,       \* the user each device belongs to
    Workers,     \* request goroutines alive at the same time
    Ops,         \* the operations that operators call
    MaxOps,      \* bound: operations requested
    MaxBatch,    \* bound: devices named by one batch request (200 in the code)
    MaxFaults    \* bound: failed calls, broken subscriptions, restarts

UserOps   == {"UpdateUser", "UpdateUserStatus", "ResetUserPassword", "DeleteUser",
              "KickUserNow"}
DeviceOps == {"SetDeviceStatus", "KickDevice", "DeleteDevice"}

ASSUME OwnerAssumption  == Owner \in [Devices -> Users] /\ Users \cap Devices = {}
ASSUME OpsAssumption    == Ops \subseteq UserOps \cup DeviceOps
ASSUME BoundsAssumption == MaxOps \in Nat /\ MaxFaults \in Nat /\ MaxBatch \in Nat \ {0}

VARIABLES
    addr,        \* server.addr: "set" or "unset", fixed when the process starts
    user,        \* users.disabled, or that the row is gone
    pwd,         \* version of users.password_hash
    device,      \* devices.disabled, or that the row is gone
    conn,        \* Server's hub: the password version a device is connected with
    subscribed,  \* whether the Server's subscription to the channel stands
    inbox,       \* commands published and not yet carried out, oldest first
    strays,      \* HTTP commands whose caller has given up waiting
    req,         \* each worker's request
    ops, faults, \* counted against the bounds
    \* History variables; no action reads them.
    missed,      \* connected devices whose command was not sent or got lost
    tainted,     \* devices with a write or command lost, late or overtaken
    want         \* the status a device was last given by an answered request

server  == <<conn, subscribed, inbox, strays>>
rows    == <<user, pwd, device>>
vars    == <<addr, rows, server, req, ops, faults, missed, tainted, want>>

Offline == -1
Status  == {"on", "off"}
Steps   == {"idle", "store", "publish", "http"}
Idle    == [pc |-> "idle", op |-> "none", st |-> "on", items |-> <<>>]

\* Requests name a user, or the devices of a batch; st is the status asked
\* for, "off" for every operation that is to end a connection.
Busy(w)   == req[w].pc # "idle"
Target(r) == Head(r.items)

\* Commands to the Server.
ActionAlwaysDisable(r) == CASE r.op = "SetDeviceStatus" -> "disable_device"
                            [] r.op = "KickDevice"      -> "kick_device"
                            [] r.op = "DeleteDevice"    -> "delete_device"
                            [] OTHER                    -> "kick_user"

Action(r) == CASE r.op = "SetDeviceStatus" -> IF r.st = "off" THEN "disable_device"
                                              ELSE "enable_device"
               [] r.op = "KickDevice"      -> "kick_device"
               [] r.op = "DeleteDevice"    -> "delete_device"
               [] OTHER                    -> "kick_user"
Command(r) == [act |-> Action(r), to |-> Target(r)]
Commands   == [act : {"kick_user"}, to : Users] \cup
    [act : {"disable_device", "enable_device", "kick_device", "delete_device"}, to : Devices]

Concerns(c, d) == IF c.act = "kick_user" THEN Owner[d] = c.to ELSE c.to = d
\* Commands that end the connection of d whatever its row says.
Cuts(c, d)     == Concerns(c, d) /\ c.act \in {"kick_user", "kick_device", "disable_device"}
\* Commands that write or remove the row of d.
Writes(c, d)   == c.to = d /\ c.act \in {"disable_device", "enable_device", "delete_device"}

\* Commands that give d a status.
Gives(c, d)     == c.to = d /\ c.act \in {"disable_device", "enable_device"}

CutBy(c)     == {d \in Devices : Cuts(c, d)}
WrittenBy(C) == {d \in Devices : \E c \in C : Writes(c, d)}
Inbox        == {inbox[i] : i \in DOMAIN inbox}
\* The commands that workers are about to send.
HeldBy(W)    == {Command(req[w]) : w \in {v \in W : req[v].pc \in {"publish", "http"}}}
Held         == HeldBy(Workers)

Init ==
    /\ addr \in {"set", "unset"}
    /\ user   = [u \in Users |-> "on"] /\ pwd = [u \in Users |-> 0]
    /\ device = [d \in Devices |-> "on"]
    /\ conn   = [d \in Devices |-> Offline]
    /\ subscribed = "yes" /\ inbox = <<>> /\ strays = {}
    /\ req    = [w \in Workers |-> Idle]
    /\ ops = 0 /\ faults = 0
    /\ missed = {} /\ tainted = {}
    /\ want   = [d \in Devices |-> "none"]

-----------------------------------------------------------------------------
\* Outcomes of a call: done; failed without effect; done, or still to be done,
\* but reported as failed.
Outcomes     == {"ok", "lost", "late"}
TookPlace(o) == o # "lost"
Charge(o)    == IF o = "ok" THEN faults' = faults
                ELSE faults < MaxFaults /\ faults' = faults + 1

\* History.  A device that is not connected any more has missed nothing.
Missing(D) == missed' = {d \in missed \cup D : conn'[d] # Offline}
Taint(D)   == tainted' = tainted \cup D

At(w, step)   == req[w].pc = step
Goto(w, step) == req' = [req EXCEPT ![w].pc = step]

\* The first step of an operation.  DeleteDevice needs the Server's answer and
\* prefers HTTP; the two kicks write nothing.
First(op) == CASE op \in {"KickUserNow", "KickDevice"}    -> "publish"
               [] op = "DeleteDevice" /\ addr = "set"     -> "http"
               [] op = "DeleteDevice" /\ addr = "unset"   -> "publish"
               [] OTHER                                   -> "store"

\* The loop of BatchDeleteDevices and BatchSetDeviceStatus: a failed device
\* does not stop the others.  Every other request has one target.
Rest(r, items) == [r EXCEPT !.items = Tail(items), !.pc = First(r.op)]

NextItemPastEnd(w) ==
    LET r == req[w] IN
    req' = [req EXCEPT ![w] = IF Len(r.items) >= 1 /\ r.op \in DeviceOps
                              THEN Rest(r, r.items) ELSE Idle]
NextItem(w) ==
    LET r == req[w] IN
    req' = [req EXCEPT ![w] = IF Len(r.items) > 1 THEN Rest(r, r.items) ELSE Idle]

Receive(w, op, st, items) ==
    /\ At(w, "idle") /\ op \in Ops
    /\ ops < MaxOps /\ ops' = ops + 1
    /\ req' = [req EXCEPT ![w] = [pc |-> First(op), op |-> op, st |-> st, items |-> items]]
    /\ UNCHANGED <<addr, rows, server, faults, missed, tainted, want>>

ReceiveUserRequest(w, op, st, u) ==
    /\ op \in {"UpdateUser", "UpdateUserStatus"} \/ st = "off"
    /\ Receive(w, op, st, <<u>>)

\* The same device may be named twice by a batch.
ReceiveDeviceRequest(w, op, st, items) ==
    /\ op = "SetDeviceStatus" \/ st = "off"
    /\ op = "KickDevice" => Len(items) = 1
    /\ Receive(w, op, st, items)

-----------------------------------------------------------------------------
(* AdminDataService: the database write.                                   *)

\* What follows a write that changed a row.
NotifiesOnEnable(r) == r.op = "SetDeviceStatus" \/ (r.op # "UpdateUser" /\ r.st = "on")
NotifiesNoReset(r)  == /\ r.op = "SetDeviceStatus" \/ r.st = "off"
                       /\ r.op \notin {"UpdateUser", "ResetUserPassword"}
Notifies(r)         == r.op = "SetDeviceStatus" \/ (r.op # "UpdateUser" /\ r.st = "off")

\* An error, or no affected row, ends the item before any notification.  The
\* history counts what a fault keeps from being sent, and UpdateUser's silence.
Stored(w, op, o, affected) ==
    LET r == req[w] IN
    /\ At(w, "store") /\ r.op = op
    /\ Charge(o)
    /\ IF o = "ok" /\ affected /\ Notifies(r) THEN Goto(w, "publish") ELSE NextItem(w)
    /\ UNCHANGED <<addr, server, ops, want>>
    /\ Missing(IF /\ TookPlace(o) /\ affected /\ r.st = "off"
                  /\ o # "ok" \/ r.op = "UpdateUser"
               THEN CutBy(Command(r)) ELSE {})

\* MySQL counts changed rows.  Updates() also sets updated_at, so that a status
\* that stays as it was affects a row unless the time stamp stays too.
MayAffect(u, st) == IF user[u] = "gone" THEN {FALSE}
                    ELSE IF user[u] = st THEN BOOLEAN ELSE {TRUE}

WriteUserStatus(w, op, o) ==
    LET r == req[w] IN
    /\ At(w, "store") /\ r.op = op
    /\ \E affected \in MayAffect(Target(r), r.st) :
        /\ Stored(w, op, o, affected)
        /\ user' = IF TookPlace(o) /\ affected THEN [user EXCEPT ![Target(r)] = r.st] ELSE user
        /\ UNCHANGED <<pwd, device, tainted>>

UpdateUser(w, o)       == WriteUserStatus(w, "UpdateUser", o)
UpdateUserStatus(w, o) == WriteUserStatus(w, "UpdateUserStatus", o)

ResetUserPassword(w, o) ==
    LET u == Target(req[w]) IN
    /\ Stored(w, "ResetUserPassword", o, user[u] # "gone")
    /\ pwd' = IF TookPlace(o) /\ user[u] # "gone" THEN [pwd EXCEPT ![u] = @ + 1] ELSE pwd
    /\ UNCHANGED <<user, device, tainted>>

DeleteUser(w, o) ==
    LET u == Target(req[w]) IN
    /\ Stored(w, "DeleteUser", o, user[u] # "gone")
    /\ user' = IF TookPlace(o) THEN [user EXCEPT ![u] = "gone"] ELSE user
    /\ UNCHANGED <<pwd, device, tainted>>

\* The devices table has no time stamp of updates: asking for the status the
\* row already has affects no row.
SetDeviceStatus(w, o) ==
    LET r == req[w]
        d == Target(r)
        affected == device[d] \notin {"gone", r.st}
    IN
    /\ Stored(w, "SetDeviceStatus", o, affected)
    /\ device' = IF TookPlace(o) /\ affected THEN [device EXCEPT ![d] = r.st] ELSE device
    /\ Taint(IF o = "late" THEN {d} ELSE {})
    /\ UNCHANGED <<user, pwd>>

-----------------------------------------------------------------------------
(* ServerNotifier.                                                         *)

\* SetDeviceStatus reports success whether or not the command got through.  Of
\* a device that was deleted meanwhile nothing is wanted.
Wanted(r) == IF r.op = "SetDeviceStatus" /\ device[Target(r)] # "gone"
             THEN [want EXCEPT ![Target(r)] = r.st] ELSE want

Arrived(c) == IF subscribed = "yes" THEN Append(inbox, c) ELSE inbox

\* PUBLISH succeeds with nobody listening.
Publish(w, o) ==
    LET r == req[w]
        c == Command(r)
        lostForGood == (o # "ok" /\ addr = "unset") \/ (o = "ok" /\ subscribed = "no")
    IN
    /\ At(w, "publish")
    /\ Charge(o)
    /\ inbox' = IF TookPlace(o) THEN Arrived(c) ELSE inbox
    /\ IF o # "ok" /\ addr = "set" THEN Goto(w, "http") /\ UNCHANGED want
       ELSE NextItem(w) /\ want' = Wanted(r)
    /\ UNCHANGED <<addr, rows, conn, subscribed, strays, ops>>
    /\ Missing(IF lostForGood THEN CutBy(c) ELSE {})
    /\ Taint(IF lostForGood THEN WrittenBy({c}) ELSE {})

\* What the Server does: it kicks, writes the row, and refuses to delete a
\* device that is not disabled (409).
Deletes(c, d) == c.act = "delete_device" /\ c.to = d /\ device[d] = "off"

Perform(c) ==
    /\ device' = [d \in Devices |->
                    IF Deletes(c, d) THEN "gone"
                    ELSE IF c.to # d \/ device[d] = "gone" THEN device[d]
                    ELSE CASE c.act = "disable_device" -> "off"
                           [] c.act = "enable_device"  -> "on"
                           [] OTHER                    -> device[d]]
    /\ conn' = [d \in Devices |-> IF Cuts(c, d) \/ Deletes(c, d) THEN Offline ELSE conn[d]]

\* A deleted device's status is nobody's wish any more.
Forgotten(c, wishes) == [d \in Devices |-> IF Deletes(c, d) THEN "none" ELSE wishes[d]]

\* The devices for which a published command that says otherwise comes after c.
Overtaken(c) == {d \in Devices : Gives(c, d) /\ \E b \in Inbox \ {c} : Gives(b, d)}

\* The HTTP call: answered, never made, or given up after five seconds while
\* the Server may still carry it out.
CommandViaHTTP(w, o) ==
    LET r == req[w]
        c == Command(r)
    IN
    /\ At(w, "http")
    /\ Charge(o)
    /\ IF o = "ok" THEN Perform(c) ELSE UNCHANGED <<device, conn>>
    /\ strays' = IF o = "late" THEN strays \cup {c} ELSE strays
    /\ want'   = IF o = "ok" THEN Forgotten(c, Wanted(r)) ELSE Wanted(r)
    /\ NextItem(w)
    /\ UNCHANGED <<addr, user, pwd, subscribed, inbox, ops>>
    /\ Missing(IF o = "ok" THEN {} ELSE CutBy(c))
    /\ Taint(IF o = "ok" THEN Overtaken(c) ELSE WrittenBy({c}))

-----------------------------------------------------------------------------
(* The Server, the devices and the faults.                                 *)

Deliver ==
    /\ inbox # <<>>
    /\ Perform(Head(inbox))
    /\ inbox' = Tail(inbox)
    /\ want'  = Forgotten(Head(inbox), want)
    /\ UNCHANGED <<addr, user, pwd, subscribed, strays, req, ops, faults, tainted>>
    /\ Missing({})

DeliverStray ==
    \E c \in strays :
        /\ Perform(c)
        /\ strays' = strays \ {c}
        /\ want'   = Forgotten(c, want)
        /\ UNCHANGED <<addr, user, pwd, subscribed, inbox, req, ops, faults, tainted>>
        /\ Missing({})

\* The Server refuses a device whose user is gone or disabled, or which is
\* disabled itself, and registers one it does not know.
Connect(d) ==
    /\ conn[d] = Offline
    /\ user[Owner[d]] = "on" /\ device[d] # "off"
    /\ conn'   = [conn EXCEPT ![d] = pwd[Owner[d]]]
    /\ device' = [device EXCEPT ![d] = "on"]
    /\ UNCHANGED <<addr, user, pwd, subscribed, inbox, strays, req, ops, faults,
                   missed, tainted, want>>

HangUp(d) ==
    /\ conn[d] # Offline
    /\ conn' = [conn EXCEPT ![d] = Offline]
    /\ UNCHANGED <<addr, rows, subscribed, inbox, strays, req, ops, faults, tainted, want>>
    /\ Missing({})

\* The Server's connection to Redis breaks: what it has not read is lost.
Unsubscribe ==
    /\ subscribed = "yes" /\ subscribed' = "no"
    /\ Charge("lost")
    /\ inbox' = <<>>
    /\ UNCHANGED <<addr, rows, conn, strays, req, ops, want>>
    /\ Missing(UNION {CutBy(c) : c \in Inbox})
    /\ Taint(WrittenBy(Inbox))

Subscribe ==
    /\ subscribed = "no" /\ subscribed' = "yes"
    /\ UNCHANGED <<addr, rows, conn, inbox, strays, req, ops, faults, missed, tainted, want>>

ServerRestart ==
    /\ Charge("lost")
    /\ conn' = [d \in Devices |-> Offline]
    /\ subscribed' = "yes" /\ inbox' = <<>> /\ strays' = {}
    /\ UNCHANGED <<addr, rows, req, ops, want>>
    /\ Missing({})
    /\ Taint(WrittenBy(Inbox \cup strays))

\* The admin process dies between the write and the notification.
Crash ==
    /\ Charge("lost")
    /\ req' = [w \in Workers |-> Idle]
    /\ UNCHANGED <<addr, rows, server, ops, want>>
    /\ Missing(UNION {CutBy(c) : c \in Held})
    /\ Taint(WrittenBy(Held))

-----------------------------------------------------------------------------
Batches == UNION {[1 .. n -> Devices] : n \in 1 .. MaxBatch}

\* What a request does once it has begun.
Work(w) ==
    \E o \in Outcomes :
        \/ UpdateUser(w, o) \/ UpdateUserStatus(w, o) \/ ResetUserPassword(w, o)
        \/ DeleteUser(w, o) \/ SetDeviceStatus(w, o)
        \/ Publish(w, o) \/ CommandViaHTTP(w, o)

Next ==
    \/ \E w \in Workers, st \in Status :
         \/ \E op \in UserOps, u \in Users : ReceiveUserRequest(w, op, st, u)
         \/ \E op \in DeviceOps, items \in Batches : ReceiveDeviceRequest(w, op, st, items)
    \/ \E w \in Workers : Work(w)
    \/ Deliver \/ DeliverStray
    \/ \E d \in Devices : Connect(d) \/ HangUp(d)
    \/ Unsubscribe \/ Subscribe \/ ServerRestart \/ Crash

\* A goroutine goes on to its end (every call it makes returns) and a
\* subscribed Server reads what it is sent.  Nothing else need happen.
Fairness == WF_vars(Deliver) /\ \A w \in Workers : WF_vars(Work(w))

Spec == Init /\ [][Next]_vars /\ Fairness

-----------------------------------------------------------------------------
(* Properties.                                                             *)

\* Types; a Server that is not subscribed has nothing to read, and a request
\* under way has a target its operation is about.
TypeOK ==
    /\ addr \in {"set", "unset"} /\ subscribed \in {"yes", "no"}
    /\ user \in [Users -> Status \cup {"gone"}] /\ pwd \in [Users -> 0 .. MaxOps]
    /\ device \in [Devices -> Status \cup {"gone"}]
    /\ conn \in [Devices -> {Offline} \cup (0 .. MaxOps)]
    /\ inbox \in Seq(Commands) /\ strays \subseteq Commands
    /\ req \in [Workers -> [pc : Steps, op : Ops \cup {"none"}, st : Status,
                            items : Seq(Users \cup Devices)]]
    /\ ops \in 0 .. MaxOps /\ faults \in 0 .. MaxFaults
    /\ missed \subseteq Devices /\ tainted \subseteq Devices
    /\ want \in [Devices -> Status \cup {"none"}]
    /\ subscribed = "no" => inbox = <<>>
    /\ \A w \in Workers : Busy(w) =>
         /\ req[w].items # <<>>
         /\ req[w].op \in UserOps  => req[w].items[1] \in Users
         /\ req[w].op \in DeviceOps => \A i \in DOMAIN req[w].items : req[w].items[i] \in Devices

\* A connection the Server would not accept now.
MustGo(d) ==
    /\ conn[d] # Offline
    /\ \/ user[Owner[d]] # "on" \/ device[d] = "off" \/ conn[d] # pwd[Owner[d]]

CutPending(d) == \E c \in Held \cup Inbox : Cuts(c, d)

\* A device that is still connected although its user was disabled or deleted,
\* its password reset or the device disabled is about to be cut off, or its
\* command was lost: the row is written before the command is sent, so that no
\* reconnect slips between the two (data_service.go:266-331, 513-530).
OnlineExplained == \A d \in Devices : MustGo(d) => CutPending(d) \/ d \in missed

Place(d) == IF conn[d] = Offline THEN "away"
            ELSE IF d \in missed THEN "forgotten"
            ELSE IF MustGo(d) THEN "due" ELSE "welcome"

\* And it is cut off in the end, whatever is queued before: to who looks at the
\* connections only, the writes, commands and deliveries are those of Presence
\* (data_service.go:266-331, server_notifier.go:74-99).
Connections == INSTANCE Presence WITH place <- [d \in Devices |-> Place(d)]
KeepsPresence == Connections!Spec

\* Once the Server has read everything sent for a device, its row has the status
\* that the last answered SetDeviceStatus of it asked for, although the admin
\* and the Server both write the row and the writes, commands and answers of
\* several operators interleave as they like (data_service.go:513-530,
\* server_notifier.go:74-99).  Not so for a device with a write or a command
\* that was lost or late, or where an HTTP fallback overtook a published
\* command.  It says nothing of requests that stored nothing: they answer an
\* error and notify nobody (data_service.go:517-522).
SettledStatus ==
    \A d \in Devices \ tainted :
        want[d] # "none" /\ device[d] # "gone" /\ d \notin WrittenBy(Held \cup Inbox \cup strays)
            => device[d] = want[d]

\* README.md:255: disabling a user kicks the user's connections.
DisabledUserKicked ==
    \A d \in Devices : conn[d] # Offline /\ user[Owner[d]] = "off" => CutPending(d)

=============================================================================
