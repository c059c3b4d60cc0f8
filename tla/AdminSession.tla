---------------------------- MODULE AdminSession ----------------------------
(***************************************************************************)
(* Administrator sessions of ClipSync-Admin: login, the two middlewares    *)
(* every other request passes (Sign, JWTAuth with its in-place renewal),   *)
(* logout and the change of one's own password.                            *)
(*                                                                         *)
(* A request is a goroutine of the Go server (a worker here) that makes    *)
(* one Redis or MySQL call per step; other requests and the other          *)
(* operators' edits of the administrator row run between any two of its    *)
(* steps.  A Redis key is its expiry: 0 says the key does not exist.  The  *)
(* browser (clients) is outside the repository and is modelled from what   *)
(* the handlers send it.                                                   *)
(*                                                                         *)
(* The login-error counter that Login also keeps is LoginGuard's subject.  *)
(***************************************************************************)
EXTENDS Integers, FiniteSets

CONSTANTS
    Admins,           \* rows of admin_rbac_admin
    Clients,          \* browsers
    Workers,          \* request goroutines alive at the same time
    Jti,              \* token identifiers; one is used up by each Generate
    None,             \* no token
    Ops,              \* what clients call behind the middlewares
    RefreshOnAccess,  \* jwt.refresh_on_access
    Ttl,              \* jwt.ttl, in ticks
    LoginSpan,        \* a login in flight sees at most this many ticks
    MaxTime,          \* bound: the clock stops here
    MaxFaults,        \* bound: failed Redis calls, lost answers and crashes
    MaxEdits          \* bound: changes of the administrator rows

ASSUME NoneAssumption  == None \notin Jti
ASSUME OpsAssumption   == Ops \subseteq {"work", "logout", "chpass"}
ASSUME FlagAssumption  == RefreshOnAccess \in BOOLEAN
ASSUME TtlAssumption   == Ttl \in Nat \ {0}
ASSUME SpanAssumption  == LoginSpan \in Nat
ASSUME BoundAssumption == MaxTime \in Nat /\ MaxFaults \in Nat /\ MaxEdits \in Nat

VARIABLES
    now,      \* the clock
    faults,   \* faults so far, against MaxFaults
    edits,    \* changes of administrator rows so far, against MaxEdits
    db,       \* MySQL: each administrator's status and password version
    jwt,      \* what each signed token says: its administrator and expiry
    white,    \* Redis admin:token:<jti>, by its expiry
    secret,   \* Redis admin:sign_secret:<adminID>
    client,   \* what each browser stores: token and sign secret
    req,      \* each worker's request
    \* History variables; no action reads them.
    off,      \* when the administrator stopped being active
    stale,    \* when each password version was replaced
    revoked,  \* token ids a DEL has removed
    closed,   \* sessions whose logout answered without any fault
    cut,      \* browsers that lost an answer since their last login
    undone    \* token ids a logout removed, and answered that it had failed

store   == <<db, edits, jwt, white, secret>>
history == <<off, stale, revoked, closed, cut, undone>>
vars    == <<now, faults, edits, db, jwt, white, secret, client, req,
             off, stale, revoked, closed, cut, undone>>

Time     == 0 .. MaxTime
Expiry   == 0 .. (MaxTime + Ttl)
Versions == 0 .. MaxEdits
MaybeJti == Jti \cup {None}

\* A login waits at "l_token", "l_secret" and "l_reply"; every other request
\* at the steps that follow "sign".
LoginSteps == {"l_token", "l_secret", "l_reply"}
Steps  == {"idle", "sign", "auth", "refresh", "r_set", "r_del",
          "verify", "write", "clear", "delete", "reply"} \cup LoginSteps

\* A session is named after the token its login generated: sec is that name
\* in a request, a browser and the Redis key.  met says whether the request
\* met a fault; ck is the time of the login's check of the row.
NoSecret == [id |-> None, exp |-> 0, pwd |-> 0]
NoLogin  == [tok |-> None, sec |-> None]
Idle     == [pc |-> "idle", op |-> "none", c |-> None, a |-> None, jti |-> None,
             sec |-> None, new |-> None, ck |-> 0, pwd |-> 0, met |-> "ok"]

Request == [pc : Steps, op : Ops \cup {"none", "login", "work"},
            c : Clients \cup {None}, a : Admins \cup {None},
            jti : MaybeJti, sec : MaybeJti, new : MaybeJti,
            ck : Time, pwd : Versions, met : {"ok", "fault"}]
Row     == [st : {"on", "off", "del"}, pwd : Versions]
Secret  == [id : MaybeJti, exp : Expiry, pwd : Versions]

Init ==
    /\ now = 0 /\ faults = 0 /\ edits = 0
    /\ db      \in [Admins -> [st : {"on", "off"}, pwd : {0}]]
    /\ jwt     = [j \in Jti |-> [adm |-> None, exp |-> 0]]
    /\ white   = [j \in Jti |-> 0]
    /\ secret  = [a \in Admins |-> NoSecret]
    /\ client  = [c \in Clients |-> NoLogin]
    /\ req     = [w \in Workers |-> Idle]
    /\ off     = [a \in Admins |-> 0]
    /\ stale   = [a \in Admins |-> [v \in Versions |-> 0]]
    /\ revoked = {} /\ closed = {} /\ undone = {}
    /\ cut     = [c \in Clients |-> FALSE]

-----------------------------------------------------------------------------
(* Outcomes of one call to Redis or MySQL: done; failed without effect;    *)
(* done, but reported as failed (a timeout or a broken connection).        *)
Outcomes    == {"ok", "lost", "late"}
TookPlace(o) == o # "lost"

Charge(o) == IF o = "ok" THEN faults' = faults
             ELSE faults < MaxFaults /\ faults' = faults + 1

Met(r, o)    == IF o = "ok" THEN r.met ELSE "fault"
Moved(r, o, step) == [r EXCEPT !.pc = step, !.met = Met(r, o)]

Goto(w, o, step) == req' = [req EXCEPT ![w] = Moved(req[w], o, step)]
\* An error answer: the operation has not happened as far as the caller knows.
Refused(r, o) == [Moved(r, o, "reply") EXCEPT !.op = "work"]
Refuse(w, o)  == req' = [req EXCEPT ![w] = Refused(req[w], o)]
Finish(w) == req' = [req EXCEPT ![w] = Idle]

\* Keys.  SET writes the full lifetime; EXPIRE does nothing to a key that is
\* gone; DEL removes it.
Lifetime      == now + Ttl
Expired(e)    == e <= now
Renewed(e)    == IF e = 0 THEN 0 ELSE Lifetime
FreshJti(j)   == jwt[j].exp = 0

-----------------------------------------------------------------------------
(* Login: check of the row, SET of the token, SET of the sign secret.      *)

LoginCheck(w, c, a) ==
    /\ req[w].pc = "idle"
    /\ db[a].st = "on"
    /\ \E j \in Jti :
         /\ FreshJti(j)
         /\ jwt' = [jwt EXCEPT ![j] = [adm |-> a, exp |-> Lifetime]]
         /\ req' = [req EXCEPT ![w] =
              [Idle EXCEPT !.pc = "l_token", !.op = "login", !.c = c, !.a = a,
                           !.jti = j, !.sec = j, !.ck = now, !.pwd = db[a].pwd]]
    /\ UNCHANGED <<now, faults, edits, db, white, secret, client, history>>

LoginSetToken(w, o) ==
    LET r == req[w] IN
    /\ r.pc = "l_token"
    /\ Charge(o)
    /\ white' = IF TookPlace(o) THEN [white EXCEPT ![r.jti] = Lifetime] ELSE white
    /\ IF o = "ok" THEN Goto(w, o, "l_secret") ELSE Finish(w)
    /\ UNCHANGED <<now, edits, db, jwt, secret, client, history>>

DoubleLifetime   == now + 2 * Ttl
SecretExpiry     == Lifetime

IssueSignSecret(w, o) ==
    LET r == req[w] IN
    /\ r.pc = "l_secret"
    /\ Charge(o)
    /\ secret' = IF TookPlace(o)
                 THEN [secret EXCEPT ![r.a] = [id  |-> r.sec, exp |-> SecretExpiry,
                                               pwd |-> r.pwd]]
                 ELSE secret
    /\ IF o = "ok" THEN Goto(w, o, "l_reply") ELSE Finish(w)
    /\ UNCHANGED <<now, edits, db, jwt, white, client, history>>

LoginReply(w) ==
    LET r == req[w] IN
    /\ r.pc = "l_reply"
    /\ client' = [client EXCEPT ![r.c] = [tok |-> r.jti, sec |-> r.sec]]
    /\ cut'    = [cut EXCEPT ![r.c] = FALSE]
    /\ Finish(w)
    /\ UNCHANGED <<now, faults, store, off, stale, revoked, closed, undone>>

-----------------------------------------------------------------------------
(* Any other request: Sign, then JWTAuth, then the handler.                *)

Sent(c, op, a, j, s) == [Idle EXCEPT !.pc = "sign", !.op = op, !.c = c, !.a = a,
                                     !.jti = j, !.sec = s]

\* (A request sent with an expired token is refused by Sign without effect.)
SendRequest(w, c, op) ==
    /\ req[w].pc = "idle"
    /\ client[c].tok # None /\ ~Expired(jwt[client[c].tok].exp)
    /\ LET j == client[c].tok IN
         req' = [req EXCEPT ![w] = Sent(c, op, jwt[j].adm, j, client[c].sec)]
    /\ UNCHANGED <<now, faults, store, client, history>>

\* The signature verifies: the token parses and the secret under the
\* administrator's key is the one the request was signed with.
SignatureOk(r) ==
    /\ ~Expired(jwt[r.jti].exp)
    /\ secret[r.a].exp # 0
    /\ secret[r.a].id = r.sec

\* A failed GET leaves the secret empty and the request is refused.
Sign(w, o) ==
    LET r == req[w] IN
    /\ r.pc = "sign"
    /\ Charge(o)
    /\ IF o = "ok" /\ SignatureOk(r) THEN Goto(w, o, "auth") ELSE Finish(w)
    /\ UNCHANGED <<now, store, client, history>>

\* Where a request goes after the middlewares.  The other handlers do nothing
\* to a session: their answer is all that is left.
Handler(op) == CASE op = "logout" -> "clear"
                 [] op = "chpass" -> "verify"
                 [] OTHER         -> "reply"

TokenActive(r) == ~Expired(jwt[r.jti].exp) /\ white[r.jti] # 0

JWTAuth(w, o) ==
    LET r == req[w] IN
    /\ r.pc = "auth"
    /\ Charge(o)
    /\ IF o = "ok" /\ TokenActive(r)
       THEN Goto(w, o, IF RefreshOnAccess THEN "refresh" ELSE Handler(r.op))
       ELSE Finish(w)
    /\ UNCHANGED <<now, store, client, history>>

\* remaining > 0 && remaining < ttl/2
DueForRenewal(j) ==
    LET remaining == jwt[j].exp - now IN remaining > 0 /\ 2 * remaining < Ttl

RefreshWith(w, o, kept, touched) ==
    LET r == req[w] IN
    /\ r.pc = "refresh"
    /\ Charge(o)
    /\ white' = IF TookPlace(o) THEN [white EXCEPT ![r.jti] = kept] ELSE white
    /\ secret' = touched
    /\ Goto(w, o, IF DueForRenewal(r.jti) THEN "r_set" ELSE Handler(r.op))
    /\ UNCHANGED <<now, edits, db, jwt, client, history>>

RefreshBySet(w, o)      == RefreshWith(w, o, Lifetime, secret)
RefreshSecretToo(w, o)  == RefreshWith(w, o, Renewed(white[req[w].jti]),
    [secret EXCEPT ![req[w].a].exp = Renewed(@)])
RefreshToken(w, o)      == RefreshWith(w, o, Renewed(white[req[w].jti]), secret)

-----------------------------------------------------------------------------
(* Reissue: Generate and SET the new token id, then DEL the old one.       *)

\* An error of the SET ends the renewal: the request goes on with its token.
ReissueSetOr(w, o, j, onError) ==
    LET r == req[w] IN
    /\ r.pc = "r_set"
    /\ FreshJti(j)
    /\ Charge(o)
    /\ jwt'   = [jwt EXCEPT ![j] = [adm |-> r.a, exp |-> Lifetime]]
    /\ white' = IF TookPlace(o) THEN [white EXCEPT ![j] = Lifetime] ELSE white
    /\ req'   = [req EXCEPT ![w] = IF o = "ok"
                    THEN [Moved(r, o, "r_del") EXCEPT !.new = j]
                    ELSE Moved(r, o, onError)]
    /\ UNCHANGED <<now, edits, db, secret, client, history>>

ReissueSetNoReturn(w, o, j) == ReissueSetOr(w, o, j, "r_del")
ReissueSet(w, o, j)         == ReissueSetOr(w, o, j, Handler(req[w].op))

\* DEL of the token id a request came with.
DelToken(w, o) ==
    LET j == req[w].jti IN
    /\ Charge(o)
    /\ white'   = IF TookPlace(o) THEN [white EXCEPT ![j] = 0] ELSE white
    /\ revoked' = IF TookPlace(o) THEN revoked \cup {j} ELSE revoked
    /\ UNCHANGED <<now, edits, db, jwt, secret, client, off, stale, closed, cut>>

\* Reissue ignores its error.
ReissueDel(w, o) ==
    /\ req[w].pc = "r_del"
    /\ DelToken(w, o)
    /\ Goto(w, o, Handler(req[w].op))
    /\ UNCHANGED undone

-----------------------------------------------------------------------------
(* Handlers.                                                               *)

\* ChangeOwnPassword's read of the row and bcrypt comparison; the password
\* offered may be wrong, and then the answer is an error and nothing else.
VerifyOldPassword(w) ==
    LET r == req[w] IN
    /\ r.pc = "verify"
    /\ \/ db[r.a].st # "del" /\ Goto(w, "ok", "write")
       \/ Refuse(w, "ok")
    /\ UNCHANGED <<now, faults, store, client, history>>

Edit == edits < MaxEdits /\ edits' = edits + 1

NewPassword(a) ==
    /\ Edit
    /\ db'    = [db EXCEPT ![a].pwd = @ + 1]
    /\ stale' = [stale EXCEPT ![a][db[a].pwd] = now]

\* UPDATE of the password; an error is answered and the session stays.
WritePassword(w, o) ==
    LET r == req[w] IN
    /\ r.pc = "write"
    /\ Charge(o)
    /\ IF TookPlace(o) THEN NewPassword(r.a) ELSE UNCHANGED <<db, edits, stale>>
    /\ IF o = "ok" THEN Goto(w, o, "clear")
       ELSE Refuse(w, o)
    /\ UNCHANGED <<now, jwt, white, secret, client, off, revoked, closed, cut, undone>>

\* Logout, first call: DEL of the sign secret, its error ignored.
NotCleared(s, a) == s
Cleared(s, a)    == [s EXCEPT ![a] = NoSecret]

ClearSignSecret(w, o) ==
    LET r == req[w] IN
    /\ r.pc = "clear"
    /\ Charge(o)
    /\ secret' = IF TookPlace(o) THEN Cleared(secret, r.a) ELSE secret
    /\ Goto(w, o, "delete")
    /\ UNCHANGED <<now, edits, db, jwt, white, client, history>>

\* Logout, second call: DEL of the token id the request came with, also when
\* JWTAuth has just replaced it.  The Logout handler answers its error;
\* ChangePassword ignores it and answers that all is well.
LogoutDel(w, o) ==
    LET r == req[w]
        failed == r.op = "logout" /\ o # "ok"
    IN
    /\ r.pc = "delete"
    /\ DelToken(w, o)
    /\ IF failed THEN Refuse(w, o) ELSE Goto(w, o, "reply")
    /\ undone' = IF failed /\ TookPlace(o) THEN undone \cup {r.jti} ELSE undone

\* The answer reaches the browser: it adopts the renewed token, or forgets its
\* session once a logout or a change of password is answered as done.
Reply(w) ==
    LET r == req[w] IN
    /\ r.pc = "reply"
    /\ client' = IF r.op # "work" THEN [client EXCEPT ![r.c] = NoLogin]
                 ELSE IF r.new # None THEN [client EXCEPT ![r.c].tok = r.new]
                 ELSE client
    /\ closed' = IF r.op # "work" /\ r.met = "ok" THEN closed \cup {r.sec} ELSE closed
    /\ Finish(w)
    /\ UNCHANGED <<now, faults, store, off, stale, revoked, cut, undone>>

-----------------------------------------------------------------------------
(* The other operators' edits of the administrator rows (RBACService).     *)

Deactivate(a, st) ==
    /\ Edit
    /\ db'  = [db EXCEPT ![a].st = st]
    /\ off' = IF db[a].st = "on" THEN [off EXCEPT ![a] = now] ELSE off
    /\ UNCHANGED <<now, faults, jwt, white, secret, client, req,
                   stale, revoked, closed, cut, undone>>

\* UpdateAdminStatus, and UpdateAdmin's status and is_lock.
DisableAdmin(a) == db[a].st = "on" /\ Deactivate(a, "off")
DeleteAdmin(a)  == db[a].st # "del" /\ Deactivate(a, "del")
EnableAdmin(a) ==
    /\ db[a].st = "off"
    /\ Edit
    /\ db' = [db EXCEPT ![a].st = "on"]
    /\ UNCHANGED <<now, faults, jwt, white, secret, client, req, history>>

ResetAdminPassword(a) ==
    /\ db[a].st # "del"
    /\ NewPassword(a)
    /\ UNCHANGED <<now, faults, jwt, white, secret, client, req,
                   off, revoked, closed, cut, undone>>

-----------------------------------------------------------------------------
(* The environment: time, lost answers, the death of the process.          *)

\* Redis drops the keys whose time has come.  A login in flight keeps the
\* clock from running more than LoginSpan past its check.
Tick ==
    /\ now < MaxTime
    /\ \A w \in Workers :
         req[w].pc \in {"l_token", "l_secret"} => now < req[w].ck + LoginSpan
    /\ now'    = now + 1
    /\ white'  = [j \in Jti |-> IF white[j] <= now + 1 THEN 0 ELSE white[j]]
    /\ secret' = [a \in Admins |->
                    IF secret[a].exp <= now + 1 THEN NoSecret ELSE secret[a]]
    /\ UNCHANGED <<faults, edits, db, jwt, client, req, history>>

LoseReply(w) ==
    /\ req[w].pc \in {"l_reply", "reply"}
    /\ Charge("lost")
    /\ cut' = [cut EXCEPT ![req[w].c] = TRUE]
    /\ Finish(w)
    /\ UNCHANGED <<now, store, client, off, stale, revoked, closed, undone>>

Crash ==
    /\ Charge("lost")
    /\ cut' = [c \in Clients |-> cut[c] \/ \E w \in Workers :
                                   req[w].pc # "idle" /\ req[w].c = c]
    /\ req' = [w \in Workers |-> Idle]
    /\ UNCHANGED <<now, store, client, off, stale, revoked, closed, undone>>

-----------------------------------------------------------------------------
WorkerStep(w) ==
    \/ \E c \in Clients, a \in Admins : LoginCheck(w, c, a)
    \/ \E c \in Clients, op \in Ops : SendRequest(w, c, op)
    \/ \E o \in Outcomes :
         \/ LoginSetToken(w, o) \/ IssueSignSecret(w, o)
         \/ Sign(w, o) \/ JWTAuth(w, o) \/ RefreshToken(w, o)
         \/ \E j \in Jti : ReissueSet(w, o, j)
         \/ ReissueDel(w, o)
         \/ WritePassword(w, o) \/ ClearSignSecret(w, o) \/ LogoutDel(w, o)
    \/ VerifyOldPassword(w) \/ LoginReply(w) \/ Reply(w) \/ LoseReply(w)

OperatorStep(a) ==
    DisableAdmin(a) \/ DeleteAdmin(a) \/ EnableAdmin(a) \/ ResetAdminPassword(a)

Next ==
    \/ \E w \in Workers : WorkerStep(w)
    \/ \E a \in Admins : OperatorStep(a)
    \/ Tick
    \/ Crash

Spec == Init /\ [][Next]_vars

-----------------------------------------------------------------------------
(* Properties.                                                             *)

\* Every variable keeps its type, and Redis holds no key past its expiry nor
\* one that outlives a full lifetime from now (SET and EXPIRE with jwtMgr.TTL).
TypeOK ==
    /\ now \in Time /\ faults \in 0 .. MaxFaults /\ edits \in Versions
    /\ db \in [Admins -> Row]
    /\ jwt \in [Jti -> [adm : Admins \cup {None}, exp : Expiry]]
    /\ white \in [Jti -> Expiry] /\ secret \in [Admins -> Secret]
    /\ client \in [Clients -> [tok : MaybeJti, sec : MaybeJti]]
    /\ req \in [Workers -> Request]
    /\ off \in [Admins -> Time] /\ stale \in [Admins -> [Versions -> Time]]
    /\ revoked \subseteq Jti /\ closed \subseteq MaybeJti /\ undone \subseteq Jti
    /\ cut \in [Clients -> BOOLEAN]
    /\ \A j \in Jti : white[j] # 0 => white[j] > now /\ white[j] <= Lifetime
    /\ \A a \in Admins :
         secret[a].exp # 0 => secret[a].exp > now /\ secret[a].exp <= Lifetime

\* A token id that Logout or Reissue has removed from the whitelist never
\* returns to it, whatever requests with the same token are still on their way
\* through JWTAuth (their EXPIRE comes after the DEL).
RevokedStaysRevoked == \A j \in revoked : white[j] = 0

\* The sign secret of an administrator who was disabled, locked or deleted runs
\* out at most one lifetime (and the length of a login that was under way)
\* after the deactivation: nothing but a login renews it, so Sign cuts the
\* administrator off although JWTAuth and RBAC never look at the row's status.
DisabledAdminCutOff ==
    \A a \in Admins : db[a].st # "on" /\ secret[a].exp # 0
                         => secret[a].exp <= off[a] + LoginSpan + Ttl

\* The same for a session opened with a password that has been replaced since,
\* by ResetAdminPassword or by a change of password from another session: the
\* login may even store its secret after the change, but it runs out in time.
OldPasswordCutOff ==
    \A a \in Admins :
        LET v == secret[a].pwd IN
        secret[a].exp # 0 /\ v < db[a].pwd
            => secret[a].exp <= stale[a][v] + LoginSpan + Ttl

\* The token of a browser that missed no answer is whitelisted as long as it is
\* valid, unless the answer with its replacement is on its way, or that of its
\* own logout, or its logout removed the token and yet answered CodeCacheError
\* (auth_handler.go:43-46).  The order of Reissue, the new id stored before the
\* old one is removed, strands nobody, however the requests of a page interleave
\* and calls fail (auth_service.go:190-202).  It is about the token; whether the
\* secret that signs is still there as well is what RenewalKeepsSession asks.
NoStrandedClient ==
    \A c \in Clients :
        LET j == client[c].tok IN
        j # None /\ ~cut[c] /\ ~Expired(jwt[j].exp) =>
            \/ white[j] # 0 \/ j \in undone
            \/ \E w \in Workers :
                 /\ req[w].c = c /\ req[w].jti = j
                 /\ \/ req[w].new # None /\ white[req[w].new] # 0
                    \/ req[w].pc = "reply" /\ req[w].op \in {"logout", "chpass"}

\* Once a logout or a change of password has been answered without a fault, the
\* secret of that session is never again the one Sign compares with, although
\* renewed tokens of the session may still be whitelisted.
LoggedOutSessionClosed ==
    \A a \in Admins : secret[a].exp # 0 => secret[a].id \notin closed

\* What auth_service.go:160 and :188 say of the secret and of the renewal: while
\* a browser holds a usable token, its administrator's secret is there to sign.
RenewalKeepsSession ==
    \A c \in Clients :
        LET j == client[c].tok IN
        j # None /\ ~Expired(jwt[j].exp) /\ white[j] # 0
            => secret[jwt[j].adm].exp # 0

\* A session is opened by the login that generated its name, and stands while
\* its secret is stored.
OpenAt(j)    == {a \in Admins : secret[a].exp # 0 /\ secret[a].id = j}
BeingOpened(j) == \E w \in Workers : req[w].pc \in {"l_token", "l_secret"} /\ req[w].sec = j
Stage(j)     == IF OpenAt(j) # {} THEN "open" ELSE IF BeingOpened(j) THEN "opening"
                ELSE IF FreshJti(j) THEN "unused" ELSE "ended"
Deadline(j)  == IF OpenAt(j) = {} THEN 0 ELSE secret[CHOOSE a \in OpenAt(j) : TRUE].exp

\* Whatever requests, renewals, logouts and edits do to tokens and secrets, each
\* session is opened at most once, its deadline does not move, and it does not
\* come back (auth_service.go:104-123, 152-202).
Sessions     == INSTANCE SessionLife WITH
                    Sessions <- Jti, stage <- [j \in Jti |-> Stage(j)],
                    deadline <- [j \in Jti |-> Deadline(j)]
KeepsSessionLife == Sessions!Spec

=============================================================================
