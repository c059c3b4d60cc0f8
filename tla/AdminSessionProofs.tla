-------------------------- MODULE AdminSessionProofs --------------------------
(***************************************************************************)
(* Theorems about AdminSession for every value of its constants: types;    *)
(* that what was revoked stays revoked and who was shut out stays out;     *)
(* that the token of a browser that missed no answer stays whitelisted;    *)
(* that sessions implement SessionLife.                                    *)
(***************************************************************************)
EXTENDS AdminSession, TLAPS

\* The steps of a login between its check of the row and its last SET.
Opening == {"l_token", "l_secret"}

\* A request at work has a token, a browser and an administrator.
Busy ==
    /\ \A w \in Workers : req[w].pc # "idle" =>
         req[w].jti \in Jti /\ req[w].c \in Clients /\ req[w].a \in Admins
    /\ \A j \in Jti : jwt[j].exp # 0 => jwt[j].adm \in Admins

\* A password version counts no more changes than there were.
Counted == \A a \in Admins : db[a].pwd <= edits

\* Whatever token id is seen anywhere has been generated.
Issued ==
    /\ \A w \in Workers : \A j \in {req[w].jti, req[w].new} \cap Jti : jwt[j].exp # 0
    /\ \A c \in Clients : client[c].tok \in Jti => jwt[client[c].tok].exp # 0
    /\ \A j \in revoked : jwt[j].exp # 0

\* Until its SET, the token id of a login is known to that login alone.
Private ==
    \A w \in Workers : req[w].pc = "l_token" =>
        /\ req[w].jti \notin revoked
        /\ \A c \in Clients : client[c].tok # req[w].jti
        /\ \A x \in Workers : req[x].new # req[w].jti
        /\ \A x \in Workers \ {w} : req[x].jti # req[w].jti

\* A login in flight is no older than LoginSpan, and what its check saw was
\* still so at that time.
Timely ==
    \A w \in Workers : req[w].pc \in Opening =>
        LET r == req[w] IN
        /\ r.ck <= now /\ now <= r.ck + LoginSpan
        /\ db[r.a].st # "on" => r.ck <= off[r.a]
        /\ r.pwd < db[r.a].pwd => r.ck <= stale[r.a][r.pwd]

IInv == /\ TypeOK /\ Busy /\ Counted /\ Issued /\ Private /\ Timely
        /\ RevokedStaysRevoked /\ DisabledAdminCutOff /\ OldPasswordCutOff

-----------------------------------------------------------------------------
(* How the requests move.                                                  *)

\* Worker w moves on: it learns no token id and is not opening a session.
Quiet(w) ==
    /\ req' \in [Workers -> Request]
    /\ \A x \in Workers \ {w} : req'[x] = req[x]
    /\ req'[w].pc \notin Opening
    /\ req'[w].jti \in {req[w].jti, None} /\ req'[w].new \in {req[w].new, None}
    /\ req'[w].pc # "idle" => /\ req[w].pc # "idle" /\ req'[w].jti = req[w].jti
                              /\ req'[w].c = req[w].c /\ req'[w].a = req[w].a

LEMMA IdleTyped == Idle \in Request /\ Idle.pc = "idle" /\ Idle.jti = None /\ Idle.new = None
BY SpanAssumption, BoundAssumption DEF Idle, Request, Steps, LoginSteps, MaybeJti, Time, Versions

LEMMA FinishQuiet ==
    ASSUME TypeOK, NEW w \in Workers, Finish(w)
    PROVE  Quiet(w)
BY IdleTyped DEF TypeOK, Finish, Quiet, Opening

LEMMA MovedTyped ==
    ASSUME NEW r \in Request, NEW o, NEW s \in Steps
    PROVE  LET m == Moved(r, o, s) IN
           /\ m \in Request /\ m.pc = s
           /\ m.jti = r.jti /\ m.new = r.new /\ m.c = r.c /\ m.a = r.a
           /\ m.ck = r.ck /\ m.pwd = r.pwd
BY DEF Request, Moved, Met

LEMMA GotoQuiet ==
    ASSUME TypeOK, NEW w \in Workers, NEW o, NEW s \in Steps \ Opening,
           req[w].pc # "idle", Goto(w, o, s)
    PROVE  Quiet(w)
BY MovedTyped DEF TypeOK, Goto, Quiet

LEMMA RefuseQuiet ==
    ASSUME TypeOK, NEW w \in Workers, NEW o, req[w].pc # "idle", Refuse(w, o)
    PROVE  Quiet(w)
<1> DEFINE m == Moved(req[w], o, "reply")  r == Refused(req[w], o)
<1>1. m \in Request /\ m.pc = "reply" /\ m.jti = req[w].jti /\ m.new = req[w].new
      /\ m.c = req[w].c /\ m.a = req[w].a
  BY MovedTyped DEF TypeOK, Steps, LoginSteps
<1>2. r = [m EXCEPT !.op = "work"]
  BY DEF Refused
<1> HIDE DEF m, r
<1>3. r \in Request /\ r.pc = "reply" /\ r.jti = req[w].jti /\ r.new = req[w].new
      /\ r.c = req[w].c /\ r.a = req[w].a
  BY <1>1, <1>2 DEF Request
<1>4. req' = [req EXCEPT ![w] = r]
  BY DEF Refuse, r
<1> QED  BY <1>3, <1>4 DEF TypeOK, Quiet, Opening



LEMMA HandlerStep == \A op : Handler(op) \in Steps \ Opening
BY DEF Handler, Steps, Opening, LoginSteps

\* The steps after which a request is past its opening, and knows no new token.
QuietStep(w) ==
    \/ \E o \in Outcomes :
         \/ IssueSignSecret(w, o) \/ Sign(w, o) \/ JWTAuth(w, o) \/ RefreshToken(w, o)
         \/ ReissueDel(w, o) \/ WritePassword(w, o) \/ ClearSignSecret(w, o) \/ LogoutDel(w, o)
    \/ VerifyOldPassword(w) \/ LoginReply(w) \/ Reply(w) \/ LoseReply(w)

LEMMA QuietSteps ==
    ASSUME TypeOK, NEW w \in Workers, QuietStep(w)
    PROVE  Quiet(w)
<1>2. \A o, s : s \in Steps \ Opening /\ req[w].pc # "idle" /\ Goto(w, o, s) => Quiet(w)
  BY GotoQuiet
<1>3. Finish(w) => Quiet(w)
  BY FinishQuiet
<1>4. \A o : req[w].pc # "idle" /\ Refuse(w, o) => Quiet(w)
  BY RefuseQuiet
<1>5. {"auth", "refresh", "r_set", "r_del", "verify", "write", "clear", "delete",
       "reply", "l_reply"} \subseteq Steps \ Opening
  BY DEF Steps, LoginSteps, Opening
<1>6. \A op : Handler(op) \in Steps \ Opening
  BY HandlerStep
<1>7. ASSUME NEW o \in Outcomes, IssueSignSecret(w, o) \/ Sign(w, o)
      PROVE  Quiet(w)
  BY <1>7, <1>2, <1>3, <1>5 DEF IssueSignSecret, Sign
<1>11. ASSUME NEW o \in Outcomes, JWTAuth(w, o)
       PROVE  Quiet(w)
  <2> DEFINE s == IF RefreshOnAccess THEN "refresh" ELSE Handler(req[w].op)
  <2>1. s \in Steps \ Opening
    BY <1>5, <1>6
  <2> QED  BY <1>11, <1>2, <1>3, <2>1 DEF JWTAuth
<1>8. ASSUME NEW o \in Outcomes,
             \/ RefreshToken(w, o) \/ ReissueDel(w, o) \/ LogoutDel(w, o)
      PROVE  Quiet(w)
  BY <1>8, <1>2, <1>3, <1>4, <1>5, <1>6
     DEF RefreshToken, RefreshWith, ReissueDel, LogoutDel, DelToken
<1>9. ASSUME NEW o \in Outcomes, WritePassword(w, o) \/ ClearSignSecret(w, o)
      PROVE  Quiet(w)
  BY <1>9, <1>2, <1>4, <1>5 DEF WritePassword, ClearSignSecret
<1>10. ASSUME VerifyOldPassword(w) \/ LoginReply(w) \/ Reply(w) \/ LoseReply(w)
       PROVE  Quiet(w)
  BY <1>10, <1>2, <1>3, <1>4, <1>5 DEF VerifyOldPassword, LoginReply, Reply, LoseReply
<1> QED  BY <1>7, <1>8, <1>9, <1>10, <1>11 DEF QuietStep

-----------------------------------------------------------------------------
(* Token ids: issued before they are seen, private until they are stored.  *)

LEMMA QuietKeepsIds ==
    ASSUME TypeOK, Busy, Issued, Private, NEW w \in Workers, Quiet(w), jwt' = jwt,
           \A c \in Clients : client'[c].tok \in {client[c].tok, req[w].jti, req[w].new, None},
           revoked' \subseteq revoked \cup ({req[w].jti} \cap Jti)
    PROVE  Busy' /\ Issued' /\ Private'
<1>1. \A x \in Workers : /\ req'[x].jti \in {req[x].jti, None}
                         /\ req'[x].new \in {req[x].new, None}
  BY DEF Quiet
<1>2. Busy'
  BY DEF Busy, Quiet
<1>3. Issued'
  BY <1>1, NoneAssumption DEF Issued, TypeOK
<1>4. Private'
  <2> SUFFICES ASSUME NEW x \in Workers, req'[x].pc = "l_token"
               PROVE  /\ req'[x].jti \notin revoked'
                      /\ \A c \in Clients : client'[c].tok # req'[x].jti
                      /\ \A y \in Workers : req'[y].new # req'[x].jti
                      /\ \A y \in Workers \ {x} : req'[y].jti # req'[x].jti
    BY DEF Private
  <2>1. x # w /\ req'[x] = req[x]
    BY DEF Quiet, Opening
  <2>2. /\ req[x].jti \in Jti /\ req[x].jti \notin revoked /\ req[x].jti # req[w].jti
        /\ \A c \in Clients : client[c].tok # req[x].jti
        /\ \A y \in Workers : req[y].new # req[x].jti
        /\ \A y \in Workers \ {x} : req[y].jti # req[x].jti
    BY <2>1 DEF Private, Busy
  <2> QED  BY <1>1, <2>1, <2>2, NoneAssumption
<1> QED  BY <1>2, <1>3, <1>4

LEMMA QuietStepIds ==
    ASSUME TypeOK, Busy, Issued, Private, NEW w \in Workers, QuietStep(w)
    PROVE  Busy' /\ Issued' /\ Private'
<1>1. Quiet(w) /\ req[w].pc # "idle"
  BY QuietSteps DEF QuietStep, IssueSignSecret, Sign, JWTAuth, RefreshToken, RefreshWith,
     ReissueDel, WritePassword, ClearSignSecret, LogoutDel, VerifyOldPassword,
     LoginReply, Reply, LoseReply
<1>2. jwt' = jwt
  BY DEF QuietStep, IssueSignSecret, Sign, JWTAuth, RefreshToken, RefreshWith, DelToken,
     ReissueDel, WritePassword, ClearSignSecret, LogoutDel, VerifyOldPassword,
     LoginReply, Reply, LoseReply, store
<1>3. revoked' \subseteq revoked \cup ({req[w].jti} \cap Jti)
  <2>1. req[w].jti \in Jti
    BY <1>1 DEF Busy
  <2> QED
    BY <2>1 DEF QuietStep, IssueSignSecret, Sign, JWTAuth, RefreshToken, RefreshWith, DelToken,
       ReissueDel, WritePassword, ClearSignSecret, LogoutDel, VerifyOldPassword,
       LoginReply, Reply, LoseReply, history
<1>4. \A c \in Clients : client'[c].tok \in {client[c].tok, req[w].jti, req[w].new, None}
  <2>1. CASE LoginReply(w)
    BY <2>1 DEF LoginReply, TypeOK
  <2>2. CASE Reply(w)
    BY <2>2 DEF Reply, TypeOK, NoLogin
  <2>3. CASE client' = client
    BY <2>3
  <2> QED
    BY <2>1, <2>2, <2>3 DEF QuietStep, IssueSignSecret, Sign, JWTAuth, RefreshToken,
       RefreshWith, DelToken, ReissueDel, WritePassword, ClearSignSecret, LogoutDel,
       VerifyOldPassword, LoseReply
<1> QED  BY <1>1, <1>2, <1>3, <1>4, QuietKeepsIds

\* Generate of a login: the fresh id is nowhere yet, and only this worker
\* learns it.
LEMMA LoginCheckIds ==
    ASSUME TypeOK, Busy, Issued, Private,
           NEW w \in Workers, NEW c \in Clients, NEW a \in Admins, LoginCheck(w, c, a)
    PROVE  Busy' /\ Issued' /\ Private' /\ req' \in [Workers -> Request]
<1>1. PICK j \in Jti :
        /\ FreshJti(j)
        /\ jwt' = [jwt EXCEPT ![j] = [adm |-> a, exp |-> Lifetime]]
        /\ req' = [req EXCEPT ![w] =
              [Idle EXCEPT !.pc = "l_token", !.op = "login", !.c = c, !.a = a,
                           !.jti = j, !.sec = j, !.ck = now, !.pwd = db[a].pwd]]
  BY DEF LoginCheck
<1> DEFINE r == [Idle EXCEPT !.pc = "l_token", !.op = "login", !.c = c, !.a = a,
                             !.jti = j, !.sec = j, !.ck = now, !.pwd = db[a].pwd]
<1>2. r \in Request /\ r.pc = "l_token" /\ r.jti = j /\ r.new = None /\ r.c = c /\ r.a = a
  BY BoundAssumption DEF TypeOK, Row, Idle, Request, Steps, LoginSteps, MaybeJti, Versions, Time
<1>3. req' = [req EXCEPT ![w] = r]
  BY <1>1
<1> HIDE DEF r
<1>4. req' \in [Workers -> Request] /\ req'[w] = r /\ \A x \in Workers \ {w} : req'[x] = req[x]
  BY <1>2, <1>3 DEF TypeOK
<1>5. UNCHANGED <<client, revoked>>
  BY DEF LoginCheck, history
<1>6. /\ j \notin revoked /\ \A d \in Clients : client[d].tok # j
      /\ \A x \in Workers : req[x].jti # j /\ req[x].new # j
  BY <1>1 DEF Issued, FreshJti
<1>7. Lifetime # 0 /\ Lifetime > 0
  BY TtlAssumption DEF TypeOK, Time, Lifetime
<1>8. /\ \A i \in Jti : i # j => jwt'[i] = jwt[i]
      /\ jwt'[j].exp # 0 /\ jwt'[j].adm = a
  BY <1>1, <1>7 DEF TypeOK
<1>9. Busy'
  BY <1>2, <1>4, <1>8 DEF Busy
<1>10. Issued'
  BY <1>2, <1>4, <1>5, <1>8, NoneAssumption DEF Issued, TypeOK
<1>11. Private'
  BY <1>2, <1>4, <1>5, <1>6, NoneAssumption DEF Private, Busy
<1> QED  BY <1>4, <1>9, <1>10, <1>11

LEMMA SetTokenIds ==
    ASSUME TypeOK, Busy, Issued, Private, NEW w \in Workers, NEW o, LoginSetToken(w, o)
    PROVE  Busy' /\ Issued' /\ Private' /\ req' \in [Workers -> Request]
<1>1. UNCHANGED <<jwt, client, revoked>> /\ req[w].pc = "l_token"
  BY DEF LoginSetToken, history
<1>2. CASE Finish(w)
  <2>1. Quiet(w)
    BY <1>2, FinishQuiet
  <2> QED  BY <1>1, <2>1, QuietKeepsIds DEF Quiet
<1>3. CASE Goto(w, o, "l_secret")
  <2> DEFINE r == Moved(req[w], o, "l_secret")
  <2>1. r \in Request /\ r.pc = "l_secret" /\ r.jti = req[w].jti /\ r.new = req[w].new
        /\ r.c = req[w].c /\ r.a = req[w].a
    BY MovedTyped DEF TypeOK, Steps, LoginSteps
  <2>2. req' = [req EXCEPT ![w] = r]
    BY <1>3 DEF Goto
  <2> HIDE DEF r
  <2>3. req' \in [Workers -> Request] /\ req'[w] = r /\ \A x \in Workers \ {w} : req'[x] = req[x]
    BY <2>1, <2>2 DEF TypeOK
  <2>4. Busy'
    BY <1>1, <2>1, <2>3 DEF Busy
  <2>5. Issued'
    BY <1>1, <2>1, <2>3 DEF Issued
  <2>6. Private'
    BY <1>1, <2>1, <2>3 DEF Private
  <2> QED  BY <2>3, <2>4, <2>5, <2>6
<1> QED  BY <1>2, <1>3 DEF LoginSetToken

LEMMA SentTyped ==
    ASSUME NEW c \in Clients, NEW op \in Ops, NEW a \in Admins, NEW j \in Jti,
           NEW s \in MaybeJti
    PROVE  LET r == Sent(c, op, a, j, s) IN
           /\ r \in Request /\ r.pc = "sign" /\ r.jti = j /\ r.new = None
           /\ r.c = c /\ r.a = a
BY IdleTyped DEF Sent, Request, Steps, LoginSteps, MaybeJti

LEMMA SendRequestIds ==
    ASSUME TypeOK, Busy, Issued, Private,
           NEW w \in Workers, NEW c \in Clients, NEW op \in Ops, SendRequest(w, c, op)
    PROVE  Busy' /\ Issued' /\ Private' /\ req' \in [Workers -> Request]
<1> DEFINE j == client[c].tok
           r == Sent(c, op, jwt[j].adm, j, client[c].sec)
<1>1. j \in Jti /\ jwt[j].exp # 0 /\ jwt[j].adm \in Admins /\ client[c].sec \in MaybeJti
  BY DEF SendRequest, Issued, Busy, TypeOK, MaybeJti
<1>2. req' = [req EXCEPT ![w] = r] /\ UNCHANGED <<jwt, client, revoked>>
  BY DEF SendRequest, store, history
<1>3. r \in Request /\ r.pc = "sign" /\ r.jti = j /\ r.new = None /\ r.c = c /\ r.a = jwt[j].adm
  BY <1>1, SentTyped
<1> HIDE DEF r
<1>4. req' \in [Workers -> Request] /\ req'[w] = r /\ \A x \in Workers \ {w} : req'[x] = req[x]
  BY <1>2, <1>3 DEF TypeOK
<1>5. Busy'
  BY <1>1, <1>2, <1>3, <1>4 DEF Busy
<1>6. Issued'
  BY <1>1, <1>2, <1>3, <1>4, NoneAssumption DEF Issued
<1>7. Private'
  BY <1>1, <1>2, <1>3, <1>4, NoneAssumption DEF Private, Busy
<1> QED  BY <1>4, <1>5, <1>6, <1>7

LEMMA ReissueSetIds ==
    ASSUME TypeOK, Busy, Issued, Private,
           NEW w \in Workers, NEW o, NEW j \in Jti, ReissueSet(w, o, j)
    PROVE  Busy' /\ Issued' /\ Private' /\ req' \in [Workers -> Request]
<1> DEFINE s == IF o = "ok" THEN "r_del" ELSE Handler(req[w].op)
           m == Moved(req[w], o, s)
           r == IF o = "ok" THEN [m EXCEPT !.new = j] ELSE m
<1>1. m \in Request /\ m.pc \notin Opening /\ m.jti = req[w].jti /\ m.new = req[w].new
      /\ m.c = req[w].c /\ m.a = req[w].a
  <2>1. s \in Steps \ Opening /\ req[w] \in Request
    BY HandlerStep DEF TypeOK, Steps, LoginSteps, Opening
  <2> HIDE DEF s
  <2> QED  BY <2>1, MovedTyped
<1>2. req' = [req EXCEPT ![w] = r] /\ req[w].pc = "r_set"
  BY DEF ReissueSet, ReissueSetOr
<1> HIDE DEF m
<1>3. r \in Request /\ r.pc \notin Opening /\ r.jti = req[w].jti /\ r.new \in {req[w].new, j}
      /\ r.c = req[w].c /\ r.a = req[w].a
  BY <1>1 DEF Request, MaybeJti
<1> HIDE DEF r
<1>4. req' \in [Workers -> Request] /\ req'[w] = r /\ \A x \in Workers \ {w} : req'[x] = req[x]
  BY <1>2, <1>3 DEF TypeOK
<1>5. UNCHANGED <<client, revoked>>
  BY DEF ReissueSet, ReissueSetOr, history
<1>6. /\ j \notin revoked /\ \A d \in Clients : client[d].tok # j
      /\ \A x \in Workers : req[x].jti # j /\ req[x].new # j
  BY DEF Issued, FreshJti, ReissueSet, ReissueSetOr
<1>7. req[w].a \in Admins /\ req[w].jti \in Jti /\ req[w].c \in Clients
  BY <1>2 DEF Busy
<1>8. /\ \A i \in Jti : i # j => jwt'[i] = jwt[i]
      /\ jwt'[j].exp # 0 /\ jwt'[j].adm = req[w].a
  BY TtlAssumption DEF ReissueSet, ReissueSetOr, TypeOK, Time, Lifetime
<1>9. Busy'
  BY <1>3, <1>4, <1>7, <1>8 DEF Busy
<1>10. Issued'
  <2>1. \A i \in Jti : jwt[i].exp # 0 => jwt'[i].exp # 0
    BY <1>8
  <2>2. \A i \in {r.jti, r.new} \cap Jti : jwt'[i].exp # 0
    BY <1>3, <1>8, <2>1 DEF Issued
  <2> QED  BY <1>4, <1>5, <2>1, <2>2 DEF Issued, TypeOK
<1>11. Private'
  BY <1>3, <1>4, <1>5, <1>6 DEF Private, Busy, Opening
<1> QED  BY <1>4, <1>9, <1>10, <1>11

LEMMA OtherIds ==
    ASSUME TypeOK, Busy, Issued, Private,
           \/ \E a \in Admins : OperatorStep(a)
           \/ Tick \/ Crash \/ UNCHANGED vars
    PROVE  Busy' /\ Issued' /\ Private' /\ req' \in [Workers -> Request]
<1>1. UNCHANGED <<jwt, client, revoked>>
  BY DEF OperatorStep, DisableAdmin, DeleteAdmin, EnableAdmin, ResetAdminPassword, Deactivate,
     Tick, Crash, vars, store, history
<1>2. CASE UNCHANGED req
  BY <1>1, <1>2 DEF Busy, Issued, Private, TypeOK
<1>3. CASE Crash
  <2>1. req' = [w \in Workers |-> Idle]
    BY <1>3 DEF Crash
  <2>2. Busy' /\ Private'
    BY <2>1, <1>1, IdleTyped DEF Busy, Private
  <2>3. Issued'
    BY <2>1, <1>1, IdleTyped, NoneAssumption DEF Issued
  <2> QED  BY <2>1, <2>2, <2>3, IdleTyped
<1> QED
  BY <1>2, <1>3 DEF OperatorStep, DisableAdmin, DeleteAdmin, EnableAdmin, ResetAdminPassword,
     Deactivate, Tick, vars, history

Ids == Busy /\ Issued /\ Private

LEMMA IdsStep ==
    ASSUME TypeOK, Ids, [Next]_vars
    PROVE  Ids' /\ req' \in [Workers -> Request]
<1>1. ASSUME NEW w \in Workers, QuietStep(w) PROVE Ids' /\ req' \in [Workers -> Request]
  BY <1>1, QuietStepIds, QuietSteps DEF Ids, Quiet
<1>2. ASSUME NEW w \in Workers, WorkerStep(w) PROVE Ids' /\ req' \in [Workers -> Request]
  BY <1>1, <1>2, LoginCheckIds, SendRequestIds, SetTokenIds, ReissueSetIds
     DEF WorkerStep, QuietStep, Ids
<1> QED  BY <1>2, OtherIds DEF Next, Ids

-----------------------------------------------------------------------------
(* Types of the other variables, and the life of the Redis keys.           *)


ClockTyped == now \in Time /\ faults \in 0 .. MaxFaults
RowsTyped  == /\ edits \in Versions /\ db \in [Admins -> Row] /\ Counted
              /\ off \in [Admins -> Time] /\ stale \in [Admins -> [Versions -> Time]]
JwtTyped   == jwt \in [Jti -> [adm : Admins \cup {None}, exp : Expiry]]
WhiteTyped == /\ white \in [Jti -> Expiry]
              /\ \A j \in Jti : white[j] # 0 => white[j] > now /\ white[j] <= now + Ttl
SecretTyped == /\ secret \in [Admins -> Secret]
               /\ \A a \in Admins : secret[a].exp # 0 =>
                    secret[a].exp > now /\ secret[a].exp <= now + Ttl
SeenTyped  == /\ client \in [Clients -> [tok : MaybeJti, sec : MaybeJti]]
              /\ revoked \subseteq Jti /\ closed \subseteq MaybeJti
              /\ cut \in [Clients -> BOOLEAN] /\ undone \subseteq Jti

LEMMA TypeParts ==
    TypeOK /\ Counted <=> /\ ClockTyped /\ RowsTyped /\ JwtTyped /\ WhiteTyped
                          /\ SecretTyped /\ SeenTyped /\ req \in [Workers -> Request]
BY DEF TypeOK, ClockTyped, RowsTyped, JwtTyped, WhiteTyped, SecretTyped, SeenTyped, Lifetime

LEMMA LifetimeTyped ==
    ASSUME ClockTyped
    PROVE  Lifetime \in Expiry /\ Lifetime > now /\ Lifetime <= now + Ttl /\ 0 \in Expiry
BY TtlAssumption, BoundAssumption DEF Lifetime, ClockTyped, Time, Expiry

LEMMA ClockStep == ASSUME ClockTyped, [Next]_vars PROVE ClockTyped'
<1>1. ASSUME NEW o, Charge(o) PROVE faults' \in 0 .. MaxFaults
  BY <1>1, BoundAssumption DEF Charge, ClockTyped
<1>2. CASE Tick
  BY <1>2, BoundAssumption DEF Tick, ClockTyped, Time
<1>3. CASE Crash
  BY <1>3, <1>1 DEF Crash, ClockTyped
<1>4. ASSUME NEW w \in Workers, WorkerStep(w) PROVE ClockTyped'
  <2>1. CASE \E o \in Outcomes : LoginSetToken(w, o) \/ IssueSignSecret(w, o) \/ Sign(w, o)
                                \/ JWTAuth(w, o) \/ RefreshToken(w, o)
    BY <2>1, <1>1 DEF LoginSetToken, IssueSignSecret, Sign, JWTAuth, RefreshToken, RefreshWith,
       ClockTyped
  <2>2. CASE \E o \in Outcomes : \/ \E j \in Jti : ReissueSet(w, o, j)
                                \/ ReissueDel(w, o) \/ WritePassword(w, o)
                                \/ ClearSignSecret(w, o) \/ LogoutDel(w, o)
    BY <2>2, <1>1 DEF ReissueSet, ReissueSetOr, ReissueDel, DelToken, WritePassword,
       ClearSignSecret, LogoutDel, ClockTyped
  <2>3. CASE \/ \E c \in Clients, a \in Admins : LoginCheck(w, c, a)
             \/ \E c \in Clients, op \in Ops : SendRequest(w, c, op)
             \/ VerifyOldPassword(w) \/ LoginReply(w) \/ Reply(w) \/ LoseReply(w)
    BY <2>3, <1>1 DEF LoginCheck, SendRequest, VerifyOldPassword, LoginReply, Reply, LoseReply,
       ClockTyped
  <2> QED  BY <1>4, <2>1, <2>2, <2>3 DEF WorkerStep
<1>5. CASE \E a \in Admins : OperatorStep(a)
  BY <1>5 DEF OperatorStep, DisableAdmin, DeleteAdmin, EnableAdmin, ResetAdminPassword,
     Deactivate, ClockTyped
<1> QED  BY <1>2, <1>3, <1>4, <1>5 DEF Next, vars, ClockTyped

LEMMA JwtStep == ASSUME ClockTyped, JwtTyped, Ids, [Next]_vars PROVE JwtTyped'
<1>1. ASSUME NEW w \in Workers, NEW c \in Clients, NEW a \in Admins, LoginCheck(w, c, a)
      PROVE  JwtTyped'
  BY <1>1, LifetimeTyped DEF LoginCheck, JwtTyped
<1>2. ASSUME NEW w \in Workers, NEW o \in Outcomes, NEW j \in Jti, ReissueSet(w, o, j)
      PROVE  JwtTyped'
  <2>1. req[w].a \in Admins
    BY <1>2 DEF ReissueSet, ReissueSetOr, Ids, Busy
  <2> QED  BY <1>2, <2>1, LifetimeTyped DEF ReissueSet, ReissueSetOr, JwtTyped
<1>3. CASE jwt' = jwt
  BY <1>3 DEF JwtTyped
<1>4. CASE \E w \in Workers : WorkerStep(w)
  BY <1>1, <1>2, <1>3, <1>4 DEF WorkerStep, SendRequest, LoginSetToken, IssueSignSecret, Sign,
     JWTAuth, RefreshToken, RefreshWith, ReissueDel, DelToken, WritePassword,
     ClearSignSecret, LogoutDel, VerifyOldPassword, LoginReply, Reply, LoseReply, store
<1>5. CASE \E a \in Admins : OperatorStep(a)
  BY <1>3, <1>5 DEF OperatorStep, DisableAdmin, DeleteAdmin, EnableAdmin, ResetAdminPassword,
     Deactivate
<1> QED  BY <1>3, <1>4, <1>5 DEF Next, vars, Tick, Crash, store

LEMMA SeenStep ==
    ASSUME SeenTyped, Ids, req \in [Workers -> Request], [Next]_vars
    PROVE  SeenTyped'
<1>1. ASSUME NEW w \in Workers, LoginReply(w) \/ Reply(w) \/ LoseReply(w)
      PROVE  SeenTyped'
  <2>1. req[w].jti \in MaybeJti /\ req[w].sec \in MaybeJti /\ req[w].new \in MaybeJti
    BY DEF Request
  <2>2. CASE LoginReply(w)
    <3>1. client' \in [Clients -> [tok : MaybeJti, sec : MaybeJti]] /\ UNCHANGED <<revoked, closed, undone>>
      BY <2>1, <2>2 DEF LoginReply, SeenTyped
    <3>2. cut' \in [Clients -> BOOLEAN]
      BY <2>2 DEF LoginReply, SeenTyped
    <3> QED  BY <3>1, <3>2 DEF SeenTyped
  <2>3. CASE Reply(w)
    BY <2>1, <2>3 DEF Reply, SeenTyped, NoLogin, MaybeJti
  <2>4. CASE LoseReply(w)
    BY <2>4 DEF LoseReply, SeenTyped
  <2> QED  BY <1>1, <2>2, <2>3, <2>4
<1>2. ASSUME NEW w \in Workers, NEW o \in Outcomes, ReissueDel(w, o) \/ LogoutDel(w, o)
      PROVE  SeenTyped'
  <2>1. req[w].jti \in Jti
    BY <1>2 DEF ReissueDel, LogoutDel, Ids, Busy
  <2> QED  BY <1>2, <2>1 DEF ReissueDel, LogoutDel, DelToken, SeenTyped
<1>3. CASE Crash
  BY <1>3 DEF Crash, SeenTyped
<1>4. CASE UNCHANGED <<client, revoked, closed, cut, undone>>
  BY <1>4 DEF SeenTyped
<1>5. ASSUME NEW w \in Workers, WorkerStep(w) PROVE SeenTyped'
  <2>1. CASE \/ \E c \in Clients, a \in Admins : LoginCheck(w, c, a)
             \/ \E c \in Clients, op \in Ops : SendRequest(w, c, op)
             \/ VerifyOldPassword(w)
    BY <2>1, <1>4 DEF LoginCheck, SendRequest, VerifyOldPassword, history
  <2>2. CASE \E o \in Outcomes :
               \/ LoginSetToken(w, o) \/ IssueSignSecret(w, o) \/ Sign(w, o) \/ JWTAuth(w, o)
               \/ RefreshToken(w, o) \/ (\E j \in Jti : ReissueSet(w, o, j))
               \/ WritePassword(w, o) \/ ClearSignSecret(w, o)
    BY <2>2, <1>4 DEF LoginSetToken, IssueSignSecret, Sign, JWTAuth, RefreshToken, RefreshWith,
       ReissueSet, ReissueSetOr, WritePassword, ClearSignSecret, history
  <2> QED  BY <1>1, <1>2, <1>5, <2>1, <2>2 DEF WorkerStep
<1>6. CASE \E a \in Admins : OperatorStep(a)
  BY <1>4, <1>6 DEF OperatorStep, DisableAdmin, DeleteAdmin, EnableAdmin, ResetAdminPassword,
     Deactivate, history
<1> QED  BY <1>3, <1>4, <1>5, <1>6 DEF Next, vars, Tick, history

LEMMA NewPasswordTyped ==
    ASSUME ClockTyped, RowsTyped, NEW a \in Admins, NewPassword(a)
    PROVE  /\ edits' \in Versions /\ db' \in [Admins -> Row] /\ Counted'
           /\ stale' \in [Admins -> [Versions -> Time]]
<1>1. db[a] \in Row /\ db[a].pwd \in Nat /\ db[a].pwd <= edits /\ edits < MaxEdits
      /\ edits \in Nat /\ edits' = edits + 1
  BY BoundAssumption DEF NewPassword, Edit, RowsTyped, Row, Versions, Counted
<1>2. edits' \in Versions /\ db[a].pwd + 1 \in Versions
  BY <1>1, BoundAssumption DEF Versions
<1>3. db' = [db EXCEPT ![a] = [db[a] EXCEPT !.pwd = db[a].pwd + 1]]
  BY DEF NewPassword
<1>4. [db[a] EXCEPT !.pwd = db[a].pwd + 1] \in Row
  BY <1>1, <1>2 DEF Row
<1>5. db' \in [Admins -> Row]
  BY <1>3, <1>4 DEF RowsTyped
<1>6. Counted'
  <2> SUFFICES ASSUME NEW b \in Admins PROVE db'[b].pwd <= edits'
    BY DEF Counted
  <2>1. CASE b = a
    BY <2>1, <1>1, <1>3 DEF RowsTyped, Row
  <2>2. CASE b # a
    BY <2>2, <1>1, <1>3, BoundAssumption DEF RowsTyped, Row, Counted, Versions
  <2> QED  BY <2>1, <2>2
<1>7. stale' \in [Admins -> [Versions -> Time]]
  BY DEF NewPassword, RowsTyped, ClockTyped
<1> QED  BY <1>2, <1>5, <1>6, <1>7

LEMMA RowsStep == ASSUME ClockTyped, RowsTyped, Ids, [Next]_vars PROVE RowsTyped'
<1>1. CASE UNCHANGED <<edits, db, off, stale>>
  BY <1>1 DEF RowsTyped, Counted
<1>2. ASSUME NEW w \in Workers, NEW o \in Outcomes, WritePassword(w, o) PROVE RowsTyped'
  <2>1. req[w].a \in Admins
    BY <1>2 DEF WritePassword, Ids, Busy
  <2>2. CASE NewPassword(req[w].a)
    BY <1>2, <2>1, <2>2, NewPasswordTyped DEF WritePassword, RowsTyped
  <2> QED  BY <1>1, <1>2, <2>2 DEF WritePassword
<1>3. ASSUME NEW w \in Workers, WorkerStep(w) PROVE RowsTyped'
  <2>1. CASE \/ \E c \in Clients, a \in Admins : LoginCheck(w, c, a)
             \/ \E c \in Clients, op \in Ops : SendRequest(w, c, op)
             \/ VerifyOldPassword(w) \/ LoginReply(w) \/ Reply(w) \/ LoseReply(w)
    BY <2>1, <1>1 DEF LoginCheck, SendRequest, VerifyOldPassword, LoginReply, Reply, LoseReply,
       history, store
  <2>2. CASE \E o \in Outcomes :
               \/ LoginSetToken(w, o) \/ IssueSignSecret(w, o) \/ Sign(w, o) \/ JWTAuth(w, o)
               \/ RefreshToken(w, o) \/ (\E j \in Jti : ReissueSet(w, o, j))
               \/ ReissueDel(w, o) \/ LogoutDel(w, o) \/ ClearSignSecret(w, o)
    BY <2>2, <1>1 DEF LoginSetToken, IssueSignSecret, Sign, JWTAuth, RefreshToken, RefreshWith,
       ReissueSet, ReissueSetOr, ReissueDel, LogoutDel, DelToken, ClearSignSecret, history, store
  <2> QED  BY <1>2, <1>3, <2>1, <2>2 DEF WorkerStep
<1>4. ASSUME NEW a \in Admins, OperatorStep(a) PROVE RowsTyped'
  <2>1. CASE ResetAdminPassword(a)
    BY <2>1, NewPasswordTyped DEF ResetAdminPassword, RowsTyped
  <2>2. CASE DisableAdmin(a) \/ DeleteAdmin(a) \/ EnableAdmin(a)
    <3>1. PICK st \in {"on", "off", "del"} :
            db' = [db EXCEPT ![a] = [db[a] EXCEPT !.st = st]]
      BY <2>2 DEF DisableAdmin, DeleteAdmin, EnableAdmin, Deactivate
    <3>2. edits' \in Versions /\ edits' = edits + 1 /\ edits \in Nat
      BY <2>2, BoundAssumption
         DEF DisableAdmin, DeleteAdmin, EnableAdmin, Deactivate, Edit, RowsTyped, Versions
    <3>3. db[a] \in Row /\ [db[a] EXCEPT !.st = st] \in Row
      BY DEF RowsTyped, Row
    <3>4. db' \in [Admins -> Row]
      BY <3>1, <3>3 DEF RowsTyped
    <3>5. \A b \in Admins : db'[b].pwd = db[b].pwd /\ db[b].pwd \in Nat
      BY <3>1, <3>3, BoundAssumption DEF RowsTyped, Row, Versions
    <3>6. Counted'
      BY <3>2, <3>5 DEF Counted, RowsTyped
    <3>7. off' \in [Admins -> Time] /\ stale' = stale
      BY <2>2 DEF DisableAdmin, DeleteAdmin, EnableAdmin, Deactivate, history, RowsTyped, ClockTyped
    <3> QED  BY <3>2, <3>4, <3>6, <3>7 DEF RowsTyped
  <2> QED  BY <1>4, <2>1, <2>2 DEF OperatorStep
<1> QED  BY <1>1, <1>3, <1>4 DEF Next, vars, Tick, Crash, store, history

LEMMA WhiteStep ==
    ASSUME ClockTyped, WhiteTyped, Ids, [Next]_vars
    PROVE  WhiteTyped'
<1> USE LifetimeTyped
<1>1. CASE UNCHANGED <<now, white>>
  BY <1>1 DEF WhiteTyped
<1>2. ASSUME NEW j \in Jti, now' = now, white' = [white EXCEPT ![j] = Lifetime]
      PROVE  WhiteTyped'
  BY <1>2 DEF WhiteTyped
<1>3. ASSUME NEW j \in Jti, now' = now, white' = [white EXCEPT ![j] = 0]
      PROVE  WhiteTyped'
  BY <1>3 DEF WhiteTyped
<1>4. ASSUME NEW w \in Workers, NEW o \in Outcomes,
             LoginSetToken(w, o) \/ RefreshToken(w, o) \/ ReissueDel(w, o) \/ LogoutDel(w, o)
      PROVE  WhiteTyped'
  <2>1. req[w].jti \in Jti
    BY <1>4 DEF LoginSetToken, RefreshToken, RefreshWith, ReissueDel, LogoutDel, Ids, Busy
  <2>2. \/ white' = white \/ white' = [white EXCEPT ![req[w].jti] = 0]
        \/ white' = [white EXCEPT ![req[w].jti] = Lifetime]
    BY <1>4 DEF LoginSetToken, RefreshToken, RefreshWith, ReissueDel, LogoutDel, DelToken, Renewed
  <2>3. now' = now
    BY <1>4 DEF LoginSetToken, RefreshToken, RefreshWith, ReissueDel, LogoutDel, DelToken
  <2> QED  BY <2>1, <2>2, <2>3, <1>1, <1>2, <1>3
<1>5. ASSUME NEW w \in Workers, WorkerStep(w) PROVE WhiteTyped'
  <2>1. CASE \E o \in Outcomes, j \in Jti : ReissueSet(w, o, j)
    BY <2>1, <1>1, <1>2 DEF ReissueSet, ReissueSetOr
  <2>2. CASE \/ \E c \in Clients, a \in Admins : LoginCheck(w, c, a)
             \/ \E c \in Clients, op \in Ops : SendRequest(w, c, op)
             \/ VerifyOldPassword(w) \/ LoginReply(w) \/ Reply(w) \/ LoseReply(w)
             \/ \E o \in Outcomes : IssueSignSecret(w, o) \/ Sign(w, o) \/ JWTAuth(w, o)
                                      \/ WritePassword(w, o) \/ ClearSignSecret(w, o)
    BY <2>2, <1>1 DEF LoginCheck, SendRequest, VerifyOldPassword, LoginReply, Reply, LoseReply,
       IssueSignSecret, Sign, JWTAuth, WritePassword, ClearSignSecret, store
  <2> QED  BY <1>4, <1>5, <2>1, <2>2 DEF WorkerStep
<1>6. ASSUME NEW a \in Admins, OperatorStep(a) PROVE WhiteTyped'
  BY <1>6, <1>1 DEF OperatorStep, DisableAdmin, DeleteAdmin, EnableAdmin, ResetAdminPassword,
     Deactivate
<1>7. CASE Tick
  BY <1>7, BoundAssumption, TtlAssumption DEF Tick, WhiteTyped, ClockTyped, Time, Expiry
<1> QED  BY <1>1, <1>5, <1>6, <1>7 DEF Next, vars, Crash, store

LEMMA SecretStep ==
    ASSUME ClockTyped, RowsTyped, SecretTyped, req \in [Workers -> Request], Ids, [Next]_vars
    PROVE  SecretTyped'
<1> USE LifetimeTyped
<1>1. CASE UNCHANGED <<now, secret>>
  BY <1>1 DEF SecretTyped
<1>2. NoSecret \in Secret /\ NoSecret.exp = 0
  BY BoundAssumption DEF NoSecret, Secret, MaybeJti, Versions, Expiry
<1>3. ASSUME NEW w \in Workers, NEW o \in Outcomes, IssueSignSecret(w, o) PROVE SecretTyped'
  <2> DEFINE s == [id |-> req[w].sec, exp |-> SecretExpiry, pwd |-> req[w].pwd]
  <2>1. s \in Secret /\ s.exp = Lifetime
    BY DEF Secret, SecretExpiry, Request
  <2>2. now' = now /\ (secret' = secret \/ secret' = [secret EXCEPT ![req[w].a] = s])
    BY <1>3 DEF IssueSignSecret
  <2> HIDE DEF s
  <2> QED  BY <2>1, <2>2 DEF SecretTyped
<1>4. ASSUME NEW w \in Workers, NEW o \in Outcomes, ClearSignSecret(w, o) PROVE SecretTyped'
  <2>1. now' = now /\ (secret' = secret \/ secret' = [secret EXCEPT ![req[w].a] = NoSecret])
    BY <1>4 DEF ClearSignSecret, Cleared
  <2> QED  BY <1>2, <2>1 DEF SecretTyped
<1>5. ASSUME NEW w \in Workers, WorkerStep(w) PROVE SecretTyped'
  <2>1. CASE \/ \E c \in Clients, a \in Admins : LoginCheck(w, c, a)
             \/ \E c \in Clients, op \in Ops : SendRequest(w, c, op)
             \/ VerifyOldPassword(w) \/ LoginReply(w) \/ Reply(w) \/ LoseReply(w)
    BY <2>1, <1>1 DEF LoginCheck, SendRequest, VerifyOldPassword, LoginReply, Reply, LoseReply,
       store
  <2>2. CASE \E o \in Outcomes :
               \/ LoginSetToken(w, o) \/ Sign(w, o) \/ JWTAuth(w, o) \/ RefreshToken(w, o)
               \/ (\E j \in Jti : ReissueSet(w, o, j))
               \/ ReissueDel(w, o) \/ LogoutDel(w, o) \/ WritePassword(w, o)
    BY <2>2, <1>1 DEF LoginSetToken, Sign, JWTAuth, RefreshToken, RefreshWith, ReissueSet,
       ReissueSetOr, ReissueDel, LogoutDel, DelToken, WritePassword, store
  <2> QED  BY <1>3, <1>4, <1>5, <2>1, <2>2 DEF WorkerStep
<1>6. ASSUME NEW a \in Admins, OperatorStep(a) PROVE SecretTyped'
  BY <1>6, <1>1 DEF OperatorStep, DisableAdmin, DeleteAdmin, EnableAdmin, ResetAdminPassword,
     Deactivate
<1>7. CASE Tick
  <2>1. \A a \in Admins : secret'[a] \in {NoSecret, secret[a]}
                          /\ (secret'[a].exp # 0 => secret'[a] = secret[a] /\ secret[a].exp > now + 1)
    BY <1>7, <1>2, BoundAssumption, TtlAssumption
       DEF Tick, SecretTyped, Secret, ClockTyped, Time, Expiry
  <2>2. secret' = [a \in Admins |-> secret'[a]] /\ now' = now + 1
    BY <1>7 DEF Tick
  <2>3. \A a \in Admins : secret[a].exp \in Int
    BY BoundAssumption, TtlAssumption DEF SecretTyped, Secret, Expiry
  <2> QED  BY <1>2, <2>1, <2>2, <2>3, TtlAssumption DEF SecretTyped, ClockTyped, Time
<1> QED  BY <1>1, <1>5, <1>6, <1>7 DEF Next, vars, Crash, store

LEMMA BaseInit == ASSUME Init PROVE TypeOK /\ Counted /\ Ids
<1>1. ClockTyped /\ RowsTyped /\ JwtTyped /\ WhiteTyped /\ SecretTyped /\ SeenTyped
  BY BoundAssumption, TtlAssumption
     DEF Init, ClockTyped, RowsTyped, JwtTyped, WhiteTyped, SecretTyped, SeenTyped, Counted, Time,
         Versions, Row, Expiry, Secret, NoSecret, NoLogin, MaybeJti
<1>2. req \in [Workers -> Request] /\ \A w \in Workers : req[w] = Idle
  BY IdleTyped DEF Init
<1>3. Ids
  BY <1>2, IdleTyped, NoneAssumption DEF Init, Ids, Busy, Issued, Private, NoLogin
<1> QED  BY <1>1, <1>2, <1>3, TypeParts

LEMMA BaseStep ==
    ASSUME TypeOK, Counted, Ids, [Next]_vars
    PROVE  TypeOK' /\ Counted' /\ Ids'
<1>1. /\ ClockTyped /\ RowsTyped /\ JwtTyped /\ WhiteTyped
      /\ SecretTyped /\ SeenTyped /\ req \in [Workers -> Request]
  BY TypeParts
<1>2. /\ ClockTyped' /\ RowsTyped' /\ JwtTyped' /\ WhiteTyped' /\ SecretTyped' /\ SeenTyped'
  BY <1>1, ClockStep, RowsStep, JwtStep, WhiteStep, SecretStep, SeenStep
<1>3. Ids' /\ (req \in [Workers -> Request])'
  BY IdsStep
<1>4. (TypeOK /\ Counted)'
  BY <1>2, <1>3, TypeParts, PTL
<1> QED  BY <1>3, <1>4

-----------------------------------------------------------------------------
(* A removed token id stays removed.                                       *)

LEMMA RevokedStep ==
    ASSUME TypeOK, Ids, RevokedStaysRevoked, [Next]_vars
    PROVE  RevokedStaysRevoked'
<1>1. CASE UNCHANGED <<white, revoked>>
  BY <1>1 DEF RevokedStaysRevoked
<1>2. ASSUME NEW w \in Workers, NEW o \in Outcomes, LoginSetToken(w, o)
      PROVE  RevokedStaysRevoked'
  <2>1. req[w].jti \notin revoked
    BY <1>2 DEF LoginSetToken, Ids, Private
  <2> QED  BY <1>2, <2>1 DEF LoginSetToken, history, RevokedStaysRevoked, TypeOK
<1>3. ASSUME NEW w \in Workers, NEW o \in Outcomes, RefreshToken(w, o)
      PROVE  RevokedStaysRevoked'
  BY <1>3 DEF RefreshToken, RefreshWith, Renewed, history, RevokedStaysRevoked, TypeOK
<1>4. ASSUME NEW w \in Workers, NEW o \in Outcomes, NEW j \in Jti, ReissueSet(w, o, j)
      PROVE  RevokedStaysRevoked'
  <2>1. j \notin revoked
    BY <1>4 DEF ReissueSet, ReissueSetOr, FreshJti, Ids, Issued
  <2> QED  BY <1>4, <2>1 DEF ReissueSet, ReissueSetOr, history, RevokedStaysRevoked, TypeOK
<1>5. ASSUME NEW w \in Workers, NEW o \in Outcomes, ReissueDel(w, o) \/ LogoutDel(w, o)
      PROVE  RevokedStaysRevoked'
  <2>1. req[w].jti \in Jti
    BY <1>5 DEF ReissueDel, LogoutDel, Ids, Busy
  <2> QED  BY <1>5, <2>1 DEF ReissueDel, LogoutDel, DelToken, RevokedStaysRevoked, TypeOK
<1>6. CASE Tick
  BY <1>6 DEF Tick, history, RevokedStaysRevoked, TypeOK
<1>7. ASSUME NEW w \in Workers, WorkerStep(w) PROVE RevokedStaysRevoked'
  <2>1. CASE \/ \E c \in Clients, a \in Admins : LoginCheck(w, c, a)
             \/ \E c \in Clients, op \in Ops : SendRequest(w, c, op)
             \/ VerifyOldPassword(w) \/ LoginReply(w) \/ Reply(w) \/ LoseReply(w)
             \/ \E o \in Outcomes : IssueSignSecret(w, o) \/ Sign(w, o) \/ JWTAuth(w, o)
                                      \/ WritePassword(w, o) \/ ClearSignSecret(w, o)
    BY <2>1, <1>1 DEF LoginCheck, SendRequest, VerifyOldPassword, LoginReply, Reply, LoseReply,
       IssueSignSecret, Sign, JWTAuth, WritePassword, ClearSignSecret, store, history
  <2> QED  BY <1>2, <1>3, <1>4, <1>5, <1>7, <2>1 DEF WorkerStep
<1>8. ASSUME NEW a \in Admins, OperatorStep(a) PROVE RevokedStaysRevoked'
  BY <1>8, <1>1 DEF OperatorStep, DisableAdmin, DeleteAdmin, EnableAdmin, ResetAdminPassword,
     Deactivate, history
<1> QED  BY <1>1, <1>6, <1>7, <1>8 DEF Next, vars, Crash, store

-----------------------------------------------------------------------------
(* The cut-offs.  Timely bounds what an opening login may still write, so  *)
(* that the secret it stores meets the bound the state already met.        *)

CutOff == Timely /\ DisabledAdminCutOff /\ OldPasswordCutOff

\* What the rows and the clock look like to a login under way, for the steps
\* that leave both alone.
LEMMA TimelyKept ==
    ASSUME Timely, UNCHANGED <<now, db, off, stale>>,
           \A w \in Workers : req'[w].pc \in Opening =>
               /\ req[w].pc \in Opening /\ req'[w].a = req[w].a
               /\ req'[w].ck = req[w].ck /\ req'[w].pwd = req[w].pwd
    PROVE  Timely'
BY DEF Timely

LEMMA CutOffKept ==
    ASSUME DisabledAdminCutOff, OldPasswordCutOff, UNCHANGED <<db, off, stale>>,
           \A a \in Admins : secret'[a].exp # 0 => secret'[a] = secret[a]
    PROVE  DisabledAdminCutOff' /\ OldPasswordCutOff'
BY DEF DisabledAdminCutOff, OldPasswordCutOff

LEMMA CutOffLoginCheck ==
    ASSUME TypeOK, Ids, CutOff,
           NEW w \in Workers, NEW c \in Clients, NEW a \in Admins, LoginCheck(w, c, a)
    PROVE  CutOff'
<1>1. PICK j \in Jti : req' = [req EXCEPT ![w] =
              [Idle EXCEPT !.pc = "l_token", !.op = "login", !.c = c, !.a = a,
                           !.jti = j, !.sec = j, !.ck = now, !.pwd = db[a].pwd]]
  BY DEF LoginCheck
<1>2. /\ req'[w].a = a /\ req'[w].ck = now /\ req'[w].pwd = db[a].pwd
      /\ \A x \in Workers \ {w} : req'[x] = req[x]
  BY <1>1 DEF TypeOK, Idle
<1>3. UNCHANGED <<now, db, secret, off, stale>> /\ db[a].st = "on"
  BY DEF LoginCheck, history
<1>4. now \in Nat /\ now <= now + LoginSpan /\ db[a].pwd \in Nat
  BY SpanAssumption, BoundAssumption DEF TypeOK, Time, Row, Versions
<1>5. Timely'
  BY <1>2, <1>3, <1>4 DEF Timely, CutOff
<1> QED  BY <1>3, <1>5, CutOffKept DEF CutOff

LEMMA CutOffIssue ==
    ASSUME TypeOK, Ids, CutOff, NEW w \in Workers, NEW o \in Outcomes, IssueSignSecret(w, o)
    PROVE  DisabledAdminCutOff' /\ OldPasswordCutOff'
<1> DEFINE a == req[w].a
<1>1. a \in Admins /\ req[w].pc \in Opening
  BY DEF IssueSignSecret, Opening, Ids, Busy
<1>2. UNCHANGED <<now, db, off, stale>>
  BY DEF IssueSignSecret, history
<1>3. CASE secret' = secret
  BY <1>2, <1>3, CutOffKept DEF CutOff
<1>4. CASE secret' = [secret EXCEPT ![a] = [id |-> req[w].sec, exp |-> SecretExpiry,
                                            pwd |-> req[w].pwd]]
  <2>1. secret'[a].exp = now + Ttl /\ secret'[a].pwd = req[w].pwd
        /\ \A b \in Admins \ {a} : secret'[b] = secret[b]
    BY <1>1, <1>4 DEF TypeOK, SecretExpiry, Lifetime
  <2>2. /\ now <= req[w].ck + LoginSpan
        /\ db[a].st # "on" => req[w].ck <= off[a]
        /\ req[w].pwd < db[a].pwd => req[w].ck <= stale[a][req[w].pwd]
    BY <1>1 DEF CutOff, Timely
  <2>3. now \in Nat /\ req[w].ck \in Nat /\ off[a] \in Nat /\ stale[a][req[w].pwd] \in Nat
        /\ Ttl \in Nat /\ LoginSpan \in Nat
    BY <1>1, TtlAssumption, SpanAssumption, BoundAssumption DEF TypeOK, Time, Request
  <2>4. db[a].st # "on" => secret'[a].exp <= off[a] + LoginSpan + Ttl
    BY <2>1, <2>2, <2>3
  <2>5. req[w].pwd < db[a].pwd => secret'[a].exp <= stale[a][req[w].pwd] + LoginSpan + Ttl
    BY <2>1, <2>2, <2>3
  <2>6. DisabledAdminCutOff'
    BY <1>2, <2>1, <2>4 DEF DisabledAdminCutOff, CutOff
  <2>7. OldPasswordCutOff'
    BY <1>2, <2>1, <2>5 DEF OldPasswordCutOff, CutOff
  <2> QED  BY <2>6, <2>7
<1> QED  BY <1>3, <1>4 DEF IssueSignSecret

\* A row loses its standing now, and a secret stored by now ends in one lifetime.
LEMMA CutOffDeactivate ==
    ASSUME TypeOK, Ids, CutOff, NEW a \in Admins,
           DisableAdmin(a) \/ DeleteAdmin(a) \/ EnableAdmin(a)
    PROVE  CutOff'
<1>1. PICK st \in {"on", "off", "del"} :
        /\ db' = [db EXCEPT ![a] = [db[a] EXCEPT !.st = st]]
        /\ st # "on" => off' = IF db[a].st = "on" THEN [off EXCEPT ![a] = now] ELSE off
        /\ st = "on" => off' = off
  BY DEF DisableAdmin, DeleteAdmin, EnableAdmin, Deactivate, history
<1>2. UNCHANGED <<now, secret, req, stale>>
  BY DEF DisableAdmin, DeleteAdmin, EnableAdmin, Deactivate, history
<1>3. \A b \in Admins : /\ db'[b].pwd = db[b].pwd
                        /\ b # a => db'[b] = db[b] /\ off'[b] = off[b]
                        /\ db'[b].st # "on" => off'[b] = IF db[b].st = "on" THEN now ELSE off[b]
  BY <1>1 DEF TypeOK, Row
<1>4. now \in Nat /\ Ttl \in Nat /\ LoginSpan \in Nat
  BY TtlAssumption, SpanAssumption DEF TypeOK, Time
<1>5. \A w \in Workers : req[w].pc \in Opening => req[w].a \in Admins
  BY DEF Ids, Busy, Opening
<1>6. Timely'
  BY <1>2, <1>3, <1>5 DEF CutOff, Timely
<1>7. DisabledAdminCutOff'
  <2> SUFFICES ASSUME NEW b \in Admins, db'[b].st # "on", secret[b].exp # 0
               PROVE  secret[b].exp <= off'[b] + LoginSpan + Ttl
    BY <1>2 DEF DisabledAdminCutOff
  <2>1. CASE db[b].st = "on"
    BY <2>1, <1>3, <1>4 DEF TypeOK, Lifetime, Secret, Expiry
  <2>2. CASE db[b].st # "on"
    BY <2>2, <1>3 DEF CutOff, DisabledAdminCutOff
  <2> QED  BY <2>1, <2>2
<1>8. OldPasswordCutOff'
  BY <1>2, <1>3 DEF CutOff, OldPasswordCutOff
<1> QED  BY <1>6, <1>7, <1>8 DEF CutOff

\* The same when a password is replaced.
LEMMA CutOffPassword ==
    ASSUME TypeOK, Ids, CutOff, NEW a \in Admins, NewPassword(a),
           UNCHANGED <<now, secret, off>>,
           \A w \in Workers : req'[w].pc \in Opening => req'[w] = req[w]
    PROVE  CutOff'
<1>1. /\ \A b \in Admins : db'[b].st = db[b].st
      /\ \A b \in Admins \ {a} : db'[b] = db[b] /\ stale'[b] = stale[b]
      /\ db[a].pwd \in Versions /\ db'[a].pwd = db[a].pwd + 1
      /\ stale'[a][db[a].pwd] = now
      /\ \A v \in Versions : v # db[a].pwd => stale'[a][v] = stale[a][v]
  <2>1. db[a] \in Row /\ db' = [db EXCEPT ![a] = [db[a] EXCEPT !.pwd = db[a].pwd + 1]]
    BY DEF TypeOK, NewPassword
  <2>2. stale' = [stale EXCEPT ![a] = [stale[a] EXCEPT ![db[a].pwd] = now]]
        /\ stale[a] \in [Versions -> Time]
    BY DEF TypeOK, NewPassword
  <2> QED  BY <2>1, <2>2 DEF TypeOK, Row
<1>2. now \in Nat /\ Ttl \in Nat /\ LoginSpan \in Nat
  BY TtlAssumption, SpanAssumption DEF TypeOK, Time
<1>3. \A w \in Workers : req[w].pc \in Opening => req[w].a \in Admins /\ req[w].pwd \in Versions
  BY DEF Ids, Busy, Opening, TypeOK, Request
<1>4. Versions \subseteq Nat
  BY DEF Versions
<1>5. \A b \in Admins, v \in Versions : v < db'[b].pwd =>
        \/ v < db[b].pwd /\ stale'[b][v] = stale[b][v]
        \/ stale'[b][v] = now
  <2> SUFFICES ASSUME NEW b \in Admins, NEW v \in Versions, v < db'[b].pwd
               PROVE  \/ v < db[b].pwd /\ stale'[b][v] = stale[b][v]
                      \/ stale'[b][v] = now
    OBVIOUS
  <2>1. CASE b # a
    BY <2>1, <1>1
  <2>2. CASE b = a /\ v = db[a].pwd
    BY <2>2, <1>1
  <2>3. CASE b = a /\ v # db[a].pwd
    <3>1. v \in Nat /\ db[a].pwd \in Nat /\ v < db[a].pwd + 1
      BY <2>3, <1>1, <1>4
    <3> QED  BY <3>1, <2>3, <1>1
  <2> QED  BY <2>1, <2>2, <2>3
<1>6. Timely'
  BY <1>1, <1>3, <1>5 DEF CutOff, Timely
<1>7. DisabledAdminCutOff'
  BY <1>1 DEF CutOff, DisabledAdminCutOff
<1>8. OldPasswordCutOff'
  <2> SUFFICES ASSUME NEW b \in Admins, secret[b].exp # 0, secret[b].pwd < db'[b].pwd
               PROVE  secret[b].exp <= stale'[b][secret[b].pwd] + LoginSpan + Ttl
    BY DEF OldPasswordCutOff
  <2>1. secret[b].pwd \in Versions /\ secret[b].exp <= now + Ttl /\ secret[b].exp \in Nat
    BY DEF TypeOK, Secret, Lifetime, Expiry
  <2>2. CASE secret[b].pwd < db[b].pwd /\ stale'[b][secret[b].pwd] = stale[b][secret[b].pwd]
    BY <2>2 DEF CutOff, OldPasswordCutOff
  <2>3. CASE stale'[b][secret[b].pwd] = now
    BY <2>1, <2>3, <1>2
  <2> QED  BY <2>1, <2>2, <2>3, <1>5
<1> QED  BY <1>6, <1>7, <1>8 DEF CutOff

LEMMA CutOffQuiet ==
    ASSUME TypeOK, Ids, CutOff, NEW w \in Workers, QuietStep(w)
    PROVE  CutOff'
<1>1. Quiet(w)
  BY QuietSteps
<1>2. \A x \in Workers : req'[x].pc \in Opening => req'[x] = req[x]
  BY <1>1 DEF Quiet
<1>3. CASE \E o \in Outcomes : IssueSignSecret(w, o)
  <2>1. UNCHANGED <<now, db, off, stale>>
    BY <1>3 DEF IssueSignSecret, history
  <2> QED  BY <2>1, <1>2, <1>3, CutOffIssue, TimelyKept DEF CutOff
<1>4. CASE \E o \in Outcomes : WritePassword(w, o)
  <2>1. req[w].a \in Admins /\ UNCHANGED <<now, secret, off>>
    BY <1>4 DEF WritePassword, Ids, Busy
  <2>2. NewPassword(req[w].a) \/ UNCHANGED <<db, stale>>
    BY <1>4 DEF WritePassword
  <2> QED  BY <2>1, <2>2, <1>2, CutOffPassword, TimelyKept, CutOffKept DEF CutOff
<1>5. CASE UNCHANGED <<now, db, off, stale>>
           /\ \A a \in Admins : secret'[a].exp # 0 => secret'[a] = secret[a]
  BY <1>2, <1>5, TimelyKept, CutOffKept DEF CutOff
<1>6. ASSUME NEW o \in Outcomes, ClearSignSecret(w, o) PROVE CutOff'
  <2>1. \A a \in Admins : secret'[a].exp # 0 => secret'[a] = secret[a]
    BY <1>6 DEF ClearSignSecret, Cleared, NoSecret, TypeOK
  <2> QED  BY <2>1, <1>5, <1>6 DEF ClearSignSecret, history
<1>7. CASE \E o \in Outcomes : Sign(w, o) \/ JWTAuth(w, o) \/ RefreshToken(w, o)
                               \/ ReissueDel(w, o) \/ LogoutDel(w, o)
  BY <1>7, <1>5 DEF Sign, JWTAuth, RefreshToken, RefreshWith, ReissueDel, LogoutDel, DelToken,
     store, history
<1>8. CASE VerifyOldPassword(w) \/ LoginReply(w) \/ Reply(w) \/ LoseReply(w)
  BY <1>8, <1>5 DEF VerifyOldPassword, LoginReply, Reply, LoseReply, store, history
<1> QED  BY <1>3, <1>4, <1>6, <1>7, <1>8 DEF QuietStep

LEMMA CutOffStep ==
    ASSUME TypeOK, Ids, CutOff, [Next]_vars
    PROVE  CutOff'
<1>1. ASSUME UNCHANGED <<now, db, off, stale, secret>>,
             \A w \in Workers : req'[w].pc \in Opening =>
               /\ req[w].pc \in Opening /\ req'[w].a = req[w].a
               /\ req'[w].ck = req[w].ck /\ req'[w].pwd = req[w].pwd
      PROVE  CutOff'
  BY <1>1, TimelyKept, CutOffKept DEF CutOff
<1>2. ASSUME NEW w \in Workers, NEW o \in Outcomes, LoginSetToken(w, o) PROVE CutOff'
  <2>1. CASE Finish(w)
    BY <2>1, <1>1, <1>2, FinishQuiet DEF LoginSetToken, Quiet, history
  <2>2. CASE Goto(w, o, "l_secret")
    <3>1. req[w] \in Request /\ "l_secret" \in Steps
      BY DEF TypeOK, Steps, LoginSteps
    <3>2. /\ req'[w] = Moved(req[w], o, "l_secret")
          /\ \A x \in Workers \ {w} : req'[x] = req[x]
      BY <2>2 DEF Goto, TypeOK
    <3> QED  BY <3>1, <3>2, <1>1, <1>2, MovedTyped DEF LoginSetToken, history, Opening
  <2> QED  BY <1>2, <2>1, <2>2 DEF LoginSetToken
<1>3. ASSUME NEW w \in Workers, NEW c \in Clients, NEW op \in Ops, SendRequest(w, c, op)
      PROVE  CutOff'
  <2>1. req'[w].pc = "sign" /\ \A x \in Workers \ {w} : req'[x] = req[x]
    BY <1>3 DEF SendRequest, Sent, Idle, TypeOK
  <2> QED  BY <2>1, <1>1, <1>3 DEF SendRequest, store, history, Opening
<1>4. ASSUME NEW w \in Workers, NEW o \in Outcomes, NEW j \in Jti, ReissueSet(w, o, j)
      PROVE  CutOff'
  <2> DEFINE s == IF o = "ok" THEN "r_del" ELSE Handler(req[w].op)
             m == Moved(req[w], o, s)
  <2>1. s \in Steps \ Opening /\ req[w] \in Request
    BY HandlerStep DEF TypeOK, Steps, LoginSteps, Opening
  <2>2. m \in Request /\ m.pc = s
    <3> HIDE DEF s
    <3> QED  BY <2>1, MovedTyped
  <2>3. req' = [req EXCEPT ![w] = IF o = "ok" THEN [m EXCEPT !.new = j] ELSE m]
    BY <1>4 DEF ReissueSet, ReissueSetOr
  <2> HIDE DEF m, s
  <2>4. req'[w].pc \notin Opening /\ \A x \in Workers \ {w} : req'[x] = req[x]
    BY <2>1, <2>2, <2>3 DEF TypeOK, Request
  <2> QED  BY <2>4, <1>1, <1>4 DEF ReissueSet, ReissueSetOr, history
<1>5. ASSUME NEW w \in Workers, WorkerStep(w) PROVE CutOff'
  BY <1>2, <1>3, <1>4, <1>5, CutOffLoginCheck, CutOffQuiet DEF WorkerStep, QuietStep
<1>6. ASSUME NEW a \in Admins, OperatorStep(a) PROVE CutOff'
  <2>1. CASE ResetAdminPassword(a)
    BY <2>1, CutOffPassword DEF ResetAdminPassword
  <2> QED  BY <1>6, <2>1, CutOffDeactivate DEF OperatorStep
<1>7. CASE Tick
  <2>1. Timely'
    <3>1. \A w \in Workers : req[w].pc \in Opening => now + 1 <= req[w].ck + LoginSpan
                                                    /\ req[w].ck \in Nat
      BY <1>7, SpanAssumption DEF Tick, Opening, TypeOK, Request, Time
    <3> QED  BY <1>7, <3>1 DEF Tick, history, CutOff, Timely, TypeOK, Time
  <2>2. \A a \in Admins : secret'[a].exp # 0 => secret'[a] = secret[a]
    BY <1>7 DEF Tick, NoSecret
  <2> QED  BY <2>1, <2>2, <1>7, CutOffKept DEF Tick, history, CutOff
<1>8. CASE Crash
  BY <1>8, <1>1, IdleTyped DEF Crash, store, Opening
<1>9. CASE UNCHANGED vars
  BY <1>9, <1>1 DEF vars
<1> QED  BY <1>5, <1>6, <1>7, <1>8, <1>9 DEF Next

-----------------------------------------------------------------------------
(* The theorems.                                                           *)

LEMMA IInvInit == Init => IInv
<1> SUFFICES ASSUME Init PROVE IInv
  OBVIOUS
<1>1. RevokedStaysRevoked /\ DisabledAdminCutOff /\ OldPasswordCutOff /\ Timely
  BY DEF Init, RevokedStaysRevoked, DisabledAdminCutOff, OldPasswordCutOff, NoSecret,
     Timely, Opening, Idle
<1> QED  BY <1>1, BaseInit DEF IInv, Ids

LEMMA IInvStep == IInv /\ [Next]_vars => IInv'
<1> SUFFICES ASSUME IInv, [Next]_vars PROVE IInv'
  OBVIOUS
<1>1. TypeOK' /\ Counted' /\ Ids'
  BY BaseStep DEF IInv, Ids
<1>2. RevokedStaysRevoked'
  BY RevokedStep DEF IInv, Ids
<1>3. CutOff'
  BY CutOffStep DEF IInv, Ids, CutOff
<1> QED  BY <1>1, <1>2, <1>3 DEF IInv, Ids, CutOff

LEMMA Invariance == Spec => []IInv
BY IInvInit, IInvStep, PTL DEF Spec

\* Every variable keeps its type and no Redis key outlives its lifetime, in
\* every run of the sessions (auth_service.go's SET and EXPIRE with jwtMgr.TTL).
THEOREM TypeCorrect == Spec => []TypeOK
<1>1. IInv => TypeOK
  BY DEF IInv
<1> QED  BY <1>1, Invariance, PTL

\* A token id removed by Logout or Reissue is never whitelisted again.
THEOREM RevokedForGood == Spec => []RevokedStaysRevoked
<1>1. IInv => RevokedStaysRevoked
  BY DEF IInv
<1> QED  BY <1>1, Invariance, PTL

\* A deactivated administrator's sign secret ends within one lifetime.
THEOREM DeactivationCutsOff == Spec => []DisabledAdminCutOff
<1>1. IInv => DisabledAdminCutOff
  BY DEF IInv
<1> QED  BY <1>1, Invariance, PTL

\* A session opened with a replaced password ends within one lifetime.
THEOREM NewPasswordCutsOff == Spec => []OldPasswordCutOff
<1>1. IInv => OldPasswordCutOff
  BY DEF IInv
<1> QED  BY <1>1, Invariance, PTL

-----------------------------------------------------------------------------
(***************************************************************************)
(* The token of a browser that missed no answer stays whitelisted, for     *)
(* every value of the constants.                                           *)
(*                                                                         *)
(* A token that was handed out stays in Redis as long as it is valid or    *)
(* until a request of the one browser that has it removes it; that request *)
(* carries a newer token or the end of the session to the same browser,    *)
(* or it was a logout that removed the token and answered an error.        *)
(***************************************************************************)

At(w, steps) == req[w].pc \in steps

\* Where a request may be that carries a new token.
Renewing == {"r_del", "verify", "write", "clear", "delete", "reply"}

\* A login's token and a renewed one are known to their request alone, and a
\* browser's token to that browser and its requests.
Exclusive ==
    /\ \A w \in Workers : At(w, LoginSteps) =>
         /\ req[w].jti \notin revoked
         /\ \A c \in Clients : client[c].tok # req[w].jti
         /\ \A x \in Workers : req[x].new # req[w].jti
         /\ \A x \in Workers \ {w} : req[x].jti # req[w].jti
    /\ \A w \in Workers : req[w].new \in Jti =>
         /\ req[w].new \notin revoked
         /\ \A c \in Clients : client[c].tok # req[w].new
         /\ \A x \in Workers : req[x].jti # req[w].new
         /\ \A x \in Workers \ {w} : req[x].new # req[w].new
    /\ \A c, d \in Clients : client[c].tok \in Jti /\ client[c].tok = client[d].tok => c = d
    /\ \A c \in Clients, w \in Workers :
         client[c].tok \in Jti /\ req[w].jti = client[c].tok => req[w].c = c

\* What a request carries, by the step it has come to.
Fits(r) ==
    /\ r.new \in Jti => r.pc \in Renewing
    /\ r.pc = "r_del" => r.new \in Jti
    /\ r.pc \in {"clear", "delete"} => r.op \in {"logout", "chpass"}
    /\ r.pc \in {"verify", "write"} => r.op = "chpass"
Flow == \A w \in Workers : Fits(req[w])

\* No token is valid for longer than a lifetime, a whitelisted one was
\* generated and is kept at least as long as it is valid.
Outlasts == \A j \in Jti : /\ jwt[j].exp <= now + Ttl
                           /\ white[j] # 0 => jwt[j].exp # 0 /\ jwt[j].exp <= white[j]

\* Until it is removed or no longer valid, a token that was handed out, or is
\* on its way to be, is whitelisted; a renewed token is valid no shorter than
\* the one it replaces.
Good(j) == white[j] # 0 \/ j \in revoked \/ Expired(jwt[j].exp)
Usable ==
    /\ \A c \in Clients : client[c].tok \in Jti => Good(client[c].tok)
    /\ \A w \in Workers : At(w, {"l_secret", "l_reply"}) => Good(req[w].jti)
    /\ \A w \in Workers : req[w].new \in Jti =>
         Good(req[w].new) /\ jwt[req[w].jti].exp <= jwt[req[w].new].exp

\* A browser whose token was removed has a request that brings another or that
\* ends its session, unless its logout removed it and answered an error.
Brings(w, c) ==
    /\ req[w].pc # "idle" /\ req[w].c = c /\ req[w].jti = client[c].tok
    /\ req[w].new \in Jti \/ (req[w].pc = "reply" /\ req[w].op \in {"logout", "chpass"})
Covered ==
    \A c \in Clients : client[c].tok \in revoked \ undone /\ ~cut[c]
                         => \E w \in Workers : Brings(w, c)

-----------------------------------------------------------------------------
(* What a step does to the tokens that Redis holds.                        *)

Stays      == UNCHANGED <<now, jwt, white, revoked>>
Stores(j)  == /\ UNCHANGED <<now, jwt, revoked>> /\ jwt[j].exp # 0
              /\ white' = [white EXCEPT ![j] = Lifetime]
Removes(j) == /\ UNCHANGED <<now, jwt>> /\ revoked' = revoked \cup {j}
              /\ white' = [white EXCEPT ![j] = 0]
Makes(j)   == /\ UNCHANGED <<now, revoked>> /\ jwt[j].exp = 0
              /\ \E a \in Admins : jwt' = [jwt EXCEPT ![j] = [adm |-> a, exp |-> Lifetime]]
              /\ white' = white \/ white' = [white EXCEPT ![j] = Lifetime]
StoreMoves == Stays \/ Tick \/ \E j \in Jti : Stores(j) \/ Removes(j) \/ Makes(j)

LEMMA StoreCases ==
    ASSUME TypeOK, Ids, [Next]_vars
    PROVE  StoreMoves
<1>1. ASSUME NEW w \in Workers, NEW o \in Outcomes, LoginSetToken(w, o) \/ RefreshToken(w, o)
      PROVE  StoreMoves
  <2>1. req[w].jti \in Jti /\ jwt[req[w].jti].exp # 0
    BY <1>1 DEF LoginSetToken, RefreshToken, RefreshWith, Ids, Busy, Issued
  <2>2. white[req[w].jti] = 0 => [white EXCEPT ![req[w].jti] = 0] = white
    BY DEF TypeOK
  <2>3. UNCHANGED <<now, jwt, revoked>>
    BY <1>1 DEF LoginSetToken, RefreshToken, RefreshWith, history
  <2>4. white' = white \/ white' = [white EXCEPT ![req[w].jti] = Lifetime]
    BY <1>1, <2>2 DEF LoginSetToken, RefreshToken, RefreshWith, Renewed
  <2> QED  BY <2>1, <2>3, <2>4 DEF StoreMoves, Stays, Stores
<1>2. ASSUME NEW w \in Workers, NEW o \in Outcomes, ReissueDel(w, o) \/ LogoutDel(w, o)
      PROVE  StoreMoves
  <2>1. req[w].jti \in Jti
    BY <1>2 DEF ReissueDel, LogoutDel, Ids, Busy
  <2> QED  BY <1>2, <2>1 DEF ReissueDel, LogoutDel, DelToken, StoreMoves, Stays, Removes
<1>3. ASSUME NEW w \in Workers, NEW o \in Outcomes, NEW j \in Jti, ReissueSet(w, o, j)
      PROVE  StoreMoves
  <2>1. req[w].a \in Admins
    BY <1>3 DEF ReissueSet, ReissueSetOr, Ids, Busy
  <2> QED  BY <1>3, <2>1 DEF ReissueSet, ReissueSetOr, StoreMoves, Makes, FreshJti, history
<1>4. ASSUME NEW w \in Workers, NEW c \in Clients, NEW a \in Admins, LoginCheck(w, c, a)
      PROVE  StoreMoves
  BY <1>4 DEF LoginCheck, StoreMoves, Makes, FreshJti, history
<1>5. ASSUME NEW w \in Workers, WorkerStep(w) PROVE StoreMoves
  <2>1. CASE \/ \E c \in Clients, op \in Ops : SendRequest(w, c, op)
             \/ VerifyOldPassword(w) \/ LoginReply(w) \/ Reply(w) \/ LoseReply(w)
             \/ \E o \in Outcomes : IssueSignSecret(w, o) \/ Sign(w, o) \/ JWTAuth(w, o)
                                      \/ WritePassword(w, o) \/ ClearSignSecret(w, o)
    BY <2>1 DEF SendRequest, VerifyOldPassword, LoginReply, Reply, LoseReply, IssueSignSecret,
       Sign, JWTAuth, WritePassword, ClearSignSecret, store, history, StoreMoves, Stays
  <2> QED  BY <1>1, <1>2, <1>3, <1>4, <1>5, <2>1 DEF WorkerStep
<1>6. ASSUME NEW a \in Admins, OperatorStep(a) PROVE StoreMoves
  BY <1>6 DEF OperatorStep, DisableAdmin, DeleteAdmin, EnableAdmin, ResetAdminPassword,
     Deactivate, history, StoreMoves, Stays
<1>7. CASE Crash \/ UNCHANGED vars
  BY <1>7 DEF Crash, vars, store, StoreMoves, Stays
<1> QED  BY <1>5, <1>6, <1>7 DEF Next, StoreMoves

\* A token that is good stays good; what was generated is not generated again.
StaysGood(j) == white'[j] # 0 \/ j \in revoked' \/ jwt'[j].exp <= now'
Keeps == \A j \in Jti : jwt[j].exp # 0 =>
             jwt'[j] = jwt[j] /\ (Good(j) => StaysGood(j))

LEMMA StoreKeeps ==
    ASSUME TypeOK, Outlasts, StoreMoves
    PROVE  Outlasts' /\ Keeps
<1> USE TtlAssumption, BoundAssumption
<1>0. /\ now \in Nat /\ Lifetime = now + Ttl /\ Lifetime # 0
      /\ white \in [Jti -> Nat] /\ jwt \in [Jti -> [adm : Admins \cup {None}, exp : Nat]]
  BY DEF TypeOK, Time, Lifetime, Expiry
<1>1. CASE Stays
  BY <1>1 DEF Stays, Outlasts, Keeps, StaysGood, Good, Expired
<1>2. CASE Tick
  <2>1. /\ now' = now + 1 /\ UNCHANGED <<jwt, revoked>>
        /\ white' = [j \in Jti |-> IF white[j] <= now + 1 THEN 0 ELSE white[j]]
    BY <1>2 DEF Tick, history
  <2>2. Outlasts'
    BY <1>0, <2>1 DEF Outlasts
  <2>3. Keeps
    BY <1>0, <2>1 DEF Keeps, StaysGood, Good, Expired, Outlasts
  <2> QED  BY <2>2, <2>3
<1>3. ASSUME NEW j \in Jti, Stores(j) PROVE Outlasts' /\ Keeps
  BY <1>0, <1>3 DEF Stores, Outlasts, Keeps, StaysGood, Good, Expired
<1>4. ASSUME NEW j \in Jti, Removes(j) PROVE Outlasts' /\ Keeps
  BY <1>0, <1>4 DEF Removes, Outlasts, Keeps, StaysGood, Good, Expired
<1>5. ASSUME NEW j \in Jti, Makes(j) PROVE Outlasts' /\ Keeps
  <2>1. PICK a \in Admins : jwt' = [jwt EXCEPT ![j] = [adm |-> a, exp |-> Lifetime]]
    BY <1>5 DEF Makes
  <2>2. /\ \A i \in Jti \ {j} : jwt'[i] = jwt[i] /\ white'[i] = white[i]
        /\ jwt'[j].exp = Lifetime /\ white'[j] \in {white[j], Lifetime}
        /\ white[j] = 0 /\ UNCHANGED <<now, revoked>>
    BY <1>0, <1>5, <2>1 DEF Makes, Outlasts
  <2> QED  BY <1>0, <1>5, <2>2 DEF Makes, Outlasts, Keeps, StaysGood, Good, Expired
<1> QED  BY <1>1, <1>2, <1>3, <1>4, <1>5 DEF StoreMoves

-----------------------------------------------------------------------------
(* Requests on their way, but for those that make, learn or hand out a token. *)

\* Worker w gives up before it carries a new token, or goes on with what it
\* has; it may remove the token it came with, once it has another or is about
\* to answer that the session is over, or that the logout failed.
GivesUp(w) == req'[w] = Idle /\ ~At(w, Renewing)
GoesOn(w) ==
    /\ req[w].pc \notin {"idle", "reply"} /\ req'[w].pc # "idle"
    /\ req'[w].jti = req[w].jti /\ req'[w].new = req[w].new /\ req'[w].c = req[w].c
    /\ req'[w].pc \in LoginSteps => req[w].pc \in LoginSteps
    /\ req'[w].pc \in {"l_secret", "l_reply"} =>
         white'[req[w].jti] # 0 \/ req[w].pc \in {"l_secret", "l_reply"}
Passes(w) ==
    /\ \A x \in Workers \ {w} : req'[x] = req[x]
    /\ Fits(req'[w])
    /\ GivesUp(w) \/ GoesOn(w)
    /\ UNCHANGED <<client, cut>> /\ undone \subseteq undone'
    /\ \/ revoked' = revoked
       \/ /\ GoesOn(w) /\ revoked' = revoked \cup {req[w].jti}
          /\ \/ req[w].pc = "r_del"
             \/ /\ req[w].pc = "delete"
                /\ \/ req'[w].pc = "reply" /\ req'[w].op = req[w].op
                   \/ req[w].jti \in undone'

LEMMA IdleFits == Fits(Idle) /\ Idle.pc = "idle"
BY NoneAssumption DEF Fits, Idle

\* Goto and Refuse change the step, and Refuse the operation.
LEMMA GotoMoves ==
    ASSUME TypeOK, NEW w \in Workers, NEW o, NEW s, Goto(w, o, s)
    PROVE  /\ \A x \in Workers \ {w} : req'[x] = req[x]
           /\ req'[w].pc = s /\ req'[w].op = req[w].op /\ req'[w].jti = req[w].jti
           /\ req'[w].new = req[w].new /\ req'[w].c = req[w].c
BY DEF TypeOK, Goto, Moved, Request

LEMMA RefuseMoves ==
    ASSUME TypeOK, NEW w \in Workers, NEW o, Refuse(w, o)
    PROVE  /\ \A x \in Workers \ {w} : req'[x] = req[x]
           /\ req'[w].pc = "reply" /\ req'[w].op = "work" /\ req'[w].jti = req[w].jti
           /\ req'[w].new = req[w].new /\ req'[w].c = req[w].c
BY DEF TypeOK, Refuse, Refused, Moved, Request

LEMMA FinishMoves ==
    ASSUME TypeOK, NEW w \in Workers, Finish(w)
    PROVE  req'[w] = Idle /\ \A x \in Workers \ {w} : req'[x] = req[x]
BY DEF TypeOK, Finish

LEMMA HandlerFits ==
    ASSUME NEW op
    PROVE  /\ Handler(op) \in Renewing \ {"r_del", "write", "delete"}
           /\ Handler(op) = "clear" => op = "logout"
           /\ Handler(op) = "verify" => op = "chpass"
BY DEF Handler, Renewing

\* A login up to its answer.
LEMMA LoginPasses ==
    ASSUME TypeOK, Ids, Flow, NEW w \in Workers, NEW o \in Outcomes,
           LoginSetToken(w, o) \/ IssueSignSecret(w, o)
    PROVE  Passes(w)
<1>1. UNCHANGED <<client, cut, revoked, undone>>
  BY DEF LoginSetToken, IssueSignSecret, history
<1>2. req[w].pc \in {"l_token", "l_secret"} /\ req[w].new \notin Jti
  BY DEF LoginSetToken, IssueSignSecret, Flow, Fits, Renewing
<1>3. CASE Finish(w)
  BY <1>1, <1>2, <1>3, FinishMoves, IdleFits DEF Passes, GivesUp, At, Renewing
<1>4. CASE LoginSetToken(w, o) /\ o = "ok"
  <2>1. Goto(w, o, "l_secret") /\ white' = [white EXCEPT ![req[w].jti] = Lifetime]
    BY <1>4 DEF LoginSetToken, TookPlace
  <2>2. white'[req[w].jti] # 0
    BY <1>2, <2>1, TtlAssumption, BoundAssumption DEF Ids, Busy, TypeOK, Time, Lifetime
  <2> QED  BY <1>1, <1>2, <2>1, <2>2, GotoMoves DEF Passes, GoesOn, Fits, LoginSteps
<1>5. CASE IssueSignSecret(w, o) /\ o = "ok"
  <2>1. Goto(w, o, "l_reply") /\ req[w].pc = "l_secret"
    BY <1>5 DEF IssueSignSecret
  <2> QED  BY <1>1, <1>2, <2>1, GotoMoves DEF Passes, GoesOn, Fits, LoginSteps
<1> QED  BY <1>3, <1>4, <1>5 DEF LoginSetToken, IssueSignSecret

\* The middlewares; a renewal whose SET reports an error goes on as if there
\* were none.
LEMMA MiddlewarePasses ==
    ASSUME TypeOK, Flow, NEW w \in Workers, NEW o \in Outcomes,
           \/ Sign(w, o) \/ JWTAuth(w, o) \/ RefreshToken(w, o) \/ ReissueDel(w, o)
           \/ o # "ok" /\ \E j \in Jti : ReissueSet(w, o, j)
    PROVE  Passes(w)
<1>1. UNCHANGED <<client, cut, undone>> /\ Fits(req[w])
  BY DEF Sign, JWTAuth, RefreshToken, RefreshWith, ReissueDel, DelToken, ReissueSet,
     ReissueSetOr, history, Flow
<1>2. ASSUME NEW s, Goto(w, o, s), UNCHANGED revoked,
             req[w].pc \in {"sign", "auth", "refresh", "r_set"},
             s \in {"auth", "refresh", "r_set", Handler(req[w].op)}
      PROVE  Passes(w)
  <2>1. req[w].new \notin Jti
    BY <1>1, <1>2 DEF Fits, Renewing
  <2>2. req'[w].pc = s /\ s \notin LoginSteps /\ s # "idle"
    BY <1>2, GotoMoves, HandlerFits DEF LoginSteps, Renewing
  <2>3. Fits(req'[w])
    BY <1>2, <2>1, GotoMoves, HandlerFits DEF Fits
  <2> QED  BY <1>1, <1>2, <2>2, <2>3, GotoMoves DEF Passes, GoesOn, LoginSteps
<1>3. ASSUME Finish(w), UNCHANGED revoked, req[w].pc \in {"sign", "auth"}
      PROVE  Passes(w)
  BY <1>1, <1>3, FinishMoves, IdleFits DEF Passes, GivesUp, At, Renewing
<1>4. CASE Sign(w, o) \/ JWTAuth(w, o)
  BY <1>2, <1>3, <1>4 DEF Sign, JWTAuth, history
<1>5. CASE RefreshToken(w, o)
  BY <1>2, <1>5 DEF RefreshToken, RefreshWith, history
<1>6. CASE ReissueDel(w, o)
  <2>1. /\ req[w].pc = "r_del" /\ Goto(w, o, Handler(req[w].op))
        /\ revoked' \in {revoked, revoked \cup {req[w].jti}}
    BY <1>6 DEF ReissueDel, DelToken
  <2>2. Fits(req'[w]) /\ GoesOn(w)
    BY <1>1, <2>1, GotoMoves, HandlerFits DEF Fits, GoesOn, Renewing, LoginSteps
  <2> QED  BY <1>1, <2>1, <2>2, GotoMoves DEF Passes
<1>7. ASSUME o # "ok", NEW j \in Jti, ReissueSet(w, o, j) PROVE Passes(w)
  <2>1. Goto(w, o, Handler(req[w].op)) /\ req[w].pc = "r_set" /\ UNCHANGED revoked
    BY <1>7 DEF ReissueSet, ReissueSetOr, Goto, history
  <2> QED  BY <1>2, <2>1
<1> QED  BY <1>4, <1>5, <1>6, <1>7

\* The handlers.
LEMMA HandlerPasses ==
    ASSUME TypeOK, Flow, NEW w \in Workers,
           \/ \E o \in Outcomes : WritePassword(w, o) \/ ClearSignSecret(w, o) \/ LogoutDel(w, o)
           \/ VerifyOldPassword(w)
    PROVE  Passes(w)
<1>1. UNCHANGED <<client, cut>> /\ undone \subseteq undone' /\ Fits(req[w])
  BY DEF WritePassword, ClearSignSecret, LogoutDel, DelToken, VerifyOldPassword, history, Flow
<1>2. ASSUME NEW o, Refuse(w, o), UNCHANGED revoked, req[w].pc \in {"verify", "write"}
      PROVE  Passes(w)
  <2>1. Fits(req'[w]) /\ GoesOn(w)
    BY <1>1, <1>2, RefuseMoves DEF Fits, GoesOn, Renewing, LoginSteps
  <2> QED  BY <1>1, <1>2, <2>1, RefuseMoves DEF Passes
<1>3. ASSUME NEW o, NEW s, Goto(w, o, s), UNCHANGED revoked,
             \/ req[w].pc = "verify" /\ s = "write"
             \/ req[w].pc = "write" /\ s = "clear"
             \/ req[w].pc = "clear" /\ s = "delete"
      PROVE  Passes(w)
  <2>1. Fits(req'[w]) /\ GoesOn(w)
    BY <1>1, <1>3, GotoMoves DEF Fits, GoesOn, Renewing, LoginSteps
  <2> QED  BY <1>1, <1>3, <2>1, GotoMoves DEF Passes
<1>4. CASE VerifyOldPassword(w)
  BY <1>2, <1>3, <1>4 DEF VerifyOldPassword, history
<1>5. ASSUME NEW o \in Outcomes, WritePassword(w, o) PROVE Passes(w)
  BY <1>2, <1>3, <1>5 DEF WritePassword
<1>6. ASSUME NEW o \in Outcomes, ClearSignSecret(w, o) PROVE Passes(w)
  BY <1>3, <1>6 DEF ClearSignSecret, history
<1>7. ASSUME NEW o \in Outcomes, LogoutDel(w, o) PROVE Passes(w)
  <2>1. /\ req[w].pc = "delete" /\ (Goto(w, o, "reply") \/ Refuse(w, o))
        /\ revoked' \in {revoked, revoked \cup {req[w].jti}}
    BY <1>7 DEF LogoutDel, DelToken
  <2>2. Fits(req'[w]) /\ GoesOn(w)
    BY <1>1, <2>1, GotoMoves, RefuseMoves DEF Fits, GoesOn, Renewing, LoginSteps
  <2>3. Goto(w, o, "reply") \/ revoked' = revoked \/ req[w].jti \in undone'
    BY <1>7 DEF LogoutDel, DelToken
  <2> QED  BY <1>1, <2>1, <2>2, <2>3, GotoMoves, RefuseMoves DEF Passes
<1> QED  BY <1>4, <1>5, <1>6, <1>7

\* What remains usable: tokens that stay where they are, and those that move
\* and are good.
LEMMA UsableStays ==
    ASSUME Ids, Flow, Keeps, Usable,
           \A c \in Clients : client'[c].tok \in Jti =>
             \/ client'[c].tok = client[c].tok
             \/ jwt[client'[c].tok].exp # 0 /\ Good(client'[c].tok),
           \A x \in Workers : req'[x].pc \in {"l_secret", "l_reply"} =>
             \/ At(x, {"l_secret", "l_reply"}) /\ req'[x].jti = req[x].jti
             \/ white'[req'[x].jti] # 0,
           \A x \in Workers : req'[x].new \in Jti =>
             \/ req'[x].new = req[x].new /\ req'[x].jti = req[x].jti
             \/ StaysGood(req'[x].new) /\ jwt'[req'[x].jti].exp <= jwt'[req'[x].new].exp
    PROVE  Usable'
<1> USE DEF Good, Expired, StaysGood
<1>1. ASSUME NEW c \in Clients, client'[c].tok \in Jti PROVE StaysGood(client'[c].tok)
  <2>1. jwt[client'[c].tok].exp # 0 /\ Good(client'[c].tok)
    BY <1>1 DEF Usable, Ids, Issued
  <2> QED  BY <1>1, <2>1 DEF Keeps
<1>2. ASSUME NEW x \in Workers, At(x, {"l_secret", "l_reply"})' PROVE StaysGood(req'[x].jti)
  <2>1. CASE At(x, {"l_secret", "l_reply"}) /\ req'[x].jti = req[x].jti
    <3>1. req[x].jti \in Jti /\ jwt[req[x].jti].exp # 0 /\ Good(req[x].jti)
      BY <2>1 DEF Usable, Ids, Issued, Busy, At
    <3> QED  BY <2>1, <3>1 DEF Keeps
  <2> QED  BY <1>2, <2>1 DEF At
<1>3. ASSUME NEW x \in Workers, req'[x].new \in Jti
      PROVE  StaysGood(req'[x].new) /\ jwt'[req'[x].jti].exp <= jwt'[req'[x].new].exp
  <2>1. CASE req'[x].new = req[x].new /\ req'[x].jti = req[x].jti
    <3>1. req[x].new \in Jti /\ req[x].jti \in Jti
      BY <1>3, <2>1 DEF Flow, Fits, Renewing, Ids, Busy
    <3>2. jwt[req[x].new].exp # 0 /\ jwt[req[x].jti].exp # 0
      BY <3>1 DEF Ids, Issued
    <3>3. Good(req[x].new) /\ jwt[req[x].jti].exp <= jwt[req[x].new].exp
      BY <3>1 DEF Usable
    <3> QED  BY <2>1, <3>1, <3>2, <3>3 DEF Keeps
  <2> QED  BY <1>3, <2>1
<1> QED  BY <1>1, <1>2, <1>3 DEF Usable

\* What such a step does to the invariant.
Tokens == Exclusive /\ Flow /\ Usable /\ Covered

LEMMA PassesTokens ==
    ASSUME TypeOK, Ids, Tokens, Keeps, NEW w \in Workers, Passes(w)
    PROVE  Tokens'
<1>1. /\ UNCHANGED <<client, cut>> /\ revoked' \subseteq revoked \cup {req[w].jti}
      /\ undone \subseteq undone'
      /\ \A x \in Workers \ {w} : req'[x] = req[x]
      /\ req[w].pc \in LoginSteps => revoked' = revoked
  BY DEF Passes, LoginSteps
<1>2. req'[w].jti \in {None, req[w].jti} /\ req'[w].new \in {None, req[w].new}
  BY DEF Passes, GivesUp, GoesOn, Idle
<1>3. req'[w].pc \in LoginSteps => req[w].pc \in LoginSteps /\ req'[w].jti = req[w].jti
  BY DEF Passes, GivesUp, GoesOn, Idle, LoginSteps
<1>4. req'[w].jti = None \/ (req'[w].jti = req[w].jti /\ req'[w].c = req[w].c)
  BY DEF Passes, GivesUp, GoesOn, Idle
<1>5. Exclusive'
  <2>1. ASSUME NEW x \in Workers, At(x, LoginSteps)'
        PROVE  /\ req'[x].jti \notin revoked'
               /\ \A c \in Clients : client'[c].tok # req'[x].jti
               /\ \A y \in Workers : req'[y].new # req'[x].jti
               /\ \A y \in Workers \ {x} : req'[y].jti # req'[x].jti
    <3>1. At(x, LoginSteps) /\ req'[x].jti = req[x].jti /\ req[x].jti \in Jti
      BY <1>1, <1>3, <2>1 DEF At, Ids, Busy, LoginSteps
    <3>2. req[x].jti \notin revoked'
      BY <1>1, <3>1 DEF Tokens, Exclusive, At
    <3> QED  BY <1>1, <1>2, <3>1, <3>2, NoneAssumption DEF Tokens, Exclusive
  <2>2. ASSUME NEW x \in Workers, req'[x].new \in Jti
        PROVE  /\ req'[x].new \notin revoked'
               /\ \A c \in Clients : client'[c].tok # req'[x].new
               /\ \A y \in Workers : req'[y].jti # req'[x].new
               /\ \A y \in Workers \ {x} : req'[y].new # req'[x].new
    <3>1. req'[x].new = req[x].new
      BY <1>1, <1>2, <2>2, NoneAssumption
    <3> QED  BY <1>1, <1>2, <2>2, <3>1, NoneAssumption DEF Tokens, Exclusive
  <2>3. ASSUME NEW c \in Clients, NEW x \in Workers,
               client'[c].tok \in Jti, req'[x].jti = client'[c].tok
        PROVE  req'[x].c = c
    BY <1>1, <1>4, <2>3, NoneAssumption DEF Tokens, Exclusive
  <2> QED  BY <1>1, <2>1, <2>2, <2>3 DEF Tokens, Exclusive
<1>6. Flow'
  BY <1>1 DEF Tokens, Flow, Passes
<1>7. Usable'
  <2>1. \A x \in Workers : req'[x].pc \in {"l_secret", "l_reply"} =>
          \/ At(x, {"l_secret", "l_reply"}) /\ req'[x].jti = req[x].jti
          \/ white'[req'[x].jti] # 0
    <3>1. req'[w].pc \in {"l_secret", "l_reply"} =>
            \/ At(w, {"l_secret", "l_reply"}) /\ req'[w].jti = req[w].jti
            \/ white'[req'[w].jti] # 0
      BY DEF Passes, GivesUp, GoesOn, At, Idle
    <3> QED  BY <1>1, <3>1 DEF At
  <2>2. \A x \in Workers : req'[x].new \in Jti =>
          req'[x].new = req[x].new /\ req'[x].jti = req[x].jti
    <3>1. req'[w].new \in Jti => req'[w].new = req[w].new /\ req'[w].jti = req[w].jti
      BY NoneAssumption DEF Passes, GivesUp, GoesOn, Idle
    <3> QED  BY <1>1, <3>1
  <2> QED  BY <1>1, <2>1, <2>2, UsableStays DEF Tokens
<1>8. Covered'
  <2> SUFFICES ASSUME NEW c \in Clients, client[c].tok \in revoked', client[c].tok \notin undone', ~cut[c]
               PROVE  \E x \in Workers : Brings(x, c)'
    BY <1>1 DEF Covered
  <2>1. ASSUME NEW x \in Workers, Brings(x, c) PROVE Brings(x, c)'
    <3>1. CASE x = w
      <4>1. At(w, Renewing)
        BY <2>1, <3>1 DEF Brings, Tokens, Flow, Fits, At, Renewing
      <4>2. GoesOn(w)
        BY <4>1 DEF Passes, GivesUp
      <4> QED  BY <1>1, <2>1, <3>1, <4>2 DEF Brings, GoesOn
    <3> QED  BY <1>1, <2>1, <3>1 DEF Brings
  <2>2. CASE client[c].tok \in revoked
    BY <1>1, <2>1, <2>2 DEF Tokens, Covered
  <2>3. CASE client[c].tok \notin revoked
    <3>1. /\ client[c].tok = req[w].jti /\ GoesOn(w)
          /\ \/ req[w].pc = "r_del"
             \/ req[w].pc = "delete" /\ req'[w].pc = "reply" /\ req'[w].op = req[w].op
      BY <2>3 DEF Passes
    <3>2. req[w].jti \in Jti /\ req[w].c = c
      BY <3>1 DEF GoesOn, Ids, Busy, Tokens, Exclusive
    <3>3. req[w].new \in Jti \/ (req[w].pc = "delete" /\ req[w].op \in {"logout", "chpass"})
      BY <3>1 DEF Tokens, Flow, Fits
    <3> QED  BY <1>1, <3>1, <3>2, <3>3 DEF GoesOn, Brings
  <2> QED  BY <2>2, <2>3
<1> QED  BY <1>5, <1>6, <1>7, <1>8 DEF Tokens

-----------------------------------------------------------------------------
(* The steps that make, learn or hand out a token.                         *)

\* A fresh token is nowhere yet.
LEMMA FreshNowhere ==
    ASSUME Ids, NEW j \in Jti, FreshJti(j)
    PROVE  /\ j \notin revoked /\ \A c \in Clients : client[c].tok # j
           /\ \A x \in Workers : req[x].jti # j /\ req[x].new # j
BY DEF Ids, Issued, FreshJti

LEMMA LoginCheckTokens ==
    ASSUME TypeOK, Ids, Tokens, Keeps,
           NEW w \in Workers, NEW c \in Clients, NEW a \in Admins, LoginCheck(w, c, a)
    PROVE  Tokens'
<1>1. PICK j \in Jti :
        /\ FreshJti(j)
        /\ req' = [req EXCEPT ![w] =
              [Idle EXCEPT !.pc = "l_token", !.op = "login", !.c = c, !.a = a,
                           !.jti = j, !.sec = j, !.ck = now, !.pwd = db[a].pwd]]
  BY DEF LoginCheck
<1>2. /\ req'[w].pc = "l_token" /\ req'[w].jti = j /\ req'[w].new = None
      /\ \A x \in Workers \ {w} : req'[x] = req[x]
  BY <1>1 DEF TypeOK, Idle
<1>3. UNCHANGED <<client, revoked, cut, undone>> /\ req[w].pc = "idle"
  BY DEF LoginCheck, history
<1>4. Exclusive'
  <2>1. /\ j \notin revoked' /\ \A c1 \in Clients : client'[c1].tok # j
        /\ \A x \in Workers : req'[x].new # j /\ (x # w => req'[x].jti # j)
    BY <1>1, <1>2, <1>3, FreshNowhere, NoneAssumption
  <2>2. ASSUME NEW x \in Workers, At(x, LoginSteps)'
        PROVE  /\ req'[x].jti \notin revoked'
               /\ \A d \in Clients : client'[d].tok # req'[x].jti
               /\ \A y \in Workers : req'[y].new # req'[x].jti
               /\ \A y \in Workers \ {x} : req'[y].jti # req'[x].jti
    <3>1. CASE x = w
      BY <1>2, <2>1, <3>1
    <3>2. CASE x # w
      <4>1. req'[x] = req[x] /\ At(x, LoginSteps) /\ req[x].jti \in Jti
        BY <1>2, <2>2, <3>2 DEF At, LoginSteps, Ids, Busy
      <4> QED  BY <1>2, <1>3, <2>1, <3>2, <4>1, NoneAssumption DEF Tokens, Exclusive
    <3> QED  BY <3>1, <3>2
  <2>3. ASSUME NEW x \in Workers, req'[x].new \in Jti
        PROVE  /\ req'[x].new \notin revoked'
               /\ \A d \in Clients : client'[d].tok # req'[x].new
               /\ \A y \in Workers : req'[y].jti # req'[x].new
               /\ \A y \in Workers \ {x} : req'[y].new # req'[x].new
    <3>1. x # w /\ req'[x] = req[x]
      BY <1>2, <2>3, NoneAssumption
    <3> QED  BY <1>2, <1>3, <2>1, <2>3, <3>1, NoneAssumption DEF Tokens, Exclusive
  <2>4. ASSUME NEW d \in Clients, NEW x \in Workers,
               client'[d].tok \in Jti, req'[x].jti = client'[d].tok
        PROVE  req'[x].c = d
    BY <1>2, <1>3, <2>1, <2>4 DEF Tokens, Exclusive
  <2> QED  BY <1>3, <2>2, <2>3, <2>4 DEF Tokens, Exclusive
<1>5. Flow'
  BY <1>2, NoneAssumption DEF Tokens, Flow, Fits
<1>6. Usable'
  <2>1. \A x \in Workers : req'[x].pc \in {"l_secret", "l_reply"} \/ req'[x].new \in Jti =>
          req'[x] = req[x]
    BY <1>2, NoneAssumption
  <2> QED  BY <1>3, <2>1, UsableStays DEF Tokens, At
<1>7. Covered'
  BY <1>2, <1>3 DEF Tokens, Covered, Brings
<1> QED  BY <1>4, <1>5, <1>6, <1>7 DEF Tokens

LEMMA SendTokens ==
    ASSUME TypeOK, Ids, Tokens, Keeps,
           NEW w \in Workers, NEW c \in Clients, NEW op \in Ops, SendRequest(w, c, op)
    PROVE  Tokens'
<1>1. /\ req'[w].pc = "sign" /\ req'[w].jti = client[c].tok /\ req'[w].new = None
      /\ req'[w].c = c /\ client[c].tok \in Jti
      /\ \A x \in Workers \ {w} : req'[x] = req[x]
  BY DEF SendRequest, Sent, Idle, TypeOK, MaybeJti
<1>2. UNCHANGED <<client, revoked, cut, undone>> /\ req[w].pc = "idle"
  BY DEF SendRequest, history
<1>3. Exclusive'
  <2>1. ASSUME NEW x \in Workers, At(x, LoginSteps)' \/ req'[x].new \in Jti
        PROVE  x # w /\ req'[x] = req[x]
    BY <1>1, <2>1, NoneAssumption DEF At, LoginSteps
  <2>2. ASSUME NEW x \in Workers, At(x, LoginSteps)'
        PROVE  /\ req'[x].jti \notin revoked'
               /\ \A d \in Clients : client'[d].tok # req'[x].jti
               /\ \A y \in Workers : req'[y].new # req'[x].jti
               /\ \A y \in Workers \ {x} : req'[y].jti # req'[x].jti
    <3>1. At(x, LoginSteps) /\ req[x].jti \in Jti
      BY <2>1, <2>2 DEF At, LoginSteps, Ids, Busy
    <3> QED  BY <1>1, <1>2, <2>1, <2>2, <3>1, NoneAssumption DEF Tokens, Exclusive
  <2>3. ASSUME NEW x \in Workers, req'[x].new \in Jti
        PROVE  /\ req'[x].new \notin revoked'
               /\ \A d \in Clients : client'[d].tok # req'[x].new
               /\ \A y \in Workers : req'[y].jti # req'[x].new
               /\ \A y \in Workers \ {x} : req'[y].new # req'[x].new
    BY <1>1, <1>2, <2>1, <2>3, NoneAssumption DEF Tokens, Exclusive
  <2>4. ASSUME NEW d \in Clients, NEW x \in Workers,
               client'[d].tok \in Jti, req'[x].jti = client'[d].tok
        PROVE  req'[x].c = d
    BY <1>1, <1>2, <2>4 DEF Tokens, Exclusive
  <2> QED  BY <1>2, <2>2, <2>3, <2>4 DEF Tokens, Exclusive
<1>4. Flow'
  BY <1>1, NoneAssumption DEF Tokens, Flow, Fits
<1>5. Usable'
  <2>1. \A x \in Workers : req'[x].pc \in {"l_secret", "l_reply"} \/ req'[x].new \in Jti =>
          req'[x] = req[x]
    BY <1>1, NoneAssumption
  <2> QED  BY <1>2, <2>1, UsableStays DEF Tokens, At
<1>6. Covered'
  BY <1>1, <1>2 DEF Tokens, Covered, Brings
<1> QED  BY <1>3, <1>4, <1>5, <1>6 DEF Tokens

\* A renewal: the new token is stored before it is known to the request.
LEMMA RenewalTokens ==
    ASSUME TypeOK, Ids, Tokens, Outlasts, Keeps,
           NEW w \in Workers, NEW j \in Jti, ReissueSet(w, "ok", j)
    PROVE  Tokens'
<1>1. /\ req[w].pc = "r_set" /\ FreshJti(j) /\ UNCHANGED <<now, client, revoked, cut, undone>>
      /\ white' = [white EXCEPT ![j] = Lifetime]
      /\ jwt' = [jwt EXCEPT ![j] = [adm |-> req[w].a, exp |-> Lifetime]]
      /\ req' = [req EXCEPT ![w] = [Moved(req[w], "ok", "r_del") EXCEPT !.new = j]]
  BY DEF ReissueSet, ReissueSetOr, history, TookPlace
<1>2. /\ req'[w].pc = "r_del" /\ req'[w].jti = req[w].jti /\ req'[w].new = j
      /\ req'[w].c = req[w].c /\ \A x \in Workers \ {w} : req'[x] = req[x]
  BY <1>1 DEF TypeOK, Moved, Request
<1>3. Exclusive'
  BY <1>1, <1>2, FreshNowhere DEF Tokens, Exclusive, At, LoginSteps
<1>4. Flow'
  BY <1>2 DEF Tokens, Flow, Fits, Renewing
<1>5. StaysGood(j) /\ jwt'[req'[w].jti].exp <= jwt'[j].exp
  <2>1. req[w].jti \in Jti /\ req[w].jti # j
    BY <1>1, FreshNowhere DEF Ids, Busy
  <2>2. jwt'[req[w].jti].exp = jwt[req[w].jti].exp /\ jwt'[j].exp = Lifetime /\ white'[j] = Lifetime
    BY <1>1, <2>1 DEF TypeOK
  <2>3. Lifetime = now + Ttl /\ Lifetime # 0
    BY TtlAssumption, BoundAssumption DEF TypeOK, Time, Lifetime
  <2> QED  BY <1>2, <2>1, <2>2, <2>3 DEF StaysGood, Outlasts
<1>6. Usable'
  <2>1. \A x \in Workers : req'[x].pc \in {"l_secret", "l_reply"} => req'[x] = req[x]
    BY <1>2
  <2>2. \A x \in Workers : req'[x].new \in Jti =>
          \/ req'[x] = req[x]
          \/ StaysGood(req'[x].new) /\ jwt'[req'[x].jti].exp <= jwt'[req'[x].new].exp
    BY <1>2, <1>5
  <2> QED  BY <1>1, <2>1, <2>2, UsableStays DEF Tokens, At
<1>7. Covered'
  BY <1>1, <1>2 DEF Tokens, Covered, Brings
<1> QED  BY <1>3, <1>4, <1>6, <1>7 DEF Tokens

\* The answers.  What a browser is given has not been removed; a browser that
\* misses an answer is out of the account.
LEMMA EndTokens ==
    ASSUME TypeOK, Ids, Tokens, Keeps, NEW w \in Workers,
           LoginReply(w) \/ Reply(w) \/ LoseReply(w)
    PROVE  Tokens'
<1> DEFINE r == req[w]
<1>1. /\ UNCHANGED <<jwt, revoked, undone>> /\ r.pc \in {"l_reply", "reply"} /\ r.jti \in Jti
      /\ r.c \in Clients /\ r.new \in MaybeJti
      /\ req'[w] = Idle /\ \A x \in Workers \ {w} : req'[x] = req[x]
  BY FinishMoves DEF LoginReply, Reply, LoseReply, store, Ids, Busy, TypeOK, Request
<1>2. \/ UNCHANGED client /\ (LoseReply(w) \/ (Reply(w) /\ r.op = "work" /\ r.new = None))
      \/ /\ \A c \in Clients \ {r.c} : client'[c] = client[c]
         /\ \/ client'[r.c].tok = None
            \/ r.pc = "l_reply" /\ client'[r.c].tok = r.jti
            \/ r.pc = "reply" /\ r.new \in Jti /\ client'[r.c].tok = r.new
  BY <1>1 DEF LoginReply, Reply, LoseReply, TypeOK, NoLogin, MaybeJti
<1>3. PICK g \in MaybeJti :
        /\ \A c \in Clients \ {r.c} : client'[c] = client[c]
        /\ client'[r.c] = client[r.c] \/ client'[r.c].tok = g
        /\ g \in Jti => \/ r.pc = "l_reply" /\ g = r.jti
                        \/ r.pc = "reply" /\ g = r.new
  <2>1. CASE UNCHANGED client \/ client'[r.c].tok = None
    BY <1>2, <2>1, NoneAssumption DEF MaybeJti
  <2>2. CASE r.pc = "l_reply" /\ client'[r.c].tok = r.jti
    BY <1>1, <1>2, <2>1, <2>2 DEF MaybeJti
  <2> QED  BY <1>1, <1>2, <2>1, <2>2
<1>4. g \in Jti =>
        /\ g \notin revoked /\ \A c \in Clients : client[c].tok # g
        /\ \A x \in Workers \ {w} : req[x].jti # g /\ req[x].new # g
        /\ Good(g) /\ jwt[g].exp # 0
  BY <1>1, <1>3 DEF Tokens, Exclusive, Usable, At, LoginSteps, Ids, Issued
<1>5. Exclusive'
  <2>1. ASSUME NEW c \in Clients, client'[c].tok \in Jti
        PROVE  \/ client'[c] = client[c] /\ client[c].tok # g
               \/ c = r.c /\ client'[c].tok = g /\ g \in Jti
    BY <1>3, <1>4, <2>1
  <2>2. ASSUME NEW x \in Workers, At(x, LoginSteps)' \/ req'[x].new \in Jti
        PROVE  x # w /\ req'[x] = req[x]
    BY <1>1, <2>2, IdleTyped, NoneAssumption DEF At, LoginSteps
  <2>3. ASSUME NEW x \in Workers, At(x, LoginSteps)'
        PROVE  /\ req'[x].jti \notin revoked'
               /\ \A c \in Clients : client'[c].tok # req'[x].jti
               /\ \A y \in Workers : req'[y].new # req'[x].jti
               /\ \A y \in Workers \ {x} : req'[y].jti # req'[x].jti
    <3>1. x # w /\ req'[x] = req[x] /\ At(x, LoginSteps) /\ req[x].jti \in Jti
      BY <2>2, <2>3 DEF At, LoginSteps, Ids, Busy
    <3> QED  BY <1>1, <1>4, <2>1, <3>1, IdleTyped, NoneAssumption DEF Tokens, Exclusive
  <2>4. ASSUME NEW x \in Workers, req'[x].new \in Jti
        PROVE  /\ req'[x].new \notin revoked'
               /\ \A c \in Clients : client'[c].tok # req'[x].new
               /\ \A y \in Workers : req'[y].jti # req'[x].new
               /\ \A y \in Workers \ {x} : req'[y].new # req'[x].new
    <3>1. x # w /\ req'[x] = req[x]
      BY <2>2, <2>4
    <3> QED  BY <1>1, <1>4, <2>1, <2>4, <3>1, IdleTyped, NoneAssumption DEF Tokens, Exclusive
  <2>5. ASSUME NEW c \in Clients, NEW d \in Clients,
               client'[c].tok \in Jti, client'[c].tok = client'[d].tok
        PROVE  c = d
    BY <1>4, <2>1, <2>5 DEF Tokens, Exclusive
  <2>6. ASSUME NEW c \in Clients, NEW x \in Workers,
               client'[c].tok \in Jti, req'[x].jti = client'[c].tok
        PROVE  req'[x].c = c
    <3>1. x # w /\ req'[x] = req[x]
      BY <1>1, <2>6, IdleTyped, NoneAssumption
    <3> QED  BY <1>4, <2>1, <2>6, <3>1 DEF Tokens, Exclusive
  <2> QED  BY <2>3, <2>4, <2>5, <2>6 DEF Exclusive
<1>6. Flow'
  BY <1>1, IdleFits DEF Tokens, Flow
<1>7. Usable'
  <2>1. \A c \in Clients : client'[c].tok \in Jti =>
          \/ client'[c].tok = client[c].tok
          \/ jwt[client'[c].tok].exp # 0 /\ Good(client'[c].tok)
    BY <1>3, <1>4
  <2>2. \A x \in Workers : req'[x].pc \in {"l_secret", "l_reply"} \/ req'[x].new \in Jti =>
          req'[x] = req[x]
    BY <1>1, IdleTyped, NoneAssumption
  <2> QED  BY <2>1, <2>2, UsableStays DEF Tokens, At
<1>8. Covered'
  <2> SUFFICES ASSUME NEW c \in Clients, client'[c].tok \in (revoked \ undone)', ~cut'[c]
               PROVE  \E x \in Workers : Brings(x, c)'
    BY DEF Covered
  <2>1. client'[c] = client[c] /\ client[c].tok \in revoked \ undone /\ client[c].tok \in Jti
    BY <1>1, <1>3, <1>4, NoneAssumption DEF TypeOK
  <2>2. ~cut[c]
    <3>1. CASE LoginReply(w)
      BY <2>1, <3>1, <1>1, <1>4 DEF LoginReply, Tokens, Exclusive, At, LoginSteps, TypeOK
    <3> QED  BY <1>1, <3>1 DEF Reply, LoseReply, TypeOK
  <2>3. PICK x \in Workers : Brings(x, c)
    BY <2>1, <2>2 DEF Tokens, Covered
  <2>4. x # w
    <3> SUFFICES ASSUME x = w PROVE FALSE
      OBVIOUS
    <3>1. r.c = c /\ (r.new \in Jti \/ (r.pc = "reply" /\ r.op \in {"logout", "chpass"}))
      BY <2>3 DEF Brings
    <3>2. r.pc = "reply"
      BY <1>1, <3>1 DEF Tokens, Flow, Fits, Renewing
    <3>3. CASE Reply(w)
      BY <1>1, <1>4, <2>1, <3>1, <3>3, NoneAssumption
         DEF Reply, NoLogin, TypeOK, Tokens, Exclusive
    <3>4. CASE LoseReply(w)
      BY <3>1, <3>4 DEF LoseReply, TypeOK
    <3> QED  BY <3>2, <3>3, <3>4 DEF LoginReply
  <2> QED  BY <1>1, <2>1, <2>3, <2>4 DEF Brings
<1> QED  BY <1>5, <1>6, <1>7, <1>8 DEF Tokens

\* Operators, the clock and a crash.
LEMMA OtherTokens ==
    ASSUME TypeOK, Ids, Tokens, Keeps,
           \/ \E a \in Admins : OperatorStep(a)
           \/ Tick \/ Crash \/ UNCHANGED vars
    PROVE  Tokens'
<1>1. UNCHANGED <<client, revoked, undone>>
  BY DEF OperatorStep, DisableAdmin, DeleteAdmin, EnableAdmin, ResetAdminPassword, Deactivate,
     Tick, Crash, vars, store, history
<1> DEFINE Died == /\ \A w \in Workers : req'[w] = Idle
                   /\ \A c \in Clients : cut'[c] \/ (~cut[c] /\ \A w \in Workers :
                                                       req[w].pc = "idle" \/ req[w].c # c)
<1>2. UNCHANGED <<req, cut>> \/ Died
  <2>1. CASE Crash
    BY <2>1 DEF Crash
  <2>2. CASE \/ \E a \in Admins : OperatorStep(a)
             \/ Tick \/ UNCHANGED vars
    BY <2>2 DEF OperatorStep, DisableAdmin, DeleteAdmin, EnableAdmin, ResetAdminPassword,
       Deactivate, Tick, vars, history
  <2> QED  BY <2>1, <2>2
<1>3. \A x \in Workers : req'[x].pc \in {"l_secret", "l_reply"} \/ req'[x].new \in Jti =>
          req'[x] = req[x]
  BY <1>2, IdleTyped, NoneAssumption
<1>4. Usable'
  BY <1>1, <1>3, UsableStays DEF Tokens, At
<1>5. CASE UNCHANGED <<req, cut>>
  BY <1>1, <1>4, <1>5 DEF Tokens, Exclusive, Flow, Covered, Brings, At
<1>6. CASE Died
  <2>1. Exclusive'
    BY <1>1, <1>6, IdleTyped, NoneAssumption DEF Tokens, Exclusive, At, LoginSteps
  <2>2. Flow'
    BY <1>6, IdleFits DEF Flow
  <2>3. Covered'
    BY <1>1, <1>6 DEF Tokens, Covered, Brings
  <2> QED  BY <1>4, <2>1, <2>2, <2>3 DEF Tokens
<1> QED  BY <1>2, <1>5, <1>6

-----------------------------------------------------------------------------
(* The theorem.                                                            *)

LEMMA TokensStep ==
    ASSUME TypeOK, Ids, Tokens, Outlasts, [Next]_vars
    PROVE  Tokens' /\ Outlasts'
<1>1. Keeps /\ Outlasts'
  BY StoreCases, StoreKeeps
<1>2. ASSUME NEW w \in Workers, NEW o \in Outcomes, NEW j \in Jti, ReissueSet(w, o, j)
      PROVE  Tokens'
  <2>1. CASE o = "ok"
    BY <1>1, <1>2, <2>1, RenewalTokens
  <2>2. CASE o # "ok"
    BY <1>1, <1>2, <2>2, MiddlewarePasses, PassesTokens DEF Tokens
  <2> QED  BY <2>1, <2>2
<1>3. ASSUME NEW w \in Workers, WorkerStep(w) PROVE Tokens'
  <2>1. CASE \/ \E o \in Outcomes : \/ LoginSetToken(w, o) \/ IssueSignSecret(w, o)
                                     \/ Sign(w, o) \/ JWTAuth(w, o) \/ RefreshToken(w, o)
                                     \/ ReissueDel(w, o) \/ WritePassword(w, o)
                                     \/ ClearSignSecret(w, o) \/ LogoutDel(w, o)
             \/ VerifyOldPassword(w)
    <3>1. Passes(w)
      BY <2>1, LoginPasses, MiddlewarePasses, HandlerPasses DEF Tokens
    <3> QED  BY <1>1, <3>1, PassesTokens
  <2>2. CASE LoginReply(w) \/ Reply(w) \/ LoseReply(w)
    BY <1>1, <2>2, EndTokens
  <2> QED  BY <1>1, <1>2, <1>3, <2>1, <2>2, LoginCheckTokens, SendTokens DEF WorkerStep
<1> QED  BY <1>1, <1>3, OtherTokens DEF Next

LEMMA TokensInit == Init => Tokens /\ Outlasts
<1> SUFFICES ASSUME Init PROVE Tokens /\ Outlasts
  OBVIOUS
<1>1. /\ \A w \in Workers : req[w] = Idle
      /\ \A c \in Clients : client[c].tok = None
      /\ \A j \in Jti : white[j] = 0 /\ jwt[j].exp = 0
      /\ now = 0 /\ revoked = {}
  BY DEF Init, NoLogin
<1>2. Exclusive /\ Flow
  BY <1>1, IdleTyped, IdleFits, NoneAssumption DEF Exclusive, Flow, At, LoginSteps
<1>3. Usable /\ Covered /\ Outlasts
  BY <1>1, IdleTyped, NoneAssumption, TtlAssumption DEF Usable, Covered, Outlasts, At
<1> QED  BY <1>2, <1>3 DEF Tokens

TokenInv == IInv /\ Tokens /\ Outlasts

LEMMA TokenInvariance == Spec => []TokenInv
<1>1. Init => TokenInv
  BY IInvInit, TokensInit DEF TokenInv
<1>2. TokenInv /\ [Next]_vars => TokenInv'
  BY IInvStep, TokensStep DEF TokenInv, IInv, Ids
<1> QED  BY <1>1, <1>2, PTL DEF Spec

LEMMA TokensServe == TokenInv => NoStrandedClient
<1> SUFFICES ASSUME TokenInv, NEW c \in Clients, client[c].tok # None, ~cut[c],
                    ~Expired(jwt[client[c].tok].exp), white[client[c].tok] = 0,
                    client[c].tok \notin undone
             PROVE  \E w \in Workers :
                      /\ req[w].c = c /\ req[w].jti = client[c].tok
                      /\ \/ req[w].new # None /\ white[req[w].new] # 0
                         \/ req[w].pc = "reply" /\ req[w].op \in {"logout", "chpass"}
  BY DEF NoStrandedClient
<1>1. client[c].tok \in Jti /\ TypeOK
  BY DEF TokenInv, IInv, TypeOK, MaybeJti
<1>2. client[c].tok \in revoked
  BY <1>1 DEF TokenInv, Tokens, Usable, Good
<1>3. PICK w \in Workers : Brings(w, c)
  BY <1>2 DEF TokenInv, Tokens, Covered
<1>4. CASE req[w].new \in Jti
  <2>1. /\ req[w].new \notin revoked /\ Good(req[w].new)
        /\ jwt[req[w].jti].exp <= jwt[req[w].new].exp
    BY <1>4 DEF TokenInv, Tokens, Exclusive, Usable
  <2>2. ~Expired(jwt[req[w].new].exp)
    BY <1>1, <1>3, <1>4, <2>1, BoundAssumption, TtlAssumption
       DEF Brings, Expired, TypeOK, Time, Expiry
  <2> QED  BY <1>3, <1>4, <2>1, <2>2, NoneAssumption DEF Brings, Good
<1> QED  BY <1>3, <1>4 DEF Brings

\* The valid token of a browser that missed no answer is whitelisted, or a
\* request of its own brings it another or ends its session, or its logout
\* removed the token and yet answered CodeCacheError, for any number of
\* browsers, requests and failures (auth_service.go:190-202,
\* auth_handler.go:43-46).
THEOREM NobodyStranded == Spec => []NoStrandedClient
<1> QED  BY TokenInvariance, TokensServe, PTL

-----------------------------------------------------------------------------
(***************************************************************************)
(* AdminSession implements SessionLife, and a session that was logged out  *)
(* stays closed, for every value of the constants.                         *)
(*                                                                         *)
(* A session is named after the token of its login.  The name is fresh     *)
(* then, and until IssueSignSecret stores it only that login knows it: so  *)
(* nothing but this one SET opens the session, and what ends it (a later   *)
(* login of the same administrator, a logout, the clock) ends it for good. *)
(***************************************************************************)

\* What requests pass through once Sign has compared their secret.
Signed == {"auth", "refresh", "r_set", "r_del", "verify", "write", "clear",
           "delete", "reply"}

\* Whatever session name is seen anywhere has been generated.
Named ==
    /\ \A w \in Workers : req[w].sec \in Jti => jwt[req[w].sec].exp # 0
    /\ \A c \in Clients : client[c].sec \in Jti => jwt[client[c].sec].exp # 0
    /\ \A j \in closed : j \in Jti /\ jwt[j].exp # 0

\* A session belongs to the administrator its login was for.
Owned ==
    /\ \A a \in Admins : secret[a].exp # 0 =>
         /\ secret[a].id \in Jti
         /\ jwt[secret[a].id].exp # 0 /\ jwt[secret[a].id].adm = a
    /\ \A w \in Workers : req[w].pc \in Opening \cup Signed =>
         req[w].sec \in Jti /\ jwt[req[w].sec].adm = req[w].a

\* Until its secret is stored, a session is known to its login alone.
Secluded ==
    \A w \in Workers : req[w].pc \in Opening =>
        /\ \A x \in Workers \ {w} : req[x].sec # req[w].sec
        /\ \A c \in Clients : client[c].sec # req[w].sec
        /\ \A a \in Admins : secret[a].exp # 0 => secret[a].id # req[w].sec
        /\ req[w].sec \notin closed

\* Only a request that logs its session out keeps that operation to the end.
Asked == \A w \in Workers : req[w].pc \in Signed \cup {"sign"} =>
             req[w].op \in {"work", "logout", "chpass"}

\* A request that has removed the secret without meeting a fault, and the
\* session it came with.
LoggedOut(r) == r.pc \in {"delete", "reply"} /\ r.op # "work" /\ r.met = "ok"
Over(j) == \A a \in Admins : secret[a].exp # 0 => secret[a].id # j
Removed == \A w \in Workers : LoggedOut(req[w]) => Over(req[w].sec)

LifeInv == Named /\ Owned /\ Secluded /\ Asked /\ Removed /\ LoggedOutSessionClosed

-----------------------------------------------------------------------------
(* One lemma for every step after which worker w is not opening a session. *)

\* Such a step passes no session name to anybody who could not have it; the
\* only secret it may store is the one of the session w was opening.
Settles(w) ==
    /\ \A x \in Workers \ {w} : req'[x] = req[x]
    /\ req'[w].pc \notin Opening
    /\ req'[w].sec \in {None, req[w].sec} \cup {client[c].sec : c \in Clients}
    /\ req'[w].pc \in Signed =>
         /\ req'[w].sec = req[w].sec /\ req'[w].a = req[w].a
         /\ req[w].pc \in Signed \/ (SignatureOk(req[w]) /\ req[w].a \in Admins)
    /\ req'[w].pc \in Signed \cup {"sign"} => req'[w].op \in {"work", "logout", "chpass"}
    /\ LoggedOut(req'[w]) =>
         LoggedOut(req[w]) \/ (req[w].pc = "clear" /\ secret'[req[w].a].exp = 0)
    /\ \A a \in Admins : secret'[a].exp # 0 =>
         \/ secret'[a] = secret[a]
         \/ req[w].pc \in Opening /\ a = req[w].a /\ secret'[a].id = req[w].sec
    /\ \A j \in Jti : jwt[j].exp # 0 => jwt'[j] = jwt[j]
    /\ \A c \in Clients : client'[c].sec \in {client[c].sec, None, req[w].sec}
    /\ \A j \in closed' : j \in closed \/ (j = req[w].sec /\ LoggedOut(req[w]))

LEMMA SettlesKeeps ==
    ASSUME LifeInv, NEW w \in Workers, Settles(w)
    PROVE  LifeInv'
<1> USE DEF LifeInv
<1>1. Named'
  <2>1. \A x \in Workers : req'[x].sec \in Jti => jwt[req'[x].sec].exp # 0
    BY NoneAssumption DEF Named, Settles
  <2>2. \A c \in Clients : client'[c].sec \in Jti => jwt[client'[c].sec].exp # 0
    BY NoneAssumption DEF Named, Settles
  <2>3. \A j \in closed' : j \in Jti /\ jwt[j].exp # 0
    BY DEF Named, Settles, Owned, LoggedOut, Signed
  <2>4. \A j \in Jti : jwt[j].exp # 0 => jwt'[j].exp # 0
    BY DEF Settles
  <2> QED  BY <2>1, <2>2, <2>3, <2>4 DEF Named
<1>2. Owned'
  <2>1. ASSUME NEW a \in Admins, secret'[a].exp # 0
        PROVE  secret'[a].id \in Jti /\ jwt'[secret'[a].id].exp # 0 /\ jwt'[secret'[a].id].adm = a
    <3>1. CASE secret'[a] = secret[a]
      BY <2>1, <3>1 DEF Owned, Settles
    <3>2. CASE req[w].pc \in Opening /\ a = req[w].a /\ secret'[a].id = req[w].sec
      BY <3>2 DEF Owned, Named, Settles
    <3> QED  BY <2>1, <3>1, <3>2 DEF Settles
  <2>2. ASSUME NEW x \in Workers, req'[x].pc \in Opening \cup Signed
        PROVE  req'[x].sec \in Jti /\ jwt'[req'[x].sec].adm = req'[x].a
    <3>1. req'[x].sec \in Jti /\ jwt[req'[x].sec].exp # 0 /\ jwt[req'[x].sec].adm = req'[x].a
      <4>1. CASE x # w
        BY <2>2, <4>1 DEF Owned, Named, Settles
      <4>2. CASE x = w /\ req[w].pc \in Signed
        BY <2>2, <4>2 DEF Owned, Named, Settles
      <4>3. CASE x = w /\ SignatureOk(req[w]) /\ req[w].a \in Admins
        BY <2>2, <4>3 DEF Owned, Settles, SignatureOk
      <4> QED  BY <2>2, <4>1, <4>2, <4>3 DEF Settles
    <3> QED  BY <3>1 DEF Settles
  <2> QED  BY <2>1, <2>2 DEF Owned
<1>3. Secluded'
  <2> SUFFICES ASSUME NEW x \in Workers, req'[x].pc \in Opening
               PROVE  /\ \A y \in Workers \ {x} : req'[y].sec # req'[x].sec
                      /\ \A c \in Clients : client'[c].sec # req'[x].sec
                      /\ \A a \in Admins : secret'[a].exp # 0 => secret'[a].id # req'[x].sec
                      /\ req'[x].sec \notin closed'
    BY DEF Secluded
  <2>1. x # w /\ req'[x] = req[x] /\ req[x].pc \in Opening
    BY DEF Settles
  <2>2. /\ req[x].sec \in Jti /\ req[x].sec # None /\ req[w].sec # req[x].sec
        /\ \A y \in Workers \ {x} : req[y].sec # req[x].sec
        /\ \A c \in Clients : client[c].sec # req[x].sec
        /\ \A a \in Admins : secret[a].exp # 0 => secret[a].id # req[x].sec
        /\ req[x].sec \notin closed
    BY <2>1, NoneAssumption DEF Secluded, Owned
  <2>3. req'[w].sec # req[x].sec
    BY <2>2 DEF Settles
  <2> QED  BY <2>1, <2>2, <2>3 DEF Settles
<1>4. Asked'
  BY DEF Asked, Settles
<1>5. \A j \in Jti : Over(j) /\ (req[w].pc \in Opening => j # req[w].sec) =>
        \A a \in Admins : secret'[a].exp # 0 => secret'[a].id # j
  BY DEF Over, Settles
<1>6. Removed'
  <2> SUFFICES ASSUME NEW x \in Workers, LoggedOut(req'[x])
               PROVE  \A a \in Admins : secret'[a].exp # 0 => secret'[a].id # req'[x].sec
    BY DEF Removed, Over
  <2>1. CASE x # w
    <3>1. LoggedOut(req[x]) /\ req'[x] = req[x]
      BY <2>1 DEF Settles
    <3>2. req[x].sec \in Jti /\ Over(req[x].sec)
      BY <3>1 DEF Removed, Owned, LoggedOut, Signed
    <3>3. req[w].pc \in Opening => req[x].sec # req[w].sec
      BY <2>1 DEF Secluded
    <3> QED  BY <3>1, <3>2, <3>3, <1>5
  <2>2. CASE x = w /\ LoggedOut(req[w])
    <3>1. req'[w].sec = req[w].sec
      BY <2>2 DEF Settles, LoggedOut, Signed
    <3>2. req[w].sec \in Jti /\ Over(req[w].sec) /\ req[w].pc \notin Opening
      BY <2>2 DEF Removed, Owned, LoggedOut, Signed, Opening
    <3> QED  BY <2>2, <3>1, <3>2, <1>5
  <2>3. CASE x = w /\ req[w].pc = "clear" /\ secret'[req[w].a].exp = 0
    <3>1. req'[w].sec = req[w].sec /\ req[w].sec \in Jti /\ jwt[req[w].sec].exp # 0
          /\ jwt[req[w].sec].adm = req[w].a
      BY <2>3 DEF Settles, LoggedOut, Signed, Owned, Named
    <3>2. jwt'[req[w].sec].adm = req[w].a
      BY <3>1 DEF Settles
    <3>3. \A a \in Admins : secret'[a].exp # 0 => jwt'[secret'[a].id].adm = a
      BY <1>2 DEF Owned
    <3> QED  BY <2>3, <3>1, <3>2, <3>3 DEF Over
  <2> QED  BY <2>1, <2>2, <2>3 DEF Settles
<1>7. LoggedOutSessionClosed'
  <2> SUFFICES ASSUME NEW j \in closed' 
               PROVE  \A a \in Admins : secret'[a].exp # 0 => secret'[a].id # j
    BY DEF LoggedOutSessionClosed
  <2>1. CASE j \in closed
    <3>1. j \in Jti /\ Over(j)
      BY <2>1 DEF LoggedOutSessionClosed, Over, Named
    <3>2. req[w].pc \in Opening => j # req[w].sec
      BY <2>1 DEF Secluded
    <3> QED  BY <3>1, <3>2, <1>5
  <2>2. CASE j = req[w].sec /\ LoggedOut(req[w])
    <3>1. req[w].sec \in Jti /\ Over(req[w].sec) /\ req[w].pc \notin Opening
      BY <2>2 DEF Removed, Owned, LoggedOut, Signed, Opening
    <3> QED  BY <2>2, <3>1, <1>5
  <2> QED  BY <2>1, <2>2 DEF Settles
<1> QED  BY <1>1, <1>2, <1>3, <1>4, <1>6, <1>7

-----------------------------------------------------------------------------
(* Which steps are of that kind.                                           *)

\* A request that moves on to step s as it is.
Goes(w, s) ==
    /\ \A x \in Workers \ {w} : req'[x] = req[x]
    /\ req'[w].pc = s /\ req'[w].sec = req[w].sec /\ req'[w].a = req[w].a
    /\ req'[w].op = req[w].op
    /\ req'[w].met = "ok" => req[w].met = "ok"

LEMMA GotoGoes ==
    ASSUME TypeOK, NEW w \in Workers, NEW o, NEW s, Goto(w, o, s)
    PROVE  Goes(w, s) /\ (req'[w].met = "ok" => o = "ok")
BY DEF TypeOK, Goto, Goes, Moved, Met, Request

LEMMA FinishSettles ==
    ASSUME TypeOK, NEW w \in Workers, Finish(w), UNCHANGED <<jwt, secret>>,
           \A c \in Clients : client'[c].sec \in {client[c].sec, None, req[w].sec},
           \A j \in closed' : j \in closed \/ (j = req[w].sec /\ LoggedOut(req[w]))
    PROVE  Settles(w)
<1>1. req'[w] = Idle /\ \A x \in Workers \ {w} : req'[x] = req[x]
  BY DEF Finish, TypeOK
<1> QED  BY <1>1 DEF Settles, Idle, Opening, Signed, LoggedOut

\* What a signed request does short of its answer: it goes on, and it is only
\* after the removal of the secret that a logout goes on to its last steps.
LEMMA GoesSettles ==
    ASSUME LifeInv, NEW w \in Workers, NEW s \in Signed, Goes(w, s),
           \/ req[w].pc \in Signed
           \/ req[w].pc = "sign" /\ SignatureOk(req[w]) /\ req[w].a \in Admins,
           s \in {"delete", "reply"} =>
               \/ req[w].pc \in {"delete", "reply"} \/ req[w].op = "work"
               \/ req[w].pc = "clear" /\ (req'[w].met = "ok" => secret'[req[w].a].exp = 0),
           \A a \in Admins : secret'[a].exp # 0 => secret'[a] = secret[a],
           \A j \in Jti : jwt[j].exp # 0 => jwt'[j] = jwt[j],
           UNCHANGED <<client, closed>>
    PROVE  Settles(w)
<1>1. req'[w].op \in {"work", "logout", "chpass"}
  BY DEF LifeInv, Asked, Goes
<1>2. LoggedOut(req'[w]) =>
         LoggedOut(req[w]) \/ (req[w].pc = "clear" /\ secret'[req[w].a].exp = 0)
  BY DEF LoggedOut, Goes
<1>3. req'[w].pc \notin Opening
  BY DEF Goes, Signed, Opening
<1> QED  BY <1>1, <1>2, <1>3 DEF Goes, Settles

LEMMA HandlerSigned ==
    \A op \in {"work", "logout", "chpass"} :
        /\ Handler(op) \in Signed /\ Handler(op) # "delete"
        /\ Handler(op) = "reply" => op = "work"
BY DEF Handler, Signed

\* Sign and what follows it, up to the removal of the secret.
LEMMA MiddlewareSettles ==
    ASSUME TypeOK, Busy, LifeInv, NEW w \in Workers, NEW o \in Outcomes,
           Sign(w, o) \/ JWTAuth(w, o) \/ RefreshToken(w, o) \/ ReissueDel(w, o)
    PROVE  Settles(w)
<1>1. UNCHANGED <<jwt, secret, client, closed>>
  BY DEF Sign, JWTAuth, RefreshToken, RefreshWith, ReissueDel, DelToken, store, history
<1>2. req[w].pc # "idle" /\ req[w].a \in Admins /\ req[w].op \in {"work", "logout", "chpass"}
  BY DEF Sign, JWTAuth, RefreshToken, RefreshWith, ReissueDel, Busy, LifeInv, Asked, Signed
<1>3. ASSUME NEW s \in Signed, Goto(w, o, s), s # "delete", s = "reply" => req[w].op = "work",
             req[w].pc \in Signed \/ (req[w].pc = "sign" /\ SignatureOk(req[w]))
      PROVE  Settles(w)
  <2>1. Goes(w, s)
    BY <1>3, GotoGoes
  <2> QED  BY <2>1, <1>1, <1>2, <1>3, GoesSettles
<1>4. CASE Finish(w)
  BY <1>1, <1>4, FinishSettles
<1>5. {"auth", "refresh", "r_set", "r_del"} \subseteq Signed \ {"delete", "reply"}
  BY DEF Signed
<1>6. CASE Sign(w, o)
  BY <1>6, <1>3, <1>4, <1>5 DEF Sign
<1>7. CASE JWTAuth(w, o)
  <2> DEFINE s == IF RefreshOnAccess THEN "refresh" ELSE Handler(req[w].op)
  <2>1. s \in Signed /\ s # "delete" /\ (s = "reply" => req[w].op = "work")
    BY <1>2, <1>5, HandlerSigned
  <2>2. req[w].pc \in Signed /\ (Goto(w, o, s) \/ Finish(w))
    BY <1>7, <1>5 DEF JWTAuth
  <2> HIDE DEF s
  <2> QED  BY <2>1, <2>2, <1>3, <1>4
<1>8. CASE RefreshToken(w, o)
  <2> DEFINE s == IF DueForRenewal(req[w].jti) THEN "r_set" ELSE Handler(req[w].op)
  <2>1. s \in Signed /\ s # "delete" /\ (s = "reply" => req[w].op = "work")
    BY <1>2, <1>5, HandlerSigned
  <2>2. req[w].pc \in Signed /\ Goto(w, o, s)
    BY <1>8, <1>5 DEF RefreshToken, RefreshWith
  <2> HIDE DEF s
  <2> QED  BY <2>1, <2>2, <1>3
<1>9. CASE ReissueDel(w, o)
  <2>1. req[w].pc \in Signed /\ Goto(w, o, Handler(req[w].op))
    BY <1>9, <1>5 DEF ReissueDel, DelToken
  <2> QED  BY <2>1, <1>2, <1>3, HandlerSigned
<1> QED  BY <1>6, <1>7, <1>8, <1>9

LEMMA ReissueSettles ==
    ASSUME TypeOK, Busy, LifeInv, NEW w \in Workers, NEW o \in Outcomes, NEW j \in Jti,
           ReissueSet(w, o, j)
    PROVE  Settles(w)
<1> DEFINE s == IF o = "ok" THEN "r_del" ELSE Handler(req[w].op)
           m == Moved(req[w], o, s)
           r == IF o = "ok" THEN [m EXCEPT !.new = j] ELSE m
<1>1. req' = [req EXCEPT ![w] = r]
  BY DEF ReissueSet, ReissueSetOr
<1>2. req[w].pc \in Signed /\ req[w].op \in {"work", "logout", "chpass"}
  BY DEF ReissueSet, ReissueSetOr, Signed, LifeInv, Asked
<1>3. s \in Signed /\ s # "delete" /\ (s = "reply" => req[w].op = "work")
  BY <1>2, HandlerSigned DEF Signed
<1>4. r.pc = s /\ r.sec = req[w].sec /\ r.a = req[w].a /\ r.op = req[w].op
      /\ (r.met = "ok" => req[w].met = "ok")
  <2> HIDE DEF s
  <2> QED  BY DEF Moved, Met, TypeOK, Request
<1> HIDE DEF s, r
<1>5. Goes(w, s)
  BY <1>1, <1>4 DEF Goes, TypeOK
<1>6. \A i \in Jti : jwt[i].exp # 0 => jwt'[i] = jwt[i]
  BY DEF ReissueSet, ReissueSetOr, FreshJti, TypeOK
<1>7. UNCHANGED <<secret, client, closed>>
  BY DEF ReissueSet, ReissueSetOr, history
<1> QED  BY <1>2, <1>3, <1>5, <1>6, <1>7, GoesSettles

\* The handlers of a change of password and of a logout.
LEMMA HandlerSettles ==
    ASSUME TypeOK, Busy, LifeInv, NEW w \in Workers,
           \/ \E o \in Outcomes : WritePassword(w, o) \/ ClearSignSecret(w, o) \/ LogoutDel(w, o)
           \/ VerifyOldPassword(w)
    PROVE  Settles(w)
<1>1. req[w].pc \in Signed /\ req[w].a \in Admins /\ UNCHANGED <<jwt, client, closed>>
  BY DEF WritePassword, ClearSignSecret, LogoutDel, DelToken, VerifyOldPassword, Signed, Busy,
     store, history
<1>2. ASSUME NEW o, NEW s \in Signed \ {"delete", "reply"}, Goto(w, o, s), UNCHANGED secret
      PROVE  Settles(w)
  BY <1>1, <1>2, GotoGoes, GoesSettles
<1>3. ASSUME NEW o, Refuse(w, o), UNCHANGED secret
      PROVE  Settles(w)
  <2>1. /\ req'[w].pc = "reply" /\ req'[w].sec = req[w].sec /\ req'[w].a = req[w].a
        /\ req'[w].op = "work" /\ \A x \in Workers \ {w} : req'[x] = req[x]
    BY <1>3 DEF Refuse, Refused, Moved, TypeOK, Request
  <2> QED  BY <1>1, <1>3, <2>1 DEF Settles, Opening, LoggedOut
<1>4. {"write", "clear"} \subseteq Signed \ {"delete", "reply"} /\ {"delete", "reply"} \subseteq Signed
  BY DEF Signed
<1>5. CASE VerifyOldPassword(w)
  BY <1>5, <1>2, <1>3, <1>4 DEF VerifyOldPassword, store
<1>6. ASSUME NEW o \in Outcomes, WritePassword(w, o) PROVE Settles(w)
  BY <1>6, <1>2, <1>3, <1>4 DEF WritePassword
<1>7. ASSUME NEW o \in Outcomes, ClearSignSecret(w, o) PROVE Settles(w)
  <2>1. Goes(w, "delete") /\ (req'[w].met = "ok" => o = "ok")
    BY <1>7, GotoGoes DEF ClearSignSecret
  <2>2. \A a \in Admins : secret'[a].exp # 0 => secret'[a] = secret[a]
    BY <1>7 DEF ClearSignSecret, Cleared, NoSecret, TypeOK
  <2>3. o = "ok" => secret'[req[w].a].exp = 0
    BY <1>7, <1>1 DEF ClearSignSecret, Cleared, NoSecret, TypeOK, TookPlace
  <2>4. req[w].pc = "clear"
    BY <1>7 DEF ClearSignSecret
  <2> QED  BY <1>1, <1>4, <2>1, <2>2, <2>3, <2>4, GoesSettles
<1>8. ASSUME NEW o \in Outcomes, LogoutDel(w, o) PROVE Settles(w)
  <2>1. req[w].pc = "delete" /\ UNCHANGED secret
    BY <1>8 DEF LogoutDel, DelToken
  <2>2. CASE Goto(w, o, "reply")
    BY <1>1, <1>4, <2>1, <2>2, GotoGoes, GoesSettles
  <2> QED  BY <1>3, <1>8, <2>1, <2>2 DEF LogoutDel
<1> QED  BY <1>5, <1>6, <1>7, <1>8

\* The ends of a request.
LEMMA EndSettles ==
    ASSUME TypeOK, Asked, NEW w \in Workers, LoginReply(w) \/ Reply(w) \/ LoseReply(w)
    PROVE  Settles(w)
<1>1. Finish(w) /\ UNCHANGED <<jwt, secret>>
  BY DEF LoginReply, Reply, LoseReply, store
<1>2. \A c \in Clients : client'[c].sec \in {client[c].sec, None, req[w].sec}
  <2>1. \A c \in Clients : client[c] \in [tok : MaybeJti, sec : MaybeJti]
    BY DEF TypeOK
  <2> QED  BY <2>1 DEF LoginReply, Reply, LoseReply, NoLogin, TypeOK
<1>3. \A j \in closed' : j \in closed \/ (j = req[w].sec /\ LoggedOut(req[w]))
  BY DEF LoginReply, Reply, LoseReply, LoggedOut
<1> QED  BY <1>1, <1>2, <1>3, FinishSettles

LEMMA SendSettles ==
    ASSUME TypeOK, NEW w \in Workers, NEW c \in Clients, NEW op \in Ops, SendRequest(w, c, op)
    PROVE  Settles(w)
<1>1. /\ req'[w].pc = "sign" /\ req'[w].op = op /\ req'[w].sec = client[c].sec
      /\ \A x \in Workers \ {w} : req'[x] = req[x]
      /\ UNCHANGED <<jwt, secret, client, closed>>
  BY DEF SendRequest, Sent, Idle, store, history, TypeOK
<1> QED  BY <1>1, OpsAssumption DEF Settles, Opening, Signed, LoggedOut

\* A login stores its secret, or gives up.
LEMMA IssueSettles ==
    ASSUME TypeOK, Busy, LifeInv, NEW w \in Workers, NEW o \in Outcomes, IssueSignSecret(w, o)
    PROVE  Settles(w)
<1>1. UNCHANGED <<jwt, client, closed>> /\ req[w].pc \in Opening /\ req[w].a \in Admins
  BY DEF IssueSignSecret, history, Opening, Busy
<1>2. /\ req'[w].pc \in {"idle", "l_reply"} /\ req'[w].sec \in {None, req[w].sec}
      /\ \A x \in Workers \ {w} : req'[x] = req[x]
  <2>1. CASE Finish(w)
    BY <2>1 DEF Finish, Idle, TypeOK
  <2>2. CASE Goto(w, o, "l_reply")
    BY <2>2, GotoGoes DEF Goes
  <2> QED  BY <2>1, <2>2 DEF IssueSignSecret
<1>3. \A a \in Admins : secret'[a].exp # 0 =>
         \/ secret'[a] = secret[a]
         \/ req[w].pc \in Opening /\ a = req[w].a /\ secret'[a].id = req[w].sec
  BY <1>1 DEF IssueSignSecret, TypeOK
<1> QED  BY <1>1, <1>2, <1>3 DEF Settles, Opening, Signed, LoggedOut

\* The steps of a worker, but for those that leave it opening a session.
Settling(w) ==
    \/ QuietStep(w)
    \/ \E o \in Outcomes, j \in Jti : ReissueSet(w, o, j)
    \/ \E c \in Clients, op \in Ops : SendRequest(w, c, op)
    \/ \E o \in Outcomes : LoginSetToken(w, o) /\ Finish(w)

LEMMA SettlingSettles ==
    ASSUME TypeOK, Busy, LifeInv, NEW w \in Workers, Settling(w)
    PROVE  Settles(w)
<1>1. ASSUME NEW o \in Outcomes, LoginSetToken(w, o), Finish(w) PROVE Settles(w)
  BY <1>1, FinishSettles DEF LoginSetToken, history
<1>2. Asked
  BY DEF LifeInv
<1>3. CASE QuietStep(w)
  BY <1>2, <1>3, MiddlewareSettles, HandlerSettles, EndSettles, IssueSettles DEF QuietStep
<1> QED  BY <1>1, <1>3, ReissueSettles, SendSettles DEF Settling

\* Generate of a login: the fresh name is nowhere yet.
LEMMA LoginCheckLife ==
    ASSUME TypeOK, LifeInv,
           NEW w \in Workers, NEW c \in Clients, NEW a \in Admins, LoginCheck(w, c, a)
    PROVE  LifeInv'
<1> USE DEF LifeInv
<1>1. PICK j \in Jti :
        /\ FreshJti(j)
        /\ jwt' = [jwt EXCEPT ![j] = [adm |-> a, exp |-> Lifetime]]
        /\ req' = [req EXCEPT ![w] =
              [Idle EXCEPT !.pc = "l_token", !.op = "login", !.c = c, !.a = a,
                           !.jti = j, !.sec = j, !.ck = now, !.pwd = db[a].pwd]]
  BY DEF LoginCheck
<1>2. /\ req'[w].pc = "l_token" /\ req'[w].sec = j /\ req'[w].a = a
      /\ \A x \in Workers \ {w} : req'[x] = req[x]
  BY <1>1 DEF TypeOK, Idle
<1>3. jwt'[j].adm = a /\ jwt'[j].exp # 0
  BY <1>1, TtlAssumption DEF TypeOK, Time, Lifetime
<1>4. \A i \in Jti : jwt[i].exp # 0 => i # j /\ jwt'[i] = jwt[i]
  BY <1>1 DEF TypeOK, FreshJti
<1>5. UNCHANGED <<secret, client, closed>>
  BY DEF LoginCheck, history
<1>6. /\ \A x \in Workers : req[x].sec # j
      /\ \A d \in Clients : client[d].sec # j
      /\ \A b \in Admins : secret[b].exp # 0 => secret[b].id # j
      /\ j \notin closed
  BY <1>4 DEF Named, Owned
<1>7. Named'
  BY <1>2, <1>3, <1>4, <1>5 DEF Named
<1>8. Owned'
  <2>1. \A b \in Admins : secret'[b].exp # 0 =>
           secret'[b].id \in Jti /\ jwt'[secret'[b].id].exp # 0 /\ jwt'[secret'[b].id].adm = b
    BY <1>4, <1>5 DEF Owned
  <2>2. ASSUME NEW x \in Workers \ {w}, req'[x].pc \in Opening \cup Signed
        PROVE  req'[x].sec \in Jti /\ jwt'[req'[x].sec].adm = req'[x].a
    BY <2>2, <1>2, <1>4 DEF Owned, Named
  <2> QED  BY <2>1, <2>2, <1>2, <1>3 DEF Owned
<1>9. Secluded'
  BY <1>2, <1>5, <1>6 DEF Secluded
<1>10. Asked' /\ Removed'
  BY <1>2, <1>5 DEF Asked, Removed, Over, LoggedOut, Signed
<1>11. LoggedOutSessionClosed'
  BY <1>5 DEF LoggedOutSessionClosed
<1> QED  BY <1>7, <1>8, <1>9, <1>10, <1>11

\* The first SET of a login: it goes on opening its session.
LEMMA SetTokenLife ==
    ASSUME TypeOK, LifeInv, NEW w \in Workers, NEW o \in Outcomes, LoginSetToken(w, o),
           Goto(w, o, "l_secret")
    PROVE  LifeInv'
<1> USE DEF LifeInv
<1>1. Goes(w, "l_secret") /\ req[w].pc = "l_token" /\ UNCHANGED <<jwt, secret, client, closed>>
  BY GotoGoes DEF LoginSetToken, history
<1>2. \A x \in Workers : /\ req'[x].sec = req[x].sec /\ req'[x].a = req[x].a
                         /\ req'[x].pc \in Opening => req[x].pc \in Opening
                         /\ req'[x].pc \in Signed \cup {"sign"} => req'[x] = req[x]
  BY <1>1 DEF Goes, Opening, Signed
<1>3. Named' /\ Secluded' /\ LoggedOutSessionClosed'
  BY <1>1, <1>2 DEF Named, Secluded, LoggedOutSessionClosed
<1>4. Owned' /\ Asked'
  BY <1>1, <1>2 DEF Owned, Asked
<1>5. Removed'
  BY <1>1, <1>2 DEF Removed, Over, LoggedOut, Signed
<1> QED  BY <1>3, <1>4, <1>5

\* What is not a request: edits of the rows, the clock and the death of the process.
LEMMA OtherLife ==
    ASSUME TypeOK, LifeInv,
           \/ \E a \in Admins : OperatorStep(a)
           \/ Tick \/ Crash \/ UNCHANGED vars
    PROVE  LifeInv'
<1> USE DEF LifeInv
<1>1. UNCHANGED <<jwt, client, closed>>
  BY DEF OperatorStep, DisableAdmin, DeleteAdmin, EnableAdmin, ResetAdminPassword, Deactivate,
     Tick, Crash, vars, store, history
<1>2. \A a \in Admins : secret'[a].exp # 0 => secret'[a] = secret[a]
  <2>1. CASE Tick
    BY <2>1 DEF Tick, NoSecret
  <2>2. CASE UNCHANGED secret
    BY <2>2
  <2> QED
    BY <2>1, <2>2 DEF OperatorStep, DisableAdmin, DeleteAdmin, EnableAdmin, ResetAdminPassword,
       Deactivate, Crash, vars, store
<1>3. \A x \in Workers : req'[x] \in {req[x], Idle}
  <2>1. CASE Crash
    BY <2>1 DEF Crash
  <2>2. CASE UNCHANGED req
    BY <2>2
  <2> QED
    BY <2>1, <2>2 DEF OperatorStep, DisableAdmin, DeleteAdmin, EnableAdmin, ResetAdminPassword,
       Deactivate, Tick, vars, history
<1>4. Idle.pc = "idle" /\ Idle.sec = None
  BY DEF Idle
<1>5. Named' /\ LoggedOutSessionClosed'
  BY <1>1, <1>2, <1>3, <1>4, NoneAssumption DEF Named, LoggedOutSessionClosed
<1>6. \A x \in Workers : req'[x].pc # "idle" => req'[x] = req[x]
  BY <1>3, <1>4
<1>7. Owned' /\ Asked'
  BY <1>1, <1>2, <1>6 DEF Owned, Asked, Opening, Signed
<1>8. Secluded'
  <2> SUFFICES ASSUME NEW x \in Workers, req'[x].pc \in Opening
               PROVE  /\ \A y \in Workers \ {x} : req'[y].sec # req'[x].sec
                      /\ \A c \in Clients : client'[c].sec # req'[x].sec
                      /\ \A a \in Admins : secret'[a].exp # 0 => secret'[a].id # req'[x].sec
                      /\ req'[x].sec \notin closed'
    BY DEF Secluded
  <2>1. req'[x] = req[x] /\ req[x].sec \in Jti /\ req[x].sec # None
    BY <1>6, NoneAssumption DEF Opening, Owned
  <2> QED  BY <2>1, <1>1, <1>2, <1>3, <1>4 DEF Secluded
<1>9. Removed'
  BY <1>2, <1>6 DEF Removed, Over, LoggedOut
<1> QED  BY <1>5, <1>7, <1>8, <1>9

LEMMA WorkerCases ==
    ASSUME NEW w \in Workers, WorkerStep(w)
    PROVE  \/ Settling(w)
           \/ \E c \in Clients, a \in Admins : LoginCheck(w, c, a)
           \/ \E o \in Outcomes : LoginSetToken(w, o) /\ Goto(w, o, "l_secret")
BY DEF WorkerStep, Settling, QuietStep, LoginSetToken

LEMMA LifeStep ==
    ASSUME TypeOK, Busy, LifeInv, [Next]_vars
    PROVE  LifeInv'
<1>1. ASSUME NEW w \in Workers, WorkerStep(w) PROVE LifeInv'
  BY <1>1, WorkerCases, SettlingSettles, SettlesKeeps, LoginCheckLife, SetTokenLife
<1> QED  BY <1>1, OtherLife DEF Next

LEMMA LifeInit == Init => LifeInv
BY NoneAssumption DEF Init, LifeInv, Named, Owned, Secluded, Asked, Removed, LoggedOut,
   LoggedOutSessionClosed, Idle, NoLogin, NoSecret, Opening, Signed

LEMMA LifeInvariance == Spec => [](IInv /\ LifeInv)
<1>1. Init => IInv /\ LifeInv
  BY IInvInit, LifeInit
<1>2. IInv /\ LifeInv /\ [Next]_vars => (IInv /\ LifeInv)'
  BY IInvStep, LifeStep DEF IInv
<1> QED  BY <1>1, <1>2, PTL DEF Spec

\* The secret of a session whose logout or change of password was answered
\* without a fault is never again the one Sign compares with (auth_service.go:
\* 104-123 stores a secret under the name of a new login only).
THEOREM LoggedOutForGood == Spec => []LoggedOutSessionClosed
<1>1. LifeInv => LoggedOutSessionClosed
  BY DEF LifeInv
<1> QED  BY <1>1, LifeInvariance, PTL

-----------------------------------------------------------------------------
(* The refinement: what every step does to the stage of every session.     *)

\* What a step may do to names: none is generated twice, a login under way is
\* the only one to open its session, and only a fresh name begins to open.
NamesKept ==
    /\ \A j \in Jti : jwt[j].exp # 0 => jwt'[j] = jwt[j]
    /\ \A a \in Admins : secret'[a].exp # 0 =>
         \/ secret'[a] = secret[a]
         \/ \E w \in Workers : req[w].pc \in Opening /\ secret'[a].id = req[w].sec
    /\ \A w \in Workers : req'[w].pc \in Opening =>
         \/ \E x \in Workers : req[x].pc \in Opening /\ req'[w].sec = req[x].sec
         \/ req'[w].sec \in Jti /\ FreshJti(req'[w].sec)

LEMMA NamesStep ==
    ASSUME TypeOK, Busy, LifeInv, [Next]_vars
    PROVE  NamesKept
<1>1. ASSUME NEW w \in Workers, Settles(w) PROVE NamesKept
  <2>1. \A x \in Workers : req'[x].pc \in Opening => req'[x] = req[x]
    BY <1>1 DEF Settles
  <2> QED  BY <1>1, <2>1 DEF Settles, NamesKept
<1>2. ASSUME NEW w \in Workers, NEW c \in Clients, NEW a \in Admins, LoginCheck(w, c, a)
      PROVE  NamesKept
  <2>1. PICK j \in Jti :
          /\ FreshJti(j)
          /\ jwt' = [jwt EXCEPT ![j] = [adm |-> a, exp |-> Lifetime]]
          /\ req' = [req EXCEPT ![w] =
                [Idle EXCEPT !.pc = "l_token", !.op = "login", !.c = c, !.a = a,
                             !.jti = j, !.sec = j, !.ck = now, !.pwd = db[a].pwd]]
    BY <1>2 DEF LoginCheck
  <2>2. req'[w].sec = j /\ \A x \in Workers \ {w} : req'[x] = req[x]
    BY <2>1 DEF TypeOK, Idle
  <2>3. \A i \in Jti : jwt[i].exp # 0 => jwt'[i] = jwt[i]
    BY <2>1 DEF TypeOK, FreshJti
  <2>4. UNCHANGED secret
    BY <1>2 DEF LoginCheck
  <2> QED  BY <2>1, <2>2, <2>3, <2>4 DEF NamesKept
<1>3. ASSUME NEW w \in Workers, NEW o \in Outcomes, LoginSetToken(w, o), Goto(w, o, "l_secret")
      PROVE  NamesKept
  <2>1. Goes(w, "l_secret") /\ req[w].pc \in Opening /\ UNCHANGED <<jwt, secret>>
    BY <1>3, GotoGoes DEF LoginSetToken, Opening
  <2> QED  BY <2>1 DEF Goes, NamesKept
<1>4. ASSUME NEW w \in Workers, WorkerStep(w) PROVE NamesKept
  BY <1>1, <1>2, <1>3, <1>4, WorkerCases, SettlingSettles
<1>5. CASE Tick
  BY <1>5 DEF Tick, NoSecret, NamesKept, history
<1>6. CASE Crash
  <2>1. UNCHANGED <<jwt, secret>> /\ \A w \in Workers : req'[w].pc = "idle"
    BY <1>6 DEF Crash, Idle, store
  <2> QED  BY <2>1 DEF NamesKept, Opening
<1>7. CASE UNCHANGED <<jwt, secret, req>>
  BY <1>7 DEF NamesKept
<1>8. ASSUME NEW a \in Admins, OperatorStep(a) PROVE NamesKept
  BY <1>7, <1>8 DEF OperatorStep, DisableAdmin, DeleteAdmin, EnableAdmin, ResetAdminPassword,
     Deactivate, history
<1> QED  BY <1>4, <1>5, <1>6, <1>7, <1>8 DEF Next, vars

\* The parts of a stage.
IsOpen(j)    == \E a \in Admins : secret[a].exp # 0 /\ secret[a].id = j
IsOpening(j) == \E w \in Workers : req[w].pc \in Opening /\ req[w].sec = j

StageParts ==
    \A j \in Jti :
        Stage(j) = IF IsOpen(j) THEN "open" ELSE IF IsOpening(j) THEN "opening"
                   ELSE IF FreshJti(j) THEN "unused" ELSE "ended"

LEMMA StageIs == StageParts
<1> SUFFICES ASSUME NEW j \in Jti
             PROVE  Stage(j) = IF IsOpen(j) THEN "open" ELSE IF IsOpening(j) THEN "opening"
                               ELSE IF FreshJti(j) THEN "unused" ELSE "ended"
  BY DEF StageParts
<1>1. OpenAt(j) # {} <=> IsOpen(j)
  BY DEF OpenAt, IsOpen
<1>2. BeingOpened(j) <=> IsOpening(j)
  BY DEF BeingOpened, IsOpening, Opening
<1> QED  BY <1>1, <1>2 DEF Stage

\* An open session has one administrator, and its deadline is that secret's.
LEMMA DeadlineIs ==
    ASSUME Owned, NEW a \in Admins, secret[a].exp # 0
    PROVE  Deadline(secret[a].id) = secret[a].exp
<1>1. OpenAt(secret[a].id) = {a}
  BY DEF OpenAt, Owned
<1> QED  BY <1>1 DEF Deadline

LEMMA StageMoves ==
    ASSUME LifeInv, NamesKept, NEW j \in Jti
    PROVE  /\ IsOpen(j)' => IsOpen(j) \/ IsOpening(j)
           /\ IsOpening(j)' => IsOpening(j) \/ (FreshJti(j) /\ ~IsOpen(j))
           /\ FreshJti(j)' => FreshJti(j) /\ ~IsOpen(j) /\ ~IsOpening(j)
<1> USE DEF LifeInv
<1>1. IsOpen(j)' => IsOpen(j) \/ IsOpening(j)
  BY DEF NamesKept, IsOpen, IsOpening
<1>2. IsOpen(j) => ~FreshJti(j)
  BY DEF IsOpen, FreshJti, Owned
<1>3. IsOpening(j) => ~FreshJti(j)
  BY DEF IsOpening, FreshJti, Named, Owned
<1>4. IsOpening(j)' => IsOpening(j) \/ (FreshJti(j) /\ ~IsOpen(j))
  BY <1>2 DEF NamesKept, IsOpening
<1>5. FreshJti(j)' => FreshJti(j)
  BY DEF NamesKept, FreshJti
<1> QED  BY <1>1, <1>2, <1>3, <1>4, <1>5

LEMMA DeadlineStays ==
    ASSUME LifeInv, LifeInv', NamesKept, NEW j \in Jti, IsOpen(j), IsOpen(j)'
    PROVE  Deadline(j)' = Deadline(j)
<1> USE DEF LifeInv
<1>1. PICK a \in Admins : secret'[a].exp # 0 /\ secret'[a].id = j
  BY DEF IsOpen
<1>2. ~IsOpening(j)
  BY DEF IsOpen, IsOpening, Secluded
<1>3. secret'[a] = secret[a]
  BY <1>1, <1>2 DEF NamesKept, IsOpening
<1>4. Deadline(j) = secret[a].exp
  BY <1>1, <1>3, DeadlineIs
<1>5. Deadline(j)' = secret'[a].exp
  <2>1. (OpenAt(j) = {a})'
    BY <1>1 DEF OpenAt, Owned
  <2> QED  BY <2>1 DEF Deadline
<1> QED  BY <1>3, <1>4, <1>5

LEMMA StageStep ==
    ASSUME TypeOK, Busy, LifeInv, LifeInv', [Next]_vars
    PROVE  Sessions!Next
<1>1. NamesKept
  BY NamesStep
<1>2. StageParts /\ StageParts'
  BY StageIs, PTL
<1> SUFFICES ASSUME NEW j \in Jti
             PROVE  /\ Stage(j)' \in Sessions!MayBecome(Stage(j))
                    /\ Stage(j) = "open" /\ Stage(j)' = "open" => Deadline(j)' = Deadline(j)
  BY DEF Sessions!Next
<1> DEFINE open == IsOpen(j)  opening == IsOpening(j)  fresh == FreshJti(j)
<1>3. Stage(j) = IF open THEN "open" ELSE IF opening THEN "opening"
                 ELSE IF fresh THEN "unused" ELSE "ended"
  BY <1>2 DEF StageParts
<1>4. Stage(j)' = IF open' THEN "open" ELSE IF opening' THEN "opening"
                  ELSE IF fresh' THEN "unused" ELSE "ended"
  BY <1>2 DEF StageParts
<1>5. /\ open' => open \/ opening
      /\ opening' => opening \/ (fresh /\ ~open)
      /\ fresh' => fresh /\ ~open /\ ~opening
  BY <1>1, StageMoves
<1>6. open /\ opening => FALSE
  BY DEF IsOpen, IsOpening, Secluded, LifeInv
<1>7. open /\ open' => Deadline(j)' = Deadline(j)
  BY <1>1, DeadlineStays
<1> HIDE DEF open, opening, fresh
<1>8. Stage(j)' \in Sessions!MayBecome(Stage(j))
  BY <1>3, <1>4, <1>5, <1>6 DEF Sessions!MayBecome
<1>9. Stage(j) = "open" /\ Stage(j)' = "open" => open /\ open'
  BY <1>3, <1>4
<1> QED  BY <1>7, <1>8, <1>9

LEMMA StageInit == Init => Sessions!Init
<1> SUFFICES ASSUME Init PROVE Sessions!Init
  OBVIOUS
<1>1. ASSUME NEW j \in Jti PROVE Stage(j) = "unused" /\ Deadline(j) = 0
  <2>1. OpenAt(j) = {} /\ ~BeingOpened(j) /\ FreshJti(j)
    BY DEF Init, OpenAt, BeingOpened, FreshJti, NoSecret, Idle
  <2> QED  BY <2>1 DEF Stage, Deadline
<1> QED  BY <1>1 DEF Sessions!Init

\* Requests, renewals, logouts, faults and edits of the rows only ever do to a
\* session what SessionLife allows: it is opened once, its deadline stays where
\* its login put it, and it does not come back (auth_service.go:104-123, 152-202).
THEOREM SessionsLive == Spec => KeepsSessionLife
<1>1. IInv /\ LifeInv /\ (IInv /\ LifeInv)' /\ [Next]_vars => Sessions!Next
  BY StageStep DEF IInv
<1> QED  BY <1>1, StageInit, LifeInvariance, PTL DEF Spec, KeepsSessionLife, Sessions!Spec

=============================================================================
