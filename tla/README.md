# TLA+ models of ClipSync-Admin

ClipSync-Admin is the back end of the administration site of ClipSync: a Go
service (Gin, GORM, MySQL, Redis, JWT) through which operators manage the users
and devices of ClipSync-Server and their own roles and permissions. This
directory holds its models, what TLC checks of them and what TLAPS proves.
Source lines below are relative to the repository; `PROJECT.json` maps every
definition to its lines.

## The system

| Component | State | Operations | Hard behaviour | What makes it correct |
|---|---|---|---|---|
| Admin session (`service/auth_service.go`, `middleware/sign.go`, `middleware/rbac.go`, `auth/jwt.go`, `handler/auth_handler.go`) | Redis `admin:token:<jti>` and `admin:sign_secret:<adminID>`; the browser's token and secret | Login, Sign, JWTAuth (EXPIRE and in-place renewal), Logout, ChangeOwnPassword | a page's parallel requests share one token; each request is several Redis calls; failures and lost answers between them | a removed token stays removed; nobody is stranded by a renewal; a disabled administrator or an old password is cut off in bounded time; a logged-out session is closed; no session is opened twice or prolonged |
| Nonce and time stamp (`middleware/sign.go:64-84`) | Redis `admin:sign_nonce:<nonce>` | window check, SETNX, comparison | the nonce's lifetime starts at the SETNX, not at the time stamp | a submission is carried out again at most once per lifetime of its nonce that fits into the window; a refusal as repeated has a reason |
| Login guard (`auth_service.go:74-135`) | Redis `admin:login_err:<account>` | GET, INCR, EXPIRE, DEL around the password check | parallel guesses; EXPIRE lost after INCR | bounded guesses; every lock ends |
| Users and devices (`service/data_service.go`, `handler/data_handler.go`) | MySQL `users`, `devices`, shared with the Server | status, password, deletion, kick, batches | row written first, command sent second; the Server writes the same rows | a device that may not stay connected is cut off, or the command's loss is accounted for; the last answered status stands |
| Server commands (`service/server_notifier.go`) | none; Pub/Sub channel, HTTP | sendCommand with fallback, synchronous commands, user and ApiKey calls | no delivery guarantee; fallback overtakes; timeouts of calls that go on | as above; callers' answers match what was done |
| RBAC tables (`service/rbac_service.go`, `model/rbac.go`) | rows of administrators, roles, menus, permissions; three binding tables; soft deletion | CRUD and assignment | operators act on rows that others have deleted | deletion leaves no bindings; the built-in account is protected |
| RBAC check (`auth_service.go:213-294`, `middleware/rbac.go:82-135`) | none | five queries, one decision | tables change between the queries | the decision is explained by what was there |
| Bootstrap (`bootstrap/*.go`) | the same tables | migrate, seed, clean up at each start | a crash between statements; operators' own rows | a start repairs the built-in part, takes no grant away, settles |
| ApiKeys, CreateUser, RenameDevice (`data_service.go`, `server_notifier.go`) | in the Server | forwarded over HTTP, once | timeout after the effect; a call carried out after its caller gave up | keys and names are accounted for |
| User list (`data_service.go:73-86`) | none | count, select, page by page | rows come and go between the queries | nobody is skipped unexplained |
| Uploads, other lists, dashboard, configuration, logging, router, main | files; none | read-only or pure I/O | | |

Every `/api/admin` request passes Sign. All but login and health pass JWTAuth
next, and most pass RBAC after that, before the handler calls a service.
AuthService is used by all three middlewares and by its own handlers.
AdminDataService owns the writes to `users` and `devices` and calls the notifier
after them. Nothing but Redis and MySQL is shared between requests: no lock, no
queue, no background goroutine.

`PROJECT.json` lists the hazards, each at its line, with the properties that
cover it, or why none does.

## Modules

| Module | Models |
|---|---|
| `AdminSession` | token and secret keys, renewal, logout, change of password, edits of the administrator's row |
| `SessionLife` | abstract: what a session is to everybody but the code; `AdminSession` implements it |
| `NonceWindow` | time stamp, nonce and comparison in Sign |
| `LoginGuard` | the error counter |
| `ServerLink` | users, devices, the notifier, the Server as far as it answers commands |
| `Presence` | abstract: what operators are promised of a connection; `ServerLink` implements it |
| `ServerCalls` | the requests that are only forwarded, and the pages of the user list |
| `RbacTables` | the RBAC tables and every change that operators make to a decision's facts |
| `RbacCheck` | the middleware's queries; extends `RbacTables` and runs beside its edits |
| `Bootstrap` | the seed of every start; extends `RbacTables` and runs between its edits |
| `*Proofs` | theorems about the module in the name; `RbacTablesProofs` holds the lemmas about the tables that `RbacProofs` and `BootstrapProofs` share |
| `MC*` | model values, symmetry, initial bindings, ids and a small built-in tree for TLC |

### How actions correspond to code

One action is one call to Redis or MySQL, with the local code up to the next
call. A request is a record whose `pc` names the call it is about to make.

*Outcomes.* A call ends `"ok"`, `"lost"` (failed, no effect) or `"late"` (took
effect, reported as failed: a timeout or a broken connection). The last two are
charged against `MaxFaults`. `Crash` is the death of the process: every request
vanishes where it stands, Redis, MySQL and the browsers keep what they have.

*AdminSession.* A key is its expiry; 0 means that it is absent. `LoginCheck` is
the query and the two comparisons of `Login`; `LoginSetToken` and
`IssueSignSecret` are the SETs, `LoginReply` the answer. Every other request goes
`Sign` -> `JWTAuth` -> `RefreshToken` -> (when due) `ReissueSet` -> `ReissueDel`
-> handler. The claims that handlers see are those of the token the request came
with (`req[w].jti`), also when JWTAuth has issued another (`req[w].new`): the
code sets the new raw token and keeps the old claims. `Logout` removes the secret,
whose error it ignores, and then the token (`LogoutDel`): if that DEL fails it
answers CodeCacheError and the browser keeps its session (`Refused`), whether or not
the token is gone (`undone`). `ChangeOwnPassword` ignores both. The signature is modelled
as the session whose secret made it, a password as a version number; the nonce
and the time stamp have a module of their own. The other operators' edits are
single actions of `RBACService`. `Stage` and `Deadline` map a session, named by
the token its login generated, to `SessionLife`: it is open while its secret is
the stored one.

*NonceWindow.* A submission is one signed request; its copies (sent again, a
doubled click) share time stamp and nonce. A copy goes `CheckStamp` ->
`SetNXNonce` -> `CompareSignature`. A failed GET of the secret is a refusal with
the nonce spent, and so is a SETNX that took effect and was reported as failed.
Every submission carries a good signature: the module is about repetition.

*LoginGuard.* The counter is a count and a time to live, `Forever` between INCR
and EXPIRE. Concurrent logins of one account each run GET, check, INCR, EXPIRE
or DEL.

*ServerLink.* A request goes `store` (the row), `publish`, `http` for each of
its devices; `NextItem` is the loop of the batch handlers. A write that
fails or finds no row ends the request with an error and without a command. The Server is
external: it carries out a command when it reads it (`Deliver`), kicks, writes
the device row, accepts a device unless its user or the device itself is
disabled, refuses to delete an enabled device. Its subscription may break and
lose what was unread; an HTTP call whose caller gave up may be carried out later
(`DeliverStray`). `want` is the status that a device's last answered request asked
for; `tainted` collects the devices of a write or a command that was lost, late or
overtaken through HTTP. `Place` maps a device to `Presence`: due while it is connected
against its rows, forgotten once the command was missed. That the Server checks the
rows and registers a connection in one step is an assumption: its handshake is not
in this repository.

*RbacTables.* Each change is a transaction or a single statement, so one action
(a failed one changes nothing). MySQL's locks on the bindings order concurrent
assignments of one row. Ids are never reused; a free id is one that
AUTO_INCREMENT has yet to give. An operator may name any row that exists or once
did, since a dialog may be open while another operator deletes the row. An
account stays taken after its deletion (unique index). A new permission always
intercepts and is for one method: GORM replaces zero values by the columns'
defaults. `Setup` is what the seed and earlier operators have bound.

*RbacCheck.* `Facts` is what the queries would find now. Each query copies its
part of `Facts` into the request; `past` records, for the properties only, what
held throughout the check (`always`), what held at some moment (`ever`) and how a
check made at once would have been answered (`answers`).

*Bootstrap.* `at` is the statement that a start has come to, `Tree` the built-in
menus with their permissions in the seed's order. Each `Seed...` action is one
statement with the `First` that decides it: what is found is put right, what is
not is inserted with the next id. An error of a statement makes `main` end the
process (`"failed"`); `Stop` ends it from outside at any statement, serving
included; `Restart` begins at the first one again. The ids of an instance are a
bound: an insert waits while none is free (`Room`), and TLC's instance has enough
for the seed and every edit. While it serves, operators make
the changes of `RbacTables`, to which `UpdateMenu` is added here, where a menu's
code and parent matter. It takes the operator's JSON as a map, so a code may become
NULL, and `code NOT IN (...)` of the clean-up is not true for such a row (`Obsolete`).
Operators do not reach the tables during a start, which precedes the listener; one
instance of the process is assumed.

*ServerCalls.* `Ask` is a request's arrival, `Send` its one HTTP call, `Reply`
the answer. A call given up is an error to the operator and stays among `strays`,
which the Server may carry out at any time or never. The Server is external and
modelled from the answers the notifier tells apart. A walk through `ListUsers` is
a count and a select for each page, newest user first, until the total says that
there is no further page.

## Runs

All passing runs explore the whole state space of their bounds. The largest
(`session_faults`, about 2.6 million distinct states; `session_edits`, 1.8 million;
`bootstrap` and `server`, for their liveness) take one to three minutes with two
workers.

| Run | Properties | Shows |
|---|---|---|
| `session_faults` | TypeOK, RevokedStaysRevoked, NoStrandedClient | two requests of one browser, any call failing once, an answer lost, a crash |
| `session_edits` | DisabledAdminCutOff, OldPasswordCutOff, LoggedOutSessionClosed, KeepsSessionLife | two browsers, every operation, a row that starts enabled or disabled, one edit by an operator; the refinement of `SessionLife` |
| `session_renewal` | RenewalKeepsSession (violated) | finding 1 |
| `nonce` | TypeOK, ServedPaced, RepeatExplained | four copies of two submissions, a clock that passes window and lifetime, one fault |
| `login_guard` | TypeOK, GuessesBounded, ExpiryUnlessFault, LockEnds | three parallel logins, two faults |
| `server` | TypeOK, OnlineExplained, SettledStatus, KeepsPresence | two requests, batches of two devices, one fault; the refinement of `Presence`, its leads-to included |
| `server_disable` | DisabledUserKicked (violated) | finding 2 |
| `server_calls` | TypeOK, NoKeyUnaccounted, NameSettled, NobodySkipped | three forwarded requests, two at a time, one fault, a user deleted, an operator turning pages |
| `rbac` | TypeOK, NoDanglingBinding, AdmissionExplained, RefusalExplained, OneChangeAtomic | a check among any two changes of three administrators' and roles' tables |
| `rbac_builtin` | BuiltinStatusKept (violated) | finding 3 |
| `bootstrap` | TypeOK, StartRepairs, StartKeepsGrants, StartSettles, ComesUp | starts that end anywhere, two edits in between |
| `bootstrap_idempotent` | StartIsIdempotent (violated) | finding 4 |

Some properties hold only with a qualification that is part of them, and each
qualification names a weakness of the code:

- `OnlineExplained` and `Presence` except connections whose command a fault lost,
  or which `UpdateUser` (it notifies nobody, finding 2) leaves standing
  (`missed`); an operation that ought to notify and does not is no exception.
  A fault takes the kick of `DeleteUser` as well: its error is ignored, and
  repeating the deletion sends nothing.
- `SettledStatus` excepts devices with a write or a command that was lost or late, or
  where an HTTP fallback overtook a published command (`tainted`): without the
  exception a second request that overtakes the first through HTTP breaks it.
  Overlapping requests are no exception: row and command may be written in opposite
  orders, and the Server's own write puts that right. It says nothing of requests
  that stored nothing (see "Other observations").
- `NameSettled` excepts overlapping renames (`blurred`), which the code does not
  order, and so says little more than that one rename does what it answers.
- `ExpiryUnlessFault` is void after a fault: one failed EXPIRE, a lost answer to
  INCR or a crash between the two leaves a counter without a time to live, and the
  account locked for good (`auth_service.go:131-134`).
- `ServedPaced` does not promise once. The nonce lives for `NonceTtl` from its SETNX
  and a time stamp is accepted until `Window` after it, so a submission can be
  carried out again once the nonce is gone and its stamp is not: twice if it was
  first sent promptly, three times if it was stamped ahead by the whole window (the
  two constants are equal, `sign.go:19-23`). The property bounds the number exactly:
  each repeat takes a lifetime of the nonce out of what the stamp allows, and a
  submission stored later than `Span` after its stamp is carried out once.
- `LoggedOutSessionClosed` is about the secret. When JWTAuth renewed the token on
  the way into a change of password, the handler removes the old id and the new one
  stays whitelisted (`auth_handler.go:110-111`); Sign stops it for want of a secret.
- `NoStrandedClient` excepts browsers that missed an answer (`cut`): the renewed
  token travels in one. It excepts browsers whose own logout removed the token and
  was answered CodeCacheError (`undone`, `auth_handler.go:43-46`): they believe that
  the session goes on. And it is about the token; that the secret runs out first is
  finding 1.
- `StartRepairs` excepts menus whose code an operator has set to NULL
  (`rbac_handler.go:218`, `rbac_service.go:338-350`, nullable at `model/rbac.go:53`):
  the clean-up does not find them (`seed_rbac.go:214-216`), and they stay live beside
  the tree through every start.
- `OneChangeAtomic` is limited to one change per check: with two, the first taking
  a role's menu and the second giving that menu the permission, a request passes
  that no state of the tables would have let pass. `AdmissionExplained` says what
  remains true then.
- `NobodySkipped` allows one skipped user for each that was deleted during the walk
  (`lost`) or came between a page's count and its select (`slipped`).

### Bounds

- `AdminSession`: Ttl 3 makes "less than half is left" and "expired" different
  times; MaxTime 3 lets a key written at the start run out and one written later
  outlive it. Two workers give every interleaving of two requests, three token
  ids a login and two renewals. Faults and edits are explored in separate runs,
  one each.
- `LoginGuard`: Limit 2 with three workers lets more logins pass the reading than
  the limit; LockTtl 2 lets a key expire at once or a tick later.
- `NonceWindow`: Window and NonceTtl are equal, as in the code (five minutes each);
  MaxTime 6 lets a nonce run out with its time stamp still acceptable, and both run
  out. Skew 1 puts time stamps before and after the clock, Span 1 the SETNX a tick
  after the check (the code allows the Redis calls four seconds, `sign.go:70`). Four
  copies of two submissions run two at a time: a submission is carried out up to three
  times, as often as `ServedPaced` allows.
- `ServerLink`: two devices of one user are the smallest batch and the smallest
  `kick_user` with two targets. Two operations are an order and its reversal. One
  fault reaches every partial failure; what two faults add is two independent losses.
- `ServerCalls`: pages of one, two users at first and ids for two more: a walk of
  several pages with a user coming and one going between any two queries. Three
  calls, two at a time, are a call, its retry and an overlapping one.
- `Bootstrap`: a built-in tree of three menus, each under the one before, and two
  permissions, one of them with is_intercept 0; an id beside those of the tree for
  each edit. Two edits: one to break something and one to break its repair. Stops and
  restarts are not bounded.
- `Rbac`: one free id of each kind, so that rows can be created; two changes, both
  inside a check or one before it. One route: a decision never looks at two.

### Fairness

`AdminSession`, `NonceWindow`, `ServerCalls` and `RbacCheck` claim safety only.
`LoginGuard` assumes that Redis' clock runs and that a goroutine that has begun
goes on to its end (no call it makes waits for ever: the Redis client has read and
write timeouts). `ServerLink` assumes the same of goroutines, and that a subscribed
Server reads what it is sent. `Bootstrap` assumes that a start goes on from
statement to statement and that whoever runs the service starts it again; `ComesUp`
adds "if the process stops being ended from outside" as its hypothesis. None
assumes that operators, devices or browsers do anything, that a broken subscription
is restored, or that a stray HTTP call is ever carried out.

`Presence` states its promise as a leads-to and not as fairness of an action: what
is due leaves "due" by the code's doing, and which action does it is not the
abstract specification's business.

## Findings

1. *The sign secret is not renewed* (`auth_service.go:153-158`, `:187-202`).
   `:160` says that its lifetime is the token's. Renewal touches the token alone,
   so an administrator at work is cut off one lifetime after the login.
2. *`PUT /users/:id` disables without a kick* (`data_service.go:218-237`,
   `README.md:255`).
3. *`PUT /rbac/admins/:id` changes the built-in account's status*
   (`rbac_service.go:83-119`), which `:190` says cannot be changed.
4. *The seed is not idempotent* (`seed_rbac.go:294`, `bootstrap.go:29`). A
   permission of the tree with is_intercept 0 is inserted with the column's default
   1; only the next start writes the 0. `StartSettles` shows that it ends there.

Other observations. Five of them contradict a text of the repository; each is part
of a model or seen in the code, and no run of its own shows it:

- `data_service.go:510-512` says of `SetDeviceStatus` that a failed local update does
  not block the notification, so that the Server's handling is the authoritative
  path. The code returns at `:517-522`, without notifying, on a database error and
  when no row was changed. `Stored` in `ServerLink` has it as the code does, and
  `SettledStatus` passes over such requests, which answer an error.
- `data_service.go:316-318` says that the order of `DeleteUser`, row first and kick
  second, guarantees that no device of a deleted user stays online. The kick's error
  is ignored, and a device can reconnect or lose its command: `OnlineExplained` states
  what is true.
- `README.md:246` and `model/rbac.go:65` say that route and method identify a
  permission. Neither an index nor `CreatePerm` (`rbac_service.go:424`) ensures it;
  `CreatePerm` in `RbacTables` makes duplicates, and one that `UpdatePerm` opens
  (`is_intercept` 0) lets requests pass that the other would stop.
- `seed_rbac.go:212` says that menus which are not in the tree are removed: not those
  whose code is NULL (see `StartRepairs` above).
- `sign.go:19-23` and `README.md:29` speak of protection against replays, which is
  given for the nonce's lifetime only (see `ServedPaced` above).

- An empty `super_admin_account` becomes `admin` in the seed's own copy of the
  configuration only. `RBACService` then protects nobody, and once `admin` has been
  deleted every later start fails on the unique index (`bootstrap.go:32`).
  `ComesUp` holds because the configured account is protected; its mutant is a
  deletion that is not refused.
- A start does not repair a disabled built-in account, nor a disabled super role:
  `StartRepairs` claims neither.
- Menus that the clean-up removes keep their bindings and so go on granting their
  permissions (`seed_rbac.go:213-219`); `StartKeepsGrants` states it as the code
  has it.
- A disabled role loses its super flag, and its menus still grant.

## Proofs

The theorems hold for every value of the constants that the named assumptions
allow: any number of requests, rows, faults, and any bound.

*AdminSession* (`IInv`). `RevokedStaysRevoked` alone is not inductive. A removed
id could be written again by a SET under way, so the invariant adds where ids come
from: every id seen anywhere has been generated (`Issued`), and until its SET the
id of a login is known to that login alone (`Private`). EXPIRE of an absent key
does nothing, which is why the requests still in JWTAuth are harmless.
`DisabledAdminCutOff` and `OldPasswordCutOff` add what a login in flight
remembers: it is no older than `LoginSpan`, and what its check saw was still so
when it looked (`Timely`). `LoginSpan` is an assumption on how long a login takes.
The code bounds its Redis calls, but not the UPDATE between them, so the theorem
holds for any value and claims none.

`NoStrandedClient` (`TokenInv`) needs to know who can
have removed a token. A login's token and a renewed one are known to their request
alone, a browser's to that browser and its requests (`Exclusive`). A token that was
handed out or is about to be stays whitelisted until it is removed or no longer
valid (`Usable`, since a key is kept at least as long as its token is valid,
`Outlasts`). Whoever removes it carries a newer one or is ending the session
(`Flow`) and does not give up before the answer, unless the answer is lost or it is a
logout whose DEL took effect and was reported as failed (`Covered`).

The life of sessions (`LifeInv`, on top of `IInv`) rests on names. A
session's name is private to its login until the one SET that opens it (`Secluded`); every name seen anywhere has been generated (`Named`) and
belongs to one administrator (`Owned`); and while a logout that has removed the
secret without a fault is on its way to its answer, no stored secret has that name
(`Removed`). With the name used up, nothing can store it again, and
`LoggedOutSessionClosed` follows. For the refinement, `StageMoves` shows that a name's stage goes only one way when what is
stored, being opened and generated changes as `NamesKept` says.

*NonceWindow* (`IInv`). A copy at its SETNX has had its time stamp checked no
longer than `Span` ago (`Checked`), so that it is there by `Window + Span` after the
time stamp. Each copy that gets past the SETNX starts a new lifetime of the nonce,
and the one before must have run out: so the copies past it, carried out or on their
way, have used up that many lifetimes since the first (`Paced`), the last of which
began within what the time stamp allows. Nobody gets past before a nonce is stored
(`Untaken`), and none is stored before its submission is signed (`Stored`). Counting
the copies on their way assumes that there are finitely many `Workers`; nothing is
assumed of how `NonceTtl` and `Window` compare.

*LoginGuard* (`GInv`). A login in flight is one of `Workers`; the guesses
counted, those uncounted for a fault and those in flight add up (`Counted`,
`Admitted`). `LockoutExpires` follows from the key without a time to live having
its creator about to give it one.

*ServerLink* (`LinkInv`). `OnlineExplained` is inductive once the types say what
requests are under way (`Requests`: a user's request has one target, whatever is not
asked to enable is to end) and that only connected devices have missed anything.
The proof of a step goes by three facts: who has missed a command stays known
(`Remembers`), a command does not vanish without being carried out or missed
(`Carries`), and no row turns against a connection without one (`Announces`).
`Counted` bounds the versions of a password by the requests for a new one.
`PresenceSafe` is the safety part of `Presence`; its leads-to stays with TLC.

`SettledStatus` (`Settling`) is about a device's last answered status, and says
nothing while commands for the device are on their way. The invariant says what
they will do. A device that is not `tainted` is `Followed`: if no request is about to
send a command for it, the last of the unread commands that give it a status gives
the one that was answered last, or there is none and the row has it (`AsWanted`).
While requests still hold their commands, rows and wishes may disagree in any order,
since each of those commands comes behind all that is unread and settles them. A
call that was given up and writes the device has tainted it. Each step either leaves
a device's commands alone, adds one behind the others, or takes the first.

*ServerCalls* (`CallsInv`). `NoKeyUnaccounted` compares cardinalities, and is
inductive once the calls that were given up are counted too: the keys nobody knows
and the stray creations together are no more than the creations that ended or are
ending in an error (`KeysCounted`). Calls have numbers, and no two that may still be
carried out share one (`Numbered`), so that taking one off takes off exactly one.
`NameSettled` follows from the wish being the label unless a rename is ending in an
error, and from there being one rename at a time (`Named`), as long as nothing is
`blurred`. `NobodySkipped` needs what a walk knows between its queries: those there
all along whom it has not seen and whose place is before the next page are no more
than those deleted or slipped in; and before the select, they and all who are
present are no more than those and the total it has counted (`Paged`). Counting
assumes that there are finitely many `Workers`.

*RbacCheck* (`RInv`). The facts as a set only grow what is granted: no rule of
the check takes a permission away. What a check has read lies between what was
always there to read and what ever was (`RolesRead`, `MenusRead`, `PermsRead`,
`NotSuper`), every change keeps the present between the two (`Bracketed`), and
the decision follows from monotonicity (`OpensGranted`, `GrantedOpens`).
`DeletionUnbinds` needs only types.

`OneChangeAtomic` (`ViewInv`) relates five queries to one moment. While no change
has committed since the check began, all that it has read is what is there
(`OneView`). A single change only adds facts, only takes some away, or is about what
one query reads (`Alike`). In the last case the facts of before or those of after
agree with everything read and still to be read, so the check answers as they do. In
the others its answer lies between those of before and after, and both are among the
answers allowed. Two changes are not `Alike` in this sense.

*Bootstrap* (`Seeding`). What a start has done so far is read off the statement it
has come to: the account (`AccountSeeded`), and of the tree every node before the
current one and every permission before the current one (`TreeSeeded`). That a
later statement does not undo an earlier one is one fact, `Grows`: until operators
change something, rows and bindings only come, and a lookup with `First` that has
found a row goes on finding the same. It holds for every statement of the seed, so
the parts done are carried along by lemmas that do not look at which statement was
executed. At the clean-up everything is done (`Complete`), and `StartRepairs` follows
however many starts ended half-way. `Complete` then stays true through all later
starts. With it `InterceptsSeeded` says that a start that creates nothing writes
every is_intercept, so that after two of them no statement has anything left to
change: `StartSettles`. This uses that the tree gives no route and method two
values of is_intercept (`InterceptsAssumption`), which the literal in
`seed_rbac.go:43-202` does not. The rest of what is assumed of the tree
(`TreeAssumption`) is that it is not empty, that codes differ and that a menu comes
before those under it. `StartsNeverFail` is the safety half of `ComesUp`: while the
account is protected it is never deleted, so no insert meets its unique index.

Only model-checked: the liveness properties `LockEnds`, `ComesUp` and the leads-to
of `Presence`, which rest on fairness and ENABLED, beyond this prover. Every
invariant that a passing run checks, both action properties and the refinement of
`SessionLife` are proved; so is the safety part of the refinement of `Presence`.

## Not modelled, and why

- Signatures, hashes, JSON, paging, log lines: formatting and pure functions. A
  signature is the session that made it, a hash the version of its password.
- Uploads: one file per request under a fresh name.
- The administrator's `validity_period`: no code reads it.
- Device lists and the dashboard: read-only. `ListAllDevices` answers from the
  database, without the online filter, when the Server does not answer
  (`data_service.go:439`); what the Server lists and in which order is not in the
  repository, so that the two answers cannot be compared.
- The tree of menus that a browser draws: read-only, built from the rows.
- What a disabled role is to keep: the code lets its menus grant their permissions
  and only takes away the super flag; no text says otherwise.
- Router, configuration, database set-up, logging and results: wiring.

## Plan

The modules of the table above are done. What is left, in this order:

1. Of the liveness properties, the steps that are not temporal: for each state in
   which something is due, which action is to be taken and what it brings nearer.
2. `UpdateProfile` and the time of the last login, should a property need them.
