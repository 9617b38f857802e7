# A TLA+ model of passwordless-project

passwordless-project is a Go backend and an Android app for passkeys: a user
registers a WebAuthn credential, logs in with it, gets a token, and may list and
revoke credentials with the token. This directory holds TLA+ modules translated
from its source, configurations for TLC, and proofs for TLAPS.

Paths below are relative to `src/`; `internal/` stands for
`src/passwordless-backend/internal/`.

## 1. The system

| Component | State | Operations | Interacts by |
|---|---|---|---|
| Application service `internal/application/webauthn_service.go` | none of its own; locals of the request being served | begin and finish of registration and of login, revoke, two reads | SQL statements, calls to go-webauthn |
| Tables `internal/infrastructure/database/{schema.sql,repositories.go}` | `users`, `credentials`, `webauthn_sessions` | one statement each, no transactions | called by the service and the worker |
| Clean-up worker `internal/application/worker.go` | a ticker | mark overdue pending sessions, once a minute | writes the sessions table under the requests |
| Rate limiter `internal/infrastructure/http/ratelimit.go` | map host -> limiter and time last seen, under a mutex | get, Allow, clean-up | in front of the four WebAuthn routes; a goroutine deletes entries |
| Tokens `internal/application/token.go` | none (HMAC over user and expiry) | generate, verify | service issues, `AuthMiddleware` verifies |
| HTTP handlers, middleware `internal/infrastructure/http/` | none | seven routes, security headers, CORS, limiter, authentication | net/http: a goroutine for each request |
| Query builder `internal/shared/db/orm.go` | none | build INSERT, SELECT, UPDATE, DELETE and arguments | called by the repositories |
| Library adapter `internal/infrastructure/webauthn/adapter.go` | none | forwards to go-webauthn | called by the service |
| Server `passwordless-backend/cmd/api/main.go` | process life | start (migrations), serve, shut down | starts worker and server, cancels their context |
| Mobile app `passwordless-app/app/src/main/java/` | stored token and user, view model state, screen | register, log in, log out, "revoke" | HTTP to the backend, Android CredentialManager |

What is hard about it:

* *No transactions.* A finished login is eight statements. Between any two of
  them other requests, the worker, a revocation or a crash may act, and each may
  fail.
* *Reads that are used later.* `saveSession` looks for an old session and then
  expires it by id; `FinishLogin` computes a counter from a row it loaded two
  statements before it writes it, and looks up "the" pending session of the user
  a second time instead of keeping the one it was sent for.
* *Errors that are dropped* (`webauthn_service.go:152`, `233`, `254-255`).
* *Restarts.* `schema.sql:52` drops the sessions table at every start, while
  credentials and tokens survive.
* *Expiry decided in three places*: the service and the library by the server's clock,
  the worker's statement by the database's.
* *Statuses written by id.* `UpdateSessionStatus` never looks at the status it replaces,
  so a begin, two finishes and the worker may each overwrite what another has written.
* *A limiter asked outside its mutex* while a goroutine deletes idle ones.
* *One pool for all.* Requests and the worker take a connection for each statement;
  a signal may come while any of them waits for one or holds one, and the pool is
  closed after ten seconds whoever is still there.
* *Three goroutines that start and stop each other*: main, the one of
  `ListenAndServe`, the worker.
* *A phone.* Views are turned, stopped and destroyed while a coroutine waits for the
  server or for the user's finger; two preferences are written one after the other
  and reach the disk later; the process may die at any time.

The properties that make the parts correct: at most one open ceremony of a kind
for a user; what a ceremony ended as is overwritten by
nobody but those who were at it when it ended; tokens only for credentials their user
owned and the ceremony allowed; expired sessions and revoked credentials are
refused however the request interleaves; credential rows keep their owner;
counters do not fall but by a lost update; overdue ceremonies get closed; the limiter is indistinguishable from one bucket per host
that lives for ever; no connection leaks, every request ends, a signal ends the
process, and tokens open the authenticated routes as long as they should; and the
app keeps and shows one user's session at a time and
does not get stuck. `PROJECT.json` lists the hazards line by line, with the
property that would catch each, or why none does yet.

## 2. Modules

| Module | What it is |
|---|---|
| `WebAuthnService` | the service, its three tables, the worker, the clock, faults and restarts |
| `WebAuthnProperties` | what the service promises |
| `MCWebAuthn` | instances for TLC: symmetry, and a start with credentials registered |
| `WebAuthnTypes_proofs` | the type invariant, proved |
| `WebAuthnSafety_proofs` | tokens, sessions and credential rows, one pending session, proved |
| `WebAuthnFinish_proofs` | what a finish accepts and leaves behind, who closes and relabels sessions and lowers counters, proved |
| `WebAuthnRefinement_proofs` | the refinement of `Ceremonies`, proved |
| `Ceremonies` | abstract: ceremonies, passkeys and tokens, every operation in one step |
| `TokenBuckets` | abstract: one everlasting bucket per host |
| `RateLimiter` | the limiter of `ratelimit.go`, its properties and its refinement of `TokenBuckets` |
| `RateLimiter_proofs` | types, the refinement and the bound on a stretch of time, proved |
| `HttpApi` | routes, middleware, guards, tokens |
| `Server` | the process: start, serving, the pool, the worker's goroutine, shutdown, restart |
| `ServerProperties` | what the process promises |
| `Server_proofs` | types, the pool and its accounts, the limit on ceremonies, the life of a token, proved |
| `QueryBuilder` | the statements of `orm.go`, the listings that use it, and PostgreSQL on a few rows |
| `QueryProperties` | what the builder promises, against what each call means |
| `QueryBuilder_proofs` | what every statement means, proved |
| `MCQueryBuilder` | the calls that TLC makes |
| `MobileApp` | the Android app: screens, view model, coroutines, stored session, life cycle |
| `MobileAppProperties` | what the app promises |
| `MobileApp_proofs` | types, the stored session, Home and the one ceremony, proved |
| `MCMobileApp` | symmetry for TLC |

### WebAuthnService

The unit of atomicity is the SQL statement: PostgreSQL makes a single statement
atomic, and nothing in the code makes more than one so. Each slot of `Request` is
a goroutine serving a request; `req[r].pc` names the statement it executes next
and the other fields are the handler's locals. An action is one statement with
the Go code that follows it up to the next one.

| Code | Actions |
|---|---|
| `BeginRegistration` | `BeginRegistration` (read user), `CreateUser`, `LoadForBegin`, then `saveSession` |
| `BeginLogin` | `BeginLogin` (read user), `LoadForBegin`, then `saveSession` |
| `saveSession` | `FindPending`, `ExpireOld`, `SaveSession` |
| `loadUserAndSession` | `Finish` (read session), `LoadForFinish` (read credentials, compare the clock), `MarkExpired` |
| `FinishRegistration` | ..., `Validate`, `SaveCredential`, `CompleteSession` |
| `FinishLogin` | ..., `Validate`, `UpdateSignCount`, `ReadAudit`, `UpdateCredentialAudit`, `CompleteSession`, `GenerateToken` |
| `RevokeCredential` | `RevokeCredential` (verify token, read row), `Deactivate` |
| `cleanupExpiredSessions` | `CleanupExpiredSessions` |
| an error that is returned / dropped | `StatementFails` / `ErrorIgnored` |
| process dies and `RunMigrations` | `Restart` |

`email`, `cred` and `session` are the tables. A session id that is not in use is
`FREE`, one whose row went with the table `DROPPED`; the status `FAILED` the
schema allows is never written. An address, a user agent or a name is a model
value. `RemoteAddr` and `nullIP` are modelled by what they do: the first is a
pair of host and port, the second knows bare addresses only. `grants` is the set
of tokens handed out.

Who asks whether a deadline has passed asks in his own way: `ExpiredForService`
(`time.Now().After`), `ExpiredForLibrary` (on the copy in `session_data`),
`ExpiredForDatabase` (`expires_at < NOW()`), `TokenExpired`. The database has a clock of
its own, `DatabaseAhead` ticks ahead of the server's (a constant, of either sign), so the worker may close a
session the service would still accept. `BeginRegistration` takes any error of its
look-up for an unknown user, as the code does, so an existing one may be sent to
`CreateUser` too.

History variables and fields, which no guard of the code reads: `tainted`
(pairs of user and type whose begins overlapped, or for which an error was
dropped, since the last start), `cred[c].origin`, and a request's `seen`, `late`,
`revoked`.

go-webauthn is external and modelled by what the service relies on: a response
passes when it was made for the session's challenge, before the deadline, and, for
a login, with a credential the session allows while the user still has all the
allowed ones; the counter moves up only. The cryptography itself is taken to
be right. Which response comes in is open: any credential, any counter, any
challenge.

An operator that nothing refers to and that is named for a mistake
(`ExpireOldForgotten`, `SnapshotWithRevoked`) is the operator after it with that
mistake put in. Replacing one by the other makes a property fail; `mutants` in
`PROJECT.json` says which.

### Ceremonies

What remains of the service when requests, statements, clocks and failures are
taken away: `Open`, `Close`, `Enrol`, `Issue`, `Revoke`, `Forget`.
`WebAuthnProperties` maps the tables to it: a `PENDING` session is open, a
`COMPLETED` or `EXPIRED` one closed, a row that went with the table gone; a
credential is its owner and whether it is active; a token is its user, the login it
was earned in and the credential. `ImplementsCeremonies` says that each statement
of the service is one of these steps or none. A token is only for a closed ceremony, of its own user,
for a passkey the ceremony was opened for; a passkey is enrolled once, in a
registration; revoking is for those with a token and for ever; whatever closes
closes open ceremonies only, and a restart takes ceremonies and nothing else. All of it
has to hold although the service reads and writes these facts in separate statements.

Two things the abstract specification does not promise, because the code does not:
a token for a passkey that is still active (it may be revoked between the load and
the token; `RevokedIsRefused` says what is true), and one token or one passkey for
a ceremony (two overlapping finishes may both succeed).

### HttpApi

A pure module: `Serve` is what `RegisterRoutes` makes of a request, an outcome that
says whether the limiter is charged and whether the service is called. `CORSMiddleware`, `RateLimitMiddleware` and
`AuthMiddleware` wrap what comes next, in the order of the route; a handler is a
chain of its guards in their order, each of which answers and returns or goes on to the
code behind it (`Guard`). `Input` has the requests that differ in what
the code looks at: the method (`GET` for every one that is neither `POST` nor
`OPTIONS`), the body (undecodable, without a name, without an address), the id (missing,
unparsable, good), the token. A token is the second it expires in and the secret it
was signed with. Status codes, headers and JSON are left out.

### Server

| Code | Actions |
|---|---|
| `main`, up to `ListenAndServe` | `Start`, `Connect`, `RunMigrations` (with everything up to `<-ctx.Done()`), `Listen` in a goroutine of its own |
| `log.Fatalf` anywhere, `mustEnv` | `Fatal`: no deferred call is made, and connections just go |
| `signal.NotifyContext` | `Signal`, at any moment; a second one changes nothing |
| `server.Shutdown`, `pool.Close` | `BeginShutdown`, `Drained` or `DrainTimesOut`, `Exit` |
| a request in net/http | `Accept` (through `HttpApi!Serve`), for each statement of the service `Ask`, `Take`, `Executed`, the last of which ends the request (`Reply`), as a guard that refuses does at once; `Failed` is an error of the service, `TurnedAway` a closed pool |
| worker | `Sweep`, `Take`, `SweepEnds`, `StopWorker` |

The service is so many statements, any number up to a bound: what they do is
`WebAuthnService`'s, what they need is a connection each. pgxpool serves those who
wait in their order. `select` may choose the ticker once more after the signal; that
sweep ends at once, its context being cancelled, and changes nothing here. The limiter is
`TokenBuckets` for one host, whose implementation is `RateLimiter`; it dies with the
process, as it does in the code. `allowance` is history: what the host may still
do in this life of the process, counted without the limiter. `late` is history too.
The environment of a life is its secret; a clock that starts within a second, of which
ticks are a part, lets a token be issued at every place of one.

### RateLimiter

`get` is one step under the mutex, `Allow` one step later without it; in between
the clean-up pass may take the entry away. `Limiter` is a set of addresses: one
that neither the map nor a request points to is free memory. A bucket holds
`Burst * Period` units, gains one with each tick, and a request takes `Period`.

The limiter is correct only because its constants fit: an entry goes after ten
minutes, a bucket is full again after one. The assumption `Cap + MaxStall <=
IdleLimit` says so, with `MaxStall` the longest time a request may need from `get`
to `Allow`, during which clean-up may only take limiters that are full. With
10 requests, 6 s and 10 min, `MaxStall` may be nine minutes. `Tick` enforces the
bound on the stall; the code does not, but the two calls follow each other at once.

`TokenBuckets` has no map, no mutex and no clean-up. `Level(h)` is the
refinement mapping: what the host's limiter holds now, or a full bucket if there
is none.

### QueryBuilder

A pure algorithm with a small machine around it: a call (`Insert`, `SelectOne`,
`Update`, `Delete`, `SelectOneWithFilters`, and `repositories.go`'s
`GetCredentialsByUserIDPaginated` and `GetCredentialsByUserIDFiltered`) is built into a
statement, the statement runs on `rows`, the call returns. `Equalities`, `BuildWhere`,
`AddFilter`, `ValidOptions` and the `Build...` operators are the functions of
`orm.go`, `Turns` the loop of `buildWhereFilters`; a statement is its parts and the numbers of its placeholders, never text, and
a column is a number in the order of the names. What PostgreSQL makes of it (`Holds`,
`Before`, `Page`, `Assign`, `Run...`) is external: NULL is in no comparison, and is
larger than every value in an ORDER BY (nil reaches a statement in SET, in VALUES and in
the list of an IN, where it does no harm); rows that ORDER BY leaves equal come in any
order. `QueryProperties` says what a call means from its maps and filters alone
(`Wanted`, `With`, `IsPage`) and compares.

### MobileApp

The main thread and the coroutines of `AuthRepository` are the processes. `stack`
is the back stack of `nav_graph.xml`; only the top has a view.

| Code | Actions |
|---|---|
| `WelcomeFragment` | `OpenCeremony`; `Redirect`, part of every step that shows Welcome |
| `LoginViewModel.login`, `RegisterViewModel.register` | `TapCeremony`; the posted result is `Post` |
| observers in `LoginFragment`, `RegisterFragment` | `ObserveState`, `ObserveSuccess` |
| `AuthRepository.register`, `login` | `Begin`, `Prompt`, `Finish`, `Store`; an error or a caught exception is `Fails` |
| `HomeFragment`, `HomeViewModel` | `Show`, `LoadSession`; `Logout`, `Revoke` |
| `SessionManager` | `prefs`, `disk`, `ClearSession`, `Persist` |
| Android | `Back`, `Rotate`, `Stop`, `Start`, `Launch`, `KillAndReturn`, `Crash`, `Cancelled` |

`prefs` is what the process reads, `disk` what survives it: `apply` writes later,
and an activity that stops waits for it. `vm.shown` says whether the observer of
the present view has been given the value; a new view is given it again. `live` is
whether the coroutine's scope still exists. A cancelled coroutine ends where it
suspends, not between two preferences. The server is `keys`, the users with a
passkey on the phone that the server knows: a login needs one, a registration
takes it away at the prompt (the new passkey replaces the old) and gives it back
once the server has served the request, whether or not the answer arrives.

`tainted` and `revoked` are history. `tainted` marks the two ways the session can
really come apart, so that the properties say that there are no others: a coroutine
whose screen was left stores what it was about to store (a registration then puts
its user beside another's token), and the process dies before both preferences are
on disk. Left out: `displayName` and `isRegistered`, which nobody reads; what is
typed but for the name it stands for; `postValue` and the observer's turn on the
main thread are `Post` and `Observe`, and the user cannot tap in between because
the button is still disabled.

## 3. Runs

| Run | Instance | Shows |
|---|---|---|
| `registration` | empty database; 2 users, 2 e-mails, 2 credentials, 2 sessions, 2 requests, clock to 2, 1 failing statement | refinement of `Ceremonies`; ownership, completed registrations, open ceremonies, who relabels a closed session, across users; the database's clock is one ahead |
| `login` | a registered credential; 2 sessions, 2 clients, 2 requests, counters to 1, clock to 2, 1 failing statement | what logins may and may not do when they overlap; the database's clock is one ahead |
| `liveness` | one user, 2 sessions, 2 requests, 1 failing statement, fairness, no symmetry | overdue sessions close |
| `strict_counter` | violation | a login whose counter stands still passes |
| `transaction` | violation | a registration is not one transaction |
| `audit_address` | violation | the address of a login is never stored |
| `limiter` | 2 hosts, 2 ports, 2 requests, 2 limiters, clock to 6, fairness | refinement of `TokenBuckets`, no request asks a deleted limiter, the bound on any stretch of time; idle entries go |
| `server` | 2 requests and the worker, 1 connection, 2 statements, bucket of 1, 2 lives, 2 secrets, tokens of 1 s, half-second ticks from 1 to 5, fairness | the pool's accounts, requests end, the limit on ceremonies, the life of a token, shutdown |
| `query_builder` | 2 columns, 2 values and NULL, 3 rows; 2 filters, lists of 2 in IN | statements do what calls mean, senseless calls are refused |
| `app` | 2 users, 2 coroutines | the session kept and shown, one ceremony at a time |
| `app_liveness` | 1 user, 2 coroutines, fairness, no symmetry | the button comes back |
| `app_revoke` | violation | a revoked user logs in again |

*Why the bounds suffice.* Every hazard above is about two requests (the
interleaving of more is a sequence of such pairs as far as rows are concerned) and
at most one old and one new session, so two slots and two session ids make each
happen: overlapping begins, a begin during a finish, two finishes of one ceremony,
a revocation during a login, two registrations of one credential id. A clock of
three instants with a lifetime of one has a moment before the deadline, at it and
after it, for the server, and, its clock being one ahead, earlier ones for the database:
at the server's deadline the database is past it. Slots and ids return to use after a request and are taken up again;
session ids never do, which is what `uuid.New` promises, and is what bounds the
number of ceremonies. `MaxFaults` bounds failing statements, of which one at any
place is enough to leave every partial result. For the limiter the clock is long
enough for a bucket to be emptied, deleted and used again. For the builder,
two columns show an order of columns, two filters with a list of two any shift of
numbers, three rows ties, pages and rows left over. For the server, one connection
makes whoever comes second wait, so that signals, failures and the time-out of the drain meet a
request or a sweep with a connection, in the queue and between two statements; a second life
meets the tokens and the buckets of the first. A token issued at 1, late in its second, is shown
up to 5, the first moment at which no token of its age may be good; one issued at 2, early
in its second, is still good at 5, past its lifetime. The app needs no bound on
time: two users for a token beside another's name, two coroutines for a new one
beside one that was cancelled. Every other bound is
named with its constant. The proofs need none of them.

*Deadlock* is checked for the app and the query builder, and not for the service, the
limiter and the server: at the end of the clock, with all ids or lives used, a system
without requests rightly stops.

*Fairness.* `WF(Step(r))`: a goroutine that is serving a request is scheduled and
its statements return (net/http and pgx give no reason to assume more, and a
failing statement is a different action, which is not fair).
`WF(CleanupExpiredSessions)`: the ticker fires every minute for as long as the
process lives. `WF(Cleanup)`: the same of the limiter's ticker. In the server, `WF(Main)`: main goes on when it can,
and connecting and migrating give up when the context is cancelled; `WF(Handling(r))`: a
statement returns, the pool wakes the first who waits, handlers return; `WF(Working)`: the
worker's statement ends after five seconds at the latest (`worker.go:29`). A statement of a
request has no time limit of its own in the code: that the database answers, or drops the
connection, is assumed. In the app, `WF(Run(t))`: OkHttp
gives up after 10 s and 30 s (`ApiClient.kt`), the prompt at the timeout in the
options it is given, and `WF(Observe)`: the main thread runs what is posted to it;
`LoadingEnds` is about users who keep coming back, `[]<>started`. Nothing is assumed
of clients, of the clock, of faults or of restarts.

## 4. Disagreements with the documents

Shown by a run:

* `specification.md:98` wants the counter strictly greater, "Aborta" otherwise.
  The library only raises a flag nobody reads (`CounterStrictlyGrows`). For
  passkeys that always report zero the code is the more practical of the two.
* `specification.md:68-70` calls the end of a registration a transaction. It is
  two statements; the client may be told of a failure with the credential
  registered (`RegistrationIsTransaction`).
* `database.md:106` shows the address a login stores. It is always NULL, as the
  port is never taken off (`AuditRecordsAddress`).
* `HomeFragment.kt:52` tells the user that revoking removes the passkey and that they
  will have to register again. It clears two preferences; passkey and server are as
  before, and the next login succeeds (`RevokedMustRegister`).

Seen while modelling, without a run: sessions are dropped at every start
(`schema.sql:52`, where `database.md:68` has `CREATE TABLE IF NOT EXISTS`); errors
are swallowed in the service, which `architecture.md:13` forbids; the worker marks
sessions instead of deleting them and after 60 s instead of two minutes
(`specification.md:109`); no exclusion list is sent at registration
(`specification.md:49`); counter and audit data are two statements where
`database.md:101-108` has one; two finishes of one login that overlap both earn a
token; the revoke route accepts any method (`api.md:193` says DELETE); a database that
fails is answered 404 by `login.go:37` and 401 by `login.go:83`, as if the user or the
passkey were wrong; `middleware.go:48` does not list the header `X-Session-ID` that the
finish handlers insist on, so a browser of another origin could not send it.

## 5. Proofs

Every theorem is about `Spec`, for all values of the constants allowed by the
assumptions `NoneAssumption`, `BoundAssumption`, `LimiterAssumption`, `HttpAssumption`,
`ServerAssumption`, `NoneIsNoUser`, `TableAssumption` and `InputAssumption`: that "nothing"
is none of the things it is told from, that bounds, periods and numbers of connections are
natural numbers, positive where the code makes them so, that a table has finitely many
columns, two of them those the listings name, and that the builder is called with what Go's
types let through (any names of columns, operators and directions, nil, numbers below
zero), with slices in filters of `IN` alone. A module of proofs about the service extends the one
before it in the table.

| Theorem | Property |
|---|---|
| `WebAuthnTypes_proofs!TypeCorrect` | `TypeOK` |
| `WebAuthnSafety_proofs!CredentialsAreStable` | `CredentialRowIsStable` |
| `WebAuthnSafety_proofs!TokensAreOwned` | `GrantsAreOwned` |
| `WebAuthnSafety_proofs!TokensCloseSessions` | `GrantClosesSession` |
| `WebAuthnSafety_proofs!OneSessionPending` | `OnePending` |
| `WebAuthnFinish_proofs!RevokedNeverPasses` | `RevokedIsRefused` |
| `WebAuthnFinish_proofs!LateNeverPasses` | `ExpiredIsRefused` |
| `WebAuthnFinish_proofs!RegistrationsAreComplete` | `RegistrationLeavesCredential` |
| `WebAuthnFinish_proofs!AuditIsOfTheSession` | `AuditMatchesSession` |
| `WebAuthnFinish_proofs!LiveSessionsAreKept` | `LiveSessionIsKept` |
| `WebAuthnFinish_proofs!RelabelsAreRaces` | `OnlyRacersRelabel` |
| `WebAuthnFinish_proofs!CountersFallWhenStale` | `CounterFallsOnlyWhenStale` |
| `WebAuthnRefinement_proofs!ServiceImplementsCeremonies` | `ImplementsCeremonies` |
| `RateLimiter_proofs!LimiterTypes` | `TypeOK` |
| `RateLimiter_proofs!LimiterHeldIsCurrent` | `HeldIsCurrent` |
| `RateLimiter_proofs!LimiterImplementsBuckets` | `ImplementsBuckets` |
| `RateLimiter_proofs!LimiterWindow` | `WindowBound` |
| `Server_proofs!ServerTypes` | `TypeOK` |
| `Server_proofs!PoolAccounts` | `Accounts` |
| `Server_proofs!PoolIsKept` | `PoolOutlivesRequests` |
| `Server_proofs!LimitHolds` | `CeremoniesAreLimited` |
| `Server_proofs!TokensLast` | `TokenLife` |
| `MobileApp_proofs!AppTypes` | `TypeOK` |
| `MobileApp_proofs!TokenIsTheUsers` | `TokenMatchesUser` |
| `MobileApp_proofs!HomeIsCurrent` | `HomeShowsSession` |
| `MobileApp_proofs!CeremoniesAreAlone` | `OneCeremony` |
| `MobileApp_proofs!HomeOnlyAfterRegistering` | `HomeIsEarned` |
| `QueryBuilder_proofs!QueryTypes` | `TypeOK` |
| `QueryBuilder_proofs!PlaceholdersAlwaysFit` | `PlaceholdersFit` |
| `QueryBuilder_proofs!SenselessIsRefused` | `RefusedIfSenseless` |
| `QueryBuilder_proofs!StatementsMeanCalls` | `StatementMeansCall` |

*Types.* `TypeOK` is inductive with a few facts about requests in flight, such as
that one that is about to expire an old session has one.

*Tokens.* That a token is owned does not follow from itself: user, session and
credential come from separate statements. `IInv` carries along each request what
its earlier statements established (its session is in use and was opened for its
user; the loaded credentials are rows of its user; after `Validate` the credential
is one of them and the session allows it), which later statements cannot undo
because rows keep their owner and sessions their user, type and allowed set.
`CredentialRowIsStable` is a step of the same argument.

*One pending session.* `OnePending` is not inductive: between the look for the old
session and the new row a second begin could slip in. `WindowOK` says that while a
request is between the two and its pair is untainted, no other request is, and no
pending session of the pair exists but the old one it is about to expire.

*Finishes.* A finish decides with what it read some statements ago; `FinishInv` says
which of it still holds at the statement that uses it. `RevokedOK`: a credential that was
revoked on arrival stays so, hence is not loaded, hence not accepted. `DeadlineOK`: a
late finish finds its session expired, because sessions keep their deadline and time
does not go back, and gets no further than to have it marked. `WritesOK`: a registration completes its session after its row is
there, which keeps where it stems from; a login writes no counter below the one it has
loaded, so that a counter can fall only against another's write. `AuditOK`: what
`ReadAudit` finds is some pending session of the user, and `OnePending` makes it the
right one. `BeginOK` and `DeadlineOK` together say whose session an `UPDATE` by id
meets, which is `LiveSessionIsKept`; with `HoldsStep`, that a session is taken up while
it is pending, it is `OnlyRacersRelabel` too. `ServiceInvariance` puts the four
invariants together, each inductive with the help of the earlier ones.

*The refinement.* A session maps to unused, open, closed or gone by its status; a
credential row to its owner and whether it is active; a token to what earned it. Then
`SaveSession` is `Open`, `SaveCredential` into an empty row `Enrol`, `Deactivate` of an
own row `Revoke`, `GenerateToken` `Issue`, `Restart` `Forget`. Every other statement is
`Close` of the sessions it takes from pending to completed or expired, or of none: it
must not bring back one that a restart has dropped, which is where `FinishInv` comes in.
That `Issue` finds its session closed and its credential enrolled is `IInv`.

*The limiter.* `RInv` says that a request holds the limiter its host's entry has,
that no two entries share a limiter, and that an entry was seen no longer ago than
`MaxStall` before its limiter was last asked. So an entry that clean-up deletes
holds a full bucket, and deleting it leaves `Level` as it was: a stuttering step
of `TokenBuckets`. `WindowInv` adds to the bound that what was admitted since an
earlier admission, with what is left in the bucket, is covered by a full bucket
and the time since.

*The server.* `ServeOutcome` goes through routes and middleware once and for all:
what calls the service on a limited route has paid the limiter. `Covered` keeps `allowance` at or above the level
of the bucket, so that it is not negative as the level is not; that needs `Phases`, the
listener being there only while main waits, so that no request meets a process that is
down. `Phases` also says that the pool main has let go of is closed: none of the requests that
are done with can be served again. `TokenLife` is `WholeSeconds`, a fact about
division, applied to what `GenerateToken` and `VerifyToken` compare.

*The pool.* `Accounts` says that the processes with a connection are those whose
statement runs, and that the queue lists those who wait, each once. `Lists` is kept by
the three things that happen to a queue, an append, the removal of the head and the
removal from the middle when an acquire is cancelled. From the accounts follow the part of
`TypeOK` about the pool, and that a place in the queue is never left behind by a request that
has been answered.

*The app.* Nothing in `AuthRepository` keeps a registration from writing its user
beside another's token: that it does not is an invariant of the screens. `LiveOK`: while
a coroutine is live, Loading is shown or still to be observed, so the button cannot
start a second one. `TaskOK`: a live coroutine is for the ceremony on top, and a login
that has stored its token finds it untouched until it stores its user. `ScreenOK`: a phone
with a token shows neither Welcome nor the registration, as every way to Welcome goes
on to Home then. So what stores is the one live coroutine of the top screen, or a
cancelled one, which taints the history: `StoreKeeps`. `HomeIsEarned` follows from the
last part of `ScreenOK`, that a login does not succeed without a token.

*The query builder.* What it builds is made by a sort and by loops, so each lemma about
it is an induction. The library's induction theorems cannot be used here, as they take
an operator; `Induction` is about a set of numbers instead, and is proved from the order
of the naturals being well-founded. With it: the loop over the filters (`TurnsAre`,
`FiltersFit`) leaves one condition for each filter, that compares what the filter compares
(`Says`), and numbers that go through its arguments in order; `FlattenAppend` puts the numbers of the
conditions in a row. That `SortedColumns` lists the columns of a map, each once and in
order, needs no induction: a column's `Rank` is its place. From it `EqualitiesAre`, and from this
and `Says` that a condition holds of a row when the map or the filter means it
(`MapMeans`, `FilterMeans`) and that SET and VALUES assign the data (`AssignIsWith`).
The invariant `CallInv` ties `built` to the call that is under way; TLC has checked it too. For each of the seven
calls there is then a lemma about what is built, and one about what it chooses (`Sound`). A page is
counted: what stands before its i-th row in the order asked for stands before it in the
list, where there is room for Skip + i - 1 rows (`Counted`, `PagesAre`).

*Only model-checked.* The liveness properties (`OverdueIsClosed`,
`IdleIsEvicted`, `RequestsEnd`, `SignalStops`, `LoadingEnds`): liveness under fairness is out of
the prover's reach. Every invariant and every other action property of the passing runs,
and both refinements, are proved.

## 6. Not modelled, and abstractions

One server process at a time. The clocks of server and database are a constant apart and
do not drift. The key of an address without a port (`ratelimit.go:66-68` keeps the
address as it is): net/http sets none. What `OnePending`, `LiveSessionIsKept` and
`CounterFallsOnlyWhenStale` allow is what the code does when begins or logins overlap:
they say that it goes wrong in no other way, not that it does not go wrong. The UNIQUE
constraints on names and addresses are taken as PostgreSQL enforces them. The cryptography
of WebAuthn and of tokens. The backup flags go-webauthn compares at login, which the
credentials table does not store. The scanning of rows into Go values. Status codes,
headers, the limit on the size of a body, and net/http's own time limits, which close connections
and do not stop handlers. What a client can do to TCP. `RateLimiter` is one
life of the process; `Server` has several, with one host. The order of the calls to
`time.Now` inside `Allow`. `Server` and `WebAuthnService` are composed by what they share,
statements and restarts, and not state by state: the product of the two is out of reach
of TLC, and nothing a statement does depends on the connection it runs on. Of the app,
the formats of requests and answers, widgets, the keyboard and what several windows of
one app would do. Layouts, images and design prototypes keep no state.

## 7. Plan

Modelled: all components that keep state or decide something. Proved: every invariant,
action property and refinement that a passing run checks. To come: the app with an abstract
server that has sessions of its own.
