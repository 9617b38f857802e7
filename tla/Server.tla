------------------------------- MODULE Server -------------------------------
(***************************************************************************)
(* The life of the server process: main.go from its start to its end, the  *)
(* requests net/http serves meanwhile, the clean-up worker, and the pool   *)
(* of database connections all of them share.                              *)
(*                                                                         *)
(* HttpApi says what becomes of a request; the service behind it is so     *)
(* many statements, each with a connection of its own (WebAuthnService     *)
(* models what they do).  net/http, pgxpool and signals are external: the  *)
(* pool serves those who wait in their order, Close turns them away and    *)
(* waits for the connections that are out; Shutdown closes the listener    *)
(* and waits for requests to be answered.  The requests are those of one   *)
(* host.                                                                   *)
(***************************************************************************)
EXTENDS HttpApi, Integers, FiniteSets, Sequences

CONSTANTS
    Request,        \* slots for requests being served at the same time
    Worker,         \* the clean-up worker's goroutine
    MaxConns,       \* connections of the pool (10)
    MaxStatements,  \* bound: statements of one service call
    Burst,          \* b of the rate limiter (10)
    MaxTime,        \* bound: last instant of the clock
    MaxStarts       \* bound: lives of the process

ASSUME ServerAssumption ==
    /\ Worker \notin Request
    /\ None \notin Secret
    /\ MaxConns \in Nat \ {0}
    /\ MaxStatements \in Nat \ {0}
    /\ Burst \in Nat
    /\ MaxTime \in Nat /\ Second <= MaxTime
    /\ MaxStarts \in Nat \ {0}
    /\ Secret # {}

VARIABLES
    main,       \* where the main goroutine is
    cancelled,  \* ctx, cancelled by a signal
    listener,   \* what the goroutine of ListenAndServe has got to
    late,       \* history: Shutdown gave up waiting
    starts,
    pc,         \* where each request and the worker are
    req,        \* the request in each slot
    open,       \* is there a pool that has not been closed
    held,       \* who has a connection
    queue,      \* who waits for one
    secret,     \* JWT_SECRET of this life
    level,      \* the bucket of the host
    allowance,  \* history: what is left of Burst ceremony operations and one for
                \* each Period of this life
    token,      \* the token handed out last
    now

processVars == <<main, cancelled, listener, late, starts, secret>>
poolVars == <<open, held, queue>>
apiVars == <<level, allowance, token>>
vars == <<processVars, poolVars, apiVars, pc, req, now>>

----------------------------------------------------------------------------
Proc == Request \cup {Worker}
Cap == Burst * Period
Places == {"down", "connect", "migrate", "wait", "drain", "close"}
Stages == {"idle", "service", "waiting", "running", "stopped"}

NoRequest == [left |-> 0, login |-> FALSE]

TypeOK ==
    /\ main \in Places
    /\ cancelled \in BOOLEAN
    /\ listener \in {"none", "starting", "listening", "closed"}
    /\ late \in BOOLEAN
    /\ now \in 0 .. MaxTime
    /\ starts \in 0 .. MaxStarts
    /\ allowance \in Int
    /\ pc \in [Proc -> Stages]
    /\ req \in [Request -> [left: 0 .. MaxStatements, login: BOOLEAN]]
    /\ open \in BOOLEAN
    /\ held \subseteq Proc /\ Cardinality(held) <= MaxConns
    /\ queue \in Seq(Proc)
    /\ secret \in Secret
    /\ level \in 0 .. Cap
    /\ token \in [issued: 0 .. MaxTime, exp: Nat, secret: Secret] \cup {None}

\* The first life begins, with any of the secrets, which are alike, and at the
\* end of a second.
Init ==
    /\ main = "connect" /\ cancelled = FALSE /\ listener = "none"
    /\ late = FALSE /\ starts = 1
    /\ secret = CHOOSE k \in Secret : TRUE
    /\ open = FALSE /\ held = {} /\ queue = <<>>
    /\ level = Cap /\ allowance = Cap /\ token = None
    /\ pc = [p \in Proc |-> IF p = Worker THEN "stopped" ELSE "idle"]
    /\ req = [r \in Request |-> NoRequest]
    /\ now = Second - 1

----------------------------------------------------------------------------
(* The main goroutine. *)

Start ==
    /\ main = "down" /\ starts < MaxStarts
    /\ main' = "connect"
    /\ starts' = starts + 1
    /\ secret' \in Secret
    /\ UNCHANGED <<cancelled, listener, late, apiVars, poolVars, pc, req, now>>

\* The end of the process takes every goroutine and connection with it, and the
\* limiter's buckets, which are full again at the next start.
Die ==
    /\ main' = "down"
    /\ cancelled' = FALSE /\ listener' = "none" /\ late' = FALSE
    /\ pc' = [p \in Proc |-> IF p = Worker THEN "stopped" ELSE "idle"]
    /\ req' = [r \in Request |-> NoRequest]
    /\ open' = FALSE /\ held' = {} /\ queue' = <<>>
    /\ level' = Cap /\ allowance' = Cap
    /\ UNCHANGED <<starts, secret, token, now>>

\* database.Connect; with a cancelled context its Ping fails.
Connect ==
    /\ main = "connect" /\ ~cancelled
    /\ main' = "migrate"
    /\ open' = TRUE
    /\ UNCHANGED <<cancelled, listener, late, starts, secret,
                   held, queue, apiVars, pc, req, now>>

\* RunMigrations, then the worker and the server are started.
RunMigrations ==
    /\ main = "migrate" /\ ~cancelled
    /\ main' = "wait"
    /\ pc' = [pc EXCEPT ![Worker] = "idle"]
    /\ listener' = "starting"
    /\ UNCHANGED <<cancelled, late, starts, secret,
                   poolVars, apiVars, req, now>>

\* log.Fatalf: a missing or short variable, no database, no schema, no port, or a
\* listener that breaks.  No deferred call is made.
Fatal ==
    /\ main \in {"connect", "migrate"} \/ listener \in {"starting", "listening"}
    /\ Die

Listen ==
    /\ listener = "starting"
    /\ listener' = "listening"
    /\ UNCHANGED <<main, cancelled, late, starts, secret,
                   poolVars, apiVars, pc, req, now>>

\* SIGINT or SIGTERM; a second one changes nothing.
Signal ==
    /\ main # "down" /\ ~cancelled
    /\ cancelled' = TRUE
    /\ UNCHANGED <<main, listener, late, starts, secret,
                   poolVars, apiVars, pc, req, now>>

\* <-ctx.Done(), then server.Shutdown, which shuts the listener at once, or keeps
\* ListenAndServe from opening one.
BeginShutdown ==
    /\ main = "wait" /\ cancelled
    /\ main' = "drain"
    /\ listener' = "closed"
    /\ UNCHANGED <<cancelled, late, starts, secret,
                   poolVars, apiVars, pc, req, now>>

AllServed == \A r \in Request : pc[r] = "idle"

DrainedUnasked ==
    /\ main = "drain"
    /\ main' = "close" /\ open' = FALSE
    /\ UNCHANGED <<cancelled, listener, late, starts, secret,
                   held, queue, apiVars, pc, req, now>>

\* Shutdown returns, main returns, and the deferred pool.Close begins.
Drained ==
    /\ main = "drain" /\ AllServed
    /\ main' = "close" /\ open' = FALSE
    /\ UNCHANGED <<cancelled, listener, late, starts, secret,
                   held, queue, apiVars, pc, req, now>>

\* The ten seconds of shutdownCtx are over first.
DrainTimesOut ==
    /\ main = "drain" /\ ~AllServed
    /\ main' = "close" /\ open' = FALSE
    /\ late' = TRUE
    /\ UNCHANGED <<cancelled, listener, starts, secret,
                   held, queue, apiVars, pc, req, now>>

\* pool.Close returns when every connection has been returned; then main ends.
Exit ==
    /\ main = "close" /\ held = {}
    /\ Die

----------------------------------------------------------------------------
(* The pool. *)

Join(p) == queue' = Append(queue, p)

\* Nobody waits in two places.
Without(s, p) ==
    IF \E i \in DOMAIN s : s[i] = p
    THEN LET i == CHOOSE i \in DOMAIN s : s[i] = p
         IN  SubSeq(s, 1, i - 1) \o SubSeq(s, i + 1, Len(s))
    ELSE s
Leave(p) == queue' = Without(queue, p)

Take(p) ==
    /\ open /\ pc[p] = "waiting"
    /\ queue # <<>> /\ Head(queue) = p
    /\ Cardinality(held) < MaxConns
    /\ queue' = Tail(queue)
    /\ held' = held \cup {p}
    /\ pc' = [pc EXCEPT ![p] = "running"]
    /\ UNCHANGED <<processVars, open, apiVars, req, now>>

----------------------------------------------------------------------------
(* Requests. *)

\* What may become of the next request, the last token being known to clients.
Outcomes ==
    {[serve |-> Serve(in, level, secret, now), route |-> in.route] :
       in \in Input({token} \ {None})}

\* A goroutine of net/http takes the request through middleware and guards, which
\* answer it or pass it to the service.
Accept(r) ==
    /\ listener = "listening" /\ pc[r] = "idle"
    /\ \E o \in Outcomes, n \in 1 .. MaxStatements :
         /\ pc' = [pc EXCEPT ![r] = IF o.serve.calls THEN "service" ELSE "idle"]
         /\ req' = [req EXCEPT ![r] =
                     [left |-> IF o.serve.calls THEN n ELSE 0,
                      login |-> o.serve.calls /\ o.route = "login/finish"]]
         /\ level' = IF o.serve.spends THEN level - Period ELSE level
         /\ allowance' = IF o.serve.calls /\ o.route \in Limited
                         THEN allowance - Period ELSE allowance
    /\ UNCHANGED <<processVars, poolVars, token, now>>

\* The service sends its next statement: pgxpool's Acquire.
Ask(r) ==
    /\ pc[r] = "service" /\ open
    /\ Join(r)
    /\ pc' = [pc EXCEPT ![r] = "waiting"]
    /\ UNCHANGED <<processVars, open, held, apiVars, req, now>>

\* The handler writes the answer and returns, which ends the request.
Reply(r) ==
    /\ req' = [req EXCEPT ![r] = NoRequest]
    /\ pc' = [pc EXCEPT ![r] = "idle"]

ExecutedKeepingConnection(r) ==
    /\ pc[r] = "running"
    /\ IF req[r].left > 1
       THEN /\ req' = [req EXCEPT ![r].left = @ - 1]
            /\ pc' = [pc EXCEPT ![r] = "service"]
            /\ UNCHANGED token
       ELSE /\ Reply(r)
            /\ token' = IF req[r].login THEN GenerateToken(secret, now) ELSE token
    /\ UNCHANGED <<processVars, poolVars, level, allowance, now>>

\* The statement returns, and with it the connection; after the last the answer
\* is written, to a finished login with a token.
Executed(r) ==
    /\ pc[r] = "running"
    /\ held' = held \ {r}
    /\ IF req[r].left > 1
       THEN /\ req' = [req EXCEPT ![r].left = @ - 1]
            /\ pc' = [pc EXCEPT ![r] = "service"]
            /\ UNCHANGED token
       ELSE /\ Reply(r)
            /\ token' = IF req[r].login THEN GenerateToken(secret, now) ELSE token
    /\ UNCHANGED <<processVars, open, queue, level, allowance, now>>

FailedKeepingConnection(r) ==
    /\ pc[r] \in {"service", "waiting", "running"}
    /\ Leave(r)
    /\ Reply(r)
    /\ UNCHANGED <<processVars, open, held, apiVars, now>>

\* The service returns an error: the database says no, or the client has gone and
\* r.Context() is cancelled, with a connection or while waiting for one.
Failed(r) ==
    /\ pc[r] \in {"service", "waiting", "running"}
    /\ held' = held \ {r}
    /\ Leave(r)
    /\ Reply(r)
    /\ UNCHANGED <<processVars, open, apiVars, now>>

\* The pool has been closed under the request.
TurnedAway(r) ==
    /\ pc[r] \in {"service", "waiting"} /\ ~open
    /\ Leave(r)
    /\ Reply(r)
    /\ UNCHANGED <<processVars, open, held, apiVars, now>>

----------------------------------------------------------------------------
(* The clean-up worker and the clock. *)

\* The ticker fires.  select may also choose it after the signal, but then the
\* statement's context is cancelled and nothing is sent.
Sweep ==
    /\ pc[Worker] = "idle" /\ ~cancelled
    /\ Join(Worker)
    /\ pc' = [pc EXCEPT ![Worker] = "waiting"]
    /\ UNCHANGED <<processVars, open, held, apiVars, req, now>>

SweepEndsKeepingConnection ==
    /\ pc[Worker] \in {"waiting", "running"}
    /\ Leave(Worker)
    /\ pc' = [pc EXCEPT ![Worker] = "idle"]
    /\ UNCHANGED <<processVars, open, held, apiVars, req, now>>

\* The statement ends: done, failed, after five seconds, or cancelled - with a
\* connection or while waiting for one.
SweepEnds ==
    /\ pc[Worker] \in {"waiting", "running"}
    /\ held' = held \ {Worker}
    /\ Leave(Worker)
    /\ pc' = [pc EXCEPT ![Worker] = "idle"]
    /\ UNCHANGED <<processVars, open, apiVars, req, now>>

StopWorker ==
    /\ pc[Worker] = "idle" /\ cancelled
    /\ pc' = [pc EXCEPT ![Worker] = "stopped"]
    /\ UNCHANGED <<processVars, poolVars, apiVars, req, now>>

Tick ==
    /\ now < MaxTime
    /\ now' = now + 1
    /\ level' = IF level < Cap THEN level + 1 ELSE Cap
    /\ allowance' = IF main = "down" THEN allowance ELSE allowance + 1
    /\ UNCHANGED <<processVars, poolVars, token, pc, req>>

----------------------------------------------------------------------------
\* What the main goroutine does of its own accord; with a cancelled context that
\* is to give up.
Main ==
    \/ Connect \/ RunMigrations \/ BeginShutdown \/ Drained \/ DrainTimesOut \/ Exit
    \/ main \in {"connect", "migrate"} /\ cancelled /\ Fatal
Handling(r) == Ask(r) \/ Take(r) \/ Executed(r) \/ TurnedAway(r)
Working == Take(Worker) \/ SweepEnds \/ StopWorker

Next ==
    \/ Start \/ Main \/ Fatal \/ Listen \/ Signal \/ Tick \/ Sweep \/ Working
    \/ \E r \in Request : Accept(r) \/ Handling(r) \/ Failed(r)

Spec == Init /\ [][Next]_vars

\* Pings and migrations end, goroutines are scheduled, and statements return: for
\* the worker five seconds see to it.  Clients, signals and failures need not come.
Fairness ==
    /\ WF_vars(Main)
    /\ \A r \in Request : WF_vars(Handling(r))
    /\ WF_vars(Working)

FairSpec == Spec /\ Fairness
=============================================================================
