------------------------------- MODULE HttpApi -------------------------------
(***************************************************************************)
(* The HTTP layer of the backend (internal/infrastructure/http): what the  *)
(* middleware and the handlers make of a request before and after the call *)
(* of the service, and the tokens AuthMiddleware wants.  A handler has no  *)
(* state of its own; what serving a request comes to is an outcome:        *)
(* whether the host's bucket pays, and whether the service is called.      *)
(*                                                                         *)
(* An operator nothing refers to, here and in Server, is the one after it  *)
(* with the mistake of its name (see README, mutants).                     *)
(***************************************************************************)
EXTENDS Naturals

CONSTANTS
    None,
    Secret,    \* values JWT_SECRET may have
    Second,    \* clock ticks in a second
    TokenTTL,  \* lifetime of a token in ticks (24 h)
    Period     \* ticks in which a host's bucket gains a request (6 s)

\* tokenTTL is a whole number of seconds.
ASSUME HttpAssumption ==
    /\ Second \in Nat \ {0}
    /\ TokenTTL \in Nat
    /\ TokenTTL % Second = 0
    /\ Period \in Nat \ {0}

----------------------------------------------------------------------------
(* Routes and requests. *)

Begins == {"register/begin", "login/begin"}
Finishes == {"register/finish", "login/finish"}
Limited == Begins \cup Finishes
Authenticated == {"me", "credentials", "credentials/id"}
Public == {"health", "assetlinks.json"}
Route == Limited \cup Authenticated \cup Public

Method == {"OPTIONS", "POST", "GET"}
Part == {"missing", "bad", "good"}

\* The requests that differ in what the layer looks at, with a token shown from
\* a set.  "id" is the X-Session-ID header or the end of the path, "known" what
\* the request's context says of its user.
Input(tokens) ==
    [route: Begins, method: Method, id: {"good"}, token: {None}, known: {FALSE},
     body: {"bad", "noUsername", "noEmail", "good"}]
    \cup
    [route: Finishes, method: Method, id: Part, token: {None}, known: {FALSE},
     body: {"bad", "good"}]
    \cup
    [route: Authenticated, method: Method, id: Part, token: tokens \cup {None},
     known: {FALSE}, body: {"good"}]
    \cup
    [route: Public, method: Method, id: {"good"}, token: {None}, known: {FALSE},
     body: {"good"}]

\* An outcome: answered by the layer itself, or left to the service.
Answered == [spends |-> FALSE, calls |-> FALSE]
CallService == [spends |-> FALSE, calls |-> TRUE]

\* One guard of a handler, httpError and return, and the code behind it.
Guard(refused, rest) == IF refused THEN Answered ELSE rest

----------------------------------------------------------------------------
(* Handlers: their guards in their order, which answer 405, 400 and 401. *)

NotPost(in) == in.method # "POST"

handleRegisterBegin(in) ==
    Guard(NotPost(in),
    Guard(in.body = "bad",
    Guard(in.body = "noUsername",
    Guard(in.body = "noEmail",
          CallService))))

handleRegisterFinish(in) ==
    Guard(NotPost(in),
    Guard(in.id = "missing",
    Guard(in.id = "bad",
    Guard(in.body = "bad",
          CallService))))

handleLoginBegin(in) ==
    Guard(NotPost(in),
    Guard(in.body = "bad",
    Guard(in.body = "noUsername",
          CallService)))

handleLoginFinish(in) ==
    Guard(NotPost(in),
    Guard(in.id = "missing",
    Guard(in.id = "bad",
    Guard(in.body = "bad",
          CallService))))

handleMe(in) == Guard(~in.known, CallService)
handleListCredentials(in) == Guard(~in.known, CallService)

handleRevokeCredential(in) ==
    Guard(~in.known,
    Guard(in.id = "missing",
    Guard(in.id = "bad",
          CallService)))

handleHealth == Answered
handleAssetLinks == Answered

Handler(in) ==
    CASE in.route = "register/begin"  -> handleRegisterBegin(in)
      [] in.route = "register/finish" -> handleRegisterFinish(in)
      [] in.route = "login/begin"     -> handleLoginBegin(in)
      [] in.route = "login/finish"    -> handleLoginFinish(in)
      [] in.route = "me"              -> handleMe(in)
      [] in.route = "credentials"     -> handleListCredentials(in)
      [] in.route = "credentials/id"  -> handleRevokeCredential(in)
      [] in.route = "health"          -> handleHealth
      [] OTHER                        -> handleAssetLinks

----------------------------------------------------------------------------
(* Tokens. *)

\* GenerateToken: iat and exp are whole seconds.  "issued", the instant itself,
\* is history, and the signature is the secret it was made with.
GenerateToken(secret, now) ==
    [issued |-> now, exp |-> (now + TokenTTL) \div Second, secret |-> secret]

TimelyBefore(token, now) == now \div Second < token.exp
\* time.Now().UTC().Unix() > claims.Exp is refused.
Timely(token, now) == now \div Second <= token.exp

VerifyTokenOfAnyAge(token, secret, now) == token.secret = secret

VerifyToken(token, secret, now) == token.secret = secret /\ Timely(token, now)

----------------------------------------------------------------------------
(* Middleware, around what comes next. *)

\* The server as middleware sees it: the level of the host's bucket (TokenBuckets,
\* which RateLimiter implements), the secret and the clock.
AuthMiddleware(in, secret, now) ==
    IF in.token = None \/ ~VerifyToken(in.token, secret, now)
    THEN Answered
    ELSE Handler([in EXCEPT !.known = TRUE])

RateLimitFromAnyLevel(in, level) ==
    IF level > 0 THEN [Handler(in) EXCEPT !.spends = TRUE] ELSE Answered

\* A whole request must be in the bucket, and is taken before any guard.
RateLimitMiddleware(in, level) ==
    IF level >= Period THEN [Handler(in) EXCEPT !.spends = TRUE] ELSE Answered

\* A preflight is answered here; the headers, like those of
\* SecurityHeadersMiddleware, are left out.
CORSMiddleware(in, next) == IF in.method = "OPTIONS" THEN Answered ELSE next

LimitBeginsOnly(in, level, secret, now) ==
    CASE in.route \in Begins   -> CORSMiddleware(in, RateLimitMiddleware(in, level))
      [] in.route \in Finishes -> CORSMiddleware(in, Handler(in))
      [] in.route \in Authenticated -> CORSMiddleware(in, AuthMiddleware(in, secret, now))
      [] OTHER -> Handler(in)

\* RegisterRoutes: what each route is wrapped in.
Serve(in, level, secret, now) ==
    CASE in.route \in Limited -> CORSMiddleware(in, RateLimitMiddleware(in, level))
      [] in.route \in Authenticated -> CORSMiddleware(in, AuthMiddleware(in, secret, now))
      [] OTHER -> Handler(in)
=============================================================================
