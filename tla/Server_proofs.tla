---------------------------- MODULE Server_proofs ----------------------------
(***************************************************************************)
(* What the server process promises, for any number of requests, routes,   *)
(* connections and lives, any bucket and any lifetime of tokens.           *)
(***************************************************************************)
EXTENDS ServerProperties, SequenceTheorems, FiniteSetTheorems, TLAPS

----------------------------------------------------------------------------
(* The HTTP layer. *)

\* A handler answers, or leaves the answer to the service.
LEMMA HandlerOutcome ==
    ASSUME NEW in
    PROVE  Handler(in) \in {Answered, CallService}
BY DEF Handler, handleRegisterBegin, handleRegisterFinish, handleLoginBegin,
       handleLoginFinish, handleMe, handleListCredentials, handleRevokeCredential,
       handleHealth, handleAssetLinks, Guard

\* A ceremony reaches the service only if the bucket has paid for it, with what it
\* has.
LEMMA ServeOutcome ==
    ASSUME NEW in, NEW lv \in Nat, NEW k, NEW t
    PROVE  LET o == Serve(in, lv, k, t)
           IN  /\ o.calls \in BOOLEAN
               /\ o.spends \in BOOLEAN
               /\ o.calls /\ in.route \in Limited => o.spends
               /\ o.spends => lv >= Period
<1>1. /\ Handler(in) \in {Answered, CallService}
      /\ Handler([in EXCEPT !.known = TRUE]) \in {Answered, CallService}
  BY HandlerOutcome
<1>2. ASSUME NEW o \in {Answered, CallService}
      PROVE  /\ o.calls \in BOOLEAN
             /\ o.spends = FALSE
             /\ [o EXCEPT !.spends = TRUE].calls = o.calls
             /\ [o EXCEPT !.spends = TRUE].spends = TRUE
  <2>1. CASE o = Answered
    BY <2>1 DEF Answered
  <2>2. CASE o = CallService
    BY <2>2 DEF CallService
  <2> QED BY <1>2, <2>1, <2>2
<1>3. LET o == RateLimitMiddleware(in, lv)
      IN  /\ o.calls \in BOOLEAN
          /\ o.spends \in BOOLEAN
          /\ o.calls => o.spends
          /\ o.spends => lv >= Period
  BY <1>1, <1>2 DEF RateLimitMiddleware, Answered
<1>4. AuthMiddleware(in, k, t) \in {Answered, CallService}
  BY <1>1 DEF AuthMiddleware
<1>5. Answered.calls = FALSE /\ Answered.spends = FALSE
  BY DEF Answered
<1>6. Limited \cap Authenticated = {}
  BY DEF Limited, Begins, Finishes, Authenticated
<1>7. CASE in.route \in Limited
  <2>1. Serve(in, lv, k, t) \in {Answered, RateLimitMiddleware(in, lv)}
    BY <1>7, <1>6 DEF Serve, CORSMiddleware
  <2>2. CASE Serve(in, lv, k, t) = Answered
    BY <1>5, <2>2
  <2>3. CASE Serve(in, lv, k, t) = RateLimitMiddleware(in, lv)
    BY <1>3, <2>3
  <2> QED BY <2>1, <2>2, <2>3
<1>8. CASE in.route \in Authenticated /\ in.route \notin Limited
  BY <1>2, <1>4, <1>5, <1>8, <1>6 DEF Serve, CORSMiddleware
<1>9. CASE in.route \notin Authenticated /\ in.route \notin Limited
  BY <1>1, <1>2, <1>9 DEF Serve
<1> QED BY <1>7, <1>8, <1>9

----------------------------------------------------------------------------
(* What holds of the process at every moment. *)

LEMMA CapType == Cap \in Nat /\ Period \in Nat
BY HttpAssumption, ServerAssumption DEF Cap

\* Of the type invariant what the rest needs.
Types ==
    /\ pc \in [Proc -> Stages]
    /\ req \in [Request -> [left: 0 .. MaxStatements, login: BOOLEAN]]
    /\ now \in Nat
    /\ level \in 0 .. Cap
    /\ allowance \in Int

\* The listener is there only while main waits for the signal, and the pool that
\* main has let go of is closed.
Phases ==
    /\ listener \in {"starting", "listening"} => main = "wait"
    /\ main = "close" => ~open

\* What the limiter still has for the host is covered by what it is owed.
Covered ==
    /\ allowance >= level
    /\ main = "down" => level = Cap

\* The last token was made by GenerateToken, not in the future.
TokenOK ==
    token # None
    => /\ token.issued \in 0 .. now
       /\ token = GenerateToken(token.secret, token.issued)

IInv == Types /\ Phases /\ PoolOutlivesRequests /\ Covered /\ TokenOK

LEMMA IInvInit == Init => IInv
BY CapType, HttpAssumption, ServerAssumption
   DEF Init, IInv, Types, Phases, PoolOutlivesRequests, Covered, TokenOK,
       Stages, Proc, NoRequest, AllServed

LEMMA IInvNext == IInv /\ [Next]_vars => IInv'
<1> SUFFICES ASSUME IInv, [Next]_vars PROVE IInv'
  OBVIOUS
<1> USE CapType, HttpAssumption, ServerAssumption
    DEF IInv, Types, Phases, PoolOutlivesRequests, Covered, TokenOK,
        Stages, Proc, NoRequest, AllServed, processVars, poolVars, apiVars
<1>1. CASE Start
  BY <1>1 DEF Start
<1>2. CASE Connect
  BY <1>2 DEF Connect
<1>3. CASE RunMigrations
  BY <1>3 DEF RunMigrations
<1>4. CASE Fatal
  BY <1>4 DEF Fatal, Die
<1>5. CASE Listen
  BY <1>5 DEF Listen
<1>6. CASE Signal
  BY <1>6 DEF Signal
<1>7. CASE BeginShutdown
  BY <1>7 DEF BeginShutdown
<1>8. CASE Drained
  BY <1>8 DEF Drained
<1>9. CASE DrainTimesOut
  BY <1>9 DEF DrainTimesOut
<1>10. CASE Exit
  BY <1>10 DEF Exit, Die
<1>11. CASE Sweep
  BY <1>11 DEF Sweep
<1>12. CASE Take(Worker)
  BY <1>12 DEF Take
<1>13. CASE SweepEnds
  BY <1>13 DEF SweepEnds
<1>14. CASE StopWorker
  BY <1>14 DEF StopWorker
<1>15. CASE Tick
  BY <1>15 DEF Tick
<1>16. ASSUME NEW r \in Request, Accept(r) PROVE IInv'
  <2>1. PICK o \in Outcomes, n \in 1 .. MaxStatements :
          /\ pc' = [pc EXCEPT ![r] = IF o.serve.calls THEN "service" ELSE "idle"]
          /\ req' = [req EXCEPT ![r] =
                      [left |-> IF o.serve.calls THEN n ELSE 0,
                       login |-> o.serve.calls /\ o.route = "login/finish"]]
          /\ level' = IF o.serve.spends THEN level - Period ELSE level
          /\ allowance' = IF o.serve.calls /\ o.route \in Limited
                          THEN allowance - Period ELSE allowance
    BY <1>16 DEF Accept
  <2>2. PICK in \in Input({token} \ {None}) :
          o = [serve |-> Serve(in, level, secret, now), route |-> in.route]
    BY <2>1 DEF Outcomes
  <2>3. /\ o.serve.calls \in BOOLEAN /\ o.serve.spends \in BOOLEAN
        /\ o.serve.calls /\ o.route \in Limited => o.serve.spends
        /\ o.serve.spends => level >= Period
    BY <2>2, ServeOutcome
  <2>4. /\ listener = "listening" /\ pc[r] = "idle"
        /\ UNCHANGED <<processVars, poolVars, token, now>>
    BY <1>16 DEF Accept
  <2>5. main = "wait" /\ main' = "wait" /\ listener' = listener
    BY <2>4
  <2>6. Types'
    BY <2>1, <2>3, <2>4
  <2>7. Covered'
    BY <2>1, <2>3, <2>5
  <2>8. (Phases /\ PoolOutlivesRequests)'
    BY <2>5
  <2>9. TokenOK'
    BY <2>4
  <2> QED BY <2>6, <2>7, <2>8, <2>9
<1>17. ASSUME NEW r \in Request, Ask(r) PROVE IInv'
  BY <1>17 DEF Ask
<1>18. ASSUME NEW r \in Request, Take(r) PROVE IInv'
  BY <1>18 DEF Take
<1>19. ASSUME NEW r \in Request, Executed(r) PROVE IInv'
  <2>1. CASE req[r].left > 1
    BY <1>19, <2>1 DEF Executed
  <2>2. CASE ~(req[r].left > 1)
    <3>1. (Types /\ Phases /\ PoolOutlivesRequests /\ Covered)'
      <4>1. /\ pc[r] = "running" /\ pc' = [pc EXCEPT ![r] = "idle"]
            /\ req' = [req EXCEPT ![r] = NoRequest]
            /\ UNCHANGED <<processVars, open, level, allowance, now>>
        BY <1>19, <2>2 DEF Executed, Reply
      <4> QED BY <4>1
    <3>2. TokenOK'
      <4>1. token' \in {token, GenerateToken(secret, now)} /\ UNCHANGED now
        BY <1>19, <2>2 DEF Executed
      <4>2. CASE token' = token
        BY <4>1, <4>2
      <4>3. CASE token' = GenerateToken(secret, now)
        BY <4>1, <4>3 DEF GenerateToken
      <4> QED BY <4>1, <4>2, <4>3
    <3> QED BY <3>1, <3>2
  <2> QED BY <2>1, <2>2
<1>20. ASSUME NEW r \in Request, TurnedAway(r) PROVE IInv'
  BY <1>20 DEF TurnedAway, Reply
<1>21. ASSUME NEW r \in Request, Failed(r) PROVE IInv'
  BY <1>21 DEF Failed, Reply
<1>22. CASE UNCHANGED vars
  BY <1>22 DEF vars
<1> QED
  BY <1>1, <1>2, <1>3, <1>4, <1>5, <1>6, <1>7, <1>8, <1>9, <1>10, <1>11, <1>12, <1>13, <1>14, <1>15, <1>16, <1>17, <1>18, <1>19, <1>20, <1>21, <1>22
  DEF Next, Main, Handling, Working

LEMMA Invariant == Spec => []IInv
BY IInvInit, IInvNext, PTL DEF Spec

----------------------------------------------------------------------------
(* The queue of the pool. *)

LEMMA ListsAppend ==
    ASSUME NEW W, NEW s, Lists(s, W), NEW p, p \notin W
    PROVE  Lists(Append(s, p), W \cup {p})
<1>1. s \in Seq(W) /\ s \in Seq(W \cup {p}) /\ Len(s) \in Nat /\ DOMAIN s = 1 .. Len(s)
  <2>1. s \in Seq(W)
    BY DEF Lists
  <2> QED BY <2>1
<1>2. /\ Append(s, p) \in Seq(W \cup {p})
      /\ DOMAIN Append(s, p) = 1 .. Len(s) + 1
      /\ Append(s, p)[Len(s) + 1] = p
      /\ \A i \in 1 .. Len(s) : Append(s, p)[i] = s[i] /\ s[i] \in W
  BY <1>1
<1>3. ASSUME NEW w \in W \cup {p}
      PROVE  \E i \in DOMAIN Append(s, p) : Append(s, p)[i] = w
  <2>1. CASE w = p
    BY <1>1, <1>2, <2>1
  <2>2. CASE w \in W
    <3>1. PICK i \in DOMAIN s : s[i] = w
      BY <2>2 DEF Lists
    <3> QED BY <1>1, <1>2, <3>1
  <2> QED BY <1>3, <2>1, <2>2
<1>4. ASSUME NEW i \in DOMAIN Append(s, p), NEW j \in DOMAIN Append(s, p),
             Append(s, p)[i] = Append(s, p)[j]
      PROVE  i = j
  <2>1. \A k \in DOMAIN Append(s, p) : k \in 1 .. Len(s) \/ k = Len(s) + 1
    BY <1>1, <1>2
  <2>2. CASE i \in 1 .. Len(s) /\ j \in 1 .. Len(s)
    BY <1>1, <1>2, <1>4, <2>2 DEF Lists
  <2>3. CASE i = Len(s) + 1 \/ j = Len(s) + 1
    BY <1>2, <1>4, <2>1, <2>3
  <2> QED BY <1>4, <2>1, <2>2, <2>3
<1> QED BY <1>2, <1>3, <1>4 DEF Lists

\* What Without leaves, and Tail, which is Without of the head: the same list with
\* one place less.
LEMMA ListsWithoutPlace ==
    ASSUME NEW W, NEW s, Lists(s, W), NEW k \in DOMAIN s, NEW u,
           Len(u) = Len(s) - 1, DOMAIN u = 1 .. Len(s) - 1, u \in Seq(W),
           \A i \in DOMAIN u : u[i] = IF i < k THEN s[i] ELSE s[i + 1]
    PROVE  Lists(u, W \ {s[k]})
<1>1. s \in Seq(W) /\ Len(s) \in Nat /\ DOMAIN s = 1 .. Len(s)
  <2>1. s \in Seq(W)
    BY DEF Lists
  <2> QED BY <2>1
<1> DEFINE At(i) == IF i < k THEN i ELSE i + 1
<1>2. \A i \in DOMAIN u : /\ At(i) \in DOMAIN s /\ At(i) # k
                          /\ u[i] = s[At(i)]
  BY <1>1
<1>3. \A i, j \in DOMAIN u : At(i) = At(j) => i = j
  BY <1>1
<1>4. \A m \in DOMAIN s : m # k => \E i \in DOMAIN u : At(i) = m
  <2>1. ASSUME NEW m \in DOMAIN s, m < k PROVE m \in DOMAIN u /\ At(m) = m
    BY <1>1, <2>1
  <2>2. ASSUME NEW m \in DOMAIN s, m > k PROVE m - 1 \in DOMAIN u /\ At(m - 1) = m
    BY <1>1, <2>2
  <2> QED BY <1>1, <2>1, <2>2
<1> HIDE DEF At
<1>5. \A i \in DOMAIN u : u[i] \in W \ {s[k]}
  <2>1. \A i \in DOMAIN u : u[i] \in W
    OBVIOUS
  <2>2. \A i \in DOMAIN u : u[i] # s[k]
    BY <1>2 DEF Lists
  <2> QED BY <2>1, <2>2
<1>6. u \in Seq(W \ {s[k]})
  BY <1>1, <1>5
<1>7. ASSUME NEW w \in W \ {s[k]} PROVE \E i \in DOMAIN u : u[i] = w
  <2>1. PICK m \in DOMAIN s : s[m] = w
    BY <1>7 DEF Lists
  <2> QED BY <1>2, <1>4, <1>7, <2>1
<1>8. ASSUME NEW i \in DOMAIN u, NEW j \in DOMAIN u, u[i] = u[j] PROVE i = j
  BY <1>2, <1>3, <1>8 DEF Lists
<1> QED BY <1>6, <1>7, <1>8 DEF Lists

LEMMA ListsTail ==
    ASSUME NEW W, NEW s, Lists(s, W), s # <<>>
    PROVE  Head(s) \in W /\ Lists(Tail(s), W \ {Head(s)})
<1>1. s \in Seq(W)
  BY DEF Lists
<1>2. /\ Len(s) \in Nat /\ DOMAIN s = 1 .. Len(s) /\ 1 \in DOMAIN s
      /\ Head(s) = s[1] /\ Head(s) \in W
      /\ Tail(s) \in Seq(W) /\ Len(Tail(s)) = Len(s) - 1
      /\ DOMAIN Tail(s) = 1 .. Len(s) - 1
      /\ \A i \in DOMAIN Tail(s) : Tail(s)[i] = s[i + 1]
  BY <1>1
<1>3. \A i \in DOMAIN Tail(s) : Tail(s)[i] = IF i < 1 THEN s[i] ELSE s[i + 1]
  BY <1>2
<1>4. Lists(Tail(s), W \ {s[1]})
  BY <1>2, <1>3, ListsWithoutPlace
<1> QED BY <1>2, <1>4

LEMMA ListsWithout ==
    ASSUME NEW W, NEW s, Lists(s, W), NEW p
    PROVE  Lists(Without(s, p), W \ {p})
<1>1. s \in Seq(W) /\ Len(s) \in Nat /\ DOMAIN s = 1 .. Len(s)
  <2>1. s \in Seq(W)
    BY DEF Lists
  <2> QED BY <2>1
<1>2. CASE \E i \in DOMAIN s : s[i] = p
  <2> DEFINE k == CHOOSE i \in DOMAIN s : s[i] = p
             u == SubSeq(s, 1, k - 1) \o SubSeq(s, k + 1, Len(s))
  <2>1. k \in DOMAIN s /\ s[k] = p
    BY <1>2
  <2>2. Without(s, p) = u
    BY <1>2 DEF Without
  <2> HIDE DEF k
  <2>3. k \in 1 .. Len(s)
    BY <1>1, <2>1
  <2> DEFINE a == SubSeq(s, 1, k - 1)
             b == SubSeq(s, k + 1, Len(s))
  <2>4. /\ a \in Seq(W) /\ Len(a) = k - 1
        /\ \A i \in 1 .. k - 1 : a[i] = s[i]
    <3>1. \A i \in 1 .. k - 1 : s[i] \in W
      BY <1>1, <2>3
    <3>2. /\ a \in Seq(W)
          /\ Len(a) = IF 1 <= k - 1 THEN (k - 1) - 1 + 1 ELSE 0
          /\ \A i \in 1 .. (k - 1) - 1 + 1 : a[i] = s[1 + i - 1]
      BY <2>3, <3>1, SubSeqProperties
    <3> HIDE DEF a
    <3> QED BY <2>3, <3>2
  <2>5. /\ b \in Seq(W) /\ Len(b) = Len(s) - k
        /\ \A i \in 1 .. Len(s) - k : b[i] = s[k + i]
    <3>1. \A i \in k + 1 .. Len(s) : s[i] \in W
      BY <1>1, <2>3
    <3>2. /\ b \in Seq(W)
          /\ Len(b) = IF k + 1 <= Len(s) THEN Len(s) - (k + 1) + 1 ELSE 0
          /\ \A i \in 1 .. Len(s) - (k + 1) + 1 : b[i] = s[(k + 1) + i - 1]
      BY <1>1, <2>3, <3>1, SubSeqProperties
    <3> HIDE DEF b
    <3>3. Len(s) - (k + 1) + 1 = Len(s) - k /\ Len(b) = Len(s) - k
      <4>1. Len(s) - (k + 1) + 1 = Len(s) - k
        BY <1>1, <2>3
      <4>2. k \in Int /\ Len(s) \in Int /\ k <= Len(s)
        BY <1>1, <2>3
      <4>3. ~(k + 1 <= Len(s)) => Len(s) - k = 0
        BY <4>2
      <4> QED BY <3>2, <4>1, <4>3
    <3>4. ASSUME NEW i \in 1 .. Len(s) - k PROVE b[i] = s[k + i]
      <4>1. (k + 1) + i - 1 = k + i
        BY <1>1, <2>3
      <4>2. b[i] = s[(k + 1) + i - 1]
        BY <3>2, <3>3, <3>4
      <4> QED BY <4>1, <4>2
    <3> QED BY <3>2, <3>3, <3>4
  <2> HIDE DEF a, b
  <2>6. /\ a \o b \in Seq(W) /\ Len(a \o b) = Len(s) - 1
        /\ DOMAIN (a \o b) = 1 .. Len(s) - 1
        /\ \A i \in 1 .. Len(s) - 1 : (a \o b)[i] = IF i <= k - 1 THEN a[i] ELSE b[i - (k - 1)]
    <3>1. /\ a \o b \in Seq(W) /\ Len(a \o b) = Len(a) + Len(b)
          /\ \A i \in 1 .. Len(a) + Len(b) :
               (a \o b)[i] = IF i <= Len(a) THEN a[i] ELSE b[i - Len(a)]
      BY <2>4, <2>5, ConcatProperties
    <3>2. Len(a) + Len(b) = Len(s) - 1 /\ Len(a) = k - 1
      BY <1>1, <2>3, <2>4, <2>5
    <3>3. DOMAIN (a \o b) = 1 .. Len(a \o b)
      BY <3>1
    <3> QED BY <3>1, <3>2, <3>3
  <2>7. \A i \in DOMAIN (a \o b) : (a \o b)[i] = IF i < k THEN s[i] ELSE s[i + 1]
    <3>1. TAKE i \in DOMAIN (a \o b)
    <3>2. i \in 1 .. Len(s) - 1
      BY <2>6
    <3>3. CASE i < k
      <4>1. i \in 1 .. k - 1 /\ i <= k - 1
        BY <1>1, <2>3, <3>2, <3>3
      <4> QED BY <2>4, <2>6, <3>2, <3>3, <4>1
    <3>4. CASE ~(i < k)
      <4>1. i - (k - 1) \in 1 .. Len(s) - k /\ k + (i - (k - 1)) = i + 1 /\ ~(i <= k - 1)
        BY <1>1, <2>3, <3>2, <3>4
      <4> QED BY <2>5, <2>6, <3>2, <3>4, <4>1
    <3> QED BY <3>3, <3>4
  <2>8. Lists(a \o b, W \ {s[k]})
    BY <2>1, <2>6, <2>7, ListsWithoutPlace
  <2> QED BY <2>1, <2>2, <2>8 DEF a, b
<1>3. CASE ~\E i \in DOMAIN s : s[i] = p
  <2>1. Without(s, p) = s
    BY <1>3 DEF Without
  <2>2. p \notin W
    BY <1>3 DEF Lists
  <2>3. W \ {p} = W
    BY <2>2
  <2> QED BY <2>1, <2>3
<1> QED BY <1>2, <1>3

----------------------------------------------------------------------------
(* Who has a connection and who waits for one. *)

\* Before the server is started there is nobody.
PoolInv ==
    /\ Accounts
    /\ main \in {"down", "connect", "migrate"} =>
         pc[Worker] = "stopped" /\ AllServed

\* One process moves from one place to another.
LEMMA OneMoves ==
    ASSUME pc \in [Proc -> Stages], NEW p \in Proc, NEW to, pc' = [pc EXCEPT ![p] = to]
    PROVE  /\ Waiting' = IF to = "waiting" THEN Waiting \cup {p} ELSE Waiting \ {p}
           /\ Running' = IF to = "running" THEN Running \cup {p} ELSE Running \ {p}
<1>1. \A q \in Proc : pc'[q] = IF q = p THEN to ELSE pc[q]
  OBVIOUS
<1>2. Waiting' = IF to = "waiting" THEN Waiting \cup {p} ELSE Waiting \ {p}
  BY <1>1 DEF Waiting
<1>3. Running' = IF to = "running" THEN Running \cup {p} ELSE Running \ {p}
  BY <1>1 DEF Running
<1> QED BY <1>2, <1>3

\* A process leaves the pool alone, or gives back what it has and waits no more.
LEMMA LeavingKeeps ==
    ASSUME Accounts, pc \in [Proc -> Stages], NEW p \in Proc,
           NEW to \in {"idle", "service", "stopped"},
           pc' = [pc EXCEPT ![p] = to],
           held' = held \ {p} \/ (held' = held /\ pc[p] # "running"),
           queue' = Without(queue, p) \/ (queue' = queue /\ pc[p] # "waiting")
    PROVE  Accounts'
<1>1. Waiting' = Waiting \ {p} /\ Running' = Running \ {p}
  BY OneMoves
<1>2. held' = held \ {p}
  BY DEF Accounts, Running
<1>3. IsFiniteSet(held') /\ Cardinality(held') <= MaxConns
  <2>1. /\ IsFiniteSet(held \ {p})
        /\ Cardinality(held \ {p})
             = IF p \in held THEN Cardinality(held) - 1 ELSE Cardinality(held)
    BY FS_RemoveElement DEF Accounts
  <2>2. Cardinality(held) \in Nat
    BY FS_CardinalityType DEF Accounts
  <2> QED BY <1>2, <2>1, <2>2, ServerAssumption DEF Accounts
<1>4. Lists(queue', Waiting')
  <2>1. CASE queue' = Without(queue, p)
    BY <1>1, <2>1, ListsWithout DEF Accounts
  <2>2. CASE queue' = queue /\ pc[p] # "waiting"
    <3>1. Waiting \ {p} = Waiting
      BY <2>2 DEF Waiting
    <3> QED BY <1>1, <2>2, <3>1 DEF Accounts
  <2> QED BY <2>1, <2>2
<1> QED BY <1>1, <1>2, <1>3, <1>4 DEF Accounts

\* A process begins to wait.
LEMMA JoiningKeeps ==
    ASSUME Accounts, pc \in [Proc -> Stages], NEW p \in Proc,
           pc[p] \notin {"waiting", "running"},
           pc' = [pc EXCEPT ![p] = "waiting"], held' = held, Join(p)
    PROVE  Accounts'
<1>1. Waiting' = Waiting \cup {p} /\ Running' = Running \ {p}
  BY OneMoves
<1>2. p \notin Waiting /\ Running \ {p} = Running
  BY DEF Waiting, Running
<1>3. Lists(queue', Waiting')
  BY <1>1, <1>2, ListsAppend DEF Accounts, Join
<1> QED BY <1>1, <1>2, <1>3 DEF Accounts

\* The first of the queue gets a connection that is not out.
LEMMA TakingKeeps ==
    ASSUME Accounts, pc \in [Proc -> Stages], NEW p \in Proc, Take(p)
    PROVE  Accounts'
<1>1. /\ queue # <<>> /\ Head(queue) = p /\ queue' = Tail(queue)
      /\ Cardinality(held) < MaxConns /\ held' = held \cup {p}
      /\ pc[p] = "waiting" /\ pc' = [pc EXCEPT ![p] = "running"]
  BY DEF Take
<1>2. Waiting' = Waiting \ {p} /\ Running' = Running \cup {p}
  BY <1>1, OneMoves
<1>3. Lists(queue', Waiting')
  BY <1>1, <1>2, ListsTail DEF Accounts
<1>4. IsFiniteSet(held') /\ Cardinality(held') <= MaxConns
  <2>1. /\ IsFiniteSet(held \cup {p})
        /\ Cardinality(held \cup {p})
             = IF p \in held THEN Cardinality(held) ELSE Cardinality(held) + 1
    BY FS_AddElement DEF Accounts
  <2>2. Cardinality(held) \in Nat
    BY FS_CardinalityType DEF Accounts
  <2> QED BY <1>1, <2>1, <2>2, ServerAssumption
<1> QED BY <1>1, <1>2, <1>3, <1>4 DEF Accounts

\* Everybody is gone.
LEMMA EmptyPool ==
    ASSUME pc' = [p \in Proc |-> IF p = Worker THEN "stopped" ELSE "idle"],
           held' = {}, queue' = <<>>
    PROVE  PoolInv'
<1>1. \A p \in Proc : pc'[p] \in {"stopped", "idle"}
  OBVIOUS
<1>2. Waiting' = {} /\ Running' = {}
  BY <1>1 DEF Waiting, Running
<1>3. Lists(<<>>, {})
  BY DEF Lists
<1>4. IsFiniteSet({}) /\ Cardinality({}) = 0
  BY FS_EmptySet
<1>5. pc'[Worker] = "stopped" /\ AllServed'
  BY ServerAssumption DEF Proc, AllServed
<1> QED BY <1>2, <1>3, <1>4, <1>5, ServerAssumption DEF PoolInv, Accounts

LEMMA PoolInit == Init => PoolInv
<1> SUFFICES ASSUME Init PROVE PoolInv
  OBVIOUS
<1>1. pc = [p \in Proc |-> IF p = Worker THEN "stopped" ELSE "idle"]
      /\ held = {} /\ queue = <<>>
  BY DEF Init
<1>2. \A p \in Proc : pc[p] \in {"stopped", "idle"}
  BY <1>1
<1>3. Waiting = {} /\ Running = {}
  BY <1>2 DEF Waiting, Running
<1>4. Lists(<<>>, {})
  BY DEF Lists
<1>5. IsFiniteSet({}) /\ Cardinality({}) = 0
  BY FS_EmptySet
<1>6. pc[Worker] = "stopped" /\ AllServed
  BY <1>1, ServerAssumption DEF Proc, AllServed
<1> QED BY <1>1, <1>3, <1>4, <1>5, <1>6, ServerAssumption DEF PoolInv, Accounts

LEMMA PoolNext == IInv /\ PoolInv /\ [Next]_vars => PoolInv'
<1> SUFFICES ASSUME IInv, PoolInv, [Next]_vars PROVE PoolInv'
  OBVIOUS
<1>0. /\ pc \in [Proc -> Stages] /\ Accounts
      /\ Worker \in Proc /\ Worker \notin Request /\ \A r \in Request : r \in Proc
  BY ServerAssumption DEF IInv, Types, PoolInv, Accounts, Proc
<1>1. Accounts' /\ main' \notin {"down", "connect", "migrate"} => PoolInv'
  BY DEF Accounts, PoolInv
<1>2. CASE UNCHANGED <<pc, held, queue>> /\ main \in {"down", "connect", "migrate"}
  <2>1. Waiting' = Waiting /\ Running' = Running /\ AllServed' = AllServed
    BY <1>2 DEF Waiting, Running, AllServed
  <2> QED BY <1>2, <2>1 DEF PoolInv, Accounts
<1>3. CASE UNCHANGED <<pc, held, queue>> /\ main' \notin {"down", "connect", "migrate"}
  <2>1. Waiting' = Waiting /\ Running' = Running
    BY <1>3 DEF Waiting, Running
  <2> QED BY <1>3, <2>1 DEF PoolInv, Accounts
<1>4. CASE Start \/ Connect
  BY <1>2, <1>4 DEF Start, Connect, poolVars
<1>5. CASE BeginShutdown \/ Drained \/ DrainTimesOut
  BY <1>3, <1>5 DEF BeginShutdown, Drained, DrainTimesOut, poolVars
<1>6. CASE Listen \/ Signal \/ Tick \/ UNCHANGED vars
  <2>1. UNCHANGED <<pc, held, queue, main>>
    BY <1>6 DEF Listen, Signal, Tick, vars, poolVars, processVars
  <2> QED BY <1>2, <1>3, <2>1
<1>7. CASE RunMigrations
  <2>1. main = "migrate" /\ main' = "wait" /\ pc' = [pc EXCEPT ![Worker] = "idle"]
        /\ UNCHANGED <<held, queue>>
    BY <1>7 DEF RunMigrations, poolVars
  <2>2. pc[Worker] = "stopped"
    BY <2>1 DEF PoolInv, Accounts
  <2> QED BY <1>0, <1>1, <2>1, <2>2, LeavingKeeps
<1>8. CASE Fatal \/ Exit
  BY <1>8, EmptyPool DEF Fatal, Exit, Die
<1>9. main \in {"down", "connect", "migrate"} => \A p \in Proc : pc[p] \in {"idle", "stopped"}
  BY DEF PoolInv, Accounts, AllServed, Proc
<1>10. CASE Sweep
  <2>1. /\ pc[Worker] = "idle" /\ pc' = [pc EXCEPT ![Worker] = "waiting"]
        /\ held' = held /\ Join(Worker) /\ main' = main
    BY <1>10 DEF Sweep, processVars
  <2>2. main \notin {"down", "connect", "migrate"}
    BY <2>1 DEF PoolInv, Accounts
  <2> QED BY <1>0, <1>1, <2>1, <2>2, JoiningKeeps
<1>11. CASE SweepEnds
  <2>1. /\ pc[Worker] \in {"waiting", "running"} /\ pc' = [pc EXCEPT ![Worker] = "idle"]
        /\ held' = held \ {Worker} /\ queue' = Without(queue, Worker) /\ main' = main
    BY <1>11 DEF SweepEnds, Leave, processVars
  <2>2. main \notin {"down", "connect", "migrate"}
    BY <2>1 DEF PoolInv, Accounts
  <2> QED BY <1>0, <1>1, <2>1, <2>2, LeavingKeeps
<1>12. CASE StopWorker
  <2>1. /\ pc[Worker] = "idle" /\ pc' = [pc EXCEPT ![Worker] = "stopped"]
        /\ UNCHANGED <<held, queue, main>>
    BY <1>12 DEF StopWorker, processVars, poolVars
  <2>2. main \notin {"down", "connect", "migrate"}
    BY <2>1 DEF PoolInv, Accounts
  <2> QED BY <1>0, <1>1, <2>1, <2>2, LeavingKeeps
<1>13. ASSUME NEW p \in Proc, Take(p) PROVE PoolInv'
  <2>1. pc[p] = "waiting" /\ main' = main
    BY <1>13 DEF Take, processVars
  <2>2. main \notin {"down", "connect", "migrate"}
    BY <1>9, <2>1
  <2> QED BY <1>0, <1>1, <1>13, <2>1, <2>2, TakingKeeps
<1>14. ASSUME NEW r \in Request, Ask(r) PROVE PoolInv'
  <2>1. /\ pc[r] = "service" /\ pc' = [pc EXCEPT ![r] = "waiting"]
        /\ held' = held /\ Join(r) /\ main' = main
    BY <1>14 DEF Ask, processVars
  <2>2. main \notin {"down", "connect", "migrate"}
    BY <1>0, <1>9, <2>1
  <2> QED BY <1>0, <1>1, <2>1, <2>2, JoiningKeeps
<1>15. ASSUME NEW r \in Request, Accept(r) PROVE PoolInv'
  <2>1. /\ listener = "listening" /\ pc[r] = "idle" /\ UNCHANGED <<held, queue, main>>
    BY <1>15 DEF Accept, processVars, poolVars
  <2>2. PICK o \in Outcomes :
          pc' = [pc EXCEPT ![r] = IF o.serve.calls THEN "service" ELSE "idle"]
    BY <1>15 DEF Accept
  <2>3. PICK to \in {"service", "idle"} : pc' = [pc EXCEPT ![r] = to]
    BY <2>2
  <2>4. main = "wait"
    BY <2>1 DEF IInv, Phases
  <2> QED BY <1>0, <1>1, <2>1, <2>3, <2>4, LeavingKeeps
<1>16. ASSUME NEW r \in Request,
              Executed(r) \/ Failed(r) \/ TurnedAway(r)
       PROVE  PoolInv'
  <2>1. pc[r] \notin {"idle", "stopped"} /\ main' = main
    BY <1>16 DEF Executed, Failed, TurnedAway, processVars
  <2>2. PICK to \in {"service", "idle"} : pc' = [pc EXCEPT ![r] = to]
    BY <1>16 DEF Executed, Failed, TurnedAway, Reply
  <2>3. /\ held' = held \ {r} \/ (held' = held /\ pc[r] # "running")
        /\ queue' = Without(queue, r) \/ (queue' = queue /\ pc[r] # "waiting")
    BY <1>16 DEF Executed, Failed, TurnedAway, Leave, poolVars
  <2>4. main \notin {"down", "connect", "migrate"}
    BY <1>0, <1>9, <2>1
  <2> QED BY <1>0, <1>1, <2>1, <2>2, <2>3, <2>4, LeavingKeeps
<1> QED
  BY <1>0, <1>4, <1>5, <1>6, <1>7, <1>8, <1>10, <1>11, <1>12, <1>13, <1>14, <1>15, <1>16
  DEF Next, Main, Handling, Working

\* What the rest of the types says.
OtherTypes ==
    /\ main \in Places
    /\ cancelled \in BOOLEAN
    /\ listener \in {"none", "starting", "listening", "closed"}
    /\ late \in BOOLEAN
    /\ now \in 0 .. MaxTime
    /\ starts \in 0 .. MaxStarts
    /\ open \in BOOLEAN
    /\ secret \in Secret
    /\ token \in [issued: 0 .. MaxTime, exp: Nat, secret: Secret] \cup {None}

LEMMA OtherTypesInit == Init => OtherTypes
<1> SUFFICES ASSUME Init PROVE OtherTypes
  OBVIOUS
<1>1. secret \in Secret
  <2>1. \E k \in Secret : TRUE
    BY ServerAssumption
  <2> QED BY <2>1 DEF Init
<1>2. now \in 0 .. MaxTime /\ starts \in 0 .. MaxStarts /\ token = None
  BY HttpAssumption, ServerAssumption DEF Init
<1> QED BY <1>1, <1>2 DEF Init, OtherTypes, Places

LEMMA OtherTypesNext == OtherTypes /\ [Next]_vars => OtherTypes'
<1> SUFFICES ASSUME OtherTypes, [Next]_vars PROVE OtherTypes'
  OBVIOUS
<1> USE ServerAssumption DEF OtherTypes, Places, processVars, poolVars, apiVars
<1>1. CASE Start
  BY <1>1 DEF Start
<1>2. CASE Connect \/ RunMigrations \/ Listen \/ Signal \/ BeginShutdown \/ Drained
           \/ DrainTimesOut
  BY <1>2 DEF Connect, RunMigrations, Listen, Signal, BeginShutdown, Drained, DrainTimesOut
<1>3. CASE Fatal \/ Exit
  BY <1>3 DEF Fatal, Exit, Die
<1>4. CASE Tick
  BY <1>4 DEF Tick
<1>5. CASE Sweep \/ SweepEnds \/ StopWorker \/ UNCHANGED vars
  BY <1>5 DEF Sweep, SweepEnds, StopWorker, vars
<1>6. ASSUME NEW p \in Proc, Take(p) PROVE OtherTypes'
  BY <1>6 DEF Take
<1>7. ASSUME NEW r \in Request, Accept(r) PROVE OtherTypes'
  <2>1. UNCHANGED <<processVars, poolVars, token, now>>
    BY <1>7 DEF Accept
  <2> QED BY <2>1
<1>8. ASSUME NEW r \in Request, Ask(r) \/ Failed(r) \/ TurnedAway(r) PROVE OtherTypes'
  BY <1>8 DEF Ask, Failed, TurnedAway
<1>9. ASSUME NEW r \in Request, Executed(r) PROVE OtherTypes'
  <2>1. token' \in {token, GenerateToken(secret, now)}
    BY <1>9 DEF Executed
  <2>2. GenerateToken(secret, now) \in [issued: 0 .. MaxTime, exp: Nat, secret: Secret]
    <3>1. now + TokenTTL \in Nat /\ Second \in Nat \ {0}
      BY HttpAssumption
    <3>2. (now + TokenTTL) \div Second \in Nat
      BY <3>1
    <3> QED BY <3>2 DEF GenerateToken
  <2>3. UNCHANGED <<processVars, open, now>>
    BY <1>9 DEF Executed
  <2> QED BY <2>1, <2>2, <2>3
<1> QED BY <1>1, <1>2, <1>3, <1>4, <1>5, <1>6, <1>7, <1>8, <1>9
        DEF Next, Main, Handling, Working, Proc

----------------------------------------------------------------------------
(* Whole seconds. *)

LEMMA Quotient ==
    ASSUME NEW a \in Nat, NEW b \in Nat \ {0}
    PROVE  /\ a \div b \in Nat
           /\ b * (a \div b) <= a
           /\ a < b * (a \div b) + b
OBVIOUS

\* Comparing whole seconds blurs a comparison of instants by less than a second.
LEMMA WholeSeconds ==
    ASSUME NEW a \in Nat, NEW c \in Nat, NEW b \in Nat \ {0}
    PROVE  /\ a \div b <= c \div b => a < c + b
           /\ a \div b > c \div b => a > c
<1> DEFINE p == a \div b
           q == c \div b
<1>1. /\ p \in Nat /\ b * p <= a /\ a < b * p + b
      /\ q \in Nat /\ b * q <= c /\ c < b * q + b
  BY Quotient
<1> HIDE DEF p, q
<1>2. ASSUME p <= q PROVE a < c + b
  <2>1. b * p <= b * q
    BY <1>1, <1>2
  <2> QED BY <1>1, <2>1
<1>3. ASSUME p > q PROVE a > c
  <2>1. p = q + 1 + (p - q - 1) /\ p - q - 1 \in Nat
    BY <1>1, <1>3
  <2>2. b * p = b * q + b + b * (p - q - 1) /\ b * (p - q - 1) \in Nat
    BY <1>1, <2>1
  <2> QED BY <1>1, <2>2
<1> QED BY <1>2, <1>3, <1>1 DEF p, q

----------------------------------------------------------------------------
(* The promises. *)

\* The pool's accounts balance at every moment: a connection is out if and only if a
\* statement runs on it, never more than there are, and whoever waits stands in the
\* queue once.  None leaks, whatever is cancelled, refused, late or closed.
THEOREM PoolAccounts == Spec => []Accounts
<1>1. IInv /\ PoolInv /\ [Next]_vars => (IInv /\ PoolInv)'
  BY IInvNext, PoolNext
<1>2. PoolInv => Accounts
  BY DEF PoolInv, Accounts
<1> QED BY IInvInit, PoolInit, <1>1, <1>2, PTL DEF Spec

\* Types, as MCServer checks them.
THEOREM ServerTypes == Spec => []TypeOK
<1>1. IInv /\ Accounts /\ OtherTypes => TypeOK
  <2> SUFFICES ASSUME IInv, Accounts, OtherTypes PROVE TypeOK
    OBVIOUS
  <2>1. held \subseteq Proc /\ Cardinality(held) <= MaxConns
    BY DEF Accounts, Running
  <2>2. queue \in Seq(Proc)
    <3>1. queue \in Seq(Waiting) /\ Waiting \subseteq Proc
      BY DEF Accounts, Lists, Waiting
    <3> QED BY <3>1
  <2> QED BY <2>1, <2>2 DEF IInv, Types, OtherTypes, TypeOK
<1>2. Spec => []OtherTypes
  BY OtherTypesInit, OtherTypesNext, PTL DEF Spec
<1> QED BY Invariant, PoolAccounts, <1>1, <1>2, PTL

\* The pool is not closed under a request unless the time to drain is over.
THEOREM PoolIsKept == Spec => []PoolOutlivesRequests
<1>1. IInv => PoolOutlivesRequests
  BY DEF IInv
<1> QED BY Invariant, <1>1, PTL

\* The limit on ceremonies has no gap, whatever the routes and the guards.
THEOREM LimitHolds == Spec => []CeremoniesAreLimited
<1>1. IInv => CeremoniesAreLimited
  BY CapType DEF IInv, Types, Covered, CeremoniesAreLimited
<1> QED BY Invariant, <1>1, PTL

\* A token is good for its lifetime, and for less than a second longer.
THEOREM TokensLast == Spec => []TokenLife
<1>1. IInv => TokenLife
  <2> SUFFICES ASSUME IInv, token # None PROVE TokenLife
    BY DEF TokenLife
  <2> DEFINE in == [route |-> "me", method |-> "GET", id |-> "good",
                    token |-> token, known |-> FALSE, body |-> "good"]
             admitted == Serve(in, level, secret, now).calls
  <2>1. /\ token.issued \in Nat /\ token.issued <= now /\ now \in Nat
        /\ token.exp = (token.issued + TokenTTL) \div Second
    BY DEF IInv, Types, TokenOK, GenerateToken
  <2>2. admitted <=> VerifyToken(token, secret, now)
    <3>1. Serve(in, level, secret, now) = AuthMiddleware(in, secret, now)
      BY DEF Serve, CORSMiddleware, Limited, Begins, Finishes, Authenticated
    <3>2. Handler([in EXCEPT !.known = TRUE]) = CallService
      <4> DEFINE known == [in EXCEPT !.known = TRUE]
      <4>1. known.route = "me" /\ known.known = TRUE
        OBVIOUS
      <4> HIDE DEF known
      <4>2. Handler(known) = handleMe(known)
        BY <4>1 DEF Handler
      <4>3. handleMe(known) = CallService
        BY <4>1 DEF handleMe, Guard
      <4> QED BY <4>2, <4>3 DEF known
    <3>3. in.token = token
      OBVIOUS
    <3>4. CASE VerifyToken(token, secret, now)
      <4>1. AuthMiddleware(in, secret, now) = CallService
        BY <3>2, <3>3, <3>4 DEF AuthMiddleware
      <4> QED BY <3>1, <3>4, <4>1 DEF CallService
    <3>5. CASE ~VerifyToken(token, secret, now)
      <4>1. AuthMiddleware(in, secret, now) = Answered
        BY <3>3, <3>5 DEF AuthMiddleware
      <4> QED BY <3>1, <3>5, <4>1 DEF Answered
    <3> QED BY <3>4, <3>5
  <2>3. /\ Timely(token, now) => now < token.issued + TokenTTL + Second
        /\ ~Timely(token, now) => now > token.issued + TokenTTL
    <3>1. token.issued + TokenTTL \in Nat /\ Second \in Nat \ {0}
      BY <2>1, HttpAssumption
    <3>2. /\ now \div Second \in Nat
          /\ (token.issued + TokenTTL) \div Second \in Nat
      BY <2>1, <3>1, Quotient
    <3>3. /\ now \div Second <= (token.issued + TokenTTL) \div Second
             => now < (token.issued + TokenTTL) + Second
          /\ now \div Second > (token.issued + TokenTTL) \div Second
             => now > token.issued + TokenTTL
      BY <2>1, <3>1, WholeSeconds
    <3>4. /\ Timely(token, now) => now \div Second <= (token.issued + TokenTTL) \div Second
          /\ ~Timely(token, now) => now \div Second > (token.issued + TokenTTL) \div Second
      BY <2>1, <3>2 DEF Timely
    <3> QED BY <3>3, <3>4
  <2> QED BY <2>1, <2>2, <2>3, HttpAssumption DEF TokenLife, VerifyToken
<1> QED BY Invariant, <1>1, PTL
==============================================================================
