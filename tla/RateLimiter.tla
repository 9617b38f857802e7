----------------------------- MODULE RateLimiter -----------------------------
(***************************************************************************)
(* RateLimitMiddleware of the four WebAuthn routes (ratelimit.go): a map   *)
(* from host to *rate.Limiter under a mutex, a goroutine that deletes      *)
(* entries not seen for a while, and requests that fetch their limiter     *)
(* under the mutex and ask it after the mutex is released, when the entry  *)
(* may be gone from the map.  One lifetime of the process.                 *)
(***************************************************************************)
EXTENDS Naturals, Sequences, FiniteSets

CONSTANTS
    Host,       \* hosts clients connect from
    Port,       \* their ports
    Request,    \* slots for requests being served at the same time
    Limiter,    \* addresses of *rate.Limiter objects
    None,
    Burst,      \* b: 10
    Period,     \* ticks to gain a request: 6 s
    IdleLimit,  \* an entry not seen for longer may go: 10 min
    MaxStall,   \* longest time between get and Allow of one request
    MaxTime     \* bound: last instant of the clock

Cap == Burst * Period

\* An entry that goes must have been idle long enough for its limiter to be full
\* again; its last request may have asked it MaxStall after the entry was seen.
ASSUME LimiterAssumption ==
    /\ None \notin Host \cup Limiter
    /\ Burst \in Nat
    /\ Period \in Nat \ {0}
    /\ MaxStall \in Nat
    /\ IdleLimit \in Nat
    /\ MaxTime \in Nat
    /\ Cap + MaxStall <= IdleLimit

VARIABLES
    limiters,  \* rl.limiters: host -> [limiter, lastSeen], a Go map
    tokens,    \* what each rate.Limiter held when it last admitted,
    last,      \*   and when that was
    req,       \* the request each slot is serving
    admitted,  \* history: when each host's requests were admitted
    answer,    \* the last answer given: admitted, or 429
    now

vars == <<limiters, tokens, last, req, admitted, answer, now>>

----------------------------------------------------------------------------
Entry == [limiter: Limiter, lastSeen: Nat]
NoRequest == [host |-> None, limiter |-> None, since |-> 0]

TypeOK ==
    /\ DOMAIN limiters \subseteq Host
    /\ limiters \in [DOMAIN limiters -> Entry]
    /\ tokens \in [Limiter -> 0 .. Cap]
    /\ last \in [Limiter -> 0 .. MaxTime]
    /\ req \in [Request -> [host: Host \cup {None}, limiter: Limiter \cup {None},
                            since: 0 .. MaxTime]]
    /\ admitted \in [Host -> Seq(0 .. MaxTime)]
    /\ answer \in [host: Host \cup {None}, ok: BOOLEAN]
    /\ now \in 0 .. MaxTime

Init ==
    /\ limiters = [k \in {} |-> None]
    /\ tokens = [l \in Limiter |-> Cap]
    /\ last = [l \in Limiter |-> 0]
    /\ req = [r \in Request |-> NoRequest]
    /\ admitted = [h \in Host |-> <<>>]
    /\ answer = [host |-> None, ok |-> FALSE]
    /\ now = 0

----------------------------------------------------------------------------
AddressKept(addr) == addr

\* net.SplitHostPort(r.RemoteAddr); where it fails the whole address is the key, but
\* net/http sets no address without a port.
HostOf(addr) == addr[1]

\* Objects something still points to; the others are free memory.
InUse == {limiters[k].limiter : k \in DOMAIN limiters} \cup {req[r].limiter : r \in Request}

AvailableUncapped(l) == tokens[l] + (now - last[l])

\* rate.Limiter.advance: what the limiter holds now.
Available(l) ==
    LET gained == tokens[l] + (now - last[l])
    IN  IF gained < Cap THEN gained ELSE Cap

SeenFirst(key) == IF key \in DOMAIN limiters THEN limiters[key].lastSeen ELSE now
\* entry.lastSeen = time.Now(), for a new entry and for an old one.
Seen(key) == now

\* The map with the host's entry, new or old, seen now.
Put(key, l) ==
    limiters' = [k \in DOMAIN limiters \cup {key} |->
                   IF k = key THEN [limiter |-> l, lastSeen |-> Seen(key)]
                              ELSE limiters[k]]

\* get: in one step under the mutex, the entry of the host or a new one, which is seen now.
Get(r) ==
    /\ req[r] = NoRequest
    /\ \E h \in Host, p \in Port :
         LET key == HostOf(<<h, p>>)
         IN  \E l \in Limiter :
               /\ IF key \in DOMAIN limiters
                  THEN l = limiters[key].limiter /\ UNCHANGED <<tokens, last>>
                  ELSE /\ l \notin InUse
                       /\ tokens' = [tokens EXCEPT ![l] = Cap]
                       /\ last' = [last EXCEPT ![l] = 0]
               /\ Put(key, l)
               /\ req' = [req EXCEPT ![r] = [host |-> h, limiter |-> l, since |-> now]]
    /\ UNCHANGED <<admitted, answer, now>>

\* rate.Limiter.Allow, after the mutex was released: admitted if a whole request
\* is there, which is then taken; else nothing changes and 429 is sent.
Allow(r) ==
    /\ req[r] # NoRequest
    /\ LET l == req[r].limiter
           h == req[r].host
       IN  \/ /\ Available(l) >= Period
              /\ tokens' = [tokens EXCEPT ![l] = Available(l) - Period]
              /\ last' = [last EXCEPT ![l] = now]
              /\ admitted' = [admitted EXCEPT ![h] = Append(admitted[h], now)]
              /\ answer' = [host |-> h, ok |-> TRUE]
           \/ /\ Available(l) < Period
              /\ answer' = [host |-> h, ok |-> FALSE]
              /\ UNCHANGED <<tokens, last, admitted>>
    /\ req' = [req EXCEPT ![r] = NoRequest]
    /\ UNCHANGED <<limiters, now>>

IdleInSeconds(k) == 60 * (now - limiters[k].lastSeen) > IdleLimit
IdleInHours(k) == now - limiters[k].lastSeen > 60 * IdleLimit
\* time.Since(entry.lastSeen) > 10*time.Minute.
Idle(k) == now - limiters[k].lastSeen > IdleLimit

\* cleanup: one pass under the mutex.
Cleanup ==
    /\ \E k \in DOMAIN limiters : Idle(k)
    /\ limiters' = [k \in {k \in DOMAIN limiters : ~Idle(k)} |-> limiters[k]]
    /\ UNCHANGED <<tokens, last, req, admitted, answer, now>>

\* No request needs longer than MaxStall from get to Allow.
Tick ==
    /\ now < MaxTime
    /\ \A r \in Request : req[r] # NoRequest => now - req[r].since < MaxStall
    /\ now' = now + 1
    /\ UNCHANGED <<limiters, tokens, last, req, admitted, answer>>

Next ==
    \/ \E r \in Request : Get(r) \/ Allow(r)
    \/ Cleanup
    \/ Tick

Spec == Init /\ [][Next]_vars

\* The ticker fires every five minutes and the mutex is held for a moment only.
FairSpec == Spec /\ WF_vars(Cleanup)

----------------------------------------------------------------------------
(* ------------------------------ properties ------------------------------ *)

\* In whatever stretch of time, a host gets no more than Burst requests through
\* and one for each Period of it - from whatever ports, however its requests
\* overlap, and although its limiter is thrown away and made anew meanwhile.
WindowBound ==
    \A h \in Host : \A i, j \in DOMAIN admitted[h] :
        i <= j => (j - i + 1) * Period <= Cap + (admitted[h][j] - admitted[h][i])

\* A request never asks a limiter that cleanup has taken out of the map, where it
\* would not count with the requests that use the host's new one.
HeldIsCurrent ==
    \A r \in Request :
        req[r] # NoRequest
        => /\ req[r].host \in DOMAIN limiters
           /\ limiters[req[r].host].limiter = req[r].limiter

\* Nobody can tell that limiters are deleted: the middleware answers as if every
\* host had a bucket of its own for ever.
Level(h) == IF h \in DOMAIN limiters THEN Available(limiters[h].limiter) ELSE Cap
Buckets == INSTANCE TokenBuckets WITH level <- [h \in Host |-> Level(h)]
ImplementsBuckets == Buckets!Spec

\* A host that stays away does not occupy memory for ever.
IdleIsEvicted ==
    \A h \in Host :
        (h \in DOMAIN limiters /\ now - limiters[h].lastSeen > IdleLimit)
        ~> (h \notin DOMAIN limiters \/ now - limiters[h].lastSeen <= IdleLimit)
=============================================================================
