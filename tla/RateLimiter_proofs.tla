-------------------------- MODULE RateLimiter_proofs --------------------------
(***************************************************************************)
(* The rate limiter implements one everlasting bucket per host, and bounds *)
(* what a host gets through in any stretch of time, for every number of    *)
(* hosts, requests and limiters and every value of the parameters allowed  *)
(* by LimiterAssumption.                                                   *)
(***************************************************************************)
EXTENDS RateLimiter, Integers, TLAPS

\* A request under way holds the limiter of its host, whose entry has not been
\* seen longer ago than the request asked for it.
HeldOK(r) ==
    req[r] # NoRequest
    => /\ req[r].host \in DOMAIN limiters
       /\ limiters[req[r].host].limiter = req[r].limiter
       /\ req[r].since <= limiters[req[r].host].lastSeen
       /\ now - req[r].since <= MaxStall

\* A limiter was last asked at most MaxStall after its entry was seen.
EntryOK(h) ==
    h \in DOMAIN limiters
    => /\ limiters[h].lastSeen <= now
       /\ last[limiters[h].limiter] <= limiters[h].lastSeen + MaxStall

\* Hosts do not share limiters.
Apart ==
    \A g, h \in DOMAIN limiters : limiters[g].limiter = limiters[h].limiter => g = h

RInv ==
    /\ TypeOK
    /\ \A l \in Limiter : last[l] <= now
    /\ \A r \in Request : HeldOK(r)
    /\ \A h \in Host : EntryOK(h)
    /\ Apart

----------------------------------------------------------------------------
LEMMA CapType == Cap \in Nat
  BY LimiterAssumption DEF Cap

\* What a limiter holds is a number of units between none and a full bucket.
LEMMA AvailableType ==
    ASSUME TypeOK, NEW l \in Limiter, last[l] <= now
    PROVE  /\ Available(l) \in 0 .. Cap
           /\ now - last[l] >= Cap => Available(l) = Cap
<1>1. /\ tokens[l] \in 0 .. Cap
      /\ last[l] \in Nat
      /\ now \in Nat
  BY DEF TypeOK
<1>2. tokens[l] + (now - last[l]) \in Nat
  BY <1>1, CapType
<1> QED BY <1>1, <1>2, CapType DEF Available

LEMMA RInvInit == Init => RInv
<1> SUFFICES ASSUME Init PROVE RInv
  OBVIOUS
<1>1. TypeOK
  <2>1. DOMAIN limiters = {}
    BY DEF Init
  <2>2. admitted \in [Host -> Seq(0 .. MaxTime)]
    BY DEF Init
  <2>3. /\ tokens \in [Limiter -> 0 .. Cap]
        /\ last \in [Limiter -> 0 .. MaxTime]
        /\ now \in 0 .. MaxTime
    BY CapType, LimiterAssumption DEF Init
  <2>4. req \in [Request -> [host: Host \cup {None}, limiter: Limiter \cup {None},
                             since: 0 .. MaxTime]]
    BY LimiterAssumption DEF Init, NoRequest
  <2>5. limiters \in [DOMAIN limiters -> Entry]
    BY <2>1 DEF Init
  <2>6. answer \in [host: Host \cup {None}, ok: BOOLEAN]
    BY DEF Init
  <2> QED BY <2>1, <2>2, <2>3, <2>4, <2>5, <2>6 DEF TypeOK
<1>2. /\ \A l \in Limiter : last[l] <= now
      /\ \A r \in Request : HeldOK(r)
      /\ \A h \in Host : EntryOK(h)
      /\ Apart
  BY DEF Init, HeldOK, EntryOK, Apart
<1> QED BY <1>1, <1>2 DEF RInv

\* Get leaves every host's entry in place, gives the host one if it had none, and
\* the request holds it.
LEMMA GetStep ==
    ASSUME RInv, NEW r \in Request, Get(r)
    PROVE  RInv' /\ \A h \in Host : Level(h)' = Level(h)
<1>0. /\ TypeOK
      /\ now \in 0 .. MaxTime
      /\ now \in Nat
      /\ UNCHANGED <<admitted, answer, now>>
      /\ MaxStall \in Nat
  BY LimiterAssumption DEF RInv, TypeOK, Get
<1>1. PICK h \in Host, l \in Limiter :
        /\ IF h \in DOMAIN limiters
           THEN l = limiters[h].limiter /\ UNCHANGED <<tokens, last>>
           ELSE /\ l \notin InUse
                /\ tokens' = [tokens EXCEPT ![l] = Cap]
                /\ last' = [last EXCEPT ![l] = 0]
        /\ Put(h, l)
        /\ req' = [req EXCEPT ![r] = [host |-> h, limiter |-> l, since |-> now]]
  BY DEF Get, HostOf
<1>2. /\ DOMAIN limiters' = DOMAIN limiters \cup {h}
      /\ limiters'[h] = [limiter |-> l, lastSeen |-> now]
      /\ \A k \in DOMAIN limiters : k # h => limiters'[k] = limiters[k]
  BY <1>1 DEF Put, Seen
<1>3. \A k \in DOMAIN limiters : k # h => limiters[k].limiter # l
  BY <1>1 DEF RInv, Apart, InUse
<1>4. \A m \in Limiter : m # l => tokens'[m] = tokens[m] /\ last'[m] = last[m]
  BY <1>0, <1>1 DEF TypeOK
<1>5. h \notin DOMAIN limiters => tokens'[l] = Cap /\ last'[l] = 0
  BY <1>0, <1>1 DEF TypeOK
<1>6. h \in DOMAIN limiters
      => /\ tokens' = tokens
         /\ last' = last
         /\ limiters[h].limiter = l
  BY <1>1
<1>7. \A k \in DOMAIN limiters : /\ k \in Host
                                 /\ limiters[k].limiter \in Limiter
                                 /\ limiters[k].lastSeen \in Nat
                                 /\ limiters[k].lastSeen <= now
  BY <1>0 DEF TypeOK, Entry, RInv, EntryOK
<1>8. TypeOK'
  <2>1. limiters' \in [DOMAIN limiters' -> Entry]
    BY <1>0, <1>1, <1>2 DEF Put, Seen, TypeOK, Entry
  <2>2. DOMAIN limiters' \subseteq Host
    BY <1>0, <1>2 DEF TypeOK
  <2>3. tokens' \in [Limiter -> 0 .. Cap] /\ last' \in [Limiter -> 0 .. MaxTime]
    <3>1. CASE h \in DOMAIN limiters
      BY <1>0, <1>6, <3>1 DEF TypeOK
    <3>2. CASE h \notin DOMAIN limiters
      <4>1. Cap \in 0 .. Cap /\ 0 \in 0 .. MaxTime
        BY CapType, LimiterAssumption
      <4>2. tokens' = [tokens EXCEPT ![l] = Cap] /\ last' = [last EXCEPT ![l] = 0]
        BY <1>1, <3>2
      <4> QED BY <1>0, <4>1, <4>2 DEF TypeOK
    <3> QED BY <3>1, <3>2
  <2>4. req' \in [Request -> [host: Host \cup {None}, limiter: Limiter \cup {None},
                              since: 0 .. MaxTime]]
    <3>1. [host |-> h, limiter |-> l, since |-> now]
            \in [host: Host \cup {None}, limiter: Limiter \cup {None}, since: 0 .. MaxTime]
      BY <1>0
    <3> QED BY <1>0, <1>1, <3>1 DEF TypeOK
  <2> QED BY <1>0, <2>1, <2>2, <2>3, <2>4 DEF TypeOK
<1>9. \A m \in Limiter : last'[m] <= now'
  BY <1>0, <1>4, <1>5, <1>6 DEF RInv
<1>10. ASSUME NEW q \in Request PROVE HeldOK(q)'
  <2>1. CASE q = r
    BY <1>0, <1>1, <1>2, <2>1 DEF HeldOK, TypeOK
  <2>2. CASE q # r
    <3>1. req'[q] = req[q] /\ HeldOK(q)
      BY <1>0, <1>1, <2>2 DEF TypeOK, RInv
    <3>2. SUFFICES ASSUME req[q] # NoRequest PROVE HeldOK(q)'
      BY <3>1 DEF HeldOK
    <3>3. req[q].host = h
          => /\ limiters'[h].limiter = req[q].limiter
             /\ req[q].since <= now
      BY <1>0, <1>2, <1>6, <1>7, <3>1, <3>2 DEF HeldOK, TypeOK
    <3> QED BY <1>0, <1>2, <3>1, <3>2, <3>3 DEF HeldOK
  <2> QED BY <2>1, <2>2
<1>11. ASSUME NEW k \in Host PROVE EntryOK(k)'
  <2>1. EntryOK(k)
    BY DEF RInv
  <2>2. CASE k = h
    <3>1. last'[l] <= now + MaxStall
      <4>1. last'[l] <= now /\ last'[l] \in Nat
        BY <1>0, <1>8, <1>9 DEF TypeOK
      <4> QED BY <1>0, <4>1
    <3> QED BY <1>0, <1>2, <2>2, <3>1 DEF EntryOK
  <2>3. CASE k # h
    BY <1>0, <1>2, <1>3, <1>4, <1>7, <2>1, <2>3 DEF EntryOK
  <2> QED BY <2>2, <2>3
<1>12. Apart'
  BY <1>2, <1>3 DEF Apart, RInv
<1>13. ASSUME NEW k \in Host PROVE Level(k)' = Level(k)
  <2>1. CASE k \in DOMAIN limiters
    <3>1. limiters'[k].limiter = limiters[k].limiter
      BY <1>2, <1>6, <2>1
    <3>2. /\ tokens'[limiters[k].limiter] = tokens[limiters[k].limiter]
          /\ last'[limiters[k].limiter] = last[limiters[k].limiter]
      BY <1>3, <1>4, <1>6, <1>7, <2>1
    <3> QED BY <1>0, <1>2, <2>1, <3>1, <3>2 DEF Level, Available
  <2>2. CASE k \notin DOMAIN limiters /\ k = h
    <3>1. Available(l)' = Cap
      BY <1>0, <1>5, <2>2, CapType DEF Available
    <3> QED BY <1>2, <2>2, <3>1 DEF Level
  <2>3. CASE k \notin DOMAIN limiters /\ k # h
    BY <1>2, <2>3 DEF Level
  <2> QED BY <2>1, <2>2, <2>3
<1> QED BY <1>8, <1>9, <1>10, <1>11, <1>12, <1>13 DEF RInv

\* Allow takes a request from the bucket of its host, or finds none there.
LEMMA AllowStep ==
    ASSUME RInv, NEW r \in Request, Allow(r)
    PROVE  /\ RInv'
           /\ \E h \in Host : Buckets!Admit(h) \/ Buckets!Refuse(h)
<1>0. /\ TypeOK
      /\ now \in 0 .. MaxTime
      /\ now \in Nat
      /\ MaxStall \in Nat
      /\ Period \in Nat \ {0}
      /\ UNCHANGED <<limiters, now>>
      /\ req' = [req EXCEPT ![r] = NoRequest]
      /\ req[r] # NoRequest
  BY LimiterAssumption DEF RInv, TypeOK, Allow
<1>1. PICK h \in Host, l \in Limiter :
        /\ req[r].host = h
        /\ req[r].limiter = l
        /\ h \in DOMAIN limiters
        /\ limiters[h].limiter = l
        /\ req[r].since \in Nat
        /\ limiters[h].lastSeen \in Nat
        /\ req[r].since <= limiters[h].lastSeen
        /\ now - req[r].since <= MaxStall
  BY <1>0 DEF RInv, TypeOK, HeldOK, Entry
<1>2. Level(h) = Available(l) /\ Available(l) \in 0 .. Cap
  BY <1>0, <1>1, AvailableType DEF Level, RInv
<1>3. \/ /\ Available(l) >= Period
         /\ tokens' = [tokens EXCEPT ![l] = Available(l) - Period]
         /\ last' = [last EXCEPT ![l] = now]
         /\ admitted' = [admitted EXCEPT ![h] = Append(admitted[h], now)]
         /\ answer' = [host |-> h, ok |-> TRUE]
      \/ /\ Available(l) < Period
         /\ answer' = [host |-> h, ok |-> FALSE]
         /\ UNCHANGED <<tokens, last, admitted>>
  BY <1>1 DEF Allow
<1>4. NoRequest \in [host: Host \cup {None}, limiter: Limiter \cup {None}, since: 0 .. MaxTime]
  BY LimiterAssumption DEF NoRequest
<1>5. \A q \in Request : HeldOK(q)'
  BY <1>0 DEF RInv, TypeOK, HeldOK
<1>6. Apart'
  BY <1>0 DEF RInv, Apart
<1>7. CASE /\ Available(l) >= Period
           /\ tokens' = [tokens EXCEPT ![l] = Available(l) - Period]
           /\ last' = [last EXCEPT ![l] = now]
           /\ admitted' = [admitted EXCEPT ![h] = Append(admitted[h], now)]
           /\ answer' = [host |-> h, ok |-> TRUE]
  <2>1. Available(l) - Period \in 0 .. Cap
    BY <1>0, <1>2, <1>7, CapType
  <2>2. TypeOK'
    <3>1. admitted[h] \in Seq(0 .. MaxTime)
      BY <1>0, <1>1 DEF TypeOK
    <3>2. admitted' \in [Host -> Seq(0 .. MaxTime)]
      BY <1>0, <1>7, <3>1 DEF TypeOK
    <3>3. tokens' \in [Limiter -> 0 .. Cap] /\ last' \in [Limiter -> 0 .. MaxTime]
      BY <1>0, <1>7, <2>1 DEF TypeOK
    <3>4. answer' \in [host: Host \cup {None}, ok: BOOLEAN]
      BY <1>1, <1>7
    <3> QED BY <1>0, <1>4, <3>2, <3>3, <3>4 DEF TypeOK
  <2>3. \A m \in Limiter : last'[m] <= now'
    BY <1>0, <1>7 DEF RInv, TypeOK
  <2>4. ASSUME NEW k \in Host PROVE EntryOK(k)'
    <3>1. SUFFICES ASSUME k \in DOMAIN limiters PROVE EntryOK(k)'
      BY <1>0 DEF EntryOK
    <3>2. EntryOK(k) /\ limiters[k].limiter \in Limiter
      BY <1>0, <3>1 DEF RInv, TypeOK, Entry
    <3>3. CASE k = h
      <4>1. last'[l] = now
        BY <1>0, <1>1, <1>7 DEF TypeOK
      <4> QED BY <1>0, <1>1, <3>2, <3>3, <4>1 DEF EntryOK
    <3>4. CASE k # h
      <4>1. limiters[k].limiter # l
        BY <1>1, <3>1, <3>4 DEF RInv, Apart
      <4> QED BY <1>0, <1>7, <3>2, <4>1 DEF EntryOK, TypeOK
    <3> QED BY <3>3, <3>4
  <2>5. ASSUME NEW k \in Host
        PROVE  Level(k)' = IF k = h THEN Level(h) - Period ELSE Level(k)
    <3>1. CASE k = h
      <4>1. tokens'[l] = Available(l) - Period /\ last'[l] = now
        BY <1>0, <1>1, <1>7 DEF TypeOK
      <4>2. Available(l)' = Available(l) - Period
        <5>1. Available(l)' = IF tokens'[l] + (now' - last'[l]) < Cap
                              THEN tokens'[l] + (now' - last'[l]) ELSE Cap
          BY <1>1 DEF Available
        <5> QED BY <1>0, <1>2, <2>1, <4>1, <5>1, CapType
      <4>3. Level(h)' = Available(l)'
        BY <1>0, <1>1 DEF Level
      <4> QED BY <1>2, <3>1, <4>2, <4>3
    <3>2. CASE k # h /\ k \in DOMAIN limiters
      <4>1. limiters[k].limiter # l /\ limiters[k].limiter \in Limiter
        BY <1>0, <1>1, <3>2 DEF RInv, Apart, TypeOK, Entry
      <4> QED BY <1>0, <1>7, <3>2, <4>1 DEF Level, Available, TypeOK
    <3>3. CASE k # h /\ k \notin DOMAIN limiters
      BY <1>0, <3>3 DEF Level
    <3> QED BY <3>1, <3>2, <3>3
  <2>6. Buckets!Admit(h)
    <3>1. [k \in Host |-> Level(k)'] = [[k \in Host |-> Level(k)] EXCEPT ![h] = Level(h) - Period]
      BY <1>1, <2>5
    <3> QED BY <1>0, <1>1, <1>2, <1>7, <3>1 DEF Buckets!Admit
  <2> QED BY <1>1, <1>5, <1>6, <2>2, <2>3, <2>4, <2>6 DEF RInv
<1>8. CASE /\ Available(l) < Period
           /\ answer' = [host |-> h, ok |-> FALSE]
           /\ UNCHANGED <<tokens, last, admitted>>
  <2>1. TypeOK'
    BY <1>0, <1>1, <1>4, <1>8 DEF TypeOK
  <2>2. \A k \in Host : EntryOK(k)'
    BY <1>0, <1>8 DEF RInv, EntryOK
  <2>3. \A k \in Host : Level(k)' = Level(k)
    BY <1>0, <1>8 DEF Level, Available
  <2>4. Buckets!Refuse(h)
    BY <1>0, <1>1, <1>2, <1>8, <2>3 DEF Buckets!Refuse
  <2>5. \A m \in Limiter : last'[m] <= now'
    BY <1>0, <1>8 DEF RInv
  <2> QED BY <1>1, <1>5, <1>6, <2>1, <2>2, <2>4, <2>5 DEF RInv
<1> QED BY <1>3, <1>7, <1>8

\* cleanup throws away limiters that are full and that nobody holds.
LEMMA CleanupStep ==
    ASSUME RInv, Cleanup
    PROVE  RInv' /\ \A h \in Host : Level(h)' = Level(h)
<1>0. /\ TypeOK
      /\ now \in Nat
      /\ MaxStall \in Nat
      /\ IdleLimit \in Nat
      /\ Cap + MaxStall <= IdleLimit
      /\ Cap \in Nat
      /\ UNCHANGED <<tokens, last, req, admitted, answer, now>>
      /\ limiters' = [k \in {k \in DOMAIN limiters : ~Idle(k)} |-> limiters[k]]
  BY LimiterAssumption, CapType DEF RInv, TypeOK, Cleanup
<1>1. /\ DOMAIN limiters' \subseteq DOMAIN limiters
      /\ \A k \in DOMAIN limiters : k \notin DOMAIN limiters' => Idle(k)
      /\ \A k \in DOMAIN limiters' : limiters'[k] = limiters[k]
  BY <1>0
<1>2. \A k \in DOMAIN limiters : /\ k \in Host
                                 /\ limiters[k].limiter \in Limiter
                                 /\ limiters[k].lastSeen \in Nat
  BY <1>0 DEF TypeOK, Entry
<1>3. TypeOK'
  BY <1>0, <1>1 DEF TypeOK, Entry
<1>4. ASSUME NEW r \in Request PROVE HeldOK(r)'
  <2>1. HeldOK(r) /\ (req[r] # NoRequest => req[r].since \in Nat)
    BY <1>0 DEF RInv, TypeOK
  <2>2. SUFFICES ASSUME req[r] # NoRequest PROVE req[r].host \in DOMAIN limiters'
    BY <1>0, <1>1, <2>1 DEF HeldOK
  <2>3. ~Idle(req[r].host)
    BY <1>0, <1>2, <2>1, <2>2 DEF HeldOK, Idle
  <2> QED BY <1>1, <2>1, <2>2, <2>3 DEF HeldOK
<1>5. /\ \A l \in Limiter : last'[l] <= now'
      /\ \A h \in Host : EntryOK(h)'
      /\ Apart'
  BY <1>0, <1>1 DEF RInv, EntryOK, Apart
<1>6. ASSUME NEW h \in Host PROVE Level(h)' = Level(h)
  <2>1. CASE h \in DOMAIN limiters /\ h \notin DOMAIN limiters'
    <3>1. /\ now - limiters[h].lastSeen > IdleLimit
          /\ last[limiters[h].limiter] <= limiters[h].lastSeen + MaxStall
          /\ last[limiters[h].limiter] <= now
          /\ last[limiters[h].limiter] \in Nat
      BY <1>0, <1>1, <1>2, <2>1 DEF Idle, RInv, EntryOK, TypeOK
    <3>2. now - last[limiters[h].limiter] >= Cap
      BY <1>0, <1>2, <2>1, <3>1
    <3>3. Available(limiters[h].limiter) = Cap
      BY <1>0, <1>2, <2>1, <3>1, <3>2, AvailableType
    <3> QED BY <2>1, <3>3 DEF Level
  <2>2. CASE h \in DOMAIN limiters'
    BY <1>0, <1>1, <2>2 DEF Level, Available
  <2>3. CASE h \notin DOMAIN limiters
    BY <1>1, <2>3 DEF Level
  <2> QED BY <2>1, <2>2, <2>3
<1> QED BY <1>3, <1>4, <1>5, <1>6 DEF RInv

\* The clock fills every bucket by a unit.
LEMMA TickStep ==
    ASSUME RInv, Tick
    PROVE  RInv' /\ Buckets!Tick
<1>0. /\ TypeOK
      /\ now \in Nat
      /\ MaxTime \in Nat
      /\ MaxStall \in Nat
      /\ Cap \in Nat
      /\ now < MaxTime
      /\ now' = now + 1
      /\ UNCHANGED <<limiters, tokens, last, req, admitted, answer>>
  BY LimiterAssumption, CapType DEF RInv, TypeOK, Tick
<1>1. TypeOK'
  BY <1>0 DEF TypeOK
<1>2. \A l \in Limiter : last'[l] <= now'
  BY <1>0 DEF RInv, TypeOK
<1>3. ASSUME NEW r \in Request PROVE HeldOK(r)'
  <2>1. HeldOK(r) /\ (req[r] # NoRequest => req[r].since \in Nat /\ now - req[r].since < MaxStall)
    BY <1>0 DEF RInv, TypeOK, Tick
  <2> QED BY <1>0, <2>1 DEF HeldOK
<1>4. ASSUME NEW h \in Host PROVE EntryOK(h)'
  <2>1. EntryOK(h) /\ (h \in DOMAIN limiters => limiters[h].lastSeen \in Nat)
    BY <1>0 DEF RInv, TypeOK, Entry
  <2> QED BY <1>0, <2>1 DEF EntryOK
<1>5. Apart'
  BY <1>0 DEF RInv, Apart
<1>6. ASSUME NEW h \in Host
      PROVE  Level(h)' = IF Level(h) < Cap THEN Level(h) + 1 ELSE Cap
  <2>1. CASE h \in DOMAIN limiters
    <3>1. /\ limiters[h].limiter \in Limiter
          /\ tokens[limiters[h].limiter] \in Nat
          /\ last[limiters[h].limiter] \in Nat
          /\ last[limiters[h].limiter] <= now
      BY <1>0, <2>1 DEF RInv, TypeOK, Entry
    <3> QED BY <1>0, <2>1, <3>1 DEF Level, Available
  <2>2. CASE h \notin DOMAIN limiters
    BY <1>0, <2>2 DEF Level
  <2> QED BY <2>1, <2>2
<1>7. Buckets!Tick
  BY <1>0, <1>6 DEF Buckets!Tick, Buckets!Cap, Cap
<1> QED BY <1>1, <1>2, <1>3, <1>4, <1>5, <1>7 DEF RInv

\* Every step keeps the invariant and is a step of the buckets or none.
LEMMA Simulation ==
    RInv /\ [Next]_vars => RInv' /\ [Buckets!Next]_Buckets!vars
<1> SUFFICES ASSUME RInv, [Next]_vars PROVE RInv' /\ [Buckets!Next]_Buckets!vars
  OBVIOUS
<1>1. ASSUME UNCHANGED <<admitted, answer, now>>, \A h \in Host : Level(h)' = Level(h)
      PROVE  UNCHANGED Buckets!vars
  BY <1>1 DEF Buckets!vars
<1>2. ASSUME NEW r \in Request, Get(r) PROVE RInv' /\ UNCHANGED Buckets!vars
  BY <1>1, <1>2, GetStep DEF Get
<1>3. ASSUME NEW r \in Request, Allow(r) PROVE RInv' /\ Buckets!Next
  BY <1>3, AllowStep DEF Buckets!Next
<1>4. CASE Cleanup
  BY <1>1, <1>4, CleanupStep DEF Cleanup
<1>5. CASE Tick
  BY <1>5, TickStep DEF Buckets!Next
<1>6. CASE UNCHANGED vars
  <2>1. RInv'
    BY <1>6 DEF vars, RInv, TypeOK, HeldOK, EntryOK, Apart
  <2>2. \A h \in Host : Level(h)' = Level(h)
    BY <1>6 DEF vars, Level, Available
  <2> QED BY <1>1, <1>6, <2>1, <2>2 DEF vars
<1> QED BY <1>2, <1>3, <1>4, <1>5, <1>6 DEF Next

LEMMA BucketsInit == Init => Buckets!Init
<1> SUFFICES ASSUME Init PROVE Buckets!Init
  OBVIOUS
<1>1. \A h \in Host : Level(h) = Cap
  BY DEF Init, Level
<1> QED BY <1>1 DEF Init, Buckets!Init, Buckets!Cap, Cap

----------------------------------------------------------------------------
THEOREM LimiterInvariance == Spec => []RInv
  BY RInvInit, Simulation, PTL DEF Spec

\* Levels stay between empty and full, and requests, entries and instants are what
\* they should be.
THEOREM LimiterTypes == Spec => []TypeOK
<1>1. RInv => TypeOK
  BY DEF RInv
<1> QED BY <1>1, LimiterInvariance, PTL

\* A request never asks a limiter that was taken out of the map.
THEOREM LimiterHeldIsCurrent == Spec => []HeldIsCurrent
<1>1. RInv => HeldIsCurrent
  BY DEF RInv, HeldOK, HeldIsCurrent
<1> QED BY <1>1, LimiterInvariance, PTL

\* The limiters that come and go are one everlasting bucket per host.
THEOREM LimiterImplementsBuckets == Spec => ImplementsBuckets
<1>1. Spec => Buckets!Init /\ [][Buckets!Next]_Buckets!vars
  BY BucketsInit, RInvInit, Simulation, PTL DEF Spec
<1> QED BY <1>1 DEF ImplementsBuckets, Buckets!Spec

----------------------------------------------------------------------------
\* What was admitted since an earlier admission and what is left is covered by a
\* full bucket and the time since.
WindowInv ==
    /\ WindowBound
    /\ \A h \in Host : \A i \in DOMAIN admitted[h] :
         /\ admitted[h][i] <= now
         /\ (Len(admitted[h]) - i + 1) * Period + Level(h)
               <= Cap + (now - admitted[h][i])

LEMMA LevelType == RInv => \A h \in Host : Level(h) \in 0 .. Cap
<1> SUFFICES ASSUME RInv, NEW h \in Host PROVE Level(h) \in 0 .. Cap
  OBVIOUS
<1>1. CASE h \in DOMAIN limiters
  BY <1>1, AvailableType DEF Level, RInv, TypeOK, Entry
<1>2. CASE h \notin DOMAIN limiters
  BY <1>2, CapType DEF Level
<1> QED BY <1>1, <1>2

LEMMA LevelTypePrimed == RInv' => (\A h \in Host : Level(h) \in 0 .. Cap)'
  BY LevelType, PTL

\* The elements of a sequence over S are in S.
LEMMA ElementIn ==
    ASSUME NEW S, NEW s \in Seq(S), NEW i \in 1 .. Len(s) PROVE s[i] \in S
  OBVIOUS

\* One admission more costs a Period more.
LEMMA OneMore ==
    ASSUME NEW n \in Int PROVE (n + 1) * Period = n * Period + Period
  BY LimiterAssumption

LEMMA WindowStep ==
    ASSUME RInv, RInv', WindowInv, [Buckets!Next]_Buckets!vars PROVE WindowInv'
<1>0. /\ admitted \in [Host -> Seq(0 .. MaxTime)]
      /\ now \in Nat
      /\ now' \in Nat
      /\ Cap \in Nat
      /\ Period \in Nat
      /\ \A h \in Host : Level(h) \in 0 .. Cap /\ Level(h)' \in 0 .. Cap
  <2>1. /\ admitted \in [Host -> Seq(0 .. MaxTime)]
        /\ now \in Nat
        /\ Cap \in Nat
        /\ Period \in Nat
    BY CapType, LimiterAssumption DEF RInv, TypeOK
  <2>2. now' \in Nat
    BY LimiterAssumption DEF RInv, TypeOK
  <2>3. \A h \in Host : Level(h)' \in 0 .. Cap
    BY LevelTypePrimed
  <2> QED BY <2>1, <2>2, <2>3, LevelType
<1>1. \A h \in Host : /\ Len(admitted[h]) \in Nat
                      /\ DOMAIN admitted[h] = 1 .. Len(admitted[h])
                      /\ \A i \in DOMAIN admitted[h] : admitted[h][i] \in Nat
  <2> SUFFICES ASSUME NEW h \in Host
               PROVE  /\ Len(admitted[h]) \in Nat
                      /\ DOMAIN admitted[h] = 1 .. Len(admitted[h])
                      /\ \A i \in DOMAIN admitted[h] : admitted[h][i] \in Nat
    OBVIOUS
  <2>1. admitted[h] \in Seq(0 .. MaxTime)
    BY <1>0
  <2>2. \A i \in 1 .. Len(admitted[h]) : admitted[h][i] \in 0 .. MaxTime
    BY <2>1, ElementIn
  <2>3. Len(admitted[h]) \in Nat /\ DOMAIN admitted[h] = 1 .. Len(admitted[h])
    BY <2>1
  <2>4. \A t \in 0 .. MaxTime : t \in Nat
    OBVIOUS
  <2> QED BY <2>2, <2>3, <2>4
<1>2. ASSUME NEW h \in Host, Buckets!Admit(h) PROVE WindowInv'
  <2>1. /\ admitted' = [admitted EXCEPT ![h] = Append(admitted[h], now)]
        /\ now' = now
        /\ \A k \in Host : Level(k)' = IF k = h THEN Level(h) - Period ELSE Level(k)
    BY <1>2 DEF Buckets!Admit
  <2> DEFINE n == Len(admitted[h])
  <2>2. /\ admitted'[h] = Append(admitted[h], now)
        /\ \A k \in Host : k # h => admitted'[k] = admitted[k]
    BY <1>0, <2>1
  <2>3. /\ Len(admitted'[h]) = n + 1
        /\ DOMAIN admitted'[h] = 1 .. n + 1
        /\ admitted'[h][n + 1] = now
        /\ \A i \in 1 .. n : admitted'[h][i] = admitted[h][i]
    BY <1>0, <1>1, <2>2
  <2>4. ASSUME NEW i \in 1 .. n + 1
        PROVE  /\ admitted'[h][i] <= now
               /\ ((n + 1) - i + 1) * Period + (Level(h) - Period)
                     <= Cap + (now - admitted'[h][i])
    <3>1. CASE i = n + 1
      <4>1. ((n + 1) - i + 1) * Period = Period
        BY <1>0, <1>1, <3>1
      <4> QED BY <1>0, <1>1, <2>3, <3>1, <4>1
    <3>2. CASE i \in 1 .. n
      <4>1. /\ admitted[h][i] <= now
            /\ (n - i + 1) * Period + Level(h) <= Cap + (now - admitted[h][i])
        BY <1>1, <3>2 DEF WindowInv
      <4>2. ((n + 1) - i + 1) * Period = (n - i + 1) * Period + Period
        <5>1. n - i + 1 \in Int /\ (n + 1) - i + 1 = (n - i + 1) + 1
          BY <1>1
        <5> QED BY <5>1, OneMore
      <4>3. (n - i + 1) * Period \in Int
        BY <1>0, <1>1
      <4> DEFINE old == (n - i + 1) * Period
                 t == admitted[h][i]
                 l == Level(h)
      <4>4. /\ old \in Int /\ t \in Int /\ l \in Int /\ now \in Int /\ Cap \in Int
            /\ Period \in Int /\ old + l <= Cap + (now - t)
        BY <1>0, <1>1, <3>2, <4>1, <4>3
      <4>5. admitted'[h][i] = t /\ ((n + 1) - i + 1) * Period = old + Period
        BY <2>3, <3>2, <4>2
      <4> HIDE DEF old, t, l
      <4>6. (old + Period) + (l - Period) <= Cap + (now - t)
        BY <4>4
      <4> QED BY <4>1, <4>5, <4>6 DEF t, l
    <3> QED BY <1>1, <3>1, <3>2
  <2>5. ASSUME NEW k \in Host, NEW i \in DOMAIN admitted'[k]
        PROVE  /\ admitted'[k][i] <= now'
               /\ (Len(admitted'[k]) - i + 1) * Period + Level(k)'
                     <= Cap + (now' - admitted'[k][i])
    BY <2>1, <2>2, <2>3, <2>4, <2>5 DEF WindowInv
  <2>6. ASSUME NEW k \in Host, NEW i \in DOMAIN admitted'[k],
               NEW j \in DOMAIN admitted'[k], i <= j
        PROVE  (j - i + 1) * Period <= Cap + (admitted'[k][j] - admitted'[k][i])
    <3>1. CASE k # h
      BY <2>2, <2>6, <3>1 DEF WindowInv, WindowBound
    <3>2. CASE k = h /\ j \in 1 .. n
      <4>1. i \in 1 .. n
        BY <1>1, <2>3, <2>6, <3>2
      <4>2. /\ i \in DOMAIN admitted[h]
            /\ j \in DOMAIN admitted[h]
        BY <1>1, <3>2, <4>1
      <4>3. (j - i + 1) * Period <= Cap + (admitted[h][j] - admitted[h][i])
        BY <2>6, <4>2 DEF WindowInv, WindowBound
      <4>4. admitted'[h][i] = admitted[h][i] /\ admitted'[h][j] = admitted[h][j]
        BY <2>3, <3>2, <4>1
      <4> QED BY <3>2, <4>3, <4>4
    <3>3. CASE k = h /\ j = n + 1
      <4>1. ((n + 1) - i + 1) * Period + (Level(h) - Period)
              <= Cap + (now - admitted'[h][i])
        BY <2>3, <2>4, <2>6, <3>3
      <4>2. Level(h) - Period \in Nat
        BY <1>0, <2>1
      <4>3. ((n + 1) - i + 1) * Period \in Int /\ admitted'[h][i] \in Nat
        <5>1. n \in Nat /\ i \in 1 .. n + 1
          BY <1>1, <2>3, <2>6, <3>3
        <5>2. ((n + 1) - i + 1) * Period \in Int
          BY <1>0, <5>1
        <5>3. admitted'[h][i] \in Nat
          <6>1. CASE i = n + 1
            BY <1>0, <2>3, <6>1
          <6>2. CASE i \in 1 .. n
            BY <1>1, <2>3, <6>2
          <6> QED BY <5>1, <6>1, <6>2
        <5> QED BY <5>2, <5>3
      <4> DEFINE cost == ((n + 1) - i + 1) * Period
                 t == admitted'[h][i]
                 rest == Level(h) - Period
      <4>4. /\ cost \in Int /\ t \in Int /\ rest \in Nat /\ now \in Int /\ Cap \in Int
            /\ cost + rest <= Cap + (now - t)
        BY <1>0, <4>1, <4>2, <4>3
      <4> HIDE DEF cost, t, rest
      <4>5. cost <= Cap + (now - t)
        BY <4>4
      <4> QED BY <2>3, <3>3, <4>5 DEF cost, t
    <3> QED BY <1>1, <2>3, <2>6, <3>1, <3>2, <3>3
  <2> QED BY <2>5, <2>6 DEF WindowInv, WindowBound
<1>3. CASE UNCHANGED Buckets!vars \/ \E h \in Host : Buckets!Refuse(h)
  <2>1. /\ admitted' = admitted
        /\ now' = now
        /\ \A k \in Host : Level(k)' = Level(k)
    BY <1>3 DEF Buckets!vars, Buckets!Refuse
  <2> QED BY <2>1 DEF WindowInv, WindowBound
<1>4. CASE Buckets!Tick
  <2>1. /\ admitted' = admitted
        /\ now' = now + 1
        /\ \A k \in Host : Level(k)' <= Level(k) + 1
    BY <1>0, <1>4 DEF Buckets!Tick, Buckets!Cap, Cap
  <2>2. ASSUME NEW h \in Host, NEW i \in DOMAIN admitted[h]
        PROVE  /\ admitted[h][i] <= now'
               /\ (Len(admitted[h]) - i + 1) * Period + Level(h)'
                     <= Cap + (now' - admitted[h][i])
    <3>1. /\ admitted[h][i] <= now
          /\ (Len(admitted[h]) - i + 1) * Period + Level(h) <= Cap + (now - admitted[h][i])
      BY DEF WindowInv
    <3>2. (Len(admitted[h]) - i + 1) * Period \in Int /\ admitted[h][i] \in Nat
      BY <1>0, <1>1
    <3>3. Level(h) \in Int /\ Level(h)' \in Int /\ Level(h)' <= Level(h) + 1
      BY <1>0, <2>1
    <3> DEFINE cost == (Len(admitted[h]) - i + 1) * Period
               t == admitted[h][i]
               l == Level(h)
               m == Level(h)'
    <3>4. /\ cost \in Int /\ t \in Int /\ l \in Int /\ m \in Int /\ now \in Int /\ Cap \in Int
          /\ t <= now /\ m <= l + 1 /\ cost + l <= Cap + (now - t) /\ now' = now + 1
      BY <1>0, <2>1, <3>1, <3>2, <3>3
    <3> HIDE DEF cost, t, l, m
    <3>5. t <= now' /\ cost + m <= Cap + (now' - t)
      BY <3>4
    <3> QED BY <3>5 DEF cost, t, l, m
  <2> QED BY <2>1, <2>2 DEF WindowInv, WindowBound
<1> QED BY <1>2, <1>3, <1>4 DEF Buckets!Next

\* In whatever stretch of time, a host gets no more than Burst requests through
\* and one for each Period of it.
THEOREM LimiterWindow == Spec => []WindowBound
<1>1. Init => WindowInv
  BY DEF Init, WindowInv, WindowBound
<1>2. Spec => []WindowInv
  BY <1>1, RInvInit, Simulation, WindowStep, PTL DEF Spec
<1>3. WindowInv => WindowBound
  BY DEF WindowInv
<1> QED BY <1>2, <1>3, PTL
=============================================================================
