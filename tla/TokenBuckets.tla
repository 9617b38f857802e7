----------------------------- MODULE TokenBuckets -----------------------------
(***************************************************************************)
(* What the rate limiter of the WebAuthn routes promises: every host has   *)
(* one bucket, for ever, that holds Burst requests, starts full and gains  *)
(* a request every Period ticks.                                           *)
(***************************************************************************)
EXTENDS Naturals, Sequences

CONSTANTS Host, Burst, Period, None

VARIABLES
    level,     \* what each host's bucket holds, a request being Period units
    admitted,  \* history: when each host's requests were admitted
    answer,    \* the last answer given
    now

vars == <<level, admitted, answer, now>>

Cap == Burst * Period

Init ==
    /\ level = [h \in Host |-> Cap]
    /\ admitted = [h \in Host |-> <<>>]
    /\ answer = [host |-> None, ok |-> FALSE]
    /\ now = 0

Admit(h) ==
    /\ level[h] >= Period
    /\ level' = [level EXCEPT ![h] = level[h] - Period]
    /\ admitted' = [admitted EXCEPT ![h] = Append(admitted[h], now)]
    /\ answer' = [host |-> h, ok |-> TRUE]
    /\ UNCHANGED now

Refuse(h) ==
    /\ level[h] < Period
    /\ answer' = [host |-> h, ok |-> FALSE]
    /\ UNCHANGED <<level, admitted, now>>

Tick ==
    /\ now' = now + 1
    /\ level' = [h \in Host |-> IF level[h] < Cap THEN level[h] + 1 ELSE Cap]
    /\ UNCHANGED <<admitted, answer>>

Next == Tick \/ \E h \in Host : Admit(h) \/ Refuse(h)

Spec == Init /\ [][Next]_vars
=============================================================================
