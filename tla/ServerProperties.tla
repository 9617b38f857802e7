-------------------------- MODULE ServerProperties --------------------------
(***************************************************************************)
(* What the server process promises its clients and its database.          *)
(***************************************************************************)
EXTENDS Server

Waiting == {p \in Proc : pc[p] = "waiting"}
Running == {p \in Proc : pc[p] = "running"}

\* s has every element of W in one place, and nothing else.
Lists(s, W) ==
    /\ s \in Seq(W)
    /\ \A w \in W : \E i \in DOMAIN s : s[i] = w
    /\ \A i, j \in DOMAIN s : s[i] = s[j] => i = j

\* The pool's accounts balance: the connections that are out are those of running
\* statements, no more than there are, and whoever waits stands in the queue once -
\* though statements fail, clients go away while waiting or running, and the pool is
\* closed under them.
Accounts ==
    /\ held = Running
    /\ IsFiniteSet(held) /\ Cardinality(held) <= MaxConns
    /\ Lists(queue, Waiting)

\* The pool is closed under nobody's feet: main lets go of it only when every
\* request that was let in has been answered, or the ten seconds are over.
PoolOutlivesRequests == main = "close" /\ ~late => AllServed

\* Whatever the routes and the guards, a host gets no more than Burst ceremony
\* operations out of one life of the process and one for each Period of it.
CeremoniesAreLimited == allowance >= 0

\* A token that was handed out opens the authenticated routes for TokenTTL at
\* least and less than a second longer, as whole seconds are compared on both
\* sides - unless the secret has been changed since.
TokenLife ==
    token # None =>
      LET in == [route |-> "me", method |-> "GET", id |-> "good",
                 token |-> token, known |-> FALSE, body |-> "good"]
          age == now - token.issued
          admitted == Serve(in, level, secret, now).calls
      IN  /\ admitted => age < TokenTTL + Second /\ token.secret = secret
          /\ ~admitted => age > TokenTTL \/ token.secret # secret

\* A request does not wait for ever - for a connection, behind others or behind
\* the worker - and is not forgotten by the shutdown: it ends.
RequestsEnd == \A r \in Request : (pc[r] # "idle") ~> (pc[r] = "idle")

\* A signal ends the process, wherever it meets it: starting, serving with
\* requests that wait for connections, or with a sweep under way.
SignalStops == cancelled ~> main = "down"
=============================================================================
