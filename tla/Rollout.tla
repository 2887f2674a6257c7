------------------------------ MODULE Rollout ------------------------------
(***************************************************************************)
(* What the staged reload promises (the comments on coordinator_loop and   *)
(* perform_reload in src/src/reload.rs), without its messages: a           *)
(* configuration is proven, committed in one step, and then run by one     *)
(* worker after another.  A configuration is a pair of asset versions, the *)
(* plugins' and the site's.                                                *)
(***************************************************************************)
EXTENDS Naturals

CONSTANT Fleet      \* the workers other than the canary

VARIABLES
    proven,     \* configurations the canary has compiled
    committed,  \* configurations that are, or were, the shared one
    current,    \* the shared configuration
    starting,   \* workers that have not installed anything yet
    running     \* per worker: the configuration its scripts come from

vars == <<proven, committed, current, starting, running>>

First == <<0, 0>>

\* q is made of assets at least as new as those of p.
NotNewer(p, q) == p[1] <= q[1] /\ p[2] <= q[2]

Init ==
    /\ proven = {First} /\ committed = {First} /\ current = First
    /\ starting = Fleet
    /\ running = [w \in Fleet |-> First]

\* The canary compiles a configuration, whatever becomes of the reload.
Prove ==
    /\ \E s \in proven' : proven' = proven \cup {s}
    /\ UNCHANGED <<committed, current, starting, running>>

\* Only what is proven is committed, all of it at once, and never assets older
\* than the ones it replaces.
Commit ==
    /\ \E s \in proven :
          /\ NotNewer(current, s)
          /\ current' = s
          /\ committed' = committed \cup {s}
    /\ UNCHANGED <<proven, starting, running>>

\* A worker that starts during a reload may read the plugins of one committed
\* configuration and the site of another.
Start(w) ==
    /\ w \in starting
    /\ starting' = starting \ {w}
    /\ \E p, q \in committed : running' = [running EXCEPT ![w] = <<p[1], q[2]>>]
    /\ UNCHANGED <<proven, committed, current>>

\* From then on it changes only to a configuration that was committed whole.
Run(w) ==
    /\ w \notin starting
    /\ \E s \in committed : running' = [running EXCEPT ![w] = s]
    /\ UNCHANGED <<proven, committed, current, starting>>

Next == Prove \/ Commit \/ \E w \in Fleet : Start(w) \/ Run(w)

Spec == Init /\ [][Next]_vars
=============================================================================
