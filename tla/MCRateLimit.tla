----------------------------- MODULE MCRateLimit -----------------------------
(* Model of RateLimit for TLC: a minute of two seconds, an hour of four.   *)
EXTENDS RateLimit, TLC

CONSTANTS t1, t2, k1, k2, k3

Symmetry == Permutations({t1, t2})

OneKey ==
    /\ \A t \in Threads : key[t] = k1
    /\ \A g \in Sites : table[g] \subseteq {k1}
    /\ toSweep \in {{}, {k1}, {k1, k2}, {k1, k2, k3}}   \* absent keys first

\* Several keys within one second, one key across a reload, or one key over
\* hours.
Scenario ==
    \/ now = 0 /\ site = 0
    \/ OneKey /\ (now = 0 \/ site = 0)
=============================================================================
