---------------------------- MODULE MCTokenChecks ----------------------------
EXTENDS TokenChecks, TLC

CONSTANTS j1, s1, s2, h1, k1, k2

MCTokens == {[jti |-> j1, sub |-> s1, host |-> h1, kid |-> k1, exp |-> MaxTime - 1]}

\* The gate and the oracle share the clock and dun-api's list, and neither reads
\* the other's state: the oracle is explored with a gate that does not poll.
Apart == polling => \A v \in Verifies : verify[v].pc = "idle"

Symmetry == Permutations(Verifies)
=============================================================================
