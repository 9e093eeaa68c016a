--------------------------- MODULE MCProvisioning ---------------------------
EXTENDS Provisioning, TLC

\* A restart before the first request would only repeat the initial state.
RestartLater == restarts' # restarts => \E h \in Handlers : pc[h] # "idle"

Symmetry == Permutations(Sessions) \cup Permutations(Handlers)
=============================================================================
