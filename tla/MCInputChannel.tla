--------------------------- MODULE MCInputChannel ---------------------------
EXTENDS InputChannel, TLC

Symmetry == Permutations(Viewers) \cup Permutations(Calls) \cup Permutations(Envelopes)
=============================================================================
