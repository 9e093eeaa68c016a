---------------------------- MODULE MCCaddyAdmin ----------------------------
EXTENDS CaddyAdmin, TLC

CONSTANTS a, b, u1, u2, edge, ended

\* Nothing; an earlier run's array with a session in it; one where a session was
\* persisted twice, the second copy with an older port.
EarlierRuns ==
  {<<>>} \cup
  {<<Entry(x, u1), Entry(ended, None)>> : x \in Hosts} \cup
  {<<Entry(xy[1], u1), Entry(xy[1], u2), Entry(xy[2], u1), Entry(ended, None)>> :
     xy \in {<<a, b>>, <<b, a>>}}

\* The catch-all only.
OnlyEnded == { <<Entry(ended, None)>> }

\* Calls ask for the first upstream, the second is a leftover of an earlier run.  Calls
\* overlap once it is gone, before a restart, and after a bootstrap call for the edge
\* that succeeded or did nothing.
Overlap == \E p, q \in Procs : p # q /\ pc[p] # "idle" /\ pc[q] # "idle"
Parts ==
  /\ Cardinality(At(routes, None)) <= 1
  /\ \A p \in Procs : up[p] # u2
  /\ Overlap => /\ restarts = 0
                /\ \A n \in DOMAIN routes : routes[n].up # u2
                /\ edge \in settled \/ (At(routes, edge) = {} /\ edge \notin cache)

Symmetry == Permutations(Procs) \cup Permutations(Hosts)
=============================================================================
