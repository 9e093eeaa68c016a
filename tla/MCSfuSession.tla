---------------------------- MODULE MCSfuSession ----------------------------
EXTENDS SfuSession

CONSTANTS v1, v2, v3

\* The ids share the session and its mutex and nothing else: it is enough that one
\* connection consumes and the other dials, and that the first meets either the second
\* or a guest.  Nor do the monitor and the reporter meet but at the mutex, which each
\* of them is seen to keep.
Parts ==
  /\ pc[v1] \notin {"input", "dial"}
  /\ pc[v2] \notin {"find", "consume", "store"}
  /\ pc[v2] = "start" \/ (pc[v3] = "start" /\ \A g \in Routers : v3 \notin viewers[g])
  /\ mon = "idle" \/ \A g \in Routers : lock[g] # Reporter
=============================================================================
