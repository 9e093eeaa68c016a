---------------------------- MODULE DurableTable ----------------------------
(***************************************************************************)
(* What the rathole service registry promises its callers, without its     *)
(* lock, its snapshot or its file handling.  Every name has a current      *)
(* write number; the table on disk holds, for every name, one of the       *)
(* writes made so far and never goes back to an older one; a call is       *)
(* acknowledged only while a file with its write, or a later one, is there.*)
(***************************************************************************)
EXTENDS Naturals

CONSTANTS Names,      \* service names (session ids)
          MaxWrites   \* MaxWrites[n]: bound on the writes made to n

VARIABLES cur,        \* cur[n]: number of the last write to n in memory
          disk,       \* disk[n]: number of the write to n last put on disk
          present,    \* whether a complete file is there to be read
          acked       \* acked[n]: latest write to n answered with Ok

tableVars == <<cur, disk, present, acked>>

Init ==
  /\ cur = [n \in Names |-> 0]
  /\ disk = [n \in Names |-> 0]
  /\ present = FALSE
  /\ acked = [n \in Names |-> 0]

\* A mutation of the table in memory.
Write(n) ==
  /\ cur[n] < MaxWrites[n]
  /\ cur' = [cur EXCEPT ![n] = @ + 1]
  /\ UNCHANGED <<disk, present, acked>>

\* A complete file appears; it may lag behind memory, never behind itself.
Publish ==
  /\ present' = TRUE
  /\ disk' \in [Names -> Nat]
  /\ \A n \in Names : disk[n] <= disk'[n] /\ disk'[n] <= cur[n]
  /\ UNCHANGED <<cur, acked>>

\* The old file is unlinked before the new one takes its name.
Vanish ==
  /\ present' = FALSE
  /\ UNCHANGED <<cur, disk, acked>>

\* A caller is told Ok for write v of n.
Acknowledge(n, v) ==
  /\ present
  /\ v <= disk[n]
  /\ acked' = [acked EXCEPT ![n] = IF v > @ THEN v ELSE @]
  /\ UNCHANGED <<cur, disk, present>>

Next ==
  \/ \E n \in Names : Write(n)
  \/ Publish
  \/ Vanish
  \/ \E n \in Names : \E v \in 0 .. MaxWrites[n] : Acknowledge(n, v)

Spec == Init /\ [][Next]_tableVars
=============================================================================
