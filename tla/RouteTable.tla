----------------------------- MODULE RouteTable -----------------------------
(***************************************************************************)
(* What the Caddy client promises its callers (admin_client.rs): a table   *)
(* from host to upstream, and a list of the hosts it put there.  A call is *)
(* for one host.  A call that has been the only one since it began changes *)
(* that host's entry only; when it returns Ok the entry is what was asked  *)
(* for and the list agrees; when it returns Err the entry may be the old   *)
(* one, none or the new one.  Of calls that overlap nothing is promised    *)
(* about the table.                                                        *)
(*                                                                         *)
(* At the start the table may have entries twice.  As long as it has, a    *)
(* removal may bring a second entry to light; an Ok of an addition means   *)
(* that this is over.                                                      *)
(***************************************************************************)
CONSTANTS Hosts, Upstreams, None, Callers

VARIABLES table,    \* upstream of every host, or None
          doubled,  \* some entry is there twice
          listed,   \* list_routes
          busy,     \* the calls under way: their hosts and what they ask for
          alone,    \* the call that has been the only one, if there is one
          settled   \* hosts whose latest call returned Ok

vars == <<table, doubled, listed, busy, alone, settled>>

NoCall == [host |-> None, up |-> None]
Tables == [Hosts -> Upstreams \cup {None}]

Init ==
  /\ table \in Tables
  /\ doubled \in BOOLEAN
  /\ listed = {}
  /\ busy = [c \in Callers |-> NoCall]
  /\ alone = {}
  /\ settled = {}

Call(c, h, u) ==
  /\ busy[c] = NoCall
  /\ busy' = [busy EXCEPT ![c] = [host |-> h, up |-> u]]
  /\ alone' = IF \A d \in Callers : busy[d] = NoCall THEN {c} ELSE {}
  /\ settled' = settled \ {h}
  /\ UNCHANGED <<table, doubled, listed>>

\* Entries that were there twice may become single, never the other way round.
Tidied == doubled' => doubled

\* The entry of c's host, with the others as they are.
SetEntry(c, u) == table' = [table EXCEPT ![busy[c].host] = u]

\* The old entry, none or the new one; or one that a second entry brought to light.
Changed(c) ==
  /\ Tidied
  /\ \E u \in {table[busy[c].host], None, busy[c].up} \cup (IF doubled THEN Upstreams ELSE {}) :
       SetEntry(c, u)

\* An added host is listed before the call knows that it succeeded.
Work(c) ==
  /\ c \in alone
  /\ Changed(c)
  /\ listed' \in {listed} \cup (IF busy[c].up = None THEN {} ELSE {listed \cup {busy[c].host}})
  /\ UNCHANGED <<busy, alone, settled>>

Return(c) == busy' = [busy EXCEPT ![c] = NoCall] /\ alone' = alone \ {c}

Ok(c) ==
  /\ c \in alone
  /\ Changed(c)
  /\ IF busy[c].up = None THEN doubled \/ SetEntry(c, None)
                          ELSE ~doubled' /\ SetEntry(c, busy[c].up)
  /\ listed' = IF busy[c].up = None THEN listed \ {busy[c].host} ELSE listed \cup {busy[c].host}
  /\ Return(c)
  /\ settled' = settled \cup {busy[c].host}

Err(c) ==
  /\ c \in alone
  /\ Changed(c)
  /\ Return(c)
  /\ UNCHANGED <<listed, settled>>

\* A call that overlapped others goes on or returns.
Overlapped(c) ==
  /\ c \notin alone
  /\ busy[c] # NoCall
  /\ table' \in Tables
  /\ Tidied
  /\ listed' \in {listed, listed \cup {busy[c].host}, listed \ {busy[c].host}}
  /\ \/ UNCHANGED <<busy, alone, settled>>
     \/ Return(c) /\ settled' \in {settled, settled \cup {busy[c].host}}

\* The client's own upkeep.
Upkeep ==
  /\ Tidied
  /\ UNCHANGED <<table, listed, busy, alone, settled>>

\* The client is started anew: the list is empty, the table is as it was.
Restart ==
  /\ listed' = {}
  /\ busy' = [c \in Callers |-> NoCall]
  /\ alone' = {}
  /\ settled' = {}
  /\ UNCHANGED <<table, doubled>>

Next ==
  \/ \E c \in Callers :
       \/ \E h \in Hosts, u \in Upstreams \cup {None} : Call(c, h, u)
       \/ Work(c) \/ Ok(c) \/ Err(c) \/ Overlapped(c)
  \/ Upkeep \/ Restart

Spec == Init /\ [][Next]_vars
=============================================================================
