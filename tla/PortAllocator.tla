---------------------------- MODULE PortAllocator ----------------------------
(***************************************************************************)
(* edge-rathole-bridge: the pool of local upstream ports                   *)
(* (port_allocator.rs).  Both operations run under one mutex and are       *)
(* atomic.                                                                 *)
(***************************************************************************)
EXTENDS Integers

CONSTANT Ports        \* PORT_MIN ..= PORT_MAX

VARIABLE free         \* the BTreeSet of free ports

PoolInit == free = Ports

\* Mutant: the port is handed out and stays in the set.
AllocateKeeping(p) ==
  /\ p \in free
  /\ \A q \in free : p <= q
  /\ UNCHANGED free

\* allocate takes the first port in the set's order.
Allocate(p) ==
  /\ p \in free
  /\ \A q \in free : p <= q
  /\ free' = free \ {p}

\* allocate answers PortPoolExhausted.
Exhausted == free = {} /\ UNCHANGED free

\* release ignores a port outside the range; putting back a free port is
\* harmless.
Release(p) == free' = IF p \in Ports THEN free \cup {p} ELSE free
=============================================================================
