----------------------------- MODULE CaddyAdmin -----------------------------
(***************************************************************************)
(* edge-caddy-bridge: AdminClient (admin_client.rs), the calls that keep   *)
(* Caddy's array of routes, and the bootstrap of state.rs that calls it.   *)
(* A call is a series of HTTP requests to Caddy's admin API; nothing       *)
(* serialises the calls, so the requests of several calls interleave.  Any *)
(* request may fail, a write also after it took effect.                    *)
(*                                                                         *)
(* Caddy is external.  It is modelled as the code meets it: PUT /id of a   *)
(* known id replaces the entry or is refused as a duplicate, of an unknown *)
(* one is a 404; DELETE shrinks the array or leaves a null in it, and by   *)
(* id may do nothing; a write whose array has an id twice is refused.      *)
(* Caddy starts with what an earlier run left in its autosave.json, and    *)
(* there an id may be twice.                                               *)
(***************************************************************************)
EXTENDS Naturals, Sequences, FiniteSets

CONSTANTS Procs,        \* concurrent calls
          Hosts,        \* subdomains of sessions
          Edge,         \* the host of edge-control itself
          Ended,         \* the session-ended catch-all
          Upstreams, None,
          Leftovers,    \* the arrays that Caddy may start with
          MaxRestarts   \* bound on the restarts of edge-control

ASSUME CaddyAssumption ==
  /\ Ended \notin Hosts \cup {Edge}
  /\ None \notin Hosts \cup {Edge, Ended} \cup Upstreams
  /\ MaxRestarts \in Nat

Entry(i, u) == [id |-> i, up |-> u]
Null == Entry(None, None)
AllHosts == Hosts \cup {Edge}
Ids == AllHosts \cup {Ended}
Slots == [id : Ids \cup {None}, up : Upstreams \cup {None}]

\* An earlier run left hosts with their upstreams, before the catch-all.
ASSUME LeftoversAssumption ==
  \A arr \in Leftovers :
    /\ arr \in Seq(Slots)
    /\ \A n \in DOMAIN arr : arr[n].id \in AllHosts => arr[n].up \in Upstreams
    /\ \A m, n \in DOMAIN arr : arr[m].id = Ended /\ arr[n].id \in AllHosts => n < m

VARIABLES
  exists, routes,       \* Caddy: the routes key is there, its array
  cache,                \* AdminClientInner.routes, the hosts
  phase,                \* AppState::initialize, then serving
  pc, op, id, up,       \* calls
  snap,                 \* the array a call read
  restarts,
  settled,              \* history: hosts whose latest call returned Ok, with no
                        \* other call for the host under way
  alone                 \* history: the call for a host that has been the only one
                        \* since it began

caddy == <<exists, routes>>
call == <<pc, op, id, up, snap>>
vars == <<caddy, cache, phase, call, restarts, settled, alone>>

At(arr, i) == {n \in DOMAIN arr : arr[n].id = i}
Last(arr, i) == {n \in At(arr, i) : \A m \in At(arr, i) : m <= n}
Drop(arr, n) == SubSeq(arr, 1, n - 1) \o SubSeq(arr, n + 1, Len(arr))

\* The entries of an array that are not null, in their order.
WithoutNulls(arr) ==
  LET kept == {n \in DOMAIN arr : arr[n] # Null}
      place(k) == CHOOSE n \in kept : Cardinality({m \in kept : m <= n}) = k
  IN  [k \in 1 .. Cardinality(kept) |-> arr[place(k)]]

\* No id is in the array twice.
Unique(arr) == \A m, n \in DOMAIN arr : arr[m].id = arr[n].id /\ arr[m].id # None => m = n

Steps == {"put", "sweep", "sweepdel", "reput", "fetch", "patch", "append", "create",
          "verify", "delete", "probe", "delindex"}

TypeOK ==
  /\ exists \in BOOLEAN
  /\ routes \in Seq(Slots)
  /\ exists \/ routes = <<>>
  /\ cache \subseteq AllHosts
  /\ phase \in {"edge", "tail", "serving"}
  /\ pc \in [Procs -> {"idle"} \cup Steps]
  /\ op \in [Procs -> {"none", "add", "tail", "remove"}]
  /\ id \in [Procs -> Ids \cup {None}]
  /\ up \in [Procs -> Upstreams \cup {None}]
  /\ \A p \in Procs : snap[p] \in Seq(Slots)
  /\ restarts \in 0 .. MaxRestarts
  /\ settled \subseteq AllHosts
  /\ alone \subseteq Procs

Init ==
  /\ routes \in Leftovers
  /\ exists \in BOOLEAN
  /\ exists \/ routes = <<>>
  /\ cache = {}
  /\ phase = "edge"
  /\ pc = [p \in Procs |-> "idle"]
  /\ op = [p \in Procs |-> "none"]
  /\ id = [p \in Procs |-> None]
  /\ up = [p \in Procs |-> None]
  /\ snap = [p \in Procs |-> <<>>]
  /\ restarts = 0
  /\ settled = {}
  /\ alone = {}

-----------------------------------------------------------------------------
(* Caddy's side of a write.                                                *)

Become(arr) == routes' = arr /\ exists' = TRUE

\* A write is refused if the array would have an id twice.
Accept(arr) == Unique(arr) /\ Become(arr)

\* DELETE of a slot shrinks the array or leaves a null.
DeleteAt(n) ==
  /\ n \in DOMAIN routes
  /\ Become(Drop(routes, n)) \/ Become([routes EXCEPT ![n] = Null])

-----------------------------------------------------------------------------
(* The calls.                                                              *)

AllIdle == \A p \in Procs : pc[p] = "idle"

Start(p, what, i, u, s) ==
  /\ pc[p] = "idle"
  /\ pc' = [pc EXCEPT ![p] = s]
  /\ op' = [op EXCEPT ![p] = what]
  /\ id' = [id EXCEPT ![p] = i]
  /\ up' = [up EXCEPT ![p] = u]
  /\ settled' = settled \ {i}
  /\ alone' = IF AllIdle /\ what # "tail" THEN {p} ELSE {}
  /\ UNCHANGED caddy
  /\ UNCHANGED <<cache, phase, snap, restarts>>

AddRoute(p, h, u) == phase = "serving" /\ Start(p, "add", h, u, "put")
RemoveRoute(p, h) == phase = "serving" /\ Start(p, "remove", h, None, "delete")

\* initialize makes its two calls one after the other, before it serves.
EnsureEdgeAdminRoute(p, u) ==
  phase = "edge" /\ AllIdle /\ Start(p, "add", Edge, u, "put")
EnsureSessionEndedFallback(p) ==
  phase = "tail" /\ AllIdle /\ Start(p, "tail", Ended, None, "put")

\* A bootstrap call is followed by the next one, whatever it returned.
End(p, how) ==
  /\ pc' = [pc EXCEPT ![p] = "idle"]
  /\ op' = [op EXCEPT ![p] = "none"]
  /\ id' = [id EXCEPT ![p] = None]
  /\ up' = [up EXCEPT ![p] = None]
  /\ snap' = [snap EXCEPT ![p] = <<>>]
  /\ phase' = CASE phase = "edge" -> "tail"
                [] phase = "tail" -> "serving"
                [] OTHER -> phase
  /\ settled' = IF /\ how = "ok"
                   /\ op[p] # "tail"
                   /\ \A q \in Procs \ {p} : id[q] # id[p]
                THEN settled \cup {id[p]} ELSE settled
  /\ alone' = alone \ {p}
  /\ UNCHANGED restarts

Goto(p, s) ==
  /\ pc' = [pc EXCEPT ![p] = s]
  /\ UNCHANGED <<op, id, up, phase, restarts, settled, alone>>

Advance(p, s) == Goto(p, s) /\ UNCHANGED <<snap, cache>>

Read(p) == snap' = [snap EXCEPT ![p] = routes]

body(p) == Entry(id[p], up[p])

\* Mutant: the new route goes to the end.
AppendToArray(p) == Append(WithoutNulls(snap[p]), body(p))

\* Mutant: the new route replaces the others.
ReplaceArray(p) == <<body(p)>>

\* The array add_route PATCHes back: nulls dropped, the new route first.
PrependToArray(p) == <<body(p)>> \o WithoutNulls(snap[p])

\* The write that the call is about to make, when Caddy accepts it.
Write(p) ==
  \/ /\ pc[p] \in {"put", "reput"}
     /\ \E n \in At(routes, id[p]) : Accept([routes EXCEPT ![n] = body(p)])
  \/ pc[p] = "patch" /\ Accept(PrependToArray(p))
  \/ pc[p] = "append" /\ Accept(Append(routes, body(p)))
  \/ pc[p] = "create" /\ Accept(<<body(p)>>)
  \/ pc[p] \in {"sweepdel", "delindex"} /\ \E n \in Last(snap[p], id[p]) : DeleteAt(n)
  \/ pc[p] = "delete" /\ \E n \in At(routes, id[p]) : DeleteAt(n)

\* Mutant: the fallback is listed too.
InstalledAndListed(p) ==
  /\ cache' = cache \cup {id[p]}
  /\ \/ op[p] = "add" /\ Goto(p, "verify") /\ UNCHANGED snap
     \/ op[p] = "tail" /\ End(p, "ok")

\* The route is in: add_route notes it in the cache and verifies; the fallback is
\* done.
Installed(p) ==
  \/ /\ op[p] = "add"
     /\ Goto(p, "verify")
     /\ cache' = cache \cup {id[p]}
     /\ UNCHANGED snap
  \/ /\ op[p] = "tail"
     /\ End(p, "ok")
     /\ UNCHANGED cache

\* put_with_dedup_retry: PUT /id; 404 falls through to the array.
Put(p) ==
  /\ pc[p] \in {"put", "reput"}
  /\ \/ Write(p) /\ Installed(p)
     \/ At(routes, id[p]) = {} /\ UNCHANGED caddy /\ Advance(p, "fetch")

\* A first 400 "duplicate ID" starts the sweep (a second one fails the call).
PutDuplicate(p) ==
  /\ pc[p] = "put"
  /\ At(routes, id[p]) # {}
  /\ UNCHANGED caddy
  /\ Advance(p, "sweep")

\* dedup_id_in_array reads the array ...
Sweep(p) ==
  /\ pc[p] = "sweep"
  /\ \/ /\ At(routes, id[p]) # {}
        /\ Read(p)
        /\ Goto(p, "sweepdel")
        /\ UNCHANGED <<caddy, cache>>
     \/ UNCHANGED caddy /\ Advance(p, "reput")

\* Mutant: the sweep deletes from the head, by the indices of the array it read.
SweepDeleteForward(p) ==
  /\ pc[p] = "sweepdel"
  /\ \E n \in At(snap[p], id[p]) :
       LET rest == [snap[p] EXCEPT ![n] = Null] IN
       /\ \A m \in At(snap[p], id[p]) : n <= m
       /\ DeleteAt(n) \/ UNCHANGED caddy
       /\ IF At(rest, id[p]) = {}
          THEN Goto(p, "reput") /\ snap' = [snap EXCEPT ![p] = <<>>]
          ELSE Goto(p, "sweepdel") /\ snap' = [snap EXCEPT ![p] = rest]
  /\ UNCHANGED cache

\* ... and deletes every entry with the id, from the tail, by its index there; its
\* errors are ignored.
SweepDelete(p) ==
  /\ pc[p] = "sweepdel"
  /\ Write(p) \/ UNCHANGED caddy
  /\ \E n \in Last(snap[p], id[p]) :
       LET rest == [snap[p] EXCEPT ![n] = Null] IN
       IF At(rest, id[p]) = {}
       THEN Goto(p, "reput") /\ snap' = [snap EXCEPT ![p] = <<>>]
       ELSE Goto(p, "sweepdel") /\ snap' = [snap EXCEPT ![p] = rest]
  /\ UNCHANGED cache

\* GET of the array: add_route will PATCH it, the fallback will POST to it,
\* remove_route will look for its index.  No array: PUT one.
Fetch(p) ==
  /\ pc[p] = "fetch"
  /\ \/ /\ exists
        /\ Goto(p, CASE op[p] = "add" -> "patch"
                     [] op[p] = "tail" -> "append"
                     [] op[p] = "remove" -> "delindex")
     \/ ~exists /\ op[p] # "remove" /\ Goto(p, "create")
  /\ Read(p)
  /\ UNCHANGED <<caddy, cache>>

Patch(p) == pc[p] = "patch" /\ Write(p) /\ Installed(p)
PostAppend(p) == pc[p] = "append" /\ Write(p) /\ Installed(p)
CreateArray(p) == pc[p] = "create" /\ Write(p) /\ Installed(p)

\* verify_route_present; a route that is not there fails the call.
Verify(p) ==
  /\ pc[p] = "verify"
  /\ At(routes, id[p]) # {}
  /\ End(p, "ok")
  /\ UNCHANGED caddy
  /\ UNCHANGED cache

\* DELETE /id; Caddy may answer Ok or 404 and still have the entry.
DeleteById(p) ==
  /\ pc[p] = "delete"
  /\ Write(p) \/ UNCHANGED caddy
  /\ Advance(p, "probe")

RemoveDone(p) ==
  /\ End(p, "ok")
  /\ cache' = cache \ {id[p]}

Probe(p) ==
  /\ pc[p] = "probe"
  /\ UNCHANGED caddy
  /\ IF At(routes, id[p]) = {} THEN RemoveDone(p) ELSE Advance(p, "fetch")

\* An id that is not in the array that was read is warned about, and that is it.
DeleteByIndex(p) ==
  /\ pc[p] = "delindex"
  /\ Write(p) \/ (At(snap[p], id[p]) = {} /\ UNCHANGED caddy)
  /\ RemoveDone(p)

\* A request fails: the call returns Err.  A write may have taken effect; a write
\* that Caddy refuses and a verify that finds nothing always end here.
RequestFails(p) ==
  /\ pc[p] \in Steps \ {"sweep", "sweepdel"}
  /\ Write(p) \/ UNCHANGED caddy
  /\ End(p, "err")
  /\ UNCHANGED cache

\* edge-control restarts: its calls and its cache are gone.
Restart ==
  /\ restarts < MaxRestarts
  /\ restarts' = restarts + 1
  /\ phase' = "edge"
  /\ cache' = {}
  /\ pc' = [p \in Procs |-> "idle"]
  /\ op' = [p \in Procs |-> "none"]
  /\ id' = [p \in Procs |-> None]
  /\ up' = [p \in Procs |-> None]
  /\ snap' = [p \in Procs |-> <<>>]
  /\ settled' = {}
  /\ alone' = {}
  /\ UNCHANGED caddy

Next ==
  \/ \E p \in Procs :
       \/ \E h \in Hosts, u \in Upstreams : AddRoute(p, h, u)
       \/ \E h \in Hosts : RemoveRoute(p, h)
       \/ \E u \in Upstreams : EnsureEdgeAdminRoute(p, u)
       \/ EnsureSessionEndedFallback(p)
       \/ Put(p) \/ PutDuplicate(p) \/ Sweep(p) \/ SweepDelete(p)
       \/ Fetch(p) \/ Patch(p) \/ PostAppend(p) \/ CreateArray(p) \/ Verify(p)
       \/ DeleteById(p) \/ Probe(p) \/ DeleteByIndex(p)
       \/ RequestFails(p)
  \/ Restart

Spec == Init /\ [][Next]_vars

-----------------------------------------------------------------------------
(* Properties.                                                             *)

\* The upstream a viewer of host h reaches: Caddy takes the first route that
\* matches, and the catch-all matches every host.
Served(h) ==
  LET match == At(routes, h) \cup At(routes, Ended)
      first == CHOOSE n \in match : \A m \in match : n <= m
  IN  IF match = {} \/ routes[first].id = Ended THEN None ELSE routes[first].up

\* The catch-all never comes before a host's own route, so it cannot shadow a
\* live session, however calls, failures and restarts interleave.
NotShadowed == \A h \in AllHosts : At(routes, h) # {} => Served(h) # None

\* The array that the next request of p rests on, if it rests on one, is still Caddy's:
\* for a PATCH or a PUT of the array all of it, for a DELETE by index where the id is.
Fresh(p) ==
  /\ pc[p] \in {"patch", "create"} => snap[p] = routes
  /\ pc[p] = "sweepdel" => At(snap[p], id[p]) \subseteq At(routes, id[p])
  /\ pc[p] = "delindex" => At(snap[p], id[p]) = At(routes, id[p])

Moved(p) == pc'[p] # pc[p] \/ snap'[p] # snap[p]

\* One call changes what another host serves only by a write that rests on an
\* array it read and that is no longer Caddy's.
OnlyStaleWritesInterfere ==
  [][\A p \in Procs :
       Moved(p) /\ Fresh(p) => \A h \in AllHosts \ {id[p]} : Served(h)' = Served(h)]_vars

\* What RouteTable sees of a call.
CallOf(p) == IF op[p] \in {"add", "remove"} THEN [host |-> id[p], up |-> up[p]]
                                            ELSE [host |-> None, up |-> None]

Table == INSTANCE RouteTable
           WITH Hosts <- AllHosts, Callers <- Procs, table <- [h \in AllHosts |-> Served(h)],
                listed <- cache, busy <- [p \in Procs |-> CallOf(p)],
                doubled <- ~Unique(routes)

\* A call that has been the only one since it began does what RouteTable says: it
\* changes its own host's entry and nothing else, and with its Ok the entry and the list
\* are what was asked for, unless ids were in Caddy's array twice; whatever failed,
\* whatever calls before it left behind, and across restarts.
RouteTableSpec == Table!Spec

\* As long as nobody calls for a host again, what its last call reported as Ok
\* stays true: an added host is routed, a removed one is not ("rather than
\* reporting ok while the route silently went missing").  It does not: another
\* host's PATCH, from an array read before, undoes it.
OkStaysTrue == \A h \in settled : h \in cache <=> Served(h) # None
=============================================================================
