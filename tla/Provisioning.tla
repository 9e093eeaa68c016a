---------------------------- MODULE Provisioning ----------------------------
(***************************************************************************)
(* edge-control: POST /v1/tunnels, DELETE /v1/tunnels/:id and              *)
(* PATCH /v1/tunnels/:id/token (routes/tunnels.rs) over the resources they *)
(* acquire and give back: the port pool, the rathole registry and its      *)
(* config file, Caddy's routes, the SFU's sessions and the session ->      *)
(* subdomain map with its store on disk.  Any number of requests run       *)
(* concurrently; every call of another component is a step that may fail;  *)
(* the process may be restarted (state.rs) and a client may go away, which *)
(* drops the handler where it stands.                                      *)
(*                                                                         *)
(* A session has one subdomain (dun-api mints it with the session), so a   *)
(* route is named by its session.  The registry is seen at the level of    *)
(* DurableTable, which ServiceRegistry implements: a mutation, then a      *)
(* persist that brings the file up to the map, or fails and leaves the old *)
(* file or none.  Caddy is seen as a table with one route per host, which  *)
(* AdminClient's calls read and write in several requests, as CaddyAdmin   *)
(* has them: what one call read is out of date when another call wrote in  *)
(* between, and a write that rests on it changes other sessions' routes.   *)
(***************************************************************************)
EXTENDS Integers

CONSTANTS Sessions, Handlers,
          Ports,        \* the local upstream ports
          None,         \* no port, no session
          MaxRestarts   \* bound on the restarts of edge-control

ASSUME ProvisioningAssumption ==
  /\ Ports \subseteq Int
  /\ None \notin Ports
  /\ None \notin Sessions
  /\ MaxRestarts \in Nat

VARIABLES
  \* memory of the process, lost in a restart
  free,         \* PortAllocator
  services,     \* rathole registry: port of every session's service, or None
  sfu,          \* sessions with a Router
  subdomains,   \* sessions with an entry in session_subdomains
  \* outside the process
  toml,         \* rathole's config file, as services
  routes,       \* Caddy: upstream port of every session's route, or None
  shifted,      \* requests whose place in Caddy's array may have moved since they
                \* read it
  store,        \* sessions with a record in the SubdomainStore
  \* requests
  pc, sess,
  port,         \* local_port of a create
  found,        \* a DELETE took a subdomain mapping
  pend,         \* arms of a DELETE's join! still to run
  snap,         \* the routes that add_route read and will PATCH back
  restarts,
  \* history, read by no action
  faults,       \* what went wrong for each session, see below
  stale         \* sessions whose route outlived the claim on its port

memory == <<free, services, sfu, subdomains>>
caddy == <<routes, shifted>>
outside == <<toml, caddy, store>>
request == <<pc, sess, port, found, pend, snap>>
history == <<faults, stale>>
vars == <<memory, outside, request, restarts, history>>

Pool == INSTANCE PortAllocator

CreateSteps == {"register", "persist", "addroute", "sweep", "reput", "patch",
                "provision", "newrouter", "record", "save"}
RollbackSteps == {"rb_route", "rb_index", "rb_dereg", "rb_persist", "rb_release"}
DeleteSteps == {"unstore", "join"}
Ended == {"ok", "failed", "gone"}
Arms == {"caddy", "index", "dereg", "persist", "rtp", "sfu"}

Tables == [Sessions -> Ports \cup {None}]

\* A table without entries: no route, no service, or no config file to read.
NoEntries == [s \in Sessions |-> None]

TypeOK ==
  /\ free \in SUBSET Ports
  /\ services \in Tables
  /\ sfu \in SUBSET Sessions
  /\ subdomains \in SUBSET Sessions
  /\ toml \in Tables
  /\ routes \in Tables
  /\ shifted \in SUBSET Handlers
  /\ store \in SUBSET Sessions
  /\ pc \in [Handlers -> {"idle", "token"} \cup CreateSteps \cup RollbackSteps
                           \cup DeleteSteps \cup Ended]
  /\ sess \in [Handlers -> Sessions \cup {None}]
  /\ port \in [Handlers -> Ports \cup {None}]
  /\ found \in [Handlers -> BOOLEAN]
  /\ pend \in [Handlers -> SUBSET Arms]
  /\ snap \in [Handlers -> Tables]
  /\ restarts \in 0 .. MaxRestarts
  /\ faults \in [Sessions -> SUBSET {"route", "undone", "save", "race"}]
  /\ stale \in SUBSET Sessions

Init ==
  /\ Pool!PoolInit
  /\ services = NoEntries
  /\ sfu = {}
  /\ subdomains = {}
  /\ toml = NoEntries
  /\ routes = NoEntries
  /\ shifted = {}
  /\ store = {}
  /\ pc = [h \in Handlers |-> "idle"]
  /\ sess = [h \in Handlers |-> None]
  /\ port = [h \in Handlers |-> None]
  /\ found = [h \in Handlers |-> FALSE]
  /\ pend = [h \in Handlers |-> {}]
  /\ snap = [h \in Handlers |-> NoEntries]
  /\ restarts = 0
  /\ faults = [s \in Sessions |-> {}]
  /\ stale = {}

-----------------------------------------------------------------------------
Active(h) == pc[h] \notin {"idle"} \cup Ended
Busy(s) == \E h \in Handlers : Active(h) /\ pc[h] # "token" /\ sess[h] = s

Goto(h, from, to) ==
  /\ pc[h] = from
  /\ pc' = [pc EXCEPT ![h] = to]

\* The locals die with the handler.
End(h, how) ==
  /\ pc' = [pc EXCEPT ![h] = how]
  /\ port' = [port EXCEPT ![h] = None]
  /\ found' = [found EXCEPT ![h] = FALSE]
  /\ pend' = [pend EXCEPT ![h] = {}]
  /\ snap' = [snap EXCEPT ![h] = NoEntries]
  /\ sess' = [sess EXCEPT ![h] = None]

\* faults, a history variable:
\*   "route"  a Caddy call for the session failed or was abandoned
\*   "undone" a call for another session changed the session's route, or a DELETE by
\*            index missed it: a write that rested on an array read earlier
\*   "save"   the session's mapping may not be on disk
\*   "race"   two creates or DELETEs of the session overlapped
Fault(s, kind) == faults' = [faults EXCEPT ![s] = @ \cup {kind}]
NoteRace(s) == IF Busy(s) THEN Fault(s, "race") ELSE UNCHANGED faults

locals == <<sess, port, found, pend, snap>>

\* What a persist that returned Err leaves, and what one may leave whose outcome
\* nobody looks at.
TomlIfFailed == {toml, NoEntries}
TomlEither == TomlIfFailed \cup {services}
-----------------------------------------------------------------------------
(* Requests to Caddy.                                                      *)

Creating(h) == pc[h] \in CreateSteps \cup RollbackSteps

\* The request h is about to make: a PUT or a DELETE of the session's own id, or a
\* DELETE by the index at which the id was read.
Putting(h) == pc[h] \in {"addroute", "reput"}
ByPath(h, route, arm) == pc[h] = route \/ (pc[h] = "join" /\ arm \in pend[h])
Deleting(h) == ByPath(h, "rb_route", "caddy")
ByIndex(h) == pc[h] = "sweep" \/ ByPath(h, "rb_index", "index")

\* The tables that request can make of Caddy's routes.  PUT /id needs the id to be
\* there; the PATCH brings back all that was read, with the new route; an index that
\* no longer fits strikes any route, or none of a session.
Outcomes(h) ==
  CASE Putting(h) /\ routes[sess[h]] # None -> {[routes EXCEPT ![sess[h]] = port[h]]}
    [] pc[h] = "patch" -> {[snap[h] EXCEPT ![sess[h]] = port[h]]}
    [] Deleting(h) -> {[routes EXCEPT ![sess[h]] = None]}
    [] ByIndex(h) -> IF h \in shifted
                     THEN {routes} \cup {[routes EXCEPT ![s] = None] : s \in Sessions}
                     ELSE {[routes EXCEPT ![sess[h]] = None]}
    [] OTHER -> {}

\* A session has a claim on a port: its service or one of its creates holds it.
Holds(s, p) ==
  \/ services[s] = p
  \/ \E h \in Handlers : Creating(h) /\ sess[h] = s /\ port[h] = p

\* h's request makes table of the routes.  A route that comes back after its port was
\* given up is stale.
CaddyBecomes(h, table) ==
  /\ routes' = table
  /\ shifted' = (shifted \cup {g \in Handlers : ByIndex(g)}) \ {h}
  /\ stale' = {s \in Sessions : /\ table[s] # None
                                /\ IF table[s] = routes[s] THEN s \in stale
                                                          ELSE ~Holds(s, table[s])}

\* Its own session's faults become own; another's route that it changed is noted.
Noted(h, table, own) ==
  faults' = [s \in Sessions |->
               IF s = sess[h] THEN own
               ELSE faults[s] \cup (IF table[s] = routes[s] THEN {} ELSE {"undone"})]

\* GET of the array, to DELETE by index from it.
ScanRoutes(h) ==
  /\ routes[sess[h]] # None
  /\ shifted' = shifted \ {h}
  /\ UNCHANGED <<routes, history>>

\* remove_route returns: Ok, though an index that no longer fits may have missed the
\* route, or Err, whether or not the DELETE took effect.
RouteRemoved(h) ==
  \/ \E table \in Outcomes(h) :
       /\ CaddyBecomes(h, table)
       /\ Noted(h, table, IF table[sess[h]] = None
                          THEN faults[sess[h]] \ {"route", "undone"}
                          ELSE faults[sess[h]] \cup {"undone"})
  \/ \E table \in Outcomes(h) \cup {routes} :
       CaddyBecomes(h, table) /\ Noted(h, table, faults[sess[h]] \cup {"route"})

-----------------------------------------------------------------------------
(* create                                                                  *)

\* Step 1, the pool has a port.
CreateAllocate(h, s, p) ==
  /\ Goto(h, "idle", "register")
  /\ Pool!Allocate(p)
  /\ sess' = [sess EXCEPT ![h] = s]
  /\ port' = [port EXCEPT ![h] = p]
  /\ NoteRace(s)
  /\ UNCHANGED <<services, sfu, subdomains, outside, found, pend, snap, restarts, stale>>

\* Step 1, the pool is empty: 503.
CreateExhausted(h) ==
  /\ Goto(h, "idle", "failed")
  /\ Pool!Exhausted
  /\ UNCHANGED <<services, sfu, subdomains, outside, locals, restarts, history>>

\* Mutant: the service listens on the next port.
RegisterOffByOne(h) ==
  /\ Goto(h, "register", "persist")
  /\ services' = [services EXCEPT ![sess[h]] = port[h] + 1]
  /\ UNCHANGED <<free, sfu, subdomains, outside, locals, restarts, history>>

\* Step 2: register inserts the service ...
Register(h) ==
  /\ Goto(h, "register", "persist")
  /\ services' = [services EXCEPT ![sess[h]] = port[h]]
  /\ UNCHANGED <<free, sfu, subdomains, outside, locals, restarts, history>>

\* ... and persists the table; its Err is a 500 that gives nothing back.
PersistRegistered(h) ==
  /\ Goto(h, "persist", "addroute")
  /\ toml' = services
  /\ UNCHANGED <<memory, caddy, store, locals, restarts, history>>

PersistFailed(h) ==
  /\ pc[h] = "persist"
  /\ End(h, "failed")
  /\ toml' \in TomlIfFailed
  /\ UNCHANGED <<memory, caddy, store, restarts, history>>

\* Step 3: add_route.  The PUT finds the id twice: the array is read ...
SweepScan(h) ==
  /\ Goto(h, "addroute", "sweep")
  /\ ScanRoutes(h)
  /\ UNCHANGED <<memory, toml, store, locals, restarts>>

\* ... and the entry deleted by its index, best effort, before the PUT is repeated.
SweepDelete(h) ==
  /\ Goto(h, "sweep", "reput")
  /\ \E table \in Outcomes(h) \cup {routes} :
       CaddyBecomes(h, table) /\ Noted(h, table, faults[sess[h]])
  /\ UNCHANGED <<memory, toml, store, locals, restarts>>

\* The PUT finds no route: the array is read, to be PATCHed back.
ReadRoutes(h) ==
  /\ Putting(h)
  /\ routes[sess[h]] = None
  /\ pc' = [pc EXCEPT ![h] = "patch"]
  /\ snap' = [snap EXCEPT ![h] = routes]
  /\ UNCHANGED <<memory, outside, sess, port, found, pend, restarts, history>>

\* Mutant: a host that has a route keeps it.
PutIfAbsent(h) ==
  /\ Putting(h) \/ pc[h] = "patch"
  /\ pc' = [pc EXCEPT ![h] = "provision"]
  /\ snap' = [snap EXCEPT ![h] = NoEntries]
  /\ \E table \in Outcomes(h) :
       /\ CaddyBecomes(h, IF Putting(h) THEN routes ELSE table)
       /\ Noted(h, table, faults[sess[h]] \ {"route", "undone"})
  /\ UNCHANGED <<memory, toml, store, sess, port, found, pend, restarts>>

\* The PUT or the PATCH is done and verified.
AddRoute(h) ==
  /\ Putting(h) \/ pc[h] = "patch"
  /\ pc' = [pc EXCEPT ![h] = "provision"]
  /\ snap' = [snap EXCEPT ![h] = NoEntries]
  /\ \E table \in Outcomes(h) :
       /\ CaddyBecomes(h, table)
       /\ Noted(h, table, faults[sess[h]] \ {"route", "undone"})
  /\ UNCHANGED <<memory, toml, store, sess, port, found, pend, restarts>>

\* add_route fails before or after its write took effect: 500, nothing is given back.
AddRouteFailed(h) ==
  /\ Putting(h) \/ pc[h] = "patch"
  /\ End(h, "failed")
  /\ \E table \in Outcomes(h) \cup {routes} :
       /\ CaddyBecomes(h, table)
       /\ Noted(h, table, faults[sess[h]] \cup
                          IF table[sess[h]] = routes[sess[h]] THEN {} ELSE {"route"})
  /\ UNCHANGED <<memory, toml, store, restarts>>

\* Step 4: provision_session looks the session up: one that exists is answered
\* from its state, for another a Router is asked for ...
ProvisionLookup(h) ==
  /\ Goto(h, "provision", IF sess[h] \in sfu THEN "record" ELSE "newrouter")
  /\ UNCHANGED <<memory, outside, locals, restarts, history>>

\* ... and put in the map, or in place of a session provisioned meanwhile.
Provision(h) ==
  /\ Goto(h, "newrouter", "record")
  /\ sfu' = sfu \cup {sess[h]}
  /\ UNCHANGED <<free, services, subdomains, outside, locals, restarts, history>>

ProvisionFailed(h) ==
  /\ Goto(h, "newrouter", "rb_route")
  /\ UNCHANGED <<memory, outside, locals, restarts, history>>

\* The rollback after a failed provision_session: remove_route and deregister
\* with their errors ignored, then release.
RollbackRoute(h) ==
  /\ pc[h] \in {"rb_route", "rb_index"}
  /\ pc' = [pc EXCEPT ![h] = "rb_dereg"]
  /\ RouteRemoved(h)
  /\ UNCHANGED <<memory, toml, store, locals, restarts>>

\* remove_route finds the route still there after its DELETE.
RollbackScan(h) ==
  /\ Goto(h, "rb_route", "rb_index")
  /\ ScanRoutes(h)
  /\ UNCHANGED <<memory, toml, store, locals, restarts>>

\* Mutant: the rollback leaves the service registered.
RollbackKeepingService(h) ==
  /\ Goto(h, "rb_dereg", "rb_persist")
  /\ UNCHANGED <<memory, outside, locals, restarts, history>>

RollbackDeregister(h) ==
  /\ Goto(h, "rb_dereg", "rb_persist")
  /\ services' = [services EXCEPT ![sess[h]] = None]
  /\ UNCHANGED <<free, sfu, subdomains, outside, locals, restarts, history>>

RollbackPersist(h) ==
  /\ Goto(h, "rb_persist", "rb_release")
  /\ toml' \in TomlEither
  /\ UNCHANGED <<memory, caddy, store, locals, restarts, history>>

RollbackRelease(h) ==
  /\ pc[h] = "rb_release"
  /\ End(h, "failed")
  /\ Pool!Release(port[h])
  /\ stale' = stale \cup {s \in Sessions : routes[s] = port[h]}
  /\ UNCHANGED <<services, sfu, subdomains, outside, restarts, faults>>

\* Mutant: the mapping goes to disk only.
RecordOnDiskOnly(h) ==
  /\ Goto(h, "record", "save")
  /\ UNCHANGED <<memory, outside, locals, restarts, history>>

\* Step 5: the mapping, in memory and then on disk.
Record(h) ==
  /\ Goto(h, "record", "save")
  /\ subdomains' = subdomains \cup {sess[h]}
  /\ UNCHANGED <<free, services, sfu, outside, locals, restarts, history>>

\* Mutant: save answers Ok without writing.
SaveNowhere(h) ==
  /\ pc[h] = "save"
  /\ End(h, "ok")
  /\ faults' = [faults EXCEPT ![sess[h]] = @ \ {"save"}]
  /\ UNCHANGED <<memory, outside, restarts, stale>>

Save(h) ==
  /\ pc[h] = "save"
  /\ End(h, "ok")
  /\ store' = store \cup {sess[h]}
  /\ faults' = [faults EXCEPT ![sess[h]] = @ \ {"save"}]
  /\ UNCHANGED <<memory, toml, caddy, restarts, stale>>

\* A failed save is logged.  atomic_write unlinks the old record before the
\* rename, so a failure may also cost the record an earlier create left.
SaveFailed(h) ==
  /\ pc[h] = "save"
  /\ End(h, "ok")
  /\ store' \in {store, store \ {sess[h]}}
  /\ Fault(sess[h], "save")
  /\ UNCHANGED <<memory, toml, caddy, restarts, stale>>

Create(h) ==
  \/ CreateExhausted(h)
  \/ \E s \in Sessions, p \in Ports : CreateAllocate(h, s, p)
  \/ Register(h) \/ PersistRegistered(h) \/ PersistFailed(h)
  \/ SweepScan(h) \/ SweepDelete(h) \/ ReadRoutes(h) \/ AddRoute(h) \/ AddRouteFailed(h)
  \/ ProvisionLookup(h) \/ Provision(h) \/ ProvisionFailed(h)
  \/ RollbackScan(h) \/ RollbackRoute(h) \/ RollbackDeregister(h) \/ RollbackPersist(h)
  \/ RollbackRelease(h)
  \/ Record(h) \/ Save(h) \/ SaveFailed(h)

-----------------------------------------------------------------------------
(* deprovision                                                             *)

\* The mapping is looked up and dropped in one step.
DeleteStart(h, s) ==
  /\ Goto(h, "idle", "unstore")
  /\ sess' = [sess EXCEPT ![h] = s]
  /\ found' = [found EXCEPT ![h] = s \in subdomains]
  /\ subdomains' = subdomains \ {s}
  /\ NoteRace(s)
  /\ UNCHANGED <<free, services, sfu, outside, port, pend, snap, restarts, stale>>

\* store.remove, best effort; without a mapping the Caddy arm does nothing.
DeleteUnstore(h) ==
  /\ Goto(h, "unstore", "join")
  /\ store' \in {store, store \ {sess[h]}}
  /\ pend' = [pend EXCEPT ![h] = {"dereg", "rtp", "sfu"} \cup
                                 (IF found[h] THEN {"caddy"} ELSE {})]
  /\ UNCHANGED <<memory, toml, caddy, sess, port, found, snap, restarts, history>>

Arm(h, a) ==
  /\ pc[h] = "join"
  /\ a \in pend[h]
  /\ UNCHANGED <<pc, sess, port, found, snap, restarts>>

ArmDone(h, a) == Arm(h, a) /\ pend' = [pend EXCEPT ![h] = @ \ {a}]

JoinCaddy(h) ==
  /\ ArmDone(h, "caddy") \/ ArmDone(h, "index")
  /\ RouteRemoved(h)
  /\ UNCHANGED <<memory, toml, store>>

JoinScan(h) ==
  /\ Arm(h, "caddy")
  /\ pend' = [pend EXCEPT ![h] = (@ \ {"caddy"}) \cup {"index"}]
  /\ ScanRoutes(h)
  /\ UNCHANGED <<memory, toml, store>>

\* Mutant: only the "-rtp" name is deregistered.
JoinDeregisterRtp(h) ==
  /\ Arm(h, "dereg")
  /\ pend' = [pend EXCEPT ![h] = (@ \ {"dereg"}) \cup {"persist"}]
  /\ UNCHANGED <<memory, outside, history>>

JoinDeregister(h) ==
  /\ Arm(h, "dereg")
  /\ pend' = [pend EXCEPT ![h] = (@ \ {"dereg"}) \cup {"persist"}]
  /\ services' = [services EXCEPT ![sess[h]] = None]
  /\ UNCHANGED <<free, sfu, subdomains, outside, history>>

\* Two persists: deregister's own and that of the "-rtp" name, which is never
\* registered.
JoinPersist(h) ==
  /\ ArmDone(h, "persist") \/ ArmDone(h, "rtp")
  /\ toml' \in TomlEither
  /\ UNCHANGED <<memory, caddy, store, history>>

JoinClose(h) ==
  /\ ArmDone(h, "sfu")
  /\ sfu' = sfu \ {sess[h]}
  /\ UNCHANGED <<free, services, subdomains, outside, history>>

DeleteReturn(h) ==
  /\ pc[h] = "join"
  /\ pend[h] = {}
  /\ End(h, "ok")
  /\ UNCHANGED <<memory, outside, restarts, history>>

Delete(h) ==
  \/ \E s \in Sessions : DeleteStart(h, s)
  \/ DeleteUnstore(h)
  \/ JoinScan(h) \/ JoinCaddy(h) \/ JoinDeregister(h) \/ JoinPersist(h) \/ JoinClose(h)
  \/ DeleteReturn(h)

-----------------------------------------------------------------------------
(* update_token                                                            *)

\* Tokens are ServiceRegistry's business; here a rotation is a persist.
TokenStart(h, s) ==
  /\ services[s] # None
  /\ Goto(h, "idle", "token")
  /\ sess' = [sess EXCEPT ![h] = s]
  /\ UNCHANGED <<memory, outside, port, found, pend, snap, restarts, history>>

\* 404
TokenUnknown(h, s) ==
  /\ services[s] = None
  /\ Goto(h, "idle", "failed")
  /\ UNCHANGED <<memory, outside, locals, restarts, history>>

TokenPersist(h) ==
  /\ pc[h] = "token"
  /\ \/ toml' = services /\ End(h, "ok")
     \/ toml' \in TomlIfFailed /\ End(h, "failed")
  /\ UNCHANGED <<memory, caddy, store, restarts, history>>

Token(h) ==
  \/ TokenPersist(h)
  \/ \E s \in Sessions : TokenStart(h, s) \/ TokenUnknown(h, s)

-----------------------------------------------------------------------------
(* The environment.                                                        *)

\* The awaits at which a handler can stop.  join! polls every arm at once, so
\* deregister's removal and close_session's are behind it by then.
Waiting(h) ==
  \/ pc[h] \in {"persist", "addroute", "sweep", "reput", "patch", "provision",
                "newrouter", "rb_route", "rb_index", "rb_persist", "rb_release", "save",
                "unstore", "token"}
  \/ pc[h] = "join" /\ pend[h] # {} /\ pend[h] \cap {"dereg", "sfu"} = {}

Persisting(h) ==
  \/ pc[h] \in {"persist", "rb_persist", "token"}
  \/ pc[h] = "join" /\ pend[h] \cap {"persist", "rtp"} # {}

\* Whether abandoning h here may leave a route that no mapping leads to.
LeavesRoute(h) ==
  \/ pc[h] \in {"addroute", "sweep", "reput", "patch", "provision", "newrouter",
                "rb_route", "rb_index", "record"}
  \/ pc[h] = "unstore" /\ found[h]
  \/ pc[h] = "join" /\ pend[h] \cap {"caddy", "index"} # {}

\* The client disconnects: axum drops the handler at the await it is at.  A request to
\* Caddy that was under way takes effect or not; a save may have unlinked the old
\* record.
ClientGone(h) ==
  /\ Waiting(h)
  /\ End(h, "gone")
  /\ toml' \in IF Persisting(h) THEN TomlEither ELSE {toml}
  /\ \E table \in Outcomes(h) \cup {routes} :
       /\ CaddyBecomes(h, table)
       /\ Noted(h, table, faults[sess[h]]
                            \cup (IF LeavesRoute(h) THEN {"route"} ELSE {})
                            \cup (IF pc[h] = "save" THEN {"save"} ELSE {}))
  /\ store' \in IF pc[h] = "save" THEN {store, store \ {sess[h]}} ELSE {store}
  /\ UNCHANGED <<memory, restarts>>

\* Sessions whose record is being replaced; after a crash it may be gone.
Saving == {sess[h] : h \in {g \in Handlers : pc[g] = "save"}}

\* A restart starts over with a full pool, no services and no Routers, and reads
\* back the records it can; rathole's file, Caddy and the store are as the calls
\* under way left them (all but one of them cut off before the restart, by ClientGone).
Restart ==
  /\ restarts < MaxRestarts
  /\ restarts' = restarts + 1
  /\ free' = Ports
  /\ services' = NoEntries
  /\ sfu' = {}
  /\ toml' \in IF \E h \in Handlers : Persisting(h) THEN TomlEither ELSE {toml}
  /\ routes' \in {routes} \cup UNION {Outcomes(h) : h \in Handlers}
  /\ shifted' = {}
  /\ \E lost \in SUBSET Saving : store' = store \ lost
  /\ subdomains' \in SUBSET store'
  /\ pc' = [h \in Handlers |-> IF Active(h) THEN "gone" ELSE pc[h]]
  /\ port' = [h \in Handlers |-> None]
  /\ found' = [h \in Handlers |-> FALSE]
  /\ pend' = [h \in Handlers |-> {}]
  /\ snap' = [h \in Handlers |-> NoEntries]
  /\ sess' = [h \in Handlers |-> None]
  /\ faults' = [s \in Sessions |->
       faults[s] \cup (IF \/ \E h \in Handlers : sess[h] = s /\ LeavesRoute(h)
                          \/ s \in Saving \cup (store' \ subdomains')
                          \/ faults[s] \cap {"save", "race"} # {}
                       THEN {"route"} ELSE {})
                 \cup (IF s \in Saving THEN {"save"} ELSE {})
                 \cup (IF routes'[s] # routes[s] THEN {"undone"} ELSE {})]
  /\ stale' = {s \in Sessions : routes'[s] # None}

Next ==
  \/ \E h \in Handlers : Create(h) \/ Delete(h) \/ Token(h) \/ ClientGone(h)
  \/ Restart

Spec == Init /\ [][Next]_vars

-----------------------------------------------------------------------------
(* Properties.                                                             *)

\* No port is promised twice: a port that a running create holds, or that a
\* registered service listens on, is not in the pool and belongs to one session.
PortsExclusive ==
  /\ \A h \in Handlers : Creating(h) => port[h] \in Ports \ free
  /\ \A s \in Sessions : services[s] \notin free
  /\ \A s, t \in Sessions : services[s] = services[t] /\ services[s] # None => s = t
  /\ \A g, h \in Handlers :
       Creating(g) /\ Creating(h) /\ port[g] = port[h] => g = h
  /\ \A h \in Handlers, s \in Sessions :
       Creating(h) /\ services[s] = port[h] => s = sess[h]

\* A viewer's host never leads to another session's tunnel, unless its route
\* outlived the claim on its port: it was there before a restart, a rollback could not
\* remove it before releasing the port, or a PATCH of an array read before brought it
\* back after the port was given up.
NoCrossRouting ==
  \A s, t \in Sessions :
    s # t /\ routes[s] # None /\ routes[s] = services[t] => s \in stale

\* Every Caddy route can be found by a DELETE: its session has a mapping, or a
\* request for it is still running, or a Caddy call for it failed or was cut off, or
\* a write from an array read before brought it back or missed it.
NoOrphanRoute ==
  \A s \in Sessions :
    routes[s] # None =>
      s \in subdomains \/ Busy(s) \/ faults[s] \cap {"route", "undone"} # {}

\* What is mapped in memory is mapped on disk, so a restart keeps it, unless its
\* save failed, is under way, or raced a DELETE of the same session.
MappingOnDisk ==
  \A s \in Sessions :
    s \in subdomains /\ s \notin store =>
      \/ \E h \in Handlers : pc[h] = "save" /\ sess[h] = s
      \/ faults[s] \cap {"save", "race"} # {}

\* A create about to answer 200 has all four resources in place, on one port,
\* provided no other request for the session overlapped it.  Requests for other
\* sessions can spoil two of them only: a persist that fails takes rathole's file
\* away, and a write to Caddy that rests on an array read before changes the route.
CreateComplete ==
  \A h \in Handlers :
    pc[h] = "save" /\ "race" \notin faults[sess[h]] =>
      /\ services[sess[h]] = port[h]
      /\ toml[sess[h]] = port[h] \/ toml = NoEntries
      /\ routes[sess[h]] = port[h] \/ "undone" \in faults[sess[h]]
      /\ sess[h] \in sfu \cap subdomains

\* A DELETE about to answer 204 has left no service, Router or mapping of the session,
\* provided no other request for it overlapped, and a route only if a Caddy call for
\* it failed or was cut off, or a write from an array read before brought it back or
\* missed it.  (Its port it leaves allocated, see PortsComeBack.)
DeleteComplete ==
  \A h \in Handlers :
    pc[h] = "join" /\ pend[h] = {} /\ "race" \notin faults[sess[h]] =>
      /\ services[sess[h]] = None
      /\ sess[h] \notin sfu \cup subdomains
      /\ routes[sess[h]] # None => faults[sess[h]] \cap {"route", "undone"} # {}

\* When every request was answered with success and no session is left, the
\* whole pool is free again ("Best-effort cleanup all components").  It is not:
\* deprovision never calls release, so each session costs a port until the next
\* restart.
PortsComeBack ==
  /\ \A h \in Handlers : pc[h] \in {"idle", "ok"}
  /\ services = NoEntries
  /\ sfu = {}
  /\ subdomains = {}
  => free = Ports

\* A DELETE that finds no mapping, and runs alone, may skip Caddy because the
\* route is already gone.  It is not after a create whose add_route failed late,
\* nor after a DELETE whose remove_route failed: the mapping was never there, or
\* went first, and no later DELETE reaches the route.
SkipMeansGone ==
  \A h \in Handlers :
    /\ pc[h] = "join"
    /\ ~found[h]
    /\ \A g \in Handlers \ {h} : sess[g] # sess[h]
    => routes[sess[h]] = None
=============================================================================
