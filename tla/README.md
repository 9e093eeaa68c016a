# Verification of dun-tunel

TLA+ models of dun-tunel, the edge node of a screen-sharing service: modules
translated from the Rust sources, TLC configurations that check them on small
instances, and TLAPS proofs. `PROJECT.json` lists the components, the runs, the
source lines behind every definition, the hazards, the findings and the theorems.

Check a model with `tlc -config ServiceRegistry.cfg MCServiceRegistry`, a proof
with `tlapm ServiceRegistryProofs.tla`.

## The system

dun-api, the central service, asks an edge to open a *session*: a public host name
that leads viewers through Caddy, a rathole tunnel and a mediasoup SFU to the
owner's machine.

| component | state | operations |
|---|---|---|
| edge-control routes (`routes/tunnels.rs`) | `session_subdomains`, the requests' locals | create, deprovision, update_token |
| subdomain store (`subdomain_store.rs`) | one file per session | save, remove, load_all at boot |
| port allocator (`port_allocator.rs`) | set of free ports | allocate, release |
| rathole registry (`service_registry.rs`, `config_writer.rs`) | DashMap of services, `write_lock`, a TOML file | register, deregister, update_token; each persists the table and reloads rathole |
| Caddy client (`admin_client.rs`) | cache of routes; Caddy's array of routes behind HTTP | add_route, remove_route, two bootstrap routes, TLS policy |
| SFU manager (`router_manager.rs`) | map of sessions; per session a mutex, viewer slots, producers, consumers | provision, close, transports (for a socket or over HTTP), consume, input data, byte counters, source monitor |
| viewer socket (`routes/sfu_ws.rs`) | one task per viewer | handshake, messages, clean-up, callbacks |
| Neko input bridge (`neko_input_bridge.rs`) | registry of admin sockets, control flag, rate window | connect, forward, shutdown |
| bandwidth reporter (`reporter.rs`, `persistence.rs`) | bytes and sequence per session, files | report every interval, reload at boot |
| callback client (`client.rs`) | none (the retry queue is a stub) | send with three attempts |
| snapshot reporter (`snapshot_reporter.rs`) | none | report viewer counts |
| revocation oracle and JWT (`edge-shared`) | cache of answers | verify, fetch |
| viewer gate (`edge-viewer-gate`) | key cache, revocation mirror with ETag | check, poll, refresh |

Interaction: create allocates a port, registers the service, adds the route,
provisions the SFU and records the mapping, in this order; deprovision takes the
mapping away and runs four clean-ups concurrently. Viewers reach the SFU through
`sfu_ws.rs`, which tells dun-api who came and who left. Everything runs as tokio
tasks in one process; there is no lock over a whole request. Caddy and rathole
survive a restart of edge-control; the port pool, the registry and the SFU do not.

What makes it hard, and what "correct" means:

- *Requests interleave at every await, fail half-way, or are dropped by their
  client.* A port must have one owner; a host must lead to its own tunnel; a route
  must stay findable; success must mean that all of it was done.
- *Mutation and persistence of the registry are separate.* Ok must mean on disk;
  no change may be lost silently; rathole must not go back in time.
- *Caddy's array is read, changed and written back without a lock.* A call must not
  disturb another host; the catch-all must stay last; Ok must mean routed.
- *A session can be closed and provisioned again under running viewers.* The cap
  must hold; slots must not outlive connections; connect and disconnect must pair.
- *Callbacks are retried, delayed and dropped; the reporter restarts.* No byte may be
  billed twice, and none lost without a reason; one dead receiver must not stop the
  loop.
- *Input calls and envelopes race.* A viewer must get one producer, a session one
  socket to Neko, Neko one request for control.
- *Revocation is seen through a polled mirror and a cache.* A revoked token must stop
  working within a bound, however polls fail and answers overtake each other.

## Modules

| module | models | notes |
|---|---|---|
| `PortAllocator` | `port_allocator.rs` | used by `Provisioning` through INSTANCE |
| `DurableTable` | what the registry promises | abstract |
| `ServiceRegistry` | `service_registry.rs`, `config_writer.rs` | implements `DurableTable` |
| `ServiceRegistryProofs` | | theorems about `ServiceRegistry` |
| `Provisioning` | `routes/tunnels.rs`, `subdomain_store.rs`, `AppState::initialize` | composes the pool, the registry as `DurableTable` promises it, Caddy's routes as `CaddyAdmin`'s calls read and write them, and the SFU's map |
| `ProvisioningProofs` | | theorems about ports and routes of `Provisioning` |
| `ProvisioningCleanupProofs` | | theorems about what its requests leave behind |
| `RouteTable` | what the Caddy client promises | abstract |
| `CaddyAdmin` | `admin_client.rs`, the bootstrap order of `state.rs` | implements `RouteTable`, which promises something of a call that is alone |
| `CaddyAdminProofs` | | theorems about `CaddyAdmin` |
| `SfuSession` | `router_manager.rs` for one session, `sfu_ws.rs`, `create_router` and the DELETE of a viewer in `sfu.rs` | |
| `SfuSessionProofs` | | theorems about `SfuSession` |
| `Bandwidth` | `reporter.rs`, `persistence.rs`, `client.rs`, the byte counter of `router_manager.rs` | composes the reporter, its files, the callback client, the network and dun-api |
| `BandwidthProofs` | | theorems about `Bandwidth` |
| `InputChannel` | `produce_input_data` of `router_manager.rs`, `neko_input_bridge.rs` | composes the SessionStates with the bridges |
| `InputChannelProofs` | | theorems about `InputChannel` |
| `TokenChecks` | `edge-viewer-gate`, `jwt.rs` and `revocation.rs` of `edge-shared`, `authorize_viewer` | composes the gate, the oracle and dun-api's list |
| `TokenChecksProofs` | | theorems about `TokenChecks` |

`MC*` modules give TLC constants and symmetry sets. An operator with "Mutant:" in
its comment is a deliberately wrong variant of the definition below it and is used
by no specification; `PROJECT.json` names the property that rejects it.

**ServiceRegistry.** `services` is the DashMap. An entry is the number of the write
that produced it, because the properties only ask which write is where. A call is
`Register`, `Deregister` or `UpdateToken` (the change and the entry into
`persist_and_reload`), then `Acquire` (write_lock), one `Scan` per name (the
iterator locks a shard at a time), `WriteTmp`, `RemoveOld`, `RenameTmp`,
`ReloadAndReturn`; `Fail` is every `?`. `ClientGone` is a call dropped at one of its
awaits because the client of its handler went away: while it waits for write_lock, or
under it, where it lets the lock go; a file operation that was under way takes effect
at once or never. `file` keeps the last contents when the config is unlinked
(`present`). A reload by SIGHUP is asynchronous in rathole and taken as atomic here,
which does not change the order of reloads. `acked`, `failed` and `last` are history.

**Provisioning.** One action for each step between two awaits of a handler, and one
for each failure. A persist is one step, as `DurableTable` has it; one that fails
leaves the old file or none. Caddy is a table with one route per session, and
add_route and remove_route are several requests to it, because other sessions' calls
come in between: `ReadRoutes` reads the table into `snap` and `AddRoute` writes it back
with the new route (the PATCH), over whatever was written meanwhile; `SweepScan`,
`RollbackScan` and `JoinScan` read the array to DELETE by index, and once another write
has moved its places (`shifted`) the DELETE strikes any route or none. `Outcomes` is
what the request a handler is about to make can do to the table; a request that fails
or is cut off takes effect or not, at once or never. Only Caddy's nulls, duplicates
and the order of the array are left to `CaddyAdmin`. `join!` is the set `pend` of arms
still to run. `ClientGone` drops a handler at an await; `Restart` forgets the process's
memory and reads the store back. dun-api mints the subdomain with the session, so a
route is named by its session. Caddy starts without session routes. `faults` and
`stale` are history that the properties use to say what excuses what: a Caddy call of
the session that failed or was cut off ("route"), a write from an array read earlier
that changed its route or missed it ("undone"), a save that failed, an overlap of two
requests of the session ("race"), a route that outlived the claim on its port.

**CaddyAdmin.** One action for each HTTP request; `snap` is the array a call has
read. Caddy is external: PUT by id replaces, is refused as a duplicate or is a 404;
DELETE shrinks the array or leaves a null, and may claim success without effect, as
the comments in `admin_client.rs` report; a write whose array has an id twice is
refused. Caddy starts with any of `Leftovers`, the arrays that an earlier run may have
left in `autosave.json`, in which an id may be twice (`admin_client.rs:411-417`); the
sweep deletes every copy, from the tail. `RequestFails` ends a call at any request,
before or after its effect. `RouteTable` promises something only of a call that has
been alone since it began (`alone`), and less as long as ids are there twice
(`doubled`).

**SfuSession.** A Router is a number; `live` is the one in the map, and the
SessionState of an earlier one stays reachable for tasks that looked it up. `lock`
is the mutex of each SessionState. Looking a session up and taking its mutex are two
steps, with `held` the SessionState in between; a locked section without an await is
one step with its lock. Whoever keeps the mutex across an await is there: the making
of transports, the dial to Neko (`InputDial`; the rest of `produce_input_data` is
`InputChannel`'s), the monitor's sample and reprovision, and `get_session_bytes`. A
viewer's handler is the sequence of `pc` values; a viewer of `Guests` is an id used
over HTTP: `create_router` makes it a slot that has no connection, and a DELETE
(`KickViewer`, also of a connection's slot) removes it. `consumers` holds the Router
and the producer each stored consumer was made with. The source monitor's timing is
nondeterministic: after any sample with viewers it may find the producer silent.

**Bandwidth.** One session. `counter` is `get_session_bytes`: the sum over the
viewers of the moment, so it falls when one leaves. The loop goes through `Load`
(`load_all`), `Tick`, `Sample`, one action for each try of the callback (`Answered`,
`TryAgain`, `GiveUp`), the two file steps of a save, and `Ended` with `Remove` for a
session that left the list. A try without an answer arrived, was lost, or is `late`
and arrives at any later time. dun-api is external and modelled from the contract in
`reporter.rs`: only a sequence above the last one counts. `Restart` stops the
process between any two steps. `traffic`, `excused` and `kept` are history.

**InputChannel.** A call of `produce_input_data` is one action for each stretch
between two awaits: the first look at the slot, the producer, the section under the
session's mutex (`Lazy`, `MakeDirect`, `GetBridge`, `Dial`), the consumer, and the
second look. Calls are independent of each other and of `remove_viewer`, which is
what the method itself has to cope with; one WebSocket makes its calls one after
another. An envelope is a task: `Allow` (the rate limiter), `Claim` (the flag),
`SendRequest`, `SendEvent`. `ServerCloses` ends a socket; the code reacts to that
with a log line only.

**TokenChecks.** Time is counted in ticks; the clock waits for requests that are at
their timeout and for a poll that is due. `mirror`, `tag` and `success` are the
gate's copy of the list, `streak` and `due` its back-off, `keys` its key cache. A
request is `CheckFresh` (in strict mode the mirror must be fresh), then `Admit` or
`Reject`, with everything else able to happen in between. A tunnel's verification is
answered from the oracle's `cache` or asks dun-api; two of them may overtake each
other between the answer and `CachePut`. An ETag stands for the list it came with.

## Runs

| run | shows |
|---|---|
| `registry` | Ok means on disk, no silent loss, rathole moves forward, every call returns, refinement of `DurableTable` |
| `provisioning` | exclusive ports, no cross-routing, no orphaned route, mapping on disk, complete creates and DELETEs |
| `provisioning_ports` | finding: deprovision leaks the port |
| `provisioning_skip` | finding: a DELETE skips Caddy while the route is there |
| `caddy` | no shadowing by the catch-all; calls interfere only by stale writes; a call that is alone is as `RouteTable` says |
| `caddy_lost` | finding: a concurrent PATCH undoes a route reported as Ok |
| `sfu` | cap, no ghost viewers, consumers where viewers are, disconnect comes last, slots come back |
| `bandwidth` | no byte billed twice, exactly-once accounting while nothing excuses a loss, the restart contract of the sequence files, every tick ends |
| `input` | one producer for each viewer, one bridge for each SessionState, one request for control, the rate limit in every window, a call waits only for one that runs |
| `tokens` | how long a revoked token still works at the gate and for tunnels; the back-off does not make the mirror stale |
| `tokens_sla` | finding: a revoked tunnel token is accepted for longer than the documented 5 s |
| `sfu_paired` | finding: an error after viewer_connected leaves it unpaired |

Bounds, and why they are enough to reach the interesting cases:

- `registry`: two callers, names a and b, two writes of a and one of b. A write can
  land before, between and after the shard reads of another call, and be overtaken;
  a call may be dropped at each await.
- `provisioning`: two sessions, three requests, two ports, one restart. Two creates
  and a DELETE of one session overlap; the pool runs empty; a restart finds an old
  route whose port is handed out again; a PATCH of one session erases the other's route
  or brings it back, before and after its port was given up. Every excuse of the
  properties is reached, and so is every case without one. A restart before the
  first request would repeat the initial state and is left out (`RestartLater`).
- `caddy`: two calls, two hosts and the edge's own, an upstream that calls ask for and
  an older one in an array with a host in it twice, one restart. The constraint `Parts`
  keeps what needs no overlap from multiplying with what does: at most one null, and
  calls overlap before the restart, once the older copy is gone, after a bootstrap that
  brought the edge's route in or did nothing. `caddy_lost` starts from the catch-all
  alone, so that both calls go through the PATCH. The proofs do without all this.
- `sfu`: two connections and one id over HTTP, cap 1, two racing provisions, two
  Routers, two producers: replacement of a live session, a refused viewer, a guest's
  slot that refuses one, a close under a joining viewer and between the lookup and the
  lock of a consume. `Parts`: one connection consumes and the other dials, the first
  meets the second or the guest, and the monitor does not meet the reporter, since they
  share only the mutex.
- `bandwidth`: six units of traffic of which two make a report, three tries as in the
  code, two provisions, one restart: reports below the limit, a duplicate that
  arrives after the next report, a session that ends and comes back.
- `input`: two viewers, two calls, two envelopes, two SessionStates, a window of two
  ticks with a limit of one: two first calls race for everything that is made once,
  and a call of an old SessionState meets the bridge of the new one.
- `tokens`: eight ticks, an interval of 1, staleness 4, timeouts 1, a cache time of 2,
  a ceiling of 5 that leaves the cap to `max_staleness`; one request at the gate, two
  verifications, two keys. That is time for a first poll, a stretched one, a failed
  one and a stale mirror. The gate and the oracle share only the clock and dun-api's
  list and neither reads the other's state, so the constraint `Apart` explores the
  oracle with a gate that does not poll; the proofs do without it. `tokens_sla` has the
  code's own 5 s and 2 s for the cache and the request.

Deadlock is not checked: requests, writes and Routers are bounded, so each model
comes to an end by design. Progress is stated as liveness instead.

Fairness. `registry`: every started call keeps running (tokio polls woken tasks),
and a waiter that could take `write_lock` again and again takes it, since tokio's
Mutex is first come, first served; that a reload ends is an assumption, as
`reload_via_command` (`service_registry.rs:159-162`) waits for its command without a
timeout. `sfu`: mediasoup's calls return, the monitor's attempts are bounded, and a
handler whose socket is gone goes on; strong fairness for `RemoveViewer` because it
queues for the same kind of mutex. Nothing is assumed of the dial to Neko, which has no
timeout: `SlotsComeBack` has its end as a premise. `bandwidth`: the
reporter's loop keeps running, as a task of the runtime whose requests all have a
timeout of five seconds; that its wait for a session's mutex in `get_session_bytes`
ends is an assumption, with the same exception of a dial. Nothing is assumed of requests arriving, of the network, or of what viewers send.

## Findings

1. **Ports leak** (`tunnels.rs:239`): deprovision never releases the session's port.
2. **Skipped Caddy call** (`tunnels.rs:227`): a missing mapping does not mean that
   the route is gone. `SkipExplainedHolds` proves the extent: only after a Caddy call
   that failed or was cut off, or after a write from an outdated array (finding 3)
   brought the route back or missed it.
3. **Lost route** (`admin_client.rs:177`): the PATCH of the whole array undoes other
   hosts' concurrent changes. In the trace two calls read the same array, the first
   PATCHes, verifies and returns Ok, and the PATCH of the second takes its route away.
   `OnlyStaleWritesInterfere` shows that outdated arrays
   are the only way calls disturb each other, and `OkNeedsFreshWrites` proves what
   would be enough: no id left in Caddy twice, no write from an outdated array, and no
   two calls for one host at a time. `Provisioning` shows what it does to sessions: a
   create that succeeded without a route, a deleted session with one, a host that leads
   to another session's tunnel.
4. **Unpaired connect** (`sfu_ws.rs:185`): an error after `viewer_connected` drops
   the matching `viewer_disconnected`. `GoneExactlyIfOk` proves that nothing else
   does.
5. **Revocation bound** (`edge-shared/src/revocation.rs:80`): a cached answer may be
   older than its entry by the time of a request, so a revoked tunnel token passes for
   up to 7 s where the module's comment says 5 s. `TunnelWindow` is the bound that
   holds.

## Proofs

`ServiceRegistryProofs`, for all callers, names and bounds (`RegistryAssumption`:
the bounds are natural numbers and the special values are distinct): type
correctness, `AckedOnDisk`, `NoSilentLoss`, `AbsentOnlyInWindow`,
`LoadedMovesForward` and the refinement of `DurableTable`, with calls that are dropped
at any await. None of these is
inductive alone. The inductive invariant adds: only the owner of `write_lock` is
past the queue (`LockInv`); what a call must write is in the map already
(`NeedInv`); file, loaded table and acknowledgements are ordered (`FileInv`); a
snapshot is no older than the file and holds the caller's own write (`SnapInv`); the
temporary file is its writer's snapshot (`TmpInv`); after the rename the file holds
the caller's write (`ReloadInv`). `LockComesBack` is the part of `EveryCallReturns`
that needs no fairness: the lock's owner runs, each of its steps brings it closer to
letting go (one more shard, or the next of four stages), being dropped lets it go too,
and nobody else moves it.

`ProvisioningProofs`, for all sessions, handlers, ports and restarts
(`ProvisioningAssumption`): type correctness, `PortsExclusive`, `NoCrossRouting`.
`PortsExclusive` needs `GivenUp` (once the rollback has deregistered, its port is in
no service) to survive the release; `NoCrossRouting` needs `RouteInv`: a route that is
not `stale` leads to a port on which its session still has a claim (`Holds`). A PATCH
from an outdated array may bring any older route back, so the argument cannot rest on
how a route came to be there; `CaddyBecomes` compares it with the claims of the moment.

`ProvisioningCleanupProofs`, from the same assumption: `NoOrphanRoute`,
`MappingOnDisk`, `CreateComplete`, `DeleteComplete`. The invariant says what a create
has put in place (`InPlace`) and a DELETE has taken away (`TakenAway`) at each of its
steps while no other request of its session overlapped it (`OwnerInv`), that an overlap
is always noted (`RaceInv`), and who answers for each route: a mapping, a request that
made the route or took its mapping, or something recorded that excuses it (`Excused`:
a Caddy call that failed or was cut off, or a write from an outdated array) (`ClaimInv`).
`Frame` states once what a step of one request leaves alone, which is all that the
other requests need; a request for another session does change this session's route,
and `OthersNoted` says that it is then on record as "undone".
`SkipExplained` follows from `TakenAway` and from the Caddy arm being run only by a
DELETE that took the mapping (`CaddyArmInv`).

`CaddyAdminProofs`, for all calls, hosts, upstreams and restarts (`CaddyAssumption`:
the ids of hosts, the catch-all and the edge are distinct): type correctness,
`NotShadowed`, `OnlyStaleWritesInterfere`, and the refinement of `RouteTable`, from any
arrays that have hosts with upstreams before the catch-all (`LeftoversAssumption`), ids
twice included. The invariant is that every array, Caddy's own and each one a call has
read, is `Sound`: a host's route has an upstream, and the catch-all comes after the
hosts. Each way to write an array keeps that (`ReplaceSound`, `DropSound`,
`PrependSound`, ...), however old the array is; `CallOk` says what a call at each of its
steps may write. `Moves` describes a call's write once for the action property. The
refinement is proved for overlapping calls too, of which `RouteTable` promises nothing;
for a call that has been alone it needs `LoneInv`: the array on which it rests its
write is still Caddy's, and a call that has only `Verify` ahead has its route in Caddy
and its host in the list; each request is then `Work`, `Ok`, `Err` or no step of
`RouteTable`. More cannot be promised of overlapping calls: finding 3 is the
counterexample. `OkNeedsFreshWrites` says for any number of concurrent calls what is
enough for `OkStaysTrue`: Caddy started with no id twice, every request rests on an
array that is still Caddy's (`FreshWrites`), and no two calls for one host overlap
(`HostsApart`). Its invariant (`HonestInv`): nobody calls for a settled host, list and
Caddy agree on it, and a call that has only `Verify` ahead has its host in the list. No
premise can be dropped: without the first a remove_route may leave a copy, without the
second there is finding 3, without the third a remove_route that overlaps an add_route
of the same host takes it out of the list before the add returns Ok.

`SfuSessionProofs`, for all viewers, provision calls, caps and Routers
(`SfuAssumption`): type correctness, `CapHolds`, `NoGhostViewer`, `DisconnectIsLast`,
`ConsumersWhereViewersAre`. The last needs that a connection has its slot in one Router
only, the one its consumer was made on (`SlotInv`), whatever happened between the lookups
and the locks of consume. `CapHolds` needs that a handler that makes transports
holds the mutex of its SessionState (`LockInv`), so that the room it found is still
there (`CapInv`); `NoGhostViewer` that a slot is inserted once and its handler has
passed the insertion (`SlotInv`); `DisconnectIsLast` which events each step of a
handler has behind it (`EventInv`). `MutexInUse` is the part of `SlotsComeBack` that
needs no fairness: a mutex is held only by a handler that makes transports or dials
Neko, by the monitor or by the reporter, and their next step, the failing one too, lets
it go. `GoneIffOk` says exactly who is announced as gone.

`BandwidthProofs`, for all bounds, tries and limits (`BandwidthAssumption`): type
correctness, `ExactlyOnce`, `SequenceKept`, `NeverOverbilled`. The invariant adds: the counter
has only bytes that there have been, and a report under way has no negative delta
(`CountInv`); while no file was removed, the entry's number is the
file's or one ahead of it, and neither dun-api nor a late request is beyond it
(`SeqInv`); while nothing excuses a loss, dun-api has every report up to the one under
way, and what is late is that one or older (`OrderInv`). `NeverOverbilled` is about a
sum over reports that may be lost, late or refused. Instead of adding up, `Shares`
hands out bytes: each report that dun-api may still count, the bytes billed and the
bytes still ahead of the reporter have disjoint sets of the bytes that there have been
(`PaidInv`), and a cardinality gives the bound. `TickIsBounded` is the part of
`TickEnds` that needs no fairness: `ToGo`, at most Attempts + 5, falls with every step
of the loop inside a tick and is not set back by anything but a restart.

`InputChannelProofs`, for all viewers, calls, envelopes and SessionStates
(`InputAssumption`): type correctness, `SameProducer`, `BridgeShared`,
`OneControlRequest`, `RateBound`, `NoStuckCall`. `SameProducer` needs that a viewer has
a slot in one SessionState only (`SlotInv`); `NoStuckCall`, that whatever a call waits
for is held by a call that has a step to take, follows from `LockInv`; `BridgeShared`
needs that the mutex is held exactly in the section that makes things
(`LockInv`), that what is being made is not there yet (`BridgeInv`), and a count of
the SessionStates with a bridge (`SocketInv`); `OneControlRequest` needs that the task
that turned the flag is alone with it (`ControlInv`). `RateBound` counts what was
admitted, while the code bounds the length of a queue that it prunes at another time:
`WindowInv` places every admitted envelope that is still fresh in a position of its own
in the queue that has its time stamp (`Placed`), which pop_front and push_back keep.

`TokenChecksProofs`, for all tokens, requests, intervals and timeouts
(`TokenAssumption`): type correctness, `StrictWindow`, `StaleOnlyAfterFailure`,
`TunnelWindow`. The argument: an answer lacks only tokens that were revoked after its
poll went out, also when it is "not modified", because the tag is the mirror's own
(`PollInv`); so the mirror is at most one poll behind its last success (`MirrorInv`),
which a strict check compared with the clock (`FreshInv`). The next poll is due within
the cap (`DueInv`), and a cached "not revoked" was at most one request old
(`OracleInv`).

Model-checked only: liveness (`EveryCallReturns`, `SlotsComeBack`, `TickEnds`), which
is out of the prover's reach because it rests on fairness; the proofs give the part of
each that does not. Every other property of the passing runs is proved.

## Not modelled

Bodies of routes, responses and log lines; RTP parameters; cryptography; deployment
files; the proof of concept under `poc/`; code that is a stub (`batch.rs`,
`queue.rs`, `stats.rs`). Of the SFU manager: the source monitor's memory of a session. Of the Caddy
client: the TLS policy array. `shutdown` of the Neko bridge has no caller. The
snapshot reporter keeps no state. The DashMap guards that some methods hold across an
await would need a model of threads and shards. A request or a
file operation that was cut off with its caller takes effect at once or never, not
later. A leftover temporary file in the store, which
`load_all` reads back as an entry, is left out.

## Observations

Met while modelling; the runs do not depend on them.

- `reporter.rs:5-8` promises restart safety, but a tick after a restart that comes
  before the sessions are back takes the loaded sequences for ended sessions and
  removes their files. `SequenceKept` holds for files that nobody removed; `kept` is
  false after `Remove`.
- A delta that was given up after three tries is reported as sent and never billed
  (`excused`); a viewer that leaves between two ticks takes its unreported bytes along.
- `create_router` makes slots that no connection stands behind: they stay, and count
  against the cap, until a DELETE of the id or the end of the session.
- With an id in Caddy's array twice, remove_route may return Ok and leave a copy: its
  fallback stops after the first match (`admin_client.rs:396`), and an add_route of
  every other host is refused until the sweep for that id has run.
- A call of the registry that is dropped while it waits for `write_lock` leaves its
  change in the map and not in the file, until the next call persists it; one dropped
  between unlink and rename leaves no config file.
- A bridge whose socket is dead stays registered, and nothing calls `shutdown`, though
  `neko_input_bridge.rs:47-48` and `203-204` count on it; a failed control/request is
  not repeated; an event of another task may overtake control/request; the dial under
  the session's mutex has no timeout, so a Neko that does not answer keeps every viewer
  of the session from joining and leaving.
- The cap of the polling interval is raised to the interval itself: with an interval
  above half of `max_staleness` the comment on it does not hold, which is the premise
  of `StaleOnlyAfterFailure`. The refresh of the keys has no timeout of its own.
- After a failed reprovision the monitor forgets the session and does not try again
  (`router_manager.rs:1207`), and `snapshot` expects a producer (`1297`). The
  monitor's entry survives a close and a provision between two ticks, which the
  comment at lines 58-60 excludes.

## Plan

1. The source monitor's memory, and a thread-level model of the DashMap guards that
   `remove_viewer`, `viewer_count` and `provision_session` hold across an await.
2. The TLS policy array of `ensure_wildcard_tls_policy`.
