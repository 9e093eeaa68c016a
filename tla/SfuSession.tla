----------------------------- MODULE SfuSession -----------------------------
(***************************************************************************)
(* edge-sfu's RouterManager (router_manager.rs) for one share session, and *)
(* the viewers' WebSocket handlers of edge-control (routes/sfu_ws.rs) that *)
(* call it.  The session may be closed and provisioned again while viewers *)
(* come and go, over WebSockets or over HTTP, the source monitor replaces  *)
(* its producers and the bandwidth reporter reads its counters.            *)
(*                                                                         *)
(* Every provision makes a new Router: a number.  A task that looked the   *)
(* session up keeps its SessionState alive after it left the map, so the   *)
(* state of an earlier Router can still change.  A SessionState has a      *)
(* mutex: looking the session up and taking the mutex are two steps, as    *)
(* others may come in between; a locked section without an await is one.   *)
(***************************************************************************)
EXTENDS Naturals, FiniteSets

CONSTANTS Viewers,          \* viewer ids
          Guests,           \* the ones used over HTTP; the others are connections
          Calls,            \* concurrent provision_session calls
          Monitor, Reporter, Nobody,
          Cap,              \* VIEWER_CAP_PER_SESSION
          MaxRouters,       \* bound on the Routers created
          MaxProducers      \* bound on the video producers created

ASSUME SfuAssumption ==
  /\ Guests \subseteq Viewers
  /\ Monitor \notin Viewers
  /\ Reporter \notin Viewers \cup {Monitor}
  /\ Nobody \notin Viewers \cup {Monitor, Reporter}
  /\ Cap \in Nat
  /\ MaxRouters \in Nat
  /\ MaxProducers \in Nat

VARIABLES
  live,         \* the Router in the sessions map, 0 if none
  routers,      \* Routers created so far
  lock,         \* who holds each SessionState's mutex
  viewers,      \* the viewer slots of each
  producer,     \* its video producer, 0 if absent
  producers,    \* producers created so far
  consumers,    \* consumers stored in each viewer slot: Router and producer
  calls,        \* provision_session calls past their lookup
  pc,           \* viewers' handlers
  held,         \* the Router whose SessionState a handler looked up
  made,         \* the Router its new consumer was made on
  told,         \* the producer its Init named
  slot,         \* run_session returned Ok(true)
  mon,          \* the source monitor
  monHeld,      \* the Router it works on
  connected, disconnected   \* viewer events sent to dun-api

session == <<live, routers, viewers, producer, producers, consumers>>
handlers == <<pc, held, made, told, slot>>
events == <<connected, disconnected>>
vars == <<session, lock, calls, handlers, mon, monHeld, events>>

Routers == 1 .. MaxRouters
ViewerSteps == {"start", "lock", "transports", "announce", "info", "init", "loop",
                "find", "consume", "store", "input", "dial", "remove", "bye", "done"}
MonitorSteps == {"idle", "sample", "stats", "starved", "drop", "recreate"}

TypeOK ==
  /\ live \in 0 .. routers
  /\ routers \in 0 .. MaxRouters
  /\ lock \in [Routers -> Viewers \cup {Monitor, Reporter, Nobody}]
  /\ viewers \in [Routers -> SUBSET Viewers]
  /\ producers \in 0 .. MaxProducers
  /\ producer \in [Routers -> 0 .. MaxProducers]
  /\ consumers \in [Routers -> [Viewers -> SUBSET (Routers \X (1 .. MaxProducers))]]
  /\ calls \in SUBSET Calls
  /\ pc \in [Viewers -> ViewerSteps]
  /\ held \in [Viewers -> 0 .. MaxRouters]
  /\ made \in [Viewers -> 0 .. MaxRouters]
  /\ told \in [Viewers -> 0 .. MaxProducers]
  /\ slot \in [Viewers -> BOOLEAN]
  /\ mon \in MonitorSteps
  /\ monHeld \in 0 .. MaxRouters
  /\ connected \in SUBSET Viewers
  /\ disconnected \in SUBSET Viewers

Init ==
  /\ live = 0
  /\ routers = 0
  /\ lock = [g \in Routers |-> Nobody]
  /\ viewers = [g \in Routers |-> {}]
  /\ producer = [g \in Routers |-> 0]
  /\ producers = 0
  /\ consumers = [g \in Routers |-> [v \in Viewers |-> {}]]
  /\ calls = {}
  /\ pc = [v \in Viewers |-> "start"]
  /\ held = [v \in Viewers |-> 0]
  /\ made = [v \in Viewers |-> 0]
  /\ told = [v \in Viewers |-> 0]
  /\ slot = [v \in Viewers |-> FALSE]
  /\ mon = "idle"
  /\ monHeld = 0
  /\ connected = {}
  /\ disconnected = {}

-----------------------------------------------------------------------------
(* provision_session and close_session.                                    *)

\* The session is not in the map; mediasoup is asked for a Router.  A session
\* that is there is answered from its state, which changes nothing.
ProvisionLookup(c) ==
  /\ live = 0
  /\ c \notin calls
  /\ calls' = calls \cup {c}
  /\ UNCHANGED <<session, lock, handlers, mon, monHeld, events>>

\* The map is not looked at again: a session provisioned meanwhile is replaced.
ProvisionInsert(c) ==
  /\ c \in calls
  /\ routers < MaxRouters
  /\ producers < MaxProducers
  /\ calls' = calls \ {c}
  /\ routers' = routers + 1
  /\ producers' = producers + 1
  /\ live' = routers + 1
  /\ producer' = [producer EXCEPT ![routers + 1] = producers + 1]
  /\ UNCHANGED <<viewers, consumers, lock, handlers, mon, monHeld, events>>

ProvisionFails(c) ==
  /\ c \in calls
  /\ calls' = calls \ {c}
  /\ UNCHANGED <<session, lock, handlers, mon, monHeld, events>>

\* close_session takes the entry out of the map, then waits for the mutex and
\* changes nothing more.
CloseSession ==
  /\ live # 0
  /\ live' = 0
  /\ UNCHANGED <<routers, viewers, producer, producers, consumers, lock, calls,
                 handlers, mon, monHeld, events>>

-----------------------------------------------------------------------------
(* A viewer's connection: ws_handler and run_session.  A guest's request,  *)
(* create_router, makes a slot in the same way and is over with it.        *)

Goto(v, from, to) ==
  /\ pc[v] = from
  /\ pc' = [pc EXCEPT ![v] = to]

\* The session is looked up, and its SessionState kept for the next step.
Find(v, from, to) ==
  /\ live # 0
  /\ Goto(v, from, to)
  /\ held' = [held EXCEPT ![v] = live]

\* Nobody has the mutex of the SessionState that v looked up.
Free(v) == lock[held[v]] = Nobody

\* run_session is over: its result, and what it held is let go.  A guest's request
\* is over, and another with its id may come.
Leave(v, from, ok) ==
  /\ Goto(v, from, IF v \in Guests THEN "start" ELSE "remove")
  /\ slot' = [slot EXCEPT ![v] = ok]
  /\ held' = [held EXCEPT ![v] = 0]
  /\ told' = [told EXCEPT ![v] = 0]
  /\ UNCHANGED made

\* create_consumer_transports looks the session up ...
Lookup(v) ==
  /\ \/ Find(v, "start", "lock") /\ UNCHANGED <<made, told, slot>>
     \/ live = 0 /\ Leave(v, "start", FALSE)
  /\ UNCHANGED <<session, lock, calls, mon, monHeld, events>>

Full(g) == Cardinality(viewers[g]) >= Cap

\* Mutant: the mutex is let go before the transports are made.
CheckCapUnlocked(v) ==
  /\ Goto(v, "lock", "transports")
  /\ Free(v)
  /\ ~Full(held[v])
  /\ UNCHANGED <<session, lock, calls, held, made, told, slot, mon, monHeld, events>>

\* ... takes its mutex and checks the cap ...
CheckCap(v) ==
  /\ Goto(v, "lock", "transports")
  /\ Free(v)
  /\ ~Full(held[v])
  /\ lock' = [lock EXCEPT ![held[v]] = v]
  /\ UNCHANGED <<session, calls, held, made, told, slot, mon, monHeld, events>>

\* Mutant: the refused viewer counts as admitted.
CapReachedOk(v) ==
  /\ pc[v] = "lock"
  /\ Free(v)
  /\ Full(held[v])
  /\ Leave(v, "lock", TRUE)
  /\ UNCHANGED <<session, lock, calls, mon, monHeld, events>>

CapReached(v) ==
  /\ pc[v] = "lock"
  /\ Free(v)
  /\ Full(held[v])
  /\ Leave(v, "lock", FALSE)
  /\ UNCHANGED <<session, lock, calls, mon, monHeld, events>>

\* ... and, with two transports made under the mutex, inserts the slot; one of an
\* earlier request with the id is replaced.
InsertSlot(v) ==
  /\ Goto(v, "transports", IF v \in Guests THEN "start" ELSE "announce")
  /\ viewers' = [viewers EXCEPT ![held[v]] = @ \cup {v}]
  /\ lock' = [lock EXCEPT ![held[v]] = Nobody]
  /\ held' = [held EXCEPT ![v] = 0]
  /\ UNCHANGED <<live, routers, producer, producers, consumers, calls, made, told, slot,
                 mon, monHeld, events>>

\* Mutant: the mutex is not released on the error path.
TransportsFailLocked(v) ==
  /\ Leave(v, "transports", FALSE)
  /\ UNCHANGED <<session, lock, calls, mon, monHeld, events>>

\* A transport is refused, or a guest's client goes away.
TransportsFail(v) ==
  /\ Leave(v, "transports", FALSE)
  /\ lock' = [lock EXCEPT ![held[v]] = Nobody]
  /\ UNCHANGED <<session, calls, mon, monHeld, events>>

\* viewer_connected, whose failure is logged; then session_producer_info looks the
\* session up ...
Announce(v) ==
  /\ pc[v] = "announce"
  /\ connected' = connected \cup {v}
  /\ \/ Find(v, "announce", "info") /\ UNCHANGED <<made, told, slot>>
     \/ live = 0 /\ Leave(v, "announce", FALSE)
  /\ UNCHANGED <<session, lock, calls, mon, monHeld, disconnected>>

\* Mutant: an absent producer is not an error.
ProducerInfoUnchecked(v) ==
  /\ Goto(v, "info", "init")
  /\ Free(v)
  /\ told' = [told EXCEPT ![v] = producer[held[v]]]
  /\ held' = [held EXCEPT ![v] = 0]
  /\ UNCHANGED <<session, lock, calls, made, slot, mon, monHeld, events>>

\* ... and takes the mutex; no producer is an error.
ProducerInfo(v) ==
  /\ pc[v] = "info"
  /\ Free(v)
  /\ \/ /\ producer[held[v]] # 0
        /\ Goto(v, "info", "init")
        /\ told' = [told EXCEPT ![v] = producer[held[v]]]
        /\ held' = [held EXCEPT ![v] = 0]
        /\ UNCHANGED <<made, slot>>
     \/ producer[held[v]] = 0 /\ Leave(v, "info", FALSE)
  /\ UNCHANGED <<session, lock, calls, mon, monHeld, events>>

SendInit(v) ==
  /\ Goto(v, "init", "loop")
  /\ UNCHANGED <<session, lock, calls, held, made, told, slot, mon, monHeld, events>>

\* Consume: the session is looked up ...
ConsumeLookup(v) ==
  /\ Find(v, "loop", "find")
  /\ UNCHANGED <<session, lock, calls, made, told, slot, mon, monHeld, events>>

\* ... the transport is taken from the slot ...
ConsumeStart(v) ==
  /\ Goto(v, "find", "consume")
  /\ Free(v)
  /\ v \in viewers[held[v]]
  /\ UNCHANGED <<session, lock, calls, held, made, told, slot, mon, monHeld, events>>

\* ... mediasoup makes the consumer if it still has the producer, and the session is
\* looked up again ...
ConsumeMade(v) ==
  /\ Find(v, "consume", "store")
  /\ told[v] = producer[held[v]]
  /\ made' = [made EXCEPT ![v] = held[v]]
  /\ UNCHANGED <<session, lock, calls, told, slot, mon, monHeld, events>>

\* The request is over, and the loop goes on.
Answered(v, from) ==
  /\ Goto(v, from, "loop")
  /\ held' = [held EXCEPT ![v] = 0]
  /\ made' = [made EXCEPT ![v] = 0]

\* Mutant: the slot is made anew if it is gone.
ConsumeStoreAnyway(v) ==
  /\ Answered(v, "store")
  /\ Free(v)
  /\ consumers' = [consumers EXCEPT ![held[v]][v] = @ \cup {<<made[v], told[v]>>}]
  /\ UNCHANGED <<live, routers, viewers, producer, producers, lock, calls, told,
                 slot, mon, monHeld, events>>

\* ... and the consumer is stored in the slot it has there.
ConsumeStore(v) ==
  /\ Answered(v, "store")
  /\ Free(v)
  /\ v \in viewers[held[v]]
  /\ consumers' = [consumers EXCEPT ![held[v]][v] = @ \cup {<<made[v], told[v]>>}]
  /\ UNCHANGED <<live, routers, viewers, producer, producers, lock, calls, told,
                 slot, mon, monHeld, events>>

\* ProduceInput: produce_input_data looks the session up ...
InputLookup(v) ==
  /\ Find(v, "loop", "input")
  /\ UNCHANGED <<session, lock, calls, made, told, slot, mon, monHeld, events>>

\* ... and keeps the mutex while the direct transport is made and Neko is dialled,
\* for which there is no timeout; InputChannel has the rest of the call.
InputDial(v) ==
  /\ Goto(v, "input", "dial")
  /\ Free(v)
  /\ lock' = [lock EXCEPT ![held[v]] = v]
  /\ UNCHANGED <<session, calls, held, made, told, slot, mon, monHeld, events>>

InputDone(v) ==
  /\ Answered(v, "dial")
  /\ lock' = [lock EXCEPT ![held[v]] = Nobody]
  /\ UNCHANGED <<session, calls, told, slot, mon, monHeld, events>>

\* An error on the way is answered with a message, and the loop goes on.
RequestFails(v) ==
  /\ \E from \in {"find", "consume", "store", "input"} : Answered(v, from)
  /\ UNCHANGED <<session, lock, calls, told, slot, mon, monHeld, events>>

\* The viewer closes, or recv fails: Ok(true).
SocketClosed(v) ==
  /\ Leave(v, "loop", TRUE)
  /\ UNCHANGED <<session, lock, calls, mon, monHeld, events>>

\* A send fails, of Init or of an answer: `?` makes it an Err.
SendFails(v) ==
  /\ Leave(v, "init", FALSE) \/ Leave(v, "loop", FALSE)
  /\ UNCHANGED <<session, lock, calls, mon, monHeld, events>>

\* Mutant: remove_viewer is called only for a viewer that was admitted.
RemoveViewerIfSlot(v) ==
  /\ Goto(v, "remove", IF slot[v] THEN "bye" ELSE "done")
  /\ viewers' = [g \in Routers |->
                   IF g = live /\ slot[v] THEN viewers[g] \ {v} ELSE viewers[g]]
  /\ UNCHANGED <<live, routers, producer, producers, consumers, lock, calls, held, made,
                 told, slot, mon, monHeld, events>>

\* remove_viewer, in the session that is in the map now: it keeps the map's entry
\* while it waits for the mutex, so nothing comes in between.
RemoveViewer(v) ==
  /\ live # 0 => lock[live] = Nobody
  /\ Goto(v, "remove", IF slot[v] THEN "bye" ELSE "done")
  /\ viewers' = [g \in Routers |-> IF g = live THEN viewers[g] \ {v} ELSE viewers[g]]
  /\ consumers' = [g \in Routers |->
                     IF g = live THEN [consumers[g] EXCEPT ![v] = {}] ELSE consumers[g]]
  /\ UNCHANGED <<live, routers, producer, producers, lock, calls, held, made, told, slot,
                 mon, monHeld, events>>

\* The DELETE of a viewer by its id: a guest's slot, or that of a connection that is
\* running, whose handler finds out by the errors of its next calls.
KickViewer(v) ==
  /\ live # 0
  /\ lock[live] = Nobody
  /\ v \in viewers[live]
  /\ viewers' = [viewers EXCEPT ![live] = @ \ {v}]
  /\ consumers' = [consumers EXCEPT ![live][v] = {}]
  /\ UNCHANGED <<live, routers, producer, producers, lock, calls, handlers, mon,
                 monHeld, events>>

Goodbye(v) ==
  /\ Goto(v, "bye", "done")
  /\ disconnected' = disconnected \cup {v}
  /\ UNCHANGED <<session, lock, calls, held, made, told, slot, mon, monHeld, connected>>

Viewer(v) ==
  \/ Lookup(v) \/ CheckCap(v) \/ CapReached(v) \/ InsertSlot(v) \/ TransportsFail(v)
  \/ Announce(v) \/ ProducerInfo(v) \/ SendInit(v)
  \/ ConsumeLookup(v) \/ ConsumeStart(v) \/ ConsumeMade(v) \/ ConsumeStore(v)
  \/ InputLookup(v) \/ InputDial(v) \/ InputDone(v) \/ RequestFails(v)
  \/ SocketClosed(v) \/ SendFails(v) \/ RemoveViewer(v) \/ Goodbye(v)

-----------------------------------------------------------------------------
(* The source monitor: producer_sample and reprovision_plain_producer; and *)
(* the bandwidth reporter's get_session_bytes.                             *)

\* The monitor looks the session up.
MonitorFinds(to) == live # 0 /\ mon' = to /\ monHeld' = live

Unlock(to) == mon' = to /\ monHeld' = 0 /\ lock' = [lock EXCEPT ![monHeld] = Nobody]

SampleLookup ==
  /\ mon = "idle"
  /\ MonitorFinds("sample")
  /\ UNCHANGED <<session, lock, calls, handlers, events>>

\* The mutex is kept while mediasoup is asked for the producer's statistics.
SampleStart ==
  /\ mon = "sample"
  /\ lock[monHeld] = Nobody
  /\ \/ /\ producer[monHeld] # 0
        /\ mon' = "stats"
        /\ lock' = [lock EXCEPT ![monHeld] = Monitor]
        /\ UNCHANGED monHeld
     \/ producer[monHeld] = 0 /\ mon' = "idle" /\ monHeld' = 0 /\ UNCHANGED lock
  /\ UNCHANGED <<session, calls, handlers, events>>

\* The sample may show a producer silent for too long, with viewers present.
SampleEnd ==
  /\ mon = "stats"
  /\ Unlock("idle") \/ (viewers[monHeld] # {} /\ Unlock("starved"))
  /\ UNCHANGED <<session, calls, handlers, events>>

\* Without a session it gives up.
ReprovisionLookup ==
  /\ mon = "starved"
  /\ MonitorFinds("drop") \/ (live = 0 /\ mon' = "idle" /\ UNCHANGED monHeld)
  /\ UNCHANGED <<session, lock, calls, handlers, events>>

\* The old producers are dropped first.
DropProducer ==
  /\ mon = "drop"
  /\ lock[monHeld] = Nobody
  /\ mon' = "recreate"
  /\ lock' = [lock EXCEPT ![monHeld] = Monitor]
  /\ producer' = [producer EXCEPT ![monHeld] = 0]
  /\ UNCHANGED <<live, routers, viewers, producers, consumers, calls, handlers,
                 monHeld, events>>

Recreate ==
  /\ mon = "recreate"
  /\ producers < MaxProducers
  /\ producers' = producers + 1
  /\ producer' = [producer EXCEPT ![monHeld] = producers + 1]
  /\ Unlock("idle")
  /\ UNCHANGED <<live, routers, viewers, consumers, calls, handlers, events>>

\* Twelve attempts at the old port failed, or producing did.
RecreateFails ==
  /\ mon = "recreate"
  /\ Unlock("idle")
  /\ UNCHANGED <<session, calls, handlers, events>>

\* get_session_bytes keeps the mutex while mediasoup is asked for the statistics of
\* every viewer, on any SessionState it may have looked up; one loop calls it.
BytesStart(g) ==
  /\ g <= routers
  /\ lock[g] = Nobody
  /\ viewers[g] # {}
  /\ \A k \in Routers : lock[k] # Reporter
  /\ lock' = [lock EXCEPT ![g] = Reporter]
  /\ UNCHANGED <<session, calls, handlers, mon, monHeld, events>>

BytesEnd(g) ==
  /\ lock[g] = Reporter
  /\ lock' = [lock EXCEPT ![g] = Nobody]
  /\ UNCHANGED <<session, calls, handlers, mon, monHeld, events>>

Next ==
  \/ \E c \in Calls : ProvisionLookup(c) \/ ProvisionInsert(c) \/ ProvisionFails(c)
  \/ CloseSession
  \/ \E v \in Viewers : Viewer(v) \/ KickViewer(v)
  \/ SampleLookup \/ SampleStart \/ SampleEnd
  \/ ReprovisionLookup \/ DropProducer \/ Recreate \/ RecreateFails
  \/ \E g \in Routers : BytesStart(g) \/ BytesEnd(g)

Spec == Init /\ [][Next]_vars

\* What the runtime keeps running: calls of mediasoup return, the mutex is handed over
\* in the order of arrival, and a handler whose socket is gone goes on to its end.
\* Nothing bounds the dial to Neko.
Fairness ==
  /\ WF_vars(Recreate \/ RecreateFails)
  /\ WF_vars(SampleEnd)
  /\ \A g \in Routers : WF_vars(BytesEnd(g))
  /\ \A v \in Viewers : WF_vars(InsertSlot(v) \/ TransportsFail(v))
  /\ \A v \in Viewers \ Guests : SF_vars(RemoveViewer(v)) /\ WF_vars(Goodbye(v))

FairSpec == Spec /\ Fairness

-----------------------------------------------------------------------------
(* Properties.                                                             *)

\* No Router ever has more viewers than the cap.
CapHolds == \A g \in Routers : Cardinality(viewers[g]) <= Cap

\* Handlers that may hold a slot.
Connected(v) == pc[v] \in {"announce", "info", "init", "loop", "find", "consume", "store",
                           "input", "dial", "remove"}

\* viewer_count, which the cap and the snapshot reporter go by, counts only
\* connections that are still running, also across close and provision, and the slots
\* made over HTTP, which stay until a DELETE or the close.
NoGhostViewer ==
  /\ live # 0 => \A v \in viewers[live] : v \in Guests \/ Connected(v)
  /\ \A v \in Viewers \ Guests, g, k \in Routers : v \in viewers[g] \cap viewers[k] => g = k

\* Whatever happens between the two lookups and the two locks of consume, a consumer
\* is stored only in a slot of its viewer, and under the Router whose transport it was
\* made on.
ConsumersWhereViewersAre ==
  \A g \in Routers, v \in Viewers :
    \A c \in consumers[g][v] : v \in viewers[g] /\ c[1] = g

\* dun-api never hears that a viewer left who had not come, or who still has a
\* slot in the live session.
DisconnectIsLast ==
  \A v \in disconnected :
    v \in connected /\ (live # 0 => v \notin viewers[live])

\* The mutex of g is kept by a handler that dials Neko.
Dialling(g) == \E v \in Viewers : lock[g] = v /\ pc[v] = "dial"

\* Every connection that ended gives its slot back, unless a dial to Neko never
\* returns, which keeps the mutex of the live session: nothing else keeps it.
SlotsComeBack ==
  []<>(live # 0 => ~Dialling(live))
    => \A v \in Viewers \ Guests : pc[v] = "remove" ~> pc[v] = "done"

\* "The disconnect counterpart fires unconditionally in the outer handler": a
\* viewer announced to dun-api is announced as gone when its handler is over.  It
\* is not when run_session ends with an error: the slot counts as not acquired.
ConnectIsPaired ==
  \A v \in Viewers : pc[v] = "done" /\ v \in connected => v \in disconnected
=============================================================================
