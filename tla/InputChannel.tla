---------------------------- MODULE InputChannel ----------------------------
(***************************************************************************)
(* The viewers' input of one share session: produce_input_data of          *)
(* RouterManager (router_manager.rs) and the NekoInputBridge               *)
(* (neko_input_bridge.rs) that carries the envelopes to the browser's Neko *)
(* server.                                                                 *)
(*                                                                         *)
(* A provision of the session makes a new SessionState: a number.  A call  *)
(* looks the session up once and keeps that SessionState.  Calls are       *)
(* independent of each other and of remove_viewer, as the method allows    *)
(* for; the messages of one WebSocket make them one after the other.       *)
(* A bridge is a number too: the sockets opened so far.                    *)
(***************************************************************************)
EXTENDS Integers, Sequences, FiniteSets

CONSTANTS Viewers, Calls, Envelopes, Nobody,
          MaxStates,     \* bound on the SessionStates
          MaxTime,       \* bound on the clock
          RateWindow,    \* RATE_WINDOW
          MaxEvents      \* MAX_EVENTS_PER_SECOND

ASSUME InputAssumption ==
  /\ Nobody \notin Viewers \cup Calls
  /\ MaxStates \in Nat
  /\ MaxTime \in Nat
  /\ RateWindow \in Nat \ {0}
  /\ MaxEvents \in Nat \ {0}

VARIABLES
  live,        \* the SessionState in the sessions map, 0 if none
  states,      \* SessionStates made so far
  joined,      \* viewers that have had a slot
  slots,       \* viewer slots of each SessionState
  producer,    \* the call whose producer and consumer a slot holds
  lock,        \* who holds each SessionState's mutex
  directs,     \* direct transports made for each
  bridge,      \* its input_bridge, 0 if none
  call,        \* produce_input_data calls
  registry,    \* the bridge registered for the session, 0 if none
  opened,      \* admin sockets opened so far
  closed,      \* those the Neko server has closed
  claimed,     \* bridges whose control_held is set
  requests,    \* control/request messages Neko got on each
  window,      \* the rate limiter of each
  task,        \* forward tasks, one for each envelope
  now

session == <<live, states, joined, slots, producer>>
made == <<directs, bridge>>
sockets == <<registry, opened, closed>>
forwarding == <<claimed, requests, window, task>>
vars == <<session, lock, made, call, sockets, forwarding, now>>

States == 1 .. MaxStates
Bridges == 1 .. MaxStates    \* see BridgeShared
CallSteps == {"new", "check", "produce", "lazy", "direct", "bridge", "connect",
              "consume", "store", "ok", "err"}
TaskSteps == {"unsent", "gate", "claim", "request", "event", "sent", "dropped", "failed"}

TypeOK ==
  /\ live \in 0 .. states
  /\ states \in 0 .. MaxStates
  /\ joined \subseteq Viewers
  /\ slots \in [States -> SUBSET Viewers]
  /\ producer \in [Viewers -> Calls \cup {Nobody}]
  /\ lock \in [States -> Calls \cup {Nobody}]
  /\ directs \in [States -> 0 .. 1]
  /\ bridge \in [States -> 0 .. MaxStates]
  /\ call \in [Calls -> [pc : CallSteps, viewer : Viewers \cup {Nobody},
                         state : 0 .. MaxStates, bridge : 0 .. MaxStates,
                         result : Calls \cup {Nobody}]]
  /\ registry \in 0 .. opened
  /\ opened \in 0 .. MaxStates
  /\ closed \subseteq 1 .. opened
  /\ claimed \subseteq 1 .. opened
  /\ requests \in [Bridges -> Nat]
  /\ window \in [Bridges -> Seq(0 .. MaxTime)]
  /\ task \in [Envelopes -> [pc : TaskSteps, bridge : 0 .. MaxStates,
                             at : -1 .. MaxTime]]
  /\ now \in 0 .. MaxTime

Init ==
  /\ live = 0 /\ states = 0 /\ joined = {}
  /\ slots = [s \in States |-> {}]
  /\ producer = [v \in Viewers |-> Nobody]
  /\ lock = [s \in States |-> Nobody]
  /\ directs = [s \in States |-> 0]
  /\ bridge = [s \in States |-> 0]
  /\ call = [c \in Calls |-> [pc |-> "new", viewer |-> Nobody, state |-> 0,
                              bridge |-> 0, result |-> Nobody]]
  /\ registry = 0 /\ opened = 0 /\ closed = {}
  /\ claimed = {}
  /\ requests = [b \in Bridges |-> 0]
  /\ window = [b \in Bridges |-> <<>>]
  /\ task = [e \in Envelopes |-> [pc |-> "unsent", bridge |-> 0, at |-> -1]]
  /\ now = 0

-----------------------------------------------------------------------------
(* The session and its viewers, as far as input goes.                      *)

Provision ==
  /\ live = 0
  /\ states < MaxStates
  /\ states' = states + 1
  /\ live' = states + 1
  /\ UNCHANGED <<joined, slots, producer, lock, made, call, sockets, forwarding, now>>

\* A SessionState that left the map is dropped with its last user.
CloseSession ==
  /\ live # 0
  /\ live' = 0
  /\ UNCHANGED <<states, joined, slots, producer, lock, made, call, sockets,
                 forwarding, now>>

\* create_consumer_transports: every connection has a viewer id of its own.
Join(v) ==
  /\ live # 0
  /\ lock[live] = Nobody
  /\ v \notin joined
  /\ joined' = joined \cup {v}
  /\ slots' = [slots EXCEPT ![live] = @ \cup {v}]
  /\ UNCHANGED <<live, states, producer, lock, made, call, sockets, forwarding, now>>

\* The slot goes, and with it the viewer's data producer and consumer.
RemoveViewer(v) ==
  /\ live # 0
  /\ lock[live] = Nobody
  /\ v \in slots[live]
  /\ slots' = [slots EXCEPT ![live] = @ \ {v}]
  /\ producer' = [producer EXCEPT ![v] = Nobody]
  /\ UNCHANGED <<live, states, joined, lock, made, call, sockets, forwarding, now>>

-----------------------------------------------------------------------------
(* produce_input_data.                                                     *)

At(c, from, to) ==
  /\ call[c].pc = from
  /\ call' = [call EXCEPT ![c].pc = to]

Free(c) == lock[call[c].state] = Nobody

HasSlot(c) == call[c].viewer \in slots[call[c].state]

Existing(c) == producer[call[c].viewer]

\* The session is looked up once.
Start(c, v) ==
  /\ live # 0
  /\ v \in joined
  /\ call[c].pc = "new"
  /\ call' = [call EXCEPT ![c] = [@ EXCEPT !.pc = "check", !.viewer = v, !.state = live]]
  /\ UNCHANGED <<session, lock, made, sockets, forwarding, now>>

\* The viewer has a producer already: its id is the result.
ReturnExisting(c) ==
  /\ call[c].pc \in {"check", "store"}
  /\ Free(c)
  /\ HasSlot(c)
  /\ Existing(c) # Nobody
  /\ call' = [call EXCEPT ![c] = [@ EXCEPT !.pc = "ok", !.result = Existing(c)]]
  /\ UNCHANGED <<session, lock, made, sockets, forwarding, now>>

\* "viewer not found", "viewer disappeared": a producer made so far is dropped.
NoSlot(c) ==
  /\ call[c].pc \in {"check", "store"}
  /\ Free(c)
  /\ ~HasSlot(c)
  /\ call' = [call EXCEPT ![c].pc = "err"]
  /\ UNCHANGED <<session, lock, made, sockets, forwarding, now>>

Proceed(c) ==
  /\ At(c, "check", "produce")
  /\ Free(c)
  /\ HasSlot(c)
  /\ Existing(c) = Nobody
  /\ UNCHANGED <<session, lock, made, sockets, forwarding, now>>

\* produce_data on the viewer's send transport.
ProduceData(c) ==
  /\ At(c, "produce", "lazy")
  /\ UNCHANGED <<session, lock, made, sockets, forwarding, now>>

MediasoupFails(c) ==
  /\ call[c].pc \in {"produce", "direct", "consume"}
  /\ call' = [call EXCEPT ![c].pc = "err"]
  /\ lock' = [s \in States |-> IF lock[s] = c THEN Nobody ELSE lock[s]]
  /\ UNCHANGED <<session, made, sockets, forwarding, now>>

\* Mutant: the mutex is not held while the two are made.
LazyUnlocked(c) ==
  /\ At(c, "lazy", IF directs[call[c].state] = 0 THEN "direct" ELSE "bridge")
  /\ Free(c)
  /\ UNCHANGED <<session, lock, made, sockets, forwarding, now>>

\* The mutex is taken to make what the session does not have yet ...
Lazy(c) ==
  /\ At(c, "lazy", IF directs[call[c].state] = 0 THEN "direct" ELSE "bridge")
  /\ Free(c)
  /\ lock' = [lock EXCEPT ![call[c].state] = c]
  /\ UNCHANGED <<session, made, sockets, forwarding, now>>

\* ... the direct transport ...
MakeDirect(c) ==
  /\ At(c, "direct", "bridge")
  /\ directs' = [directs EXCEPT ![call[c].state] = @ + 1]
  /\ UNCHANGED <<session, lock, bridge, sockets, forwarding, now>>

\* The section ends with the session's bridge b, or none, and the mutex free.
Have(c, from, b) ==
  /\ call[c].pc = from
  /\ call' = [call EXCEPT ![c] = [@ EXCEPT !.pc = "consume", !.bridge = b]]
  /\ bridge' = [bridge EXCEPT ![call[c].state] = b]
  /\ lock' = [lock EXCEPT ![call[c].state] = Nobody]

\* ... and the bridge, from an earlier call or the registry, or by dialling.
GetBridge(c) ==
  /\ call[c].pc = "bridge"
  /\ LET s == call[c].state IN
     \/ bridge[s] # 0 /\ Have(c, "bridge", bridge[s])
     \/ bridge[s] = 0 /\ registry # 0 /\ Have(c, "bridge", registry)
     \/ /\ bridge[s] = 0 /\ registry = 0
        /\ At(c, "bridge", "connect")
        /\ UNCHANGED <<bridge, lock>>
  /\ UNCHANGED <<session, directs, sockets, forwarding, now>>

\* Mutant: the guard lives on after the section.
DialKeepingGuard(c) ==
  /\ call[c].pc = "connect"
  /\ call' = [call EXCEPT ![c] = [@ EXCEPT !.pc = "consume", !.bridge = opened + 1]]
  /\ bridge' = [bridge EXCEPT ![call[c].state] = opened + 1]
  /\ opened' = opened + 1
  /\ registry' = opened + 1
  /\ UNCHANGED <<session, lock, directs, closed, forwarding, now>>

\* The socket is open: a new bridge takes the registry's place.
Dial(c) ==
  /\ Have(c, "connect", opened + 1)
  /\ opened' = opened + 1
  /\ registry' = opened + 1
  /\ UNCHANGED <<session, directs, closed, forwarding, now>>

\* It cannot be opened, or no endpoint is configured: the call goes on without.
DialFails(c) ==
  /\ Have(c, "connect", 0)
  /\ UNCHANGED <<session, directs, sockets, forwarding, now>>

\* consume_data; with a bridge, on_message starts to forward.
ConsumeData(c) ==
  /\ At(c, "consume", "store")
  /\ UNCHANGED <<session, lock, made, sockets, forwarding, now>>

\* Mutant: the second look at the slot is left out.
StoreAnyway(c) ==
  /\ call[c].pc = "store"
  /\ Free(c)
  /\ HasSlot(c)
  /\ call' = [call EXCEPT ![c] = [@ EXCEPT !.pc = "ok", !.result = c]]
  /\ producer' = [producer EXCEPT ![call[c].viewer] = c]
  /\ UNCHANGED <<live, states, joined, slots, lock, made, sockets, forwarding, now>>

\* Producer and consumer go into the slot, if it still has none.
Store(c) ==
  /\ call[c].pc = "store"
  /\ Free(c)
  /\ HasSlot(c)
  /\ Existing(c) = Nobody
  /\ call' = [call EXCEPT ![c] = [@ EXCEPT !.pc = "ok", !.result = c]]
  /\ producer' = [producer EXCEPT ![call[c].viewer] = c]
  /\ UNCHANGED <<live, states, joined, slots, lock, made, sockets, forwarding, now>>

Call(c) ==
  \/ ReturnExisting(c) \/ NoSlot(c) \/ Proceed(c) \/ ProduceData(c) \/ MediasoupFails(c)
  \/ Lazy(c) \/ MakeDirect(c) \/ GetBridge(c) \/ Dial(c) \/ DialFails(c)
  \/ ConsumeData(c) \/ Store(c)

-----------------------------------------------------------------------------
(* Envelopes: on_message, forward, claim_control and send_event.           *)

\* A SessionState lives while it is in the map or a call uses it.
Alive(s) == live = s \/ \E c \in Calls : call[c].state = s /\ call[c].pc \notin {"ok", "err"}

\* The call's data consumer is open and has an observer.
Observes(c) ==
  /\ call[c].bridge # 0
  /\ \/ call[c].pc = "store"
     \/ Alive(call[c].state) /\ producer[call[c].viewer] = c

\* A decoded envelope is forwarded by a task of its own.
Message(c, e) ==
  /\ Observes(c)
  /\ task[e].pc = "unsent"
  /\ task' = [task EXCEPT ![e] = [@ EXCEPT !.pc = "gate", !.bridge = call[c].bridge]]
  /\ UNCHANGED <<session, lock, made, call, sockets, claimed, requests, window, now>>

\* The stamps of a limiter from the first on that is less than a window old.
Prune(w) ==
  LET old(n) == now - w[n] >= RateWindow
      first == CHOOSE n \in 1 .. Len(w) + 1 :
                 /\ \A m \in 1 .. n - 1 : old(m)
                 /\ n <= Len(w) => ~old(n)
  IN  SubSeq(w, first, Len(w))

\* Mutant: the limit itself still lets one in.
AllowOneMore(e) ==
  /\ task[e].pc = "gate"
  /\ LET b == task[e].bridge
         w == Prune(window[b])
     IN \/ /\ Len(w) <= MaxEvents
           /\ window' = [window EXCEPT ![b] = Append(w, now)]
           /\ task' = [task EXCEPT ![e] = [@ EXCEPT !.pc = "claim", !.at = now]]
        \/ /\ Len(w) > MaxEvents
           /\ window' = [window EXCEPT ![b] = w]
           /\ task' = [task EXCEPT ![e].pc = "dropped"]
  /\ UNCHANGED <<session, lock, made, call, sockets, claimed, requests, now>>

\* RateLimiter::allow, with the clock read under its mutex.
Allow(e) ==
  /\ task[e].pc = "gate"
  /\ LET b == task[e].bridge
         w == Prune(window[b])
     IN \/ /\ Len(w) < MaxEvents
           /\ window' = [window EXCEPT ![b] = Append(w, now)]
           /\ task' = [task EXCEPT ![e] = [@ EXCEPT !.pc = "claim", !.at = now]]
        \/ /\ Len(w) >= MaxEvents
           /\ window' = [window EXCEPT ![b] = w]
           /\ task' = [task EXCEPT ![e].pc = "dropped"]
  /\ UNCHANGED <<session, lock, made, call, sockets, claimed, requests, now>>

\* Mutant: the flag is not set by the test.
ClaimTestOnly(e) ==
  /\ task[e].pc = "claim"
  /\ task' = [task EXCEPT ![e].pc = IF task[e].bridge \in claimed THEN "event" ELSE "request"]
  /\ UNCHANGED <<session, lock, made, call, sockets, claimed, requests, window, now>>

\* should_send_control_request: one task turns the flag.
Claim(e) ==
  /\ task[e].pc = "claim"
  /\ task' = [task EXCEPT ![e].pc = IF task[e].bridge \in claimed THEN "event" ELSE "request"]
  /\ claimed' = claimed \cup {task[e].bridge}
  /\ UNCHANGED <<session, lock, made, call, sockets, requests, window, now>>

SendRequest(e) ==
  /\ task[e].pc = "request"
  /\ task[e].bridge \notin closed
  /\ task' = [task EXCEPT ![e].pc = "event"]
  /\ requests' = [requests EXCEPT ![task[e].bridge] = @ + 1]
  /\ UNCHANGED <<session, lock, made, call, sockets, claimed, window, now>>

SendEvent(e) ==
  /\ task[e].pc = "event"
  /\ task[e].bridge \notin closed
  /\ task' = [task EXCEPT ![e].pc = "sent"]
  /\ UNCHANGED <<session, lock, made, call, sockets, claimed, requests, window, now>>

\* The sink reports an error, which is logged: also for control/request, which is
\* not sent again.
SendFails(e) ==
  /\ task[e].pc \in {"request", "event"}
  /\ task[e].bridge \in closed
  /\ task' = [task EXCEPT ![e].pc = "failed"]
  /\ UNCHANGED <<session, lock, made, call, sockets, claimed, requests, window, now>>

\* The read loop of a bridge ends: nothing else is done about it.
ServerCloses ==
  /\ \E b \in 1 .. opened : b \notin closed /\ closed' = closed \cup {b}
  /\ UNCHANGED <<session, lock, made, call, registry, opened, forwarding, now>>

Pass ==
  /\ now < MaxTime
  /\ now' = now + 1
  /\ UNCHANGED <<session, lock, made, call, sockets, forwarding>>

Next ==
  \/ Provision \/ CloseSession \/ ServerCloses \/ Pass
  \/ \E v \in Viewers : Join(v) \/ RemoveViewer(v) \/ \E c \in Calls : Start(c, v)
  \/ \E c \in Calls : Call(c) \/ \E e \in Envelopes : Message(c, e)
  \/ \E e \in Envelopes : Allow(e) \/ Claim(e) \/ SendRequest(e) \/ SendEvent(e) \/ SendFails(e)

Spec == Init /\ [][Next]_vars

-----------------------------------------------------------------------------
(* Properties.                                                             *)

\* A call that returned an id returned the one the viewer's slot holds from then
\* on: two calls never settle on different producers, and none is replaced.
SameProducer ==
  \A c \in Calls :
    (call[c].result # Nobody /\ HasSlot(c)) => producer[call[c].viewer] = call[c].result

\* All input of a SessionState goes through one direct transport and one bridge,
\* however many first calls race; so no more sockets are opened than sessions
\* provisioned.
BridgeShared ==
  /\ \A s \in States : directs[s] <= 1
  /\ \A c \in Calls : call[c].bridge # 0 => call[c].bridge = bridge[call[c].state]
  /\ opened <= states

\* Neko is asked for control at most once on each socket.
OneControlRequest == \A b \in Bridges : requests[b] <= 1

\* In no rolling window are more envelopes admitted than the limit.
RateBound ==
  \A b \in Bridges, t \in 0 .. MaxTime :
    Cardinality({e \in Envelopes : task[e].bridge = b /\ task[e].at \in 0 .. t
                                   /\ t - task[e].at < RateWindow}) <= MaxEvents

\* A call that waits for the mutex of its SessionState: no other await of the method
\* depends on another call.
Waits(c) == call[c].pc \in {"check", "lazy", "store"} /\ ~Free(c)

\* A call waits only for one that is under way and waits for nobody: dialling Neko
\* under the session's mutex, and looking at the slot under it again afterwards, does
\* not leave the calls waiting for each other or for themselves, and no call returns
\* with the mutex.
NoStuckCall ==
  \A c \in Calls : Waits(c) =>
    LET owner == lock[call[c].state]
    IN  call[owner].pc \notin {"new", "ok", "err"} /\ ~Waits(owner)
=============================================================================
