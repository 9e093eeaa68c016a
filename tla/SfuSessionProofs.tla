--------------------------- MODULE SfuSessionProofs ---------------------------
(***************************************************************************)
(* Theorems about SfuSession, for every set of viewers, of guests and of   *)
(* provision calls, every cap, and any number of Routers and producers.    *)
(***************************************************************************)
EXTENDS SfuSession, FiniteSetTheorems, TLAPS

\* The Router in the map is the newest; a Router not yet made has no viewers.
MapInv ==
  /\ live \in {0, routers}
  /\ \A g \in Routers : g > routers => viewers[g] = {}

\* A handler between a lookup and the end of what it is for has a Router that was made;
\* one past Init was told of a producer; a guest's request ends with its slot.
HeldInv ==
  \A v \in Viewers :
    /\ pc[v] \in {"lock", "transports", "info", "find", "consume", "store", "input", "dial"}
         => held[v] \in 1 .. routers
    /\ pc[v] = "store" => made[v] \in 1 .. routers
    /\ pc[v] \in {"init", "loop", "find", "consume", "store", "input", "dial"} => told[v] # 0
    /\ v \in Guests => pc[v] \in {"start", "lock", "transports"}

\* The mutex has its owner: a handler that makes transports or dials, or the monitor.
LockInv ==
  /\ \A v \in Viewers : pc[v] \in {"transports", "dial"} => lock[held[v]] = v
  /\ mon \in {"sample", "stats", "drop", "recreate"} => monHeld \in 1 .. routers
  /\ mon \in {"stats", "recreate"} => lock[monHeld] = Monitor

\* A handler that passed the check of the cap still finds room.
CapInv ==
  /\ \A g \in Routers : IsFiniteSet(viewers[g]) /\ Cardinality(viewers[g]) <= Cap
  /\ \A v \in Viewers : pc[v] = "transports" => Cardinality(viewers[held[v]]) < Cap

\* A connection's slot is inserted once and by its handler: it is in one Router, which
\* is the one whose transport a handler that consumes has.
SlotInv ==
  /\ \A v \in Viewers \ Guests, g \in Routers : v \in viewers[g] =>
       /\ pc[v] \notin {"start", "lock", "transports"}
       /\ pc[v] = "consume" => held[v] = g
       /\ pc[v] = "store" => made[v] = g
  /\ NoGhostViewer

\* What dun-api has been told follows the handler.
EventInv ==
  /\ \A v \in Viewers :
       pc[v] \in {"info", "init", "loop", "find", "consume", "store", "input", "dial", "bye"}
         => v \in connected
  /\ \A v \in Viewers : slot[v] = TRUE => v \in connected
  /\ \A v \in disconnected : pc[v] = "done" /\ v \in connected

IInv ==
  /\ TypeOK /\ MapInv /\ HeldInv /\ LockInv /\ CapInv /\ SlotInv /\ EventInv
  /\ ConsumersWhereViewersAre

-----------------------------------------------------------------------------
(* The steps, by what they change.                                         *)

\* Nothing but the provision calls.
Idle == UNCHANGED <<session, lock, handlers, mon, monHeld, events>>

\* A step of a handler without the mutex that changes no other state: a lookup takes the
\* live Router, the transport is found in the slot, and the consumer is made on the Router
\* that the transport is from.
InLoop == {"init", "loop", "find", "consume", "store", "input"}

Local(v) ==
  /\ pc[v] \in {"start", "info"} \cup InLoop
  /\ pc'[v] \in {"lock"} \cup InLoop
  /\ pc'[v] = "lock" <=> pc[v] = "start"
  /\ pc'[v] = "init" <=> pc[v] = "info"
  /\ pc'[v] \in {"lock", "find", "store", "input"} => live # 0 /\ held'[v] = live
  /\ pc'[v] = "consume" => pc[v] = "find" /\ held'[v] = held[v] /\ v \in viewers[held[v]]
  /\ pc'[v] = "store" => pc[v] = "consume" /\ made'[v] = held[v]
  /\ pc'[v] = "init" => told'[v] # 0
  /\ pc'[v] # "init" => told'[v] = told[v]
  /\ \A w \in Viewers \ {v} :
       pc'[w] = pc[w] /\ held'[w] = held[w] /\ made'[w] = made[w] /\ told'[w] = told[w]
  /\ UNCHANGED <<session, lock, slot, mon, monHeld, events>>

\* viewer_connected is sent, and the session is found or not.
Announced(v) ==
  /\ connected' = connected \cup {v}
  /\ Find(v, "announce", "info")
  /\ UNCHANGED <<session, lock, made, told, slot, mon, monHeld, disconnected>>

AnnounceFails(v) ==
  /\ connected' = connected \cup {v}
  /\ Leave(v, "announce", FALSE)
  /\ UNCHANGED <<session, lock, mon, monHeld, disconnected>>

\* run_session is over while the handler holds no mutex; only the loop ends with Ok(true).
LeaveSteps == {"start", "lock", "info", "init", "loop"}

Left(v, from, ok) ==
  /\ ok = TRUE => from = "loop"
  /\ Leave(v, from, ok)
  /\ UNCHANGED <<session, lock, mon, monHeld, events>>

\* The monitor and the reporter.
Background ==
  \/ SampleLookup \/ SampleStart \/ SampleEnd
  \/ ReprovisionLookup \/ DropProducer \/ Recreate \/ RecreateFails
  \/ \E g \in Routers : BytesStart(g) \/ BytesEnd(g)

Steps ==
  \/ Idle
  \/ \E c \in Calls : ProvisionInsert(c)
  \/ CloseSession
  \/ \E v \in Viewers :
       \/ Local(v) \/ CheckCap(v) \/ InsertSlot(v) \/ TransportsFail(v) \/ Announced(v)
       \/ AnnounceFails(v) \/ ConsumeStore(v) \/ InputDial(v) \/ InputDone(v)
       \/ RemoveViewer(v) \/ Goodbye(v) \/ KickViewer(v)
       \/ \E from \in LeaveSteps, ok \in BOOLEAN : Left(v, from, ok)
  \/ Background

\* Init fixes every variable.
LEMMA InitIInv == Init => IInv
<1>. SUFFICES ASSUME Init PROVE IInv
  OBVIOUS
<1>0. slot \in [Viewers -> BOOLEAN]
  BY Zenon DEF Init
<1>1. TypeOK
  BY <1>0, SfuAssumption DEF Init, TypeOK, Routers, ViewerSteps, MonitorSteps
<1>2. MapInv /\ HeldInv /\ LockInv /\ SlotInv /\ ConsumersWhereViewersAre
  BY SfuAssumption DEF Init, MapInv, HeldInv, LockInv, SlotInv, NoGhostViewer,
     ConsumersWhereViewersAre
<1>3. EventInv
  BY DEF Init, EventInv
<1>4. CapInv
  BY FS_EmptySet, SfuAssumption DEF Init, CapInv, Routers
<1>. QED
  BY <1>1, <1>2, <1>3, <1>4 DEF IInv

\* A slot more is at most one viewer more, a slot less is not more.
LEMMA OneMore ==
  ASSUME NEW S, NEW x, IsFiniteSet(S)
  PROVE  /\ Cardinality(S) \in Nat
         /\ IsFiniteSet(S \cup {x}) /\ Cardinality(S \cup {x}) \in Nat
         /\ Cardinality(S \cup {x}) <= Cardinality(S) + 1
<1>1. IsFiniteSet(S \cup {x}) /\ Cardinality(S) \in Nat
  BY FS_AddElement, FS_CardinalityType, Zenon
<1>2. Cardinality(S \cup {x}) \in Nat
  BY <1>1, FS_CardinalityType, Zenon
<1>3. Cardinality(S \cup {x}) = IF x \in S THEN Cardinality(S) ELSE Cardinality(S) + 1
  BY FS_AddElement, Zenon
<1>4. CASE x \in S
  <2>1. Cardinality(S \cup {x}) = Cardinality(S)
    BY <1>3, <1>4, Zenon
  <2>. QED
    BY <1>1, <1>2, <2>1
<1>5. CASE x \notin S
  <2>1. Cardinality(S \cup {x}) = Cardinality(S) + 1
    BY <1>3, <1>5, Zenon
  <2>. QED
    BY <1>1, <1>2, <2>1
<1>. QED
  BY <1>4, <1>5

LEMMA OneLess ==
  ASSUME NEW S, NEW x, IsFiniteSet(S)
  PROVE  /\ Cardinality(S) \in Nat
         /\ IsFiniteSet(S \ {x}) /\ Cardinality(S \ {x}) \in Nat
         /\ Cardinality(S \ {x}) <= Cardinality(S)
<1>1. IsFiniteSet(S \ {x}) /\ Cardinality(S) \in Nat
  BY FS_RemoveElement, FS_CardinalityType, Zenon
<1>2. Cardinality(S \ {x}) \in Nat
  BY <1>1, FS_CardinalityType, Zenon
<1>3. Cardinality(S \ {x}) <= Cardinality(S)
  <2>1. S \ {x} \in SUBSET S
    OBVIOUS
  <2>. QED
    BY <2>1, FS_Subset, Zenon
<1>. QED
  BY <1>1, <1>2, <1>3

\* What storing a consumer in a slot does to the consumers.
LEMMA StoreOne ==
  ASSUME NEW R, NEW C, NEW f \in [R -> [Viewers -> SUBSET C]], NEW g \in R,
         NEW v \in Viewers, NEW c \in C,
         NEW h, h = [f EXCEPT ![g][v] = @ \cup {c}]
  PROVE  /\ h \in [R -> [Viewers -> SUBSET C]]
         /\ h[g][v] = f[g][v] \cup {c}
         /\ \A k \in R, w \in Viewers : ~(k = g /\ w = v) => h[k][w] = f[k][w]
<1>. DEFINE row == [f[g] EXCEPT ![v] = f[g][v] \cup {c}]
<1>1. f[g] \in [Viewers -> SUBSET C] /\ f[g][v] \cup {c} \in SUBSET C
  OBVIOUS
<1>2. /\ row \in [Viewers -> SUBSET C]
      /\ row[v] = f[g][v] \cup {c}
      /\ \A w \in Viewers : w # v => row[w] = f[g][w]
  BY <1>1
<1>3. h = [f EXCEPT ![g] = row]
  BY Zenon
<1>. HIDE DEF row
<1>. QED
  BY <1>2, <1>3

\* A step of the session is one of these.
LEMMA NextCases == TypeOK /\ HeldInv /\ [Next]_vars => Steps
<1>. SUFFICES ASSUME TypeOK, HeldInv, [Next]_vars PROVE Steps
  OBVIOUS
<1>1. ASSUME NEW v \in Viewers,
             \/ Lookup(v) /\ Find(v, "start", "lock") /\ UNCHANGED <<made, told, slot>>
             \/ SendInit(v) \/ ConsumeLookup(v) \/ ConsumeStart(v) \/ InputLookup(v)
      PROVE  Local(v)
  <2>. USE DEF TypeOK, HeldInv, Local, InLoop, Goto, Find, session
  <2>1. CASE Lookup(v) /\ Find(v, "start", "lock") /\ UNCHANGED <<made, told, slot>>
    BY <2>1 DEF Lookup
  <2>2. CASE SendInit(v)
    BY <2>2 DEF SendInit
  <2>3. CASE ConsumeLookup(v)
    BY <2>3 DEF ConsumeLookup
  <2>4. CASE ConsumeStart(v)
    BY <2>4 DEF ConsumeStart
  <2>5. CASE InputLookup(v)
    BY <2>5 DEF InputLookup
  <2>. QED
    BY <1>1, <2>1, <2>2, <2>3, <2>4, <2>5, Zenon
<1>2. ASSUME NEW v \in Viewers, ConsumeMade(v)
      PROVE  Local(v)
  BY <1>2 DEF ConsumeMade, TypeOK, Local, InLoop, Goto, Find, session
<1>3. ASSUME NEW v \in Viewers, RequestFails(v)
      PROVE  Local(v)
  <2>1. PICK from \in {"find", "consume", "store", "input"} : Answered(v, from)
    BY <1>3, Zenon DEF RequestFails
  <2>. QED
    BY <1>3, <2>1 DEF RequestFails, Answered, TypeOK, Local, InLoop, Goto, session
<1>4. ASSUME NEW v \in Viewers, ProducerInfo(v)
      PROVE  Local(v) \/ Left(v, "info", FALSE)
  <2>1. CASE producer[held[v]] # 0 /\ Goto(v, "info", "init")
               /\ told' = [told EXCEPT ![v] = producer[held[v]]]
               /\ held' = [held EXCEPT ![v] = 0] /\ UNCHANGED <<made, slot>>
    BY <1>4, <2>1 DEF ProducerInfo, TypeOK, Local, InLoop, Goto, session
  <2>2. CASE Leave(v, "info", FALSE)
    BY <1>4, <2>2, Zenon DEF ProducerInfo, Left
  <2>. QED
    BY <1>4, <2>1, <2>2, Zenon DEF ProducerInfo
<1>5. ASSUME NEW v \in Viewers, Lookup(v)
      PROVE  Local(v) \/ Left(v, "start", FALSE)
  BY <1>1, <1>5, Zenon DEF Lookup, Left
<1>6. ASSUME NEW v \in Viewers, CapReached(v)
      PROVE  Left(v, "lock", FALSE)
  BY <1>6, Zenon DEF CapReached, Left
<1>7. ASSUME NEW v \in Viewers, SocketClosed(v)
      PROVE  Left(v, "loop", TRUE)
  BY <1>7, Zenon DEF SocketClosed, Left
<1>8. ASSUME NEW v \in Viewers, SendFails(v)
      PROVE  Left(v, "init", FALSE) \/ Left(v, "loop", FALSE)
  BY <1>8, Zenon DEF SendFails, Left
<1>9. ASSUME NEW v \in Viewers, Announce(v)
      PROVE  Announced(v) \/ AnnounceFails(v)
  BY <1>9, Zenon DEF Announce, Announced, AnnounceFails
<1>10. /\ {"start", "lock", "info", "init", "loop"} \subseteq LeaveSteps
       /\ {TRUE, FALSE} \subseteq BOOLEAN
  BY Zenon DEF LeaveSteps
<1>11. ASSUME NEW c \in Calls, ProvisionLookup(c) \/ ProvisionFails(c)
       PROVE  Idle
  BY <1>11, Zenon DEF ProvisionLookup, ProvisionFails, Idle
<1>12. UNCHANGED vars => Idle
  BY Zenon DEF vars, Idle
<1>13. ASSUME NEW v \in Viewers, Viewer(v) \/ KickViewer(v)
       PROVE  Steps
  <2>1. CASE Lookup(v)
    BY <1>5, <1>10, <2>1, Zenon DEF Steps
  <2>2. CASE CapReached(v)
    BY <1>6, <1>10, <2>2, Zenon DEF Steps
  <2>3. CASE ProducerInfo(v)
    BY <1>4, <1>10, <2>3, Zenon DEF Steps
  <2>4. CASE SocketClosed(v)
    BY <1>7, <1>10, <2>4, Zenon DEF Steps
  <2>5. CASE SendFails(v)
    BY <1>8, <1>10, <2>5, Zenon DEF Steps
  <2>6. CASE SendInit(v) \/ ConsumeLookup(v) \/ ConsumeStart(v) \/ InputLookup(v)
               \/ ConsumeMade(v) \/ RequestFails(v)
    BY <1>1, <1>2, <1>3, <2>6, Zenon DEF Steps
  <2>7. CASE Announce(v)
    BY <1>9, <2>7, Zenon DEF Steps
  <2>8. CASE CheckCap(v) \/ InsertSlot(v) \/ TransportsFail(v) \/ ConsumeStore(v) \/ InputDial(v)
               \/ InputDone(v) \/ RemoveViewer(v) \/ Goodbye(v) \/ KickViewer(v)
    BY <2>8, Zenon DEF Steps
  <2>. QED
    BY <1>13, <2>1, <2>2, <2>3, <2>4, <2>5, <2>6, <2>7, <2>8, Zenon DEF Viewer
<1>14. ASSUME Background \/ CloseSession \/ \E c \in Calls : ProvisionInsert(c)
       PROVE  Steps
  BY <1>14, Zenon DEF Steps
<1>. QED
  <2>1. CASE UNCHANGED vars
    BY <1>12, <2>1, Zenon DEF Steps
  <2>2. CASE \E c \in Calls : ProvisionLookup(c) \/ ProvisionInsert(c) \/ ProvisionFails(c)
    BY <1>11, <1>14, <2>2, Zenon DEF Steps
  <2>3. CASE SampleLookup \/ SampleStart \/ SampleEnd \/ ReprovisionLookup \/ DropProducer
               \/ Recreate \/ RecreateFails \/ \E g \in Routers : BytesStart(g) \/ BytesEnd(g)
    BY <1>14, <2>3, Zenon DEF Background
  <2>4. CASE Next
    BY <1>13, <1>14, <2>2, <2>3, <2>4, Zenon DEF Next
  <2>. QED
    BY <2>1, <2>4, Zenon

\* The monitor and the reporter touch neither the map nor the viewers.
LEMMA BackgroundFrame ==
  ASSUME Background
  PROVE  UNCHANGED <<live, routers, viewers, consumers, handlers, events>>
  BY Zenon DEF Background, SampleLookup, SampleStart, SampleEnd, ReprovisionLookup, DropProducer,
     Recreate, RecreateFails, BytesStart, BytesEnd, session

\* What run_session's end, and a lookup, do to the types of the handlers' state.
LEMMA LeaveTypes ==
  ASSUME TypeOK, NEW v \in Viewers, NEW from, NEW ok \in BOOLEAN, Leave(v, from, ok)
  PROVE  /\ pc' \in [Viewers -> ViewerSteps]
         /\ held' \in [Viewers -> 0 .. MaxRouters]
         /\ made' \in [Viewers -> 0 .. MaxRouters]
         /\ told' \in [Viewers -> 0 .. MaxProducers]
         /\ slot' \in [Viewers -> BOOLEAN]
<1>1. pc' \in [Viewers -> ViewerSteps]
  BY DEF TypeOK, Leave, Goto, ViewerSteps
<1>2. held' \in [Viewers -> 0 .. MaxRouters] /\ told' \in [Viewers -> 0 .. MaxProducers]
  BY SfuAssumption DEF TypeOK, Leave
<1>3. slot' \in [Viewers -> BOOLEAN] /\ made' \in [Viewers -> 0 .. MaxRouters]
  BY Zenon DEF TypeOK, Leave
<1>. QED
  BY <1>1, <1>2, <1>3

LEMMA FindTypes ==
  ASSUME TypeOK, NEW v \in Viewers, NEW from, NEW to \in ViewerSteps, Find(v, from, to)
  PROVE  pc' \in [Viewers -> ViewerSteps] /\ held' \in [Viewers -> 0 .. MaxRouters]
  BY SfuAssumption DEF TypeOK, Find, Goto

\* Every step keeps the types.
LEMMA TypeStep ==
  ASSUME TypeOK, MapInv, HeldInv, LockInv, [Next]_vars
  PROVE  TypeOK'
<1>. USE SfuAssumption DEF TypeOK, MapInv, HeldInv, LockInv, Routers, ViewerSteps, MonitorSteps,
         session, handlers, events, vars
<1>1. ASSUME NEW c \in Calls, ProvisionLookup(c)
      PROVE  TypeOK'
  BY <1>1 DEF ProvisionLookup
<1>2. ASSUME NEW c \in Calls, ProvisionInsert(c)
      PROVE  TypeOK'
  BY <1>2 DEF ProvisionInsert
<1>3. ASSUME NEW c \in Calls, ProvisionFails(c)
      PROVE  TypeOK'
  BY <1>3 DEF ProvisionFails
<1>4. CASE CloseSession
  BY <1>4 DEF CloseSession
<1>5. ASSUME NEW v \in Viewers, Lookup(v)
      PROVE  TypeOK'
  <2>1. /\ pc' \in [Viewers -> ViewerSteps] /\ held' \in [Viewers -> 0 .. MaxRouters]
        /\ made' \in [Viewers -> 0 .. MaxRouters] /\ told' \in [Viewers -> 0 .. MaxProducers]
        /\ slot' \in [Viewers -> BOOLEAN]
    <3>1. CASE Find(v, "start", "lock") /\ UNCHANGED <<made, told, slot>>
      BY <1>5, <3>1 DEF Find, Goto
    <3>2. CASE \E from \in ViewerSteps : Leave(v, from, FALSE)
      BY <3>2, LeaveTypes, Zenon
    <3>3. {"start", "announce", "info"} \subseteq ViewerSteps
      OBVIOUS
    <3>. QED
      BY <1>5, <3>1, <3>2, <3>3, Zenon DEF Lookup
  <2>2. UNCHANGED <<live, routers, viewers, producer, producers, consumers, calls, mon, monHeld,
                    disconnected>>
    BY <1>5, Zenon DEF Lookup, session, events
  <2>3. lock' \in [Routers -> Viewers \cup {Monitor, Reporter, Nobody}] /\ connected' \in SUBSET Viewers
    BY <1>5 DEF Lookup
  <2>. HIDE DEF Routers, ViewerSteps, MonitorSteps
  <2>. QED
    BY <2>1, <2>2, <2>3
<1>6. ASSUME NEW v \in Viewers, CheckCap(v)
      PROVE  TypeOK'
  BY <1>6 DEF CheckCap, Goto
<1>7. ASSUME NEW v \in Viewers, CapReached(v)
      PROVE  TypeOK'
  <2>1. /\ pc' \in [Viewers -> ViewerSteps] /\ held' \in [Viewers -> 0 .. MaxRouters]
        /\ made' \in [Viewers -> 0 .. MaxRouters] /\ told' \in [Viewers -> 0 .. MaxProducers]
        /\ slot' \in [Viewers -> BOOLEAN]
    BY <1>7, LeaveTypes, Zenon DEF CapReached
  <2>2. UNCHANGED <<live, routers, viewers, producer, producers, consumers, calls, mon, monHeld,
                    disconnected>>
    BY <1>7, Zenon DEF CapReached, session, events
  <2>3. lock' \in [Routers -> Viewers \cup {Monitor, Reporter, Nobody}] /\ connected' \in SUBSET Viewers
    BY <1>7 DEF CapReached
  <2>. HIDE DEF Routers, ViewerSteps, MonitorSteps
  <2>. QED
    BY <2>1, <2>2, <2>3
<1>8. ASSUME NEW v \in Viewers, InsertSlot(v)
      PROVE  TypeOK'
  BY <1>8 DEF InsertSlot, Goto
<1>9. ASSUME NEW v \in Viewers, TransportsFail(v)
      PROVE  TypeOK'
  <2>1. /\ pc' \in [Viewers -> ViewerSteps] /\ held' \in [Viewers -> 0 .. MaxRouters]
        /\ made' \in [Viewers -> 0 .. MaxRouters] /\ told' \in [Viewers -> 0 .. MaxProducers]
        /\ slot' \in [Viewers -> BOOLEAN]
    BY <1>9, LeaveTypes, Zenon DEF TransportsFail
  <2>2. UNCHANGED <<live, routers, viewers, producer, producers, consumers, calls, mon, monHeld,
                    disconnected>>
    BY <1>9, Zenon DEF TransportsFail, session, events
  <2>3. lock' \in [Routers -> Viewers \cup {Monitor, Reporter, Nobody}] /\ connected' \in SUBSET Viewers
    BY <1>9 DEF TransportsFail
  <2>. HIDE DEF Routers, ViewerSteps, MonitorSteps
  <2>. QED
    BY <2>1, <2>2, <2>3
<1>10. ASSUME NEW v \in Viewers, Announce(v)
      PROVE  TypeOK'
  <2>1. /\ pc' \in [Viewers -> ViewerSteps] /\ held' \in [Viewers -> 0 .. MaxRouters]
        /\ made' \in [Viewers -> 0 .. MaxRouters] /\ told' \in [Viewers -> 0 .. MaxProducers]
        /\ slot' \in [Viewers -> BOOLEAN]
    <3>1. CASE Find(v, "announce", "info") /\ UNCHANGED <<made, told, slot>>
      BY <1>10, <3>1 DEF Find, Goto
    <3>2. CASE \E from \in ViewerSteps : Leave(v, from, FALSE)
      BY <3>2, LeaveTypes, Zenon
    <3>3. {"start", "announce", "info"} \subseteq ViewerSteps
      OBVIOUS
    <3>. QED
      BY <1>10, <3>1, <3>2, <3>3, Zenon DEF Announce
  <2>2. UNCHANGED <<live, routers, viewers, producer, producers, consumers, calls, mon, monHeld,
                    disconnected>>
    BY <1>10, Zenon DEF Announce, session, events
  <2>3. lock' \in [Routers -> Viewers \cup {Monitor, Reporter, Nobody}] /\ connected' \in SUBSET Viewers
    BY <1>10 DEF Announce
  <2>. HIDE DEF Routers, ViewerSteps, MonitorSteps
  <2>. QED
    BY <2>1, <2>2, <2>3
<1>11. ASSUME NEW v \in Viewers, ProducerInfo(v)
      PROVE  TypeOK'
  <2>1. /\ pc' \in [Viewers -> ViewerSteps] /\ held' \in [Viewers -> 0 .. MaxRouters]
        /\ made' \in [Viewers -> 0 .. MaxRouters] /\ told' \in [Viewers -> 0 .. MaxProducers]
        /\ slot' \in [Viewers -> BOOLEAN]
    <3>1. CASE /\ Goto(v, "info", "init")
               /\ told' = [told EXCEPT ![v] = producer[held[v]]]
               /\ held' = [held EXCEPT ![v] = 0]
               /\ UNCHANGED <<made, slot>>
      BY <1>11, <3>1 DEF Goto
    <3>2. CASE \E from \in ViewerSteps : Leave(v, from, FALSE)
      BY <3>2, LeaveTypes, Zenon
    <3>3. {"start", "announce", "info"} \subseteq ViewerSteps
      OBVIOUS
    <3>. QED
      BY <1>11, <3>1, <3>2, <3>3, Zenon DEF ProducerInfo
  <2>2. UNCHANGED <<live, routers, viewers, producer, producers, consumers, calls, mon, monHeld,
                    disconnected>>
    BY <1>11, Zenon DEF ProducerInfo, session, events
  <2>3. lock' \in [Routers -> Viewers \cup {Monitor, Reporter, Nobody}] /\ connected' \in SUBSET Viewers
    BY <1>11 DEF ProducerInfo
  <2>. HIDE DEF Routers, ViewerSteps, MonitorSteps
  <2>. QED
    BY <2>1, <2>2, <2>3
<1>12. ASSUME NEW v \in Viewers, SendInit(v)
      PROVE  TypeOK'
  BY <1>12 DEF SendInit, Goto
<1>13. ASSUME NEW v \in Viewers, ConsumeLookup(v)
      PROVE  TypeOK'
  BY <1>13 DEF ConsumeLookup, Find, Goto
<1>14. ASSUME NEW v \in Viewers, ConsumeStart(v)
      PROVE  TypeOK'
  BY <1>14 DEF ConsumeStart, Goto
<1>15. ASSUME NEW v \in Viewers, ConsumeMade(v)
      PROVE  TypeOK'
  BY <1>15 DEF ConsumeMade, Find, Goto
<1>16. ASSUME NEW v \in Viewers, ConsumeStore(v)
      PROVE  TypeOK'
  <2>1. <<made[v], told[v]>> \in Routers \X (1 .. MaxProducers) /\ held[v] \in Routers
    BY <1>16 DEF ConsumeStore, Answered, Goto
  <2>2. consumers' \in [Routers -> [Viewers -> SUBSET (Routers \X (1 .. MaxProducers))]]
    <3>1. consumers' = [consumers EXCEPT ![held[v]][v] = @ \cup {<<made[v], told[v]>>}]
      BY <1>16, Zenon DEF ConsumeStore, Answered, Goto
    <3>. HIDE DEF Routers
    <3>. QED
      BY <2>1, <3>1, StoreOne
  <2>3. /\ pc' \in [Viewers -> ViewerSteps] /\ held' \in [Viewers -> 0 .. MaxRouters]
        /\ made' \in [Viewers -> 0 .. MaxRouters]
    BY <1>16 DEF ConsumeStore, Answered, Goto
  <2>4. UNCHANGED <<live, routers, lock, viewers, producer, producers, calls, told, slot, mon,
                    monHeld, connected, disconnected>>
    BY <1>16 DEF ConsumeStore, Answered, Goto
  <2>. HIDE DEF Routers, ViewerSteps
  <2>. QED
    BY <2>2, <2>3, <2>4
<1>17. ASSUME NEW v \in Viewers, InputLookup(v)
      PROVE  TypeOK'
  BY <1>17 DEF InputLookup, Find, Goto
<1>18. ASSUME NEW v \in Viewers, InputDial(v)
      PROVE  TypeOK'
  BY <1>18 DEF InputDial, Goto
<1>19. ASSUME NEW v \in Viewers, InputDone(v)
      PROVE  TypeOK'
  BY <1>19 DEF InputDone, Answered, Goto
<1>20. ASSUME NEW v \in Viewers, RequestFails(v)
      PROVE  TypeOK'
  BY <1>20 DEF RequestFails, Answered, Goto
<1>21. ASSUME NEW v \in Viewers, SocketClosed(v)
      PROVE  TypeOK'
  <2>1. /\ pc' \in [Viewers -> ViewerSteps] /\ held' \in [Viewers -> 0 .. MaxRouters]
        /\ made' \in [Viewers -> 0 .. MaxRouters] /\ told' \in [Viewers -> 0 .. MaxProducers]
        /\ slot' \in [Viewers -> BOOLEAN]
    BY <1>21, LeaveTypes, Zenon DEF SocketClosed
  <2>2. UNCHANGED <<live, routers, viewers, producer, producers, consumers, calls, mon, monHeld,
                    disconnected>>
    BY <1>21, Zenon DEF SocketClosed, session, events
  <2>3. lock' \in [Routers -> Viewers \cup {Monitor, Reporter, Nobody}] /\ connected' \in SUBSET Viewers
    BY <1>21 DEF SocketClosed
  <2>. HIDE DEF Routers, ViewerSteps, MonitorSteps
  <2>. QED
    BY <2>1, <2>2, <2>3
<1>22. ASSUME NEW v \in Viewers, SendFails(v)
      PROVE  TypeOK'
  <2>1. /\ pc' \in [Viewers -> ViewerSteps] /\ held' \in [Viewers -> 0 .. MaxRouters]
        /\ made' \in [Viewers -> 0 .. MaxRouters] /\ told' \in [Viewers -> 0 .. MaxProducers]
        /\ slot' \in [Viewers -> BOOLEAN]
    BY <1>22, LeaveTypes, Zenon DEF SendFails
  <2>2. UNCHANGED <<live, routers, viewers, producer, producers, consumers, calls, mon, monHeld,
                    disconnected>>
    BY <1>22, Zenon DEF SendFails, session, events
  <2>3. lock' \in [Routers -> Viewers \cup {Monitor, Reporter, Nobody}] /\ connected' \in SUBSET Viewers
    BY <1>22 DEF SendFails
  <2>. HIDE DEF Routers, ViewerSteps, MonitorSteps
  <2>. QED
    BY <2>1, <2>2, <2>3
<1>23. ASSUME NEW v \in Viewers, RemoveViewer(v)
      PROVE  TypeOK'
  BY <1>23 DEF RemoveViewer, Goto
<1>24. ASSUME NEW v \in Viewers, Goodbye(v)
      PROVE  TypeOK'
  BY <1>24 DEF Goodbye, Goto
<1>25. ASSUME NEW v \in Viewers, KickViewer(v)
      PROVE  TypeOK'
  BY <1>25 DEF KickViewer
<1>26. CASE SampleLookup
  BY <1>26 DEF SampleLookup, MonitorFinds
<1>27. CASE SampleStart
  <2>1. monHeld \in Routers
    BY <1>27 DEF SampleStart
  <2>2. lock' \in [Routers -> Viewers \cup {Monitor, Reporter, Nobody}]
    BY <1>27, <2>1 DEF SampleStart
  <2>3. mon' \in MonitorSteps /\ monHeld' \in 0 .. MaxRouters
    BY <1>27, <2>1 DEF SampleStart
  <2>. QED
    BY <1>27, <2>2, <2>3 DEF SampleStart
<1>28. CASE SampleEnd
  <2>1. lock' \in [Routers -> Viewers \cup {Monitor, Reporter, Nobody}]
    BY <1>28 DEF SampleEnd, Unlock
  <2>2. mon' \in MonitorSteps /\ monHeld' \in 0 .. MaxRouters
    BY <1>28 DEF SampleEnd, Unlock
  <2>. QED
    BY <1>28, <2>1, <2>2 DEF SampleEnd, Unlock
<1>29. CASE ReprovisionLookup
  BY <1>29 DEF ReprovisionLookup, MonitorFinds
<1>30. CASE DropProducer
  BY <1>30 DEF DropProducer
<1>31. CASE Recreate
  <2>1. lock' \in [Routers -> Viewers \cup {Monitor, Reporter, Nobody}]
    BY <1>31 DEF Recreate, Unlock
  <2>2. mon' \in MonitorSteps /\ monHeld' \in 0 .. MaxRouters
    BY <1>31 DEF Recreate, Unlock
  <2>. QED
    BY <1>31, <2>1, <2>2 DEF Recreate, Unlock
<1>32. CASE RecreateFails
  <2>1. lock' \in [Routers -> Viewers \cup {Monitor, Reporter, Nobody}]
    BY <1>32 DEF RecreateFails, Unlock
  <2>2. mon' \in MonitorSteps /\ monHeld' \in 0 .. MaxRouters
    BY <1>32 DEF RecreateFails, Unlock
  <2>. QED
    BY <1>32, <2>1, <2>2 DEF RecreateFails, Unlock
<1>33. ASSUME NEW g \in Routers, BytesStart(g)
      PROVE  TypeOK'
  BY <1>33 DEF BytesStart
<1>34. ASSUME NEW g \in Routers, BytesEnd(g)
      PROVE  TypeOK'
  BY <1>34 DEF BytesEnd
<1>35. CASE UNCHANGED vars
  BY <1>35
<1>. HIDE DEF TypeOK, MapInv, HeldInv, LockInv, Routers, ViewerSteps, MonitorSteps, session,
         handlers, events, vars
<1>. QED
  BY <1>1, <1>2, <1>3, <1>4, <1>5, <1>6, <1>7, <1>8, <1>9, <1>10, <1>11, <1>12, <1>13,
     <1>14, <1>15, <1>16, <1>17, <1>18, <1>19, <1>20, <1>21, <1>22, <1>23, <1>24, <1>25,
     <1>26, <1>27, <1>28, <1>29, <1>30, <1>31, <1>32, <1>33, <1>34, <1>35, Zenon DEF
     Next, Viewer

\* Every step keeps the map.
LEMMA MapStep ==
  ASSUME TypeOK, MapInv, HeldInv, [Next]_vars
  PROVE  MapInv'
<1>0. Steps
  BY NextCases
<1>. USE SfuAssumption DEF TypeOK, MapInv, HeldInv, Routers, session, handlers, events
<1>1. CASE Idle
  BY <1>1 DEF Idle
<1>2. ASSUME NEW c \in Calls, ProvisionInsert(c)
      PROVE  MapInv'
  BY <1>2 DEF ProvisionInsert
<1>3. CASE CloseSession
  BY <1>3 DEF CloseSession
<1>4. ASSUME NEW v \in Viewers, Local(v)
      PROVE  MapInv'
  BY <1>4 DEF Local, InLoop
<1>5. ASSUME NEW v \in Viewers, CheckCap(v)
      PROVE  MapInv'
  BY <1>5 DEF CheckCap, Goto
<1>6. ASSUME NEW v \in Viewers, InsertSlot(v)
      PROVE  MapInv'
  BY <1>6 DEF InsertSlot, Goto
<1>7. ASSUME NEW v \in Viewers, TransportsFail(v)
      PROVE  MapInv'
  BY <1>7 DEF TransportsFail, Leave, Goto
<1>8. ASSUME NEW v \in Viewers, Announced(v)
      PROVE  MapInv'
  BY <1>8 DEF Announced, Find, Goto
<1>9. ASSUME NEW v \in Viewers, AnnounceFails(v)
      PROVE  MapInv'
  BY <1>9 DEF AnnounceFails, Leave, Goto
<1>10. ASSUME NEW v \in Viewers, ConsumeStore(v)
      PROVE  MapInv'
  BY <1>10 DEF ConsumeStore, Answered, Goto
<1>11. ASSUME NEW v \in Viewers, InputDial(v)
      PROVE  MapInv'
  BY <1>11 DEF InputDial, Goto
<1>12. ASSUME NEW v \in Viewers, InputDone(v)
      PROVE  MapInv'
  BY <1>12 DEF InputDone, Answered, Goto
<1>13. ASSUME NEW v \in Viewers, NEW from \in LeaveSteps, NEW ok \in BOOLEAN,
             Left(v, from, ok)
      PROVE  MapInv'
  BY <1>13 DEF Left, Leave, LeaveSteps, Goto
<1>14. ASSUME NEW v \in Viewers, RemoveViewer(v)
      PROVE  MapInv'
  BY <1>14 DEF RemoveViewer, Goto
<1>15. ASSUME NEW v \in Viewers, Goodbye(v)
      PROVE  MapInv'
  BY <1>15 DEF Goodbye, Goto
<1>16. ASSUME NEW v \in Viewers, KickViewer(v)
      PROVE  MapInv'
  BY <1>16 DEF KickViewer
<1>17. CASE Background
  BY <1>17, BackgroundFrame
<1>. HIDE DEF TypeOK, MapInv, HeldInv, Routers, session, handlers, events
<1>. QED
  BY <1>0, <1>1, <1>2, <1>3, <1>4, <1>5, <1>6, <1>7, <1>8, <1>9, <1>10, <1>11, <1>12,
     <1>13, <1>14, <1>15, <1>16, <1>17, Zenon DEF Steps

\* Every step keeps what the handlers hold.
LEMMA HeldStep ==
  ASSUME TypeOK, MapInv, HeldInv, [Next]_vars
  PROVE  HeldInv'
<1>0. Steps
  BY NextCases
<1>. USE SfuAssumption DEF TypeOK, MapInv, HeldInv, Routers, session, handlers, events
<1>1. CASE Idle
  BY <1>1 DEF Idle
<1>2. ASSUME NEW c \in Calls, ProvisionInsert(c)
      PROVE  HeldInv'
  BY <1>2 DEF ProvisionInsert
<1>3. CASE CloseSession
  BY <1>3 DEF CloseSession
<1>4. ASSUME NEW v \in Viewers, Local(v)
      PROVE  HeldInv'
  <2>1. /\ pc'[v] \in {"lock", "find", "store", "input", "consume"} => held'[v] \in 1 .. routers
        /\ routers' = routers
    BY <1>4 DEF Local, InLoop
  <2>2. pc'[v] = "store" => made'[v] \in 1 .. routers
    BY <1>4 DEF Local, InLoop
  <2>3. pc'[v] # "lock" => told'[v] # 0
    BY <1>4 DEF Local, InLoop
  <2>4. v \in Guests => pc'[v] = "lock"
    BY <1>4 DEF Local, InLoop
  <2>5. pc'[v] \in {"lock", "init", "loop", "find", "consume", "store", "input"}
    BY <1>4 DEF Local, InLoop
  <2>6. \A w \in Viewers \ {v} :
          pc'[w] = pc[w] /\ held'[w] = held[w] /\ made'[w] = made[w] /\ told'[w] = told[w]
    BY <1>4, Zenon DEF Local, InLoop
  <2>. HIDE DEF TypeOK, MapInv
  <2>. QED
    BY <2>1, <2>2, <2>3, <2>4, <2>5, <2>6
<1>5. ASSUME NEW v \in Viewers, CheckCap(v)
      PROVE  HeldInv'
  BY <1>5 DEF CheckCap, Goto
<1>6. ASSUME NEW v \in Viewers, InsertSlot(v)
      PROVE  HeldInv'
  BY <1>6 DEF InsertSlot, Goto
<1>7. ASSUME NEW v \in Viewers, TransportsFail(v)
      PROVE  HeldInv'
  BY <1>7 DEF TransportsFail, Leave, Goto
<1>8. ASSUME NEW v \in Viewers, Announced(v)
      PROVE  HeldInv'
  BY <1>8 DEF Announced, Find, Goto
<1>9. ASSUME NEW v \in Viewers, AnnounceFails(v)
      PROVE  HeldInv'
  BY <1>9 DEF AnnounceFails, Leave, Goto
<1>10. ASSUME NEW v \in Viewers, ConsumeStore(v)
      PROVE  HeldInv'
  BY <1>10 DEF ConsumeStore, Answered, Goto
<1>11. ASSUME NEW v \in Viewers, InputDial(v)
      PROVE  HeldInv'
  BY <1>11 DEF InputDial, Goto
<1>12. ASSUME NEW v \in Viewers, InputDone(v)
      PROVE  HeldInv'
  BY <1>12 DEF InputDone, Answered, Goto
<1>13. ASSUME NEW v \in Viewers, NEW from \in LeaveSteps, NEW ok \in BOOLEAN,
             Left(v, from, ok)
      PROVE  HeldInv'
  BY <1>13 DEF Left, Leave, LeaveSteps, Goto
<1>14. ASSUME NEW v \in Viewers, RemoveViewer(v)
      PROVE  HeldInv'
  BY <1>14 DEF RemoveViewer, Goto
<1>15. ASSUME NEW v \in Viewers, Goodbye(v)
      PROVE  HeldInv'
  BY <1>15 DEF Goodbye, Goto
<1>16. ASSUME NEW v \in Viewers, KickViewer(v)
      PROVE  HeldInv'
  BY <1>16 DEF KickViewer
<1>17. CASE Background
  BY <1>17, BackgroundFrame
<1>. HIDE DEF TypeOK, MapInv, HeldInv, Routers, session, handlers, events
<1>. QED
  BY <1>0, <1>1, <1>2, <1>3, <1>4, <1>5, <1>6, <1>7, <1>8, <1>9, <1>10, <1>11, <1>12,
     <1>13, <1>14, <1>15, <1>16, <1>17, Zenon DEF Steps

\* Every step keeps the owners of the mutexes.
LEMMA LockStep ==
  ASSUME TypeOK, MapInv, HeldInv, LockInv, [Next]_vars
  PROVE  LockInv'
<1>0. Steps
  BY NextCases
<1>. USE SfuAssumption DEF TypeOK, MapInv, HeldInv, LockInv, Free, Routers, session, handlers, events
<1>1. CASE Idle
  BY <1>1 DEF Idle
<1>2. ASSUME NEW c \in Calls, ProvisionInsert(c)
      PROVE  LockInv'
  BY <1>2 DEF ProvisionInsert
<1>3. CASE CloseSession
  BY <1>3 DEF CloseSession
<1>4. ASSUME NEW v \in Viewers, Local(v)
      PROVE  LockInv'
  BY <1>4 DEF Local, InLoop
<1>5. ASSUME NEW v \in Viewers, CheckCap(v)
      PROVE  LockInv'
  BY <1>5 DEF CheckCap, Goto
<1>6. ASSUME NEW v \in Viewers, InsertSlot(v)
      PROVE  LockInv'
  BY <1>6 DEF InsertSlot, Goto
<1>7. ASSUME NEW v \in Viewers, TransportsFail(v)
      PROVE  LockInv'
  BY <1>7 DEF TransportsFail, Leave, Goto
<1>8. ASSUME NEW v \in Viewers, Announced(v)
      PROVE  LockInv'
  BY <1>8 DEF Announced, Find, Goto
<1>9. ASSUME NEW v \in Viewers, AnnounceFails(v)
      PROVE  LockInv'
  BY <1>9 DEF AnnounceFails, Leave, Goto
<1>10. ASSUME NEW v \in Viewers, ConsumeStore(v)
      PROVE  LockInv'
  BY <1>10 DEF ConsumeStore, Answered, Goto
<1>11. ASSUME NEW v \in Viewers, InputDial(v)
      PROVE  LockInv'
  BY <1>11 DEF InputDial, Goto
<1>12. ASSUME NEW v \in Viewers, InputDone(v)
      PROVE  LockInv'
  BY <1>12 DEF InputDone, Answered, Goto
<1>13. ASSUME NEW v \in Viewers, NEW from \in LeaveSteps, NEW ok \in BOOLEAN,
             Left(v, from, ok)
      PROVE  LockInv'
  BY <1>13 DEF Left, Leave, LeaveSteps, Goto
<1>14. ASSUME NEW v \in Viewers, RemoveViewer(v)
      PROVE  LockInv'
  BY <1>14 DEF RemoveViewer, Goto
<1>15. ASSUME NEW v \in Viewers, Goodbye(v)
      PROVE  LockInv'
  BY <1>15 DEF Goodbye, Goto
<1>16. ASSUME NEW v \in Viewers, KickViewer(v)
      PROVE  LockInv'
  BY <1>16 DEF KickViewer
<1>17. CASE Background
  <2>0. UNCHANGED <<live, routers, viewers, consumers, handlers, events>>
    BY <1>17, BackgroundFrame
  <2>1. CASE SampleLookup
    BY <2>0, <2>1 DEF SampleLookup, MonitorFinds
  <2>2. CASE SampleStart
    BY <2>0, <2>2 DEF SampleStart
  <2>3. CASE SampleEnd
    <3>1. /\ mon = "stats" /\ monHeld \in Routers /\ mon' \in {"idle", "starved"}
          /\ lock' = [lock EXCEPT ![monHeld] = Nobody]
      BY <2>3 DEF SampleEnd, Unlock
    <3>. QED
      BY <2>0, <3>1
  <2>4. CASE ReprovisionLookup
    BY <2>0, <2>4 DEF ReprovisionLookup, MonitorFinds
  <2>5. CASE DropProducer
    BY <2>0, <2>5 DEF DropProducer
  <2>6. CASE Recreate
    BY <2>0, <2>6 DEF Recreate, Unlock
  <2>7. CASE RecreateFails
    BY <2>0, <2>7 DEF RecreateFails, Unlock
  <2>8. ASSUME NEW g \in Routers, BytesStart(g)
        PROVE  LockInv'
    BY <2>0, <2>8 DEF BytesStart
  <2>9. ASSUME NEW g \in Routers, BytesEnd(g)
        PROVE  LockInv'
    BY <2>0, <2>9 DEF BytesEnd
  <2>. QED
    BY <1>17, <2>1, <2>2, <2>3, <2>4, <2>5, <2>6, <2>7, <2>8, <2>9, Zenon DEF Background
<1>. HIDE DEF TypeOK, MapInv, HeldInv, LockInv, Free, Routers, session, handlers, events
<1>. QED
  BY <1>0, <1>1, <1>2, <1>3, <1>4, <1>5, <1>6, <1>7, <1>8, <1>9, <1>10, <1>11, <1>12,
     <1>13, <1>14, <1>15, <1>16, <1>17, Zenon DEF Steps

\* Every step keeps the slots with their handlers.
LEMMA SlotStep ==
  ASSUME TypeOK, MapInv, HeldInv, SlotInv, [Next]_vars
  PROVE  SlotInv'
<1>0. Steps
  BY NextCases
<1>. USE SfuAssumption DEF TypeOK, MapInv, HeldInv, SlotInv, NoGhostViewer, Connected, Routers, session, handlers, events
<1>1. CASE Idle
  BY <1>1 DEF Idle
<1>2. ASSUME NEW c \in Calls, ProvisionInsert(c)
      PROVE  SlotInv'
  BY <1>2 DEF ProvisionInsert
<1>3. CASE CloseSession
  BY <1>3 DEF CloseSession
<1>4. ASSUME NEW v \in Viewers, Local(v)
      PROVE  SlotInv'
  <2>1. /\ UNCHANGED <<live, viewers>>
        /\ \A w \in Viewers \ {v} : pc'[w] = pc[w] /\ held'[w] = held[w] /\ made'[w] = made[w]
    BY <1>4 DEF Local, InLoop
  <2>2. ASSUME v \notin Guests, NEW g \in Routers, v \in viewers[g]
        PROVE  /\ pc'[v] \in {"init", "loop", "find", "consume", "store", "input"}
               /\ pc'[v] = "consume" => held'[v] = g
               /\ pc'[v] = "store" => made'[v] = g
    <3>1. pc[v] # "start" /\ pc'[v] \in InLoop
      BY <1>4, <2>2 DEF Local, InLoop
    <3>2. pc'[v] = "consume" => held'[v] = g
      BY <1>4, <2>2 DEF Local, InLoop
    <3>3. pc'[v] = "store" => made'[v] = g
      BY <1>4, <2>2 DEF Local, InLoop
    <3>. QED
      BY <3>1, <3>2, <3>3 DEF InLoop
  <2>3. ASSUME NEW w \in Viewers \ Guests, NEW g \in Routers, w \in viewers[g]
        PROVE  /\ pc'[w] \notin {"start", "lock", "transports"}
               /\ pc'[w] = "consume" => held'[w] = g
               /\ pc'[w] = "store" => made'[w] = g
    <3>1. CASE w = v
      BY <2>2, <2>3, <3>1
    <3>2. CASE w # v
      BY <2>1, <2>3, <3>2
    <3>. QED
      BY <3>1, <3>2
  <2>4. ASSUME live # 0, NEW w \in viewers[live], w \notin Guests
        PROVE  Connected(w)'
    <3>1. live \in Routers /\ w \in Viewers
      BY <2>4
    <3>2. CASE w = v
      BY <2>2, <2>4, <3>1, <3>2
    <3>3. CASE w # v
      BY <2>1, <2>4, <3>1, <3>3
    <3>. QED
      BY <3>2, <3>3
  <2>. HIDE DEF Connected, TypeOK, MapInv, HeldInv, Routers
  <2>. QED
    BY <2>1, <2>3, <2>4
<1>5. ASSUME NEW v \in Viewers, CheckCap(v)
      PROVE  SlotInv'
  BY <1>5 DEF CheckCap, Goto
<1>6. ASSUME NEW v \in Viewers, InsertSlot(v)
      PROVE  SlotInv'
  <2>1. held[v] \in Routers /\ (v \notin Guests => \A g \in Routers : v \notin viewers[g])
    BY <1>6 DEF InsertSlot, Goto
  <2>2. /\ \A g \in Routers : \A w \in viewers'[g] : w \in viewers[g] \/ w = v
        /\ \A g \in Routers \ {held[v]} : viewers'[g] = viewers[g]
    BY <1>6, <2>1 DEF InsertSlot
  <2>3. /\ \A w \in Viewers \ {v} : pc'[w] = pc[w] /\ held'[w] = held[w] /\ made'[w] = made[w]
        /\ pc'[v] = (IF v \in Guests THEN "start" ELSE "announce") /\ live' = live
    BY <1>6, <2>1 DEF InsertSlot, Goto
  <2>4. ASSUME NEW w \in Viewers \ Guests, NEW g \in Routers, NEW k \in Routers,
               w \in viewers'[g], w \in viewers'[k]
        PROVE  g = k
    <3>. HIDE DEF Routers, TypeOK, MapInv, HeldInv
    <3>1. CASE w = v
      BY <2>1, <2>2, <2>4, <3>1
    <3>2. CASE w # v
      <4>1. w \in viewers[g] /\ w \in viewers[k]
        BY <2>2, <2>4, <3>2
      <4>. QED
        BY <4>1 DEF SlotInv, NoGhostViewer
    <3>. QED
      BY <3>1, <3>2
  <2>5. ASSUME NEW w \in Viewers \ Guests, NEW g \in Routers, w \in viewers'[g]
        PROVE  /\ pc'[w] \notin {"start", "lock", "transports"}
               /\ pc'[w] = "consume" => held'[w] = g
               /\ pc'[w] = "store" => made'[w] = g
    <3>. HIDE DEF Routers, TypeOK, MapInv, HeldInv
    <3>1. CASE w = v
      BY <2>3, <3>1
    <3>2. CASE w # v
      <4>1. w \in viewers[g]
        BY <2>2, <2>5, <3>2
      <4>. QED
        BY <2>3, <3>2, <4>1
    <3>. QED
      BY <3>1, <3>2
  <2>6. ASSUME live # 0, NEW w \in viewers'[live], w \notin Guests
        PROVE  Connected(w)'
    <3>1. live \in Routers /\ w \in Viewers
      <4>1. live \in Routers
        BY <2>6
      <4>2. w \in viewers[live] \/ w = v
        BY <2>2, <2>6, <4>1, Zenon
      <4>. QED
        BY <4>1, <4>2 DEF TypeOK
    <3>. HIDE DEF Routers, TypeOK, MapInv, HeldInv
    <3>2. CASE w = v
      BY <2>3, <2>6, <3>2
    <3>3. CASE w # v
      <4>1. w \in viewers[live]
        BY <2>2, <2>6, <3>1, <3>3
      <4>. QED
        BY <2>3, <2>6, <3>1, <3>3, <4>1
    <3>. QED
      BY <3>2, <3>3
  <2>. HIDE DEF Connected, Routers, TypeOK, MapInv, HeldInv
  <2>. QED
    BY <2>3, <2>4, <2>5, <2>6
<1>7. ASSUME NEW v \in Viewers, TransportsFail(v)
      PROVE  SlotInv'
  BY <1>7 DEF TransportsFail, Leave, Goto
<1>8. ASSUME NEW v \in Viewers, Announced(v)
      PROVE  SlotInv'
  BY <1>8 DEF Announced, Find, Goto
<1>9. ASSUME NEW v \in Viewers, AnnounceFails(v)
      PROVE  SlotInv'
  BY <1>9 DEF AnnounceFails, Leave, Goto
<1>10. ASSUME NEW v \in Viewers, ConsumeStore(v)
      PROVE  SlotInv'
  BY <1>10 DEF ConsumeStore, Answered, Goto
<1>11. ASSUME NEW v \in Viewers, InputDial(v)
      PROVE  SlotInv'
  BY <1>11 DEF InputDial, Goto
<1>12. ASSUME NEW v \in Viewers, InputDone(v)
      PROVE  SlotInv'
  BY <1>12 DEF InputDone, Answered, Goto
<1>13. ASSUME NEW v \in Viewers, NEW from \in LeaveSteps, NEW ok \in BOOLEAN,
             Left(v, from, ok)
      PROVE  SlotInv'
  BY <1>13 DEF Left, Leave, LeaveSteps, Goto
<1>14. ASSUME NEW v \in Viewers, RemoveViewer(v)
      PROVE  SlotInv'
  BY <1>14 DEF RemoveViewer, Goto
<1>15. ASSUME NEW v \in Viewers, Goodbye(v)
      PROVE  SlotInv'
  BY <1>15 DEF Goodbye, Goto
<1>16. ASSUME NEW v \in Viewers, KickViewer(v)
      PROVE  SlotInv'
  BY <1>16 DEF KickViewer
<1>17. CASE Background
  BY <1>17, BackgroundFrame
<1>. HIDE DEF TypeOK, MapInv, HeldInv, SlotInv, NoGhostViewer, Connected, Routers, session, handlers, events
<1>. QED
  BY <1>0, <1>1, <1>2, <1>3, <1>4, <1>5, <1>6, <1>7, <1>8, <1>9, <1>10, <1>11, <1>12,
     <1>13, <1>14, <1>15, <1>16, <1>17, Zenon DEF Steps

\* Every step keeps what dun-api was told.
LEMMA EventStep ==
  ASSUME TypeOK, HeldInv, EventInv, [Next]_vars
  PROVE  EventInv'
<1>0. Steps
  BY NextCases
<1>. USE SfuAssumption DEF TypeOK, HeldInv, EventInv, Routers, session, handlers, events
<1>1. CASE Idle
  BY <1>1 DEF Idle
<1>2. ASSUME NEW c \in Calls, ProvisionInsert(c)
      PROVE  EventInv'
  BY <1>2 DEF ProvisionInsert
<1>3. CASE CloseSession
  BY <1>3 DEF CloseSession
<1>4. ASSUME NEW v \in Viewers, Local(v)
      PROVE  EventInv'
  BY <1>4 DEF Local, InLoop
<1>5. ASSUME NEW v \in Viewers, CheckCap(v)
      PROVE  EventInv'
  BY <1>5 DEF CheckCap, Goto
<1>6. ASSUME NEW v \in Viewers, InsertSlot(v)
      PROVE  EventInv'
  BY <1>6 DEF InsertSlot, Goto
<1>7. ASSUME NEW v \in Viewers, TransportsFail(v)
      PROVE  EventInv'
  <2>1. \A w \in Viewers : slot'[w] = TRUE => slot[w] = TRUE
    BY <1>7, Zenon DEF TransportsFail, Leave, Goto, TypeOK
  <2>2. /\ pc[v] # "done" /\ pc'[v] \in {"start", "remove"}
        /\ \A w \in Viewers \ {v} : pc'[w] = pc[w]
        /\ connected \subseteq connected' /\ disconnected' = disconnected
    BY <1>7 DEF TransportsFail, Leave, Goto
  <2>. QED
    BY <2>1, <2>2
<1>8. ASSUME NEW v \in Viewers, Announced(v)
      PROVE  EventInv'
  BY <1>8 DEF Announced, Find, Goto
<1>9. ASSUME NEW v \in Viewers, AnnounceFails(v)
      PROVE  EventInv'
  <2>1. \A w \in Viewers : slot'[w] = TRUE => slot[w] = TRUE
    BY <1>9, Zenon DEF AnnounceFails, Leave, Goto, TypeOK
  <2>2. /\ pc[v] # "done" /\ pc'[v] \in {"start", "remove"}
        /\ \A w \in Viewers \ {v} : pc'[w] = pc[w]
        /\ connected \subseteq connected' /\ disconnected' = disconnected
    BY <1>9 DEF AnnounceFails, Leave, Goto
  <2>. QED
    BY <2>1, <2>2
<1>10. ASSUME NEW v \in Viewers, ConsumeStore(v)
      PROVE  EventInv'
  BY <1>10 DEF ConsumeStore, Answered, Goto
<1>11. ASSUME NEW v \in Viewers, InputDial(v)
      PROVE  EventInv'
  BY <1>11 DEF InputDial, Goto
<1>12. ASSUME NEW v \in Viewers, InputDone(v)
      PROVE  EventInv'
  BY <1>12 DEF InputDone, Answered, Goto
<1>13. ASSUME NEW v \in Viewers, NEW from \in LeaveSteps, NEW ok \in BOOLEAN,
             Left(v, from, ok)
      PROVE  EventInv'
  <2>1. \A w \in Viewers : slot'[w] = TRUE => slot[w] = TRUE \/ (w = v /\ pc[w] = "loop")
    BY <1>13, Zenon DEF Left, Leave, Goto, TypeOK
  <2>2. /\ pc[v] \in LeaveSteps /\ pc'[v] \in {"start", "remove"}
        /\ \A w \in Viewers \ {v} : pc'[w] = pc[w]
        /\ UNCHANGED <<connected, disconnected>>
    BY <1>13 DEF Left, Leave, Goto
  <2>. QED
    BY <2>1, <2>2 DEF LeaveSteps
<1>14. ASSUME NEW v \in Viewers, RemoveViewer(v)
      PROVE  EventInv'
  <2>1. v \notin Guests /\ v \notin disconnected
    BY <1>14 DEF RemoveViewer, Goto
  <2>2. slot[v] = TRUE => v \in connected
    BY DEF EventInv
  <2>3. /\ pc'[v] \in {"bye", "done"} /\ (pc'[v] = "bye" => slot[v] = TRUE)
        /\ \A w \in Viewers \ {v} : pc'[w] = pc[w]
    BY <1>14, Zenon DEF RemoveViewer, Goto, TypeOK
  <2>4. UNCHANGED <<slot, connected, disconnected>>
    BY <1>14 DEF RemoveViewer, Goto
  <2>. QED
    BY <2>1, <2>2, <2>3, <2>4
<1>15. ASSUME NEW v \in Viewers, Goodbye(v)
      PROVE  EventInv'
  BY <1>15 DEF Goodbye, Goto
<1>16. ASSUME NEW v \in Viewers, KickViewer(v)
      PROVE  EventInv'
  BY <1>16 DEF KickViewer
<1>17. CASE Background
  BY <1>17, BackgroundFrame
<1>. HIDE DEF TypeOK, HeldInv, EventInv, Routers, session, handlers, events
<1>. QED
  BY <1>0, <1>1, <1>2, <1>3, <1>4, <1>5, <1>6, <1>7, <1>8, <1>9, <1>10, <1>11, <1>12,
     <1>13, <1>14, <1>15, <1>16, <1>17, Zenon DEF Steps

\* Every step keeps the consumers in the slots of their viewers.
LEMMA ConsumerStep ==
  ASSUME TypeOK, MapInv, HeldInv, SlotInv, ConsumersWhereViewersAre, [Next]_vars
  PROVE  ConsumersWhereViewersAre'
<1>0. Steps
  BY NextCases
<1>. USE SfuAssumption DEF TypeOK, MapInv, HeldInv, SlotInv, ConsumersWhereViewersAre, Routers, session, handlers, events
<1>1. CASE Idle
  BY <1>1 DEF Idle
<1>2. ASSUME NEW c \in Calls, ProvisionInsert(c)
      PROVE  ConsumersWhereViewersAre'
  BY <1>2 DEF ProvisionInsert
<1>3. CASE CloseSession
  BY <1>3 DEF CloseSession
<1>4. ASSUME NEW v \in Viewers, Local(v)
      PROVE  ConsumersWhereViewersAre'
  BY <1>4 DEF Local, InLoop
<1>5. ASSUME NEW v \in Viewers, CheckCap(v)
      PROVE  ConsumersWhereViewersAre'
  BY <1>5 DEF CheckCap, Goto
<1>6. ASSUME NEW v \in Viewers, InsertSlot(v)
      PROVE  ConsumersWhereViewersAre'
  BY <1>6 DEF InsertSlot, Goto
<1>7. ASSUME NEW v \in Viewers, TransportsFail(v)
      PROVE  ConsumersWhereViewersAre'
  BY <1>7 DEF TransportsFail, Leave, Goto
<1>8. ASSUME NEW v \in Viewers, Announced(v)
      PROVE  ConsumersWhereViewersAre'
  BY <1>8 DEF Announced, Find, Goto
<1>9. ASSUME NEW v \in Viewers, AnnounceFails(v)
      PROVE  ConsumersWhereViewersAre'
  BY <1>9 DEF AnnounceFails, Leave, Goto
<1>10. ASSUME NEW v \in Viewers, ConsumeStore(v)
      PROVE  ConsumersWhereViewersAre'
  <2>0. pc[v] = "store" /\ v \in viewers[held[v]] /\ viewers' = viewers
    BY <1>10 DEF ConsumeStore, Answered, Goto
  <2>1. held[v] \in Routers /\ v \in viewers[held[v]] /\ viewers' = viewers /\ v \notin Guests
    <3>. HIDE DEF SlotInv, ConsumersWhereViewersAre, MapInv
    <3>1. held[v] \in 1 .. routers /\ v \notin Guests
      BY <2>0 DEF HeldInv
    <3>. QED
      BY <2>0, <3>1
  <2>2. made[v] = held[v]
    BY <2>0, <2>1 DEF SlotInv
  <2>3. <<made[v], told[v]>> \in Routers \X (1 .. MaxProducers)
    BY <1>10 DEF ConsumeStore, Answered, Goto
  <2>4. consumers' = [consumers EXCEPT ![held[v]][v] = @ \cup {<<made[v], told[v]>>}]
    BY <1>10, Zenon DEF ConsumeStore, Answered, Goto
  <2>5. /\ consumers'[held[v]][v] = consumers[held[v]][v] \cup {<<made[v], told[v]>>}
        /\ \A k \in Routers, w \in Viewers :
             ~(k = held[v] /\ w = v) => consumers'[k][w] = consumers[k][w]
    <3>. HIDE DEF Routers
    <3>. QED
      BY <2>1, <2>3, <2>4, StoreOne
  <2>. HIDE DEF TypeOK, MapInv, HeldInv, SlotInv, Routers
  <2>. QED
    BY <2>1, <2>2, <2>5
<1>11. ASSUME NEW v \in Viewers, InputDial(v)
      PROVE  ConsumersWhereViewersAre'
  BY <1>11 DEF InputDial, Goto
<1>12. ASSUME NEW v \in Viewers, InputDone(v)
      PROVE  ConsumersWhereViewersAre'
  BY <1>12 DEF InputDone, Answered, Goto
<1>13. ASSUME NEW v \in Viewers, NEW from \in LeaveSteps, NEW ok \in BOOLEAN,
             Left(v, from, ok)
      PROVE  ConsumersWhereViewersAre'
  BY <1>13 DEF Left, Leave, LeaveSteps, Goto
<1>14. ASSUME NEW v \in Viewers, RemoveViewer(v)
      PROVE  ConsumersWhereViewersAre'
  BY <1>14 DEF RemoveViewer, Goto
<1>15. ASSUME NEW v \in Viewers, Goodbye(v)
      PROVE  ConsumersWhereViewersAre'
  BY <1>15 DEF Goodbye, Goto
<1>16. ASSUME NEW v \in Viewers, KickViewer(v)
      PROVE  ConsumersWhereViewersAre'
  BY <1>16 DEF KickViewer
<1>17. CASE Background
  BY <1>17, BackgroundFrame
<1>. HIDE DEF TypeOK, MapInv, HeldInv, SlotInv, ConsumersWhereViewersAre, Routers, session, handlers, events
<1>. QED
  BY <1>0, <1>1, <1>2, <1>3, <1>4, <1>5, <1>6, <1>7, <1>8, <1>9, <1>10, <1>11, <1>12,
     <1>13, <1>14, <1>15, <1>16, <1>17, Zenon DEF Steps

\* Every step keeps the cap.
LEMMA CapStep ==
  ASSUME TypeOK, MapInv, HeldInv, LockInv, CapInv, [Next]_vars
  PROVE  CapInv'
<1>0. Steps
  BY NextCases
<1>. USE SfuAssumption DEF TypeOK, MapInv, HeldInv, LockInv, CapInv, Full, Free, Routers, session, handlers, events
<1>1. CASE Idle
  BY <1>1 DEF Idle
<1>2. ASSUME NEW c \in Calls, ProvisionInsert(c)
      PROVE  CapInv'
  BY <1>2 DEF ProvisionInsert
<1>3. CASE CloseSession
  BY <1>3 DEF CloseSession
<1>4. ASSUME NEW v \in Viewers, Local(v)
      PROVE  CapInv'
  BY <1>4 DEF Local, InLoop
<1>5. ASSUME NEW v \in Viewers, CheckCap(v)
      PROVE  CapInv'
  <2>1. held[v] \in Routers /\ Cardinality(viewers[held[v]]) \in Nat
    BY <1>5, FS_CardinalityType DEF CheckCap, Goto, Full
  <2>2. Cardinality(viewers[held[v]]) < Cap
    BY <1>5, <2>1 DEF CheckCap, Goto, Full
  <2>. QED
    BY <1>5, <2>2 DEF CheckCap, Goto, Full
<1>6. ASSUME NEW v \in Viewers, InsertSlot(v)
      PROVE  CapInv'
  <2>. DEFINE h == held[v]
  <2>1. h \in Routers /\ viewers' = [viewers EXCEPT ![h] = viewers[h] \cup {v}]
    BY <1>6 DEF InsertSlot, Goto
  <2>2. IsFiniteSet(viewers[h]) /\ Cardinality(viewers[h]) \in Nat /\ Cardinality(viewers[h]) < Cap
    BY <1>6, <2>1, FS_CardinalityType DEF InsertSlot, Goto
  <2>3. IsFiniteSet(viewers[h] \cup {v}) /\ Cardinality(viewers[h] \cup {v}) <= Cap
    <3>1. IsFiniteSet(viewers[h] \cup {v}) /\ Cardinality(viewers[h] \cup {v}) \in Nat
      BY <2>2, OneMore, Zenon
    <3>2. Cardinality(viewers[h] \cup {v}) <= Cardinality(viewers[h]) + 1
      BY <2>2, OneMore, Zenon
    <3>. QED
      BY <2>2, <3>1, <3>2, SfuAssumption
  <2>4. viewers'[h] = viewers[h] \cup {v} /\ \A g \in Routers \ {h} : viewers'[g] = viewers[g]
    BY <2>1
  <2>5. \A g \in Routers : IsFiniteSet(viewers'[g]) /\ Cardinality(viewers'[g]) <= Cap
    BY <2>3, <2>4, Zenon
  <2>6. ASSUME NEW w \in Viewers, pc'[w] = "transports"
        PROVE  held'[w] = held[w] /\ held[w] \in Routers \ {h} /\ pc[w] = "transports"
    BY <1>6, <2>6 DEF InsertSlot, Goto
  <2>7. \A w \in Viewers : pc'[w] = "transports" => Cardinality(viewers'[held'[w]]) < Cap
    BY <2>4, <2>6
  <2>. QED
    BY <2>5, <2>7 DEF CapInv
<1>7. ASSUME NEW v \in Viewers, TransportsFail(v)
      PROVE  CapInv'
  BY <1>7 DEF TransportsFail, Leave, Goto
<1>8. ASSUME NEW v \in Viewers, Announced(v)
      PROVE  CapInv'
  BY <1>8 DEF Announced, Find, Goto
<1>9. ASSUME NEW v \in Viewers, AnnounceFails(v)
      PROVE  CapInv'
  BY <1>9 DEF AnnounceFails, Leave, Goto
<1>10. ASSUME NEW v \in Viewers, ConsumeStore(v)
      PROVE  CapInv'
  BY <1>10 DEF ConsumeStore, Answered, Goto
<1>11. ASSUME NEW v \in Viewers, InputDial(v)
      PROVE  CapInv'
  BY <1>11 DEF InputDial, Goto
<1>12. ASSUME NEW v \in Viewers, InputDone(v)
      PROVE  CapInv'
  BY <1>12 DEF InputDone, Answered, Goto
<1>13. ASSUME NEW v \in Viewers, NEW from \in LeaveSteps, NEW ok \in BOOLEAN,
             Left(v, from, ok)
      PROVE  CapInv'
  BY <1>13 DEF Left, Leave, LeaveSteps, Goto
<1>14. ASSUME NEW v \in Viewers, RemoveViewer(v)
      PROVE  CapInv'
  <2>1. \A g \in Routers : viewers'[g] = viewers[g] \/ viewers'[g] = viewers[g] \ {v}
    BY <1>14 DEF RemoveViewer, Goto
  <2>2. ASSUME NEW g \in Routers
        PROVE  /\ IsFiniteSet(viewers'[g])
               /\ Cardinality(viewers[g]) \in Nat /\ Cardinality(viewers'[g]) \in Nat
               /\ Cardinality(viewers'[g]) <= Cardinality(viewers[g])
    <3>1. IsFiniteSet(viewers[g]) /\ Cardinality(viewers[g]) \in Nat
      BY FS_CardinalityType DEF CapInv
    <3>2. CASE viewers'[g] = viewers[g]
      BY <3>1, <3>2
    <3>3. CASE viewers'[g] = viewers[g] \ {v}
      <4>1. /\ IsFiniteSet(viewers[g] \ {v}) /\ Cardinality(viewers[g] \ {v}) \in Nat
            /\ Cardinality(viewers[g] \ {v}) <= Cardinality(viewers[g])
        BY <3>1, OneLess, Zenon
      <4>. QED
        BY <3>1, <3>3, <4>1, Zenon
    <3>. QED
      BY <2>1, <3>2, <3>3
  <2>3. \A g \in Routers : IsFiniteSet(viewers'[g]) /\ Cardinality(viewers'[g]) <= Cap
    <3>. SUFFICES ASSUME NEW g \in Routers
                  PROVE  IsFiniteSet(viewers'[g]) /\ Cardinality(viewers'[g]) <= Cap
      OBVIOUS
    <3>1. Cardinality(viewers[g]) <= Cap
      BY DEF CapInv
    <3>. HIDE DEF TypeOK, MapInv, HeldInv, LockInv, CapInv
    <3>. QED
      BY <2>2, <3>1
  <2>4. ASSUME NEW w \in Viewers, pc'[w] = "transports"
        PROVE  held'[w] = held[w] /\ held[w] \in Routers /\ pc[w] = "transports"
    BY <1>14, <2>4 DEF RemoveViewer, Goto
  <2>5. \A w \in Viewers : pc'[w] = "transports" => Cardinality(viewers'[held'[w]]) < Cap
    <3>. SUFFICES ASSUME NEW w \in Viewers, pc'[w] = "transports"
                  PROVE  Cardinality(viewers'[held'[w]]) < Cap
      OBVIOUS
    <3>1. /\ Cardinality(viewers'[held[w]]) \in Nat /\ Cardinality(viewers[held[w]]) \in Nat
          /\ Cardinality(viewers'[held[w]]) <= Cardinality(viewers[held[w]])
      BY <2>2, <2>4, Zenon
    <3>2. Cardinality(viewers[held[w]]) < Cap
      BY <2>4, Zenon DEF CapInv
    <3>3. Cardinality(viewers'[held[w]]) < Cap
      BY <3>1, <3>2
    <3>. QED
      BY <2>4, <3>3, Zenon
  <2>. QED
    BY <2>3, <2>5 DEF CapInv
<1>15. ASSUME NEW v \in Viewers, Goodbye(v)
      PROVE  CapInv'
  BY <1>15 DEF Goodbye, Goto
<1>16. ASSUME NEW v \in Viewers, KickViewer(v)
      PROVE  CapInv'
  <2>1. \A g \in Routers : viewers'[g] = viewers[g] \/ viewers'[g] = viewers[g] \ {v}
    BY <1>16 DEF KickViewer
  <2>2. ASSUME NEW g \in Routers
        PROVE  /\ IsFiniteSet(viewers'[g])
               /\ Cardinality(viewers[g]) \in Nat /\ Cardinality(viewers'[g]) \in Nat
               /\ Cardinality(viewers'[g]) <= Cardinality(viewers[g])
    <3>1. IsFiniteSet(viewers[g]) /\ Cardinality(viewers[g]) \in Nat
      BY FS_CardinalityType DEF CapInv
    <3>2. CASE viewers'[g] = viewers[g]
      BY <3>1, <3>2
    <3>3. CASE viewers'[g] = viewers[g] \ {v}
      <4>1. /\ IsFiniteSet(viewers[g] \ {v}) /\ Cardinality(viewers[g] \ {v}) \in Nat
            /\ Cardinality(viewers[g] \ {v}) <= Cardinality(viewers[g])
        BY <3>1, OneLess, Zenon
      <4>. QED
        BY <3>1, <3>3, <4>1, Zenon
    <3>. QED
      BY <2>1, <3>2, <3>3
  <2>3. \A g \in Routers : IsFiniteSet(viewers'[g]) /\ Cardinality(viewers'[g]) <= Cap
    <3>. SUFFICES ASSUME NEW g \in Routers
                  PROVE  IsFiniteSet(viewers'[g]) /\ Cardinality(viewers'[g]) <= Cap
      OBVIOUS
    <3>1. Cardinality(viewers[g]) <= Cap
      BY DEF CapInv
    <3>. HIDE DEF TypeOK, MapInv, HeldInv, LockInv, CapInv
    <3>. QED
      BY <2>2, <3>1
  <2>4. ASSUME NEW w \in Viewers, pc'[w] = "transports"
        PROVE  held'[w] = held[w] /\ held[w] \in Routers /\ pc[w] = "transports"
    BY <1>16, <2>4 DEF KickViewer
  <2>5. \A w \in Viewers : pc'[w] = "transports" => Cardinality(viewers'[held'[w]]) < Cap
    <3>. SUFFICES ASSUME NEW w \in Viewers, pc'[w] = "transports"
                  PROVE  Cardinality(viewers'[held'[w]]) < Cap
      OBVIOUS
    <3>1. /\ Cardinality(viewers'[held[w]]) \in Nat /\ Cardinality(viewers[held[w]]) \in Nat
          /\ Cardinality(viewers'[held[w]]) <= Cardinality(viewers[held[w]])
      BY <2>2, <2>4, Zenon
    <3>2. Cardinality(viewers[held[w]]) < Cap
      BY <2>4, Zenon DEF CapInv
    <3>3. Cardinality(viewers'[held[w]]) < Cap
      BY <3>1, <3>2
    <3>. QED
      BY <2>4, <3>3, Zenon
  <2>. QED
    BY <2>3, <2>5 DEF CapInv
<1>17. CASE Background
  BY <1>17, BackgroundFrame
<1>. HIDE DEF TypeOK, MapInv, HeldInv, LockInv, CapInv, Full, Free, Routers, session, handlers, events
<1>. QED
  BY <1>0, <1>1, <1>2, <1>3, <1>4, <1>5, <1>6, <1>7, <1>8, <1>9, <1>10, <1>11, <1>12,
     <1>13, <1>14, <1>15, <1>16, <1>17, Zenon DEF Steps

\* Every step keeps the inductive invariant.
LEMMA NextIInv == IInv /\ [Next]_vars => IInv'
  BY TypeStep, MapStep, HeldStep, LockStep, SlotStep, EventStep, ConsumerStep, CapStep, Zenon DEF IInv

LEMMA IInvHolds == Spec => []IInv
  BY InitIInv, NextIInv, PTL DEF Spec

-----------------------------------------------------------------------------

\* RouterManager's maps and the handlers of ws_handler keep their types: the Router in
\* the sessions map was created, every slot and consumer belongs to a viewer id.
THEOREM TypeCorrect == Spec => []TypeOK
  BY IInvHolds, PTL DEF IInv

\* No Router ever has more viewers than VIEWER_CAP_PER_SESSION, whatever the cap and
\* however many connections and create_router requests reach create_consumer_transports
\* at once: the check and the insertion happen under one hold of the session's mutex.
THEOREM CapHoldsAlways == Spec => []CapHolds
<1>1. IInv => CapHolds
  BY DEF IInv, CapInv, CapHolds
<1>. QED
  BY <1>1, IInvHolds, PTL

\* viewer_count counts only connections that still run and slots that create_router made:
\* remove_viewer reaches a connection's slot in the live session however often the session
\* was closed and provisioned again.
THEOREM NoGhostViewerAlways == Spec => []NoGhostViewer
  BY IInvHolds, PTL DEF IInv, SlotInv

\* dun-api hears viewer_disconnected only after viewer_connected, and when the slot is
\* no longer in the live session.
THEOREM DisconnectIsLastAlways == Spec => []DisconnectIsLast
<1>1. ASSUME IInv, NEW v \in disconnected
      PROVE  v \in connected /\ v \in Viewers \ Guests /\ pc[v] = "done"
  <2>1. v \in connected /\ v \in Viewers /\ pc[v] = "done"
    BY <1>1, Zenon DEF IInv, TypeOK, EventInv
  <2>. QED
    BY <1>1, <2>1 DEF IInv, HeldInv
<1>2. ASSUME NEW v \in Viewers \ Guests, pc[v] = "done"
      PROVE  ~Connected(v)
  BY <1>2 DEF Connected
<1>3. IInv => DisconnectIsLast
  BY <1>1, <1>2, Zenon DEF IInv, SlotInv, NoGhostViewer, DisconnectIsLast
<1>. QED
  BY <1>3, IInvHolds, PTL

\* handle_consume stores a consumer only in its viewer's slot and under the Router whose
\* transport it was made on, although the session is looked up twice and locked twice,
\* and may be closed, replaced or have lost the slot in between.
THEOREM ConsumersStay == Spec => []ConsumersWhereViewersAre
  BY IInvHolds, PTL DEF IInv

-----------------------------------------------------------------------------
(* The mutexes, and who is announced as gone.                              *)

\* A mutex is held only by a handler that makes its transports on that Router or dials
\* Neko for it, by the monitor that samples or recreates that Router's producer, or by
\* the reporter.
MutexInUse ==
  \A g \in Routers :
    /\ \A v \in Viewers : lock[g] = v => pc[v] \in {"transports", "dial"} /\ held[v] = g
    /\ lock[g] = Monitor => mon \in {"stats", "recreate"} /\ monHeld = g

\* A handler or the monitor that has a mutex lets it go with its next step, the failing
\* one too, and no mutex passes from one owner to another.
LetGo ==
  \A g \in Routers :
    /\ lock'[g] # lock[g] => lock[g] = Nobody \/ lock'[g] = Nobody
    /\ \A v \in Viewers : lock[g] = v /\ pc'[v] # pc[v] => lock'[g] = Nobody
    /\ lock[g] = Monitor /\ mon' # mon => lock'[g] = Nobody

MutexLetGo == [][LetGo]_vars

\* viewer_disconnected goes out for the connections whose run_session returned
\* Ok(true), and for no other.
GoneIffOk ==
  \A v \in Viewers :
    /\ pc[v] = "done" => (v \in disconnected <=> slot[v] = TRUE)
    /\ v \in disconnected => pc[v] = "done"
    /\ pc[v] = "bye" => slot[v] = TRUE

\* Every step keeps the mutexes in use, and lets them go.
LEMMA MutexStep ==
  ASSUME TypeOK, MapInv, HeldInv, LockInv, MutexInUse, [Next]_vars
  PROVE  MutexInUse' /\ LetGo
<1>0. Steps
  BY NextCases
<1>. USE SfuAssumption DEF TypeOK, MapInv, HeldInv, LockInv, MutexInUse, LetGo, Routers, session, handlers, events
<1>1. CASE Idle
  BY <1>1 DEF Idle
<1>2. ASSUME NEW c \in Calls, ProvisionInsert(c)
      PROVE  MutexInUse' /\ LetGo
  BY <1>2 DEF ProvisionInsert
<1>3. CASE CloseSession
  BY <1>3 DEF CloseSession
<1>4. ASSUME NEW v \in Viewers, Local(v)
      PROVE  MutexInUse' /\ LetGo
  <2>1. pc[v] \notin {"transports", "dial"} /\ UNCHANGED <<lock, mon, monHeld>>
    BY <1>4 DEF Local, InLoop
  <2>2. \A w \in Viewers \ {v} : pc'[w] = pc[w] /\ held'[w] = held[w]
    BY <1>4 DEF Local, InLoop
  <2>. HIDE DEF TypeOK, MapInv, HeldInv, LockInv, Routers
  <2>. QED
    BY <2>1, <2>2
<1>5. ASSUME NEW v \in Viewers, CheckCap(v)
      PROVE  MutexInUse' /\ LetGo
  <2>1. /\ pc[v] \notin {"transports", "dial"} /\ pc'[v] \in {"transports", "dial"}
        /\ held' = held /\ held[v] \in Routers /\ lock[held[v]] = Nobody
        /\ lock' = [lock EXCEPT ![held[v]] = v]
        /\ UNCHANGED <<mon, monHeld>>
    BY <1>5 DEF CheckCap, Goto, Free
  <2>2. \A w \in Viewers \ {v} : pc'[w] = pc[w]
    BY <1>5 DEF CheckCap, Goto
  <2>. HIDE DEF TypeOK, MapInv, HeldInv, LockInv, Routers
  <2>. QED
    BY <2>1, <2>2
<1>6. ASSUME NEW v \in Viewers, InsertSlot(v)
      PROVE  MutexInUse' /\ LetGo
  <2>1. /\ pc[v] \in {"transports", "dial"} /\ lock' = [lock EXCEPT ![held[v]] = Nobody]
        /\ UNCHANGED <<mon, monHeld>>
    BY <1>6 DEF InsertSlot, Goto
  <2>2. \A w \in Viewers \ {v} : pc'[w] = pc[w] /\ held'[w] = held[w]
    BY <1>6 DEF InsertSlot, Goto
  <2>3. held[v] \in Routers
    BY <2>1
  <2>4. \A g \in Routers : lock'[g] = IF g = held[v] THEN Nobody ELSE lock[g]
    BY <2>1, <2>3
  <2>. HIDE DEF TypeOK, MapInv, HeldInv, LockInv, Routers
  <2>. QED
    BY SfuAssumption, <2>1, <2>2, <2>3, <2>4
<1>7. ASSUME NEW v \in Viewers, TransportsFail(v)
      PROVE  MutexInUse' /\ LetGo
  <2>1. /\ pc[v] \in {"transports", "dial"} /\ lock' = [lock EXCEPT ![held[v]] = Nobody]
        /\ UNCHANGED <<mon, monHeld>>
    BY <1>7 DEF TransportsFail, Leave, Goto
  <2>2. \A w \in Viewers \ {v} : pc'[w] = pc[w] /\ held'[w] = held[w]
    BY <1>7 DEF TransportsFail, Leave, Goto
  <2>3. held[v] \in Routers
    BY <2>1
  <2>4. \A g \in Routers : lock'[g] = IF g = held[v] THEN Nobody ELSE lock[g]
    BY <2>1, <2>3
  <2>. HIDE DEF TypeOK, MapInv, HeldInv, LockInv, Routers
  <2>. QED
    BY SfuAssumption, <2>1, <2>2, <2>3, <2>4
<1>8. ASSUME NEW v \in Viewers, Announced(v)
      PROVE  MutexInUse' /\ LetGo
  <2>1. pc[v] \notin {"transports", "dial"} /\ UNCHANGED <<lock, mon, monHeld>>
    BY <1>8 DEF Announced, Find, Goto
  <2>2. \A w \in Viewers \ {v} : pc'[w] = pc[w] /\ held'[w] = held[w]
    BY <1>8 DEF Announced, Find, Goto
  <2>. HIDE DEF TypeOK, MapInv, HeldInv, LockInv, Routers
  <2>. QED
    BY <2>1, <2>2
<1>9. ASSUME NEW v \in Viewers, AnnounceFails(v)
      PROVE  MutexInUse' /\ LetGo
  <2>1. pc[v] \notin {"transports", "dial"} /\ UNCHANGED <<lock, mon, monHeld>>
    BY <1>9 DEF AnnounceFails, Leave, Goto
  <2>2. \A w \in Viewers \ {v} : pc'[w] = pc[w] /\ held'[w] = held[w]
    BY <1>9 DEF AnnounceFails, Leave, Goto
  <2>. HIDE DEF TypeOK, MapInv, HeldInv, LockInv, Routers
  <2>. QED
    BY <2>1, <2>2
<1>10. ASSUME NEW v \in Viewers, ConsumeStore(v)
      PROVE  MutexInUse' /\ LetGo
  <2>1. pc[v] \notin {"transports", "dial"} /\ UNCHANGED <<lock, mon, monHeld>>
    BY <1>10 DEF ConsumeStore, Answered, Goto
  <2>2. \A w \in Viewers \ {v} : pc'[w] = pc[w] /\ held'[w] = held[w]
    BY <1>10 DEF ConsumeStore, Answered, Goto
  <2>. HIDE DEF TypeOK, MapInv, HeldInv, LockInv, Routers
  <2>. QED
    BY <2>1, <2>2
<1>11. ASSUME NEW v \in Viewers, InputDial(v)
      PROVE  MutexInUse' /\ LetGo
  <2>1. /\ pc[v] \notin {"transports", "dial"} /\ pc'[v] \in {"transports", "dial"}
        /\ held' = held /\ held[v] \in Routers /\ lock[held[v]] = Nobody
        /\ lock' = [lock EXCEPT ![held[v]] = v]
        /\ UNCHANGED <<mon, monHeld>>
    BY <1>11 DEF InputDial, Goto, Free
  <2>2. \A w \in Viewers \ {v} : pc'[w] = pc[w]
    BY <1>11 DEF InputDial, Goto
  <2>. HIDE DEF TypeOK, MapInv, HeldInv, LockInv, Routers
  <2>. QED
    BY <2>1, <2>2
<1>12. ASSUME NEW v \in Viewers, InputDone(v)
      PROVE  MutexInUse' /\ LetGo
  <2>1. /\ pc[v] \in {"transports", "dial"} /\ lock' = [lock EXCEPT ![held[v]] = Nobody]
        /\ UNCHANGED <<mon, monHeld>>
    BY <1>12 DEF InputDone, Answered, Goto
  <2>2. \A w \in Viewers \ {v} : pc'[w] = pc[w] /\ held'[w] = held[w]
    BY <1>12 DEF InputDone, Answered, Goto
  <2>3. held[v] \in Routers
    BY <2>1
  <2>4. \A g \in Routers : lock'[g] = IF g = held[v] THEN Nobody ELSE lock[g]
    BY <2>1, <2>3
  <2>. HIDE DEF TypeOK, MapInv, HeldInv, LockInv, Routers
  <2>. QED
    BY SfuAssumption, <2>1, <2>2, <2>3, <2>4
<1>13. ASSUME NEW v \in Viewers, NEW from \in LeaveSteps, NEW ok \in BOOLEAN,
             Left(v, from, ok)
      PROVE  MutexInUse' /\ LetGo
  <2>1. pc[v] \notin {"transports", "dial"} /\ UNCHANGED <<lock, mon, monHeld>>
    BY <1>13 DEF Left, Leave, LeaveSteps, Goto
  <2>2. \A w \in Viewers \ {v} : pc'[w] = pc[w] /\ held'[w] = held[w]
    BY <1>13 DEF Left, Leave, LeaveSteps, Goto
  <2>. HIDE DEF TypeOK, MapInv, HeldInv, LockInv, Routers
  <2>. QED
    BY <2>1, <2>2
<1>14. ASSUME NEW v \in Viewers, RemoveViewer(v)
      PROVE  MutexInUse' /\ LetGo
  <2>1. pc[v] \notin {"transports", "dial"} /\ UNCHANGED <<lock, mon, monHeld>>
    BY <1>14 DEF RemoveViewer, Goto
  <2>2. \A w \in Viewers \ {v} : pc'[w] = pc[w] /\ held'[w] = held[w]
    BY <1>14 DEF RemoveViewer, Goto
  <2>. HIDE DEF TypeOK, MapInv, HeldInv, LockInv, Routers
  <2>. QED
    BY <2>1, <2>2
<1>15. ASSUME NEW v \in Viewers, Goodbye(v)
      PROVE  MutexInUse' /\ LetGo
  <2>1. pc[v] \notin {"transports", "dial"} /\ UNCHANGED <<lock, mon, monHeld>>
    BY <1>15 DEF Goodbye, Goto
  <2>2. \A w \in Viewers \ {v} : pc'[w] = pc[w] /\ held'[w] = held[w]
    BY <1>15 DEF Goodbye, Goto
  <2>. HIDE DEF TypeOK, MapInv, HeldInv, LockInv, Routers
  <2>. QED
    BY <2>1, <2>2
<1>16. ASSUME NEW v \in Viewers, KickViewer(v)
      PROVE  MutexInUse' /\ LetGo
  BY <1>16 DEF KickViewer
<1>17. CASE Background
  <2>0. UNCHANGED <<live, routers, viewers, consumers, handlers, events>>
    BY <1>17, BackgroundFrame
  <2>1. CASE SampleLookup
    BY <2>0, <2>1 DEF SampleLookup, MonitorFinds
  <2>2. CASE SampleStart
    BY <2>0, <2>2 DEF SampleStart
  <2>3. CASE SampleEnd
    <3>1. /\ mon = "stats" /\ monHeld \in Routers /\ mon' \in {"idle", "starved"}
          /\ lock' = [lock EXCEPT ![monHeld] = Nobody]
      BY <2>3 DEF SampleEnd, Unlock
    <3>. QED
      BY <2>0, <3>1
  <2>4. CASE ReprovisionLookup
    BY <2>0, <2>4 DEF ReprovisionLookup, MonitorFinds
  <2>5. CASE DropProducer
    BY <2>0, <2>5 DEF DropProducer
  <2>6. CASE Recreate
    BY <2>0, <2>6 DEF Recreate, Unlock
  <2>7. CASE RecreateFails
    BY <2>0, <2>7 DEF RecreateFails, Unlock
  <2>8. ASSUME NEW g \in Routers, BytesStart(g)
        PROVE  MutexInUse' /\ LetGo
    BY <2>0, <2>8 DEF BytesStart
  <2>9. ASSUME NEW g \in Routers, BytesEnd(g)
        PROVE  MutexInUse' /\ LetGo
    BY <2>0, <2>9 DEF BytesEnd
  <2>. QED
    BY <1>17, <2>1, <2>2, <2>3, <2>4, <2>5, <2>6, <2>7, <2>8, <2>9, Zenon DEF Background
<1>. HIDE DEF TypeOK, MapInv, HeldInv, LockInv, MutexInUse, LetGo, Routers, session, handlers, events
<1>. QED
  BY <1>0, <1>1, <1>2, <1>3, <1>4, <1>5, <1>6, <1>7, <1>8, <1>9, <1>10, <1>11, <1>12,
     <1>13, <1>14, <1>15, <1>16, <1>17, Zenon DEF Steps

\* No mutex of a SessionState is left behind, on no error path of
\* create_consumer_transports, produce_input_data, producer_sample or
\* reprovision_plain_producer, and however often the session is closed and provisioned:
\* whoever has it is at the one place that has it and lets it go with the next step.
THEOREM MutexesInUse == Spec => []MutexInUse /\ MutexLetGo
<1>1. Init => MutexInUse
  BY SfuAssumption DEF Init, MutexInUse
<1>2. IInv /\ MutexInUse /\ [Next]_vars => MutexInUse' /\ LetGo
  BY MutexStep, Zenon DEF IInv
<1>. QED
  BY <1>1, <1>2, IInvHolds, PTL DEF Spec, MutexLetGo

\* Every step keeps the announcements of the connections that ended.
LEMMA GoneStep ==
  ASSUME IInv, GoneIffOk, [Next]_vars
  PROVE  GoneIffOk'
<1>0. TypeOK /\ HeldInv /\ Steps
  BY NextCases, Zenon DEF IInv
<1>1. ASSUME UNCHANGED <<pc, slot, disconnected>> PROVE GoneIffOk'
  BY <1>1, Zenon DEF GoneIffOk
<1>2. ASSUME NEW v \in Viewers, pc'[v] \notin {"bye", "done"}, pc[v] # "done",
             \A w \in Viewers \ {v} : pc'[w] = pc[w] /\ slot'[w] = slot[w],
             disconnected' = disconnected
      PROVE  GoneIffOk'
  BY <1>2, Zenon DEF GoneIffOk
<1>3. CASE \/ Idle \/ CloseSession \/ Background
           \/ \E c \in Calls : ProvisionInsert(c)
           \/ \E v \in Viewers : KickViewer(v)
  <2>1. UNCHANGED <<pc, slot, disconnected>>
    BY <1>3, BackgroundFrame, Zenon DEF Idle, ProvisionInsert, CloseSession, KickViewer, handlers, events
  <2>. QED
    BY <1>1, <2>1
<1>4. ASSUME NEW v \in Viewers,
             \/ Local(v) \/ CheckCap(v) \/ InsertSlot(v) \/ Announced(v)
             \/ ConsumeStore(v) \/ InputDial(v) \/ InputDone(v)
      PROVE  GoneIffOk'
  <2>1. /\ pc'[v] \notin {"bye", "done"} /\ pc[v] # "done"
        /\ \A w \in Viewers \ {v} : pc'[w] = pc[w]
        /\ slot' = slot /\ disconnected' = disconnected
    <3>. USE <1>0 DEF TypeOK, Goto, Find, Answered, events
    <3>1. CASE Local(v)
      BY <3>1 DEF Local, InLoop
    <3>2. CASE CheckCap(v) \/ InsertSlot(v) \/ InputDial(v)
      BY <3>2 DEF CheckCap, InsertSlot, InputDial
    <3>3. CASE Announced(v) \/ ConsumeStore(v) \/ InputDone(v)
      BY <3>3 DEF Announced, ConsumeStore, InputDone
    <3>. QED
      BY <1>4, <3>1, <3>2, <3>3, Zenon
  <2>. QED
    BY <1>2, <2>1
<1>5. ASSUME NEW v \in Viewers, NEW from \in LeaveSteps \cup {"transports", "announce"}, NEW ok,
             Leave(v, from, ok), disconnected' = disconnected
      PROVE  GoneIffOk'
  <2>1. /\ pc' = [pc EXCEPT ![v] = IF v \in Guests THEN "start" ELSE "remove"] /\ pc[v] = from
        /\ slot' = [slot EXCEPT ![v] = ok]
    BY <1>5, Zenon DEF Leave, Goto
  <2>2. /\ pc'[v] \notin {"bye", "done"} /\ pc[v] # "done" /\ \A w \in Viewers \ {v} : pc'[w] = pc[w]
    BY <1>0, <2>1 DEF TypeOK, LeaveSteps
  <2>3. \A w \in Viewers \ {v} : slot'[w] = slot[w]
    BY <1>0, <2>1, Zenon DEF TypeOK
  <2>. QED
    BY <1>2, <1>5, <2>2, <2>3
<1>6. ASSUME NEW v \in Viewers, RemoveViewer(v) PROVE GoneIffOk'
  <2>1. /\ pc[v] = "remove" /\ pc' = [pc EXCEPT ![v] = IF slot[v] THEN "bye" ELSE "done"]
        /\ slot' = slot /\ disconnected' = disconnected
    BY <1>6, Zenon DEF RemoveViewer, Goto, events
  <2>2. \A w \in Viewers \ {v} : pc'[w] = pc[w]
    BY <1>0, <2>1, Zenon DEF TypeOK
  <2>3. v \notin disconnected /\ slot[v] \in BOOLEAN
    BY <1>0, <2>1, Zenon DEF GoneIffOk, TypeOK
  <2>4. CASE slot[v] = TRUE
    <3>1. pc'[v] = "bye"
      BY <1>0, <2>1, <2>4, Zenon DEF TypeOK
    <3>. QED
      BY <2>1, <2>2, <2>3, <2>4, <3>1, Zenon DEF GoneIffOk
  <2>5. CASE slot[v] = FALSE
    <3>1. pc'[v] = "done"
      BY <1>0, <2>1, <2>5, Zenon DEF TypeOK
    <3>. QED
      BY <2>1, <2>2, <2>3, <2>5, <3>1, Zenon DEF GoneIffOk
  <2>. QED
    BY <2>3, <2>4, <2>5, Zenon
<1>7. ASSUME NEW v \in Viewers, Goodbye(v) PROVE GoneIffOk'
  <2>1. /\ pc[v] = "bye" /\ pc' = [pc EXCEPT ![v] = "done"] /\ slot' = slot
        /\ disconnected' = disconnected \cup {v}
    BY <1>7, Zenon DEF Goodbye, Goto
  <2>2. pc'[v] = "done" /\ \A w \in Viewers \ {v} : pc'[w] = pc[w]
    BY <1>0, <2>1, Zenon DEF TypeOK
  <2>3. slot[v] = TRUE
    BY <2>1, Zenon DEF GoneIffOk
  <2>. QED
    BY <2>1, <2>2, <2>3, Zenon DEF GoneIffOk
<1>8. ASSUME NEW v \in Viewers,
             \/ TransportsFail(v) \/ AnnounceFails(v)
             \/ \E from \in LeaveSteps, ok \in BOOLEAN : Left(v, from, ok)
      PROVE  GoneIffOk'
  BY <1>5, <1>8, Zenon DEF TransportsFail, AnnounceFails, Left, events
<1>. QED
  BY <1>0, <1>3, <1>4, <1>6, <1>7, <1>8, Zenon DEF Steps

\* viewer_disconnected reaches dun-api for exactly the connections whose run_session
\* returned Ok(true).  The viewers that ConnectIsPaired loses are therefore those that
\* were announced and then met an error, and only those.
THEOREM GoneExactlyIfOk == Spec => []GoneIffOk
<1>1. Init => GoneIffOk
  BY Zenon DEF Init, GoneIffOk
<1>2. IInv /\ GoneIffOk /\ [Next]_vars => GoneIffOk'
  BY GoneStep
<1>. QED
  BY <1>1, <1>2, IInvHolds, PTL DEF Spec
===============================================================================
