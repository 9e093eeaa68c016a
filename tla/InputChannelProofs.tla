------------------------- MODULE InputChannelProofs -------------------------
(***************************************************************************)
(* Theorems about InputChannel, for any number of viewers, calls,          *)
(* envelopes and SessionStates: first what the calls make and share, then  *)
(* the rate limiters.                                                      *)
(***************************************************************************)
EXTENDS InputChannel, FiniteSetTheorems, SequenceTheorems, WellFoundedInduction, TLAPS

CallRecords == [pc : CallSteps, viewer : Viewers \cup {Nobody}, state : 0 .. MaxStates,
                bridge : Nat, result : Calls \cup {Nobody}]
TaskRecords == [pc : TaskSteps, bridge : Nat, at : Int]

\* The types of what the proofs are about.
Typed ==
  /\ states \in 0 .. MaxStates
  /\ live \in 0 .. states
  /\ joined \subseteq Viewers
  /\ slots \in [States -> SUBSET Viewers]
  /\ producer \in [Viewers -> Calls \cup {Nobody}]
  /\ lock \in [States -> Calls \cup {Nobody}]
  /\ directs \in [States -> Nat]
  /\ bridge \in [States -> Nat]
  /\ call \in [Calls -> CallRecords]
  /\ registry \in Nat /\ opened \in Nat
  /\ claimed \subseteq Nat
  /\ requests \in [Bridges -> Nat]
  /\ task \in [Envelopes -> TaskRecords]
  /\ now \in 0 .. MaxTime

\* A call that has begun looked the session up for a viewer that has had a slot.
BegunInv ==
  \A c \in Calls :
    /\ call[c].pc # "new" => call[c].viewer \in joined /\ call[c].state \in 1 .. states
    /\ call[c].result # Nobody => call[c].pc = "ok"

\* A viewer has one slot, in one SessionState.
SlotInv ==
  /\ \A s \in States : slots[s] \subseteq joined
  /\ \A s, t \in States : s # t => slots[s] \cap slots[t] = {}

Locked == {"direct", "bridge", "connect"}

\* The mutex is held by the one call that is making what the SessionState lacks.
LockInv ==
  /\ \A c \in Calls : call[c].pc \in Locked => lock[call[c].state] = c
  /\ \A s \in States : lock[s] # Nobody => call[lock[s]].pc \in Locked /\ call[lock[s]].state = s

\* What a call makes is not there yet, and what a call got stays.
BridgeInv ==
  /\ \A s \in States : directs[s] <= 1
  /\ \A c \in Calls :
       /\ call[c].pc = "direct" => directs[call[c].state] = 0
       /\ call[c].pc = "connect" => bridge[call[c].state] = 0
       /\ call[c].bridge # 0 => call[c].bridge = bridge[call[c].state]
       /\ call[c].pc = "new" => call[c].bridge = 0

Bridged == {s \in States : bridge[s] # 0}

\* Every socket that was opened is some SessionState's.
SocketInv == Bridged \subseteq 1 .. states /\ opened <= Cardinality(Bridged)

\* Only the task that turned the flag is about to ask for control, or has asked.
ControlInv ==
  /\ \A b \in Bridges \ claimed : requests[b] = 0
  /\ \A e \in Envelopes : task[e].pc = "request" =>
       /\ task[e].bridge \in claimed
       /\ task[e].bridge \in Bridges => requests[task[e].bridge] = 0
       /\ \A f \in Envelopes \ {e} : task[f].pc = "request" => task[f].bridge # task[e].bridge

IInv ==
  /\ Typed /\ BegunInv /\ SlotInv /\ SameProducer /\ LockInv /\ BridgeInv /\ SocketInv
  /\ ControlInv /\ OneControlRequest

-----------------------------------------------------------------------------

\* The initial state.
LEMMA InitIInv == Init => IInv
<1>. SUFFICES ASSUME Init PROVE IInv
  OBVIOUS
<1>. USE InputAssumption DEF Init
<1>1. Typed
  BY DEF Typed, CallRecords, TaskRecords, CallSteps, TaskSteps, States, Bridges
<1>2. BegunInv /\ SlotInv /\ SameProducer
  BY DEF BegunInv, SlotInv, SameProducer, HasSlot, States
<1>3. LockInv /\ BridgeInv
  BY DEF LockInv, BridgeInv, Locked, States
<1>4. SocketInv
  <2>1. Bridged = {}
    BY DEF Bridged
  <2>. QED
    BY <2>1, FS_EmptySet DEF SocketInv
<1>5. ControlInv /\ OneControlRequest
  BY DEF ControlInv, OneControlRequest, Bridges
<1>. QED
  BY <1>1, <1>2, <1>3, <1>4, <1>5 DEF IInv

\* A call that has begun has a viewer and a SessionState.
LEMMA Begun ==
  ASSUME Typed, BegunInv, NEW c \in Calls, call[c].pc # "new"
  PROVE  call[c].viewer \in Viewers /\ call[c].state \in States
<1>1. call[c].viewer \in joined /\ call[c].state \in 1 .. states
  BY DEF BegunInv
<1>2. joined \subseteq Viewers /\ states \in 0 .. MaxStates
  BY DEF Typed
<1>. QED
  BY <1>1, <1>2, InputAssumption DEF States

\* The records that a call and a task become.
LEMMA NewRecords ==
  /\ \A r \in CallRecords, v \in Viewers, s \in 0 .. MaxStates :
       [r EXCEPT !.pc = "check", !.viewer = v, !.state = s] \in CallRecords
  /\ \A r \in CallRecords, d \in Calls \cup {Nobody} :
       [r EXCEPT !.pc = "ok", !.result = d] \in CallRecords
  /\ \A r \in TaskRecords, n \in Int :
       /\ [r EXCEPT !.pc = "claim", !.at = n] \in TaskRecords
       /\ [r EXCEPT !.pc = "claim", !.at = n].pc = "claim"
       /\ [r EXCEPT !.pc = "dropped"].pc = "dropped"
BY DEF CallRecords, CallSteps, TaskRecords, TaskSteps

\* A record keeps its type when its step changes.
LEMMA NewStep ==
  ASSUME NEW r \in CallRecords, NEW p \in CallSteps
  PROVE  /\ [r EXCEPT !.pc = p] \in CallRecords
         /\ [r EXCEPT !.pc = p].pc = p
         /\ [r EXCEPT !.pc = p].viewer = r.viewer
         /\ [r EXCEPT !.pc = p].state = r.state
         /\ [r EXCEPT !.pc = p].result = r.result
         /\ [r EXCEPT !.pc = p].bridge = r.bridge
BY DEF CallRecords

\* The call c goes on without a result: what the other calls and its viewer, session
\* and result are stays.
Goes(c) ==
  /\ call[c].pc \notin {"new", "ok"}
  /\ call'[c].pc # "new"
  /\ call' \in [Calls -> CallRecords]
  /\ \A d \in Calls \ {c} : call'[d] = call[d]
  /\ call'[c].viewer = call[c].viewer
  /\ call'[c].state = call[c].state
  /\ call'[c].result = call[c].result

\* A step that changes only the pc of a call.
LEMMA GoesOn ==
  ASSUME Typed, NEW c \in Calls, NEW p \in CallSteps \ {"new"},
         call[c].pc \notin {"new", "ok"}, call' = [call EXCEPT ![c].pc = p]
  PROVE  Goes(c)
<1>1. call[c] \in CallRecords
  BY DEF Typed
<1>2. call' = [call EXCEPT ![c] = [call[c] EXCEPT !.pc = p]]
  OBVIOUS
<1>3. [call[c] EXCEPT !.pc = p] \in CallRecords
  BY <1>1, NewStep
<1>4. call' \in [Calls -> CallRecords]
  BY <1>2, <1>3 DEF Typed
<1>5. call'[c] = [call[c] EXCEPT !.pc = p] /\ \A d \in Calls \ {c} : call'[d] = call[d]
  BY <1>2 DEF Typed
<1>. QED
  BY <1>1, <1>4, <1>5, NewStep DEF Goes

\* A step that ends the making of a bridge.
LEMMA HaveGoesOn ==
  ASSUME Typed, NEW c \in Calls, NEW b \in Nat, NEW from \in {"bridge", "connect"},
         Have(c, from, b)
  PROVE  Goes(c) /\ call'[c].pc = "consume" /\ call'[c].bridge = b
<1>1. call[c] \in CallRecords /\ call[c].pc = from
  BY DEF Typed, Have
<1>. DEFINE r == [call[c] EXCEPT !.pc = "consume", !.bridge = b]
<1>2. call' = [call EXCEPT ![c] = r]
  BY DEF Have
<1>3. r \in CallRecords
  BY <1>1 DEF CallRecords, CallSteps
<1>4. /\ r.pc = "consume" /\ r.bridge = b
      /\ r.viewer = call[c].viewer /\ r.state = call[c].state /\ r.result = call[c].result
  BY <1>1 DEF CallRecords
<1>. HIDE DEF r
<1>5. call' \in [Calls -> CallRecords]
  BY <1>2, <1>3 DEF Typed
<1>6. call'[c] = r /\ \A d \in Calls \ {c} : call'[d] = call[d]
  BY <1>2 DEF Typed
<1>. QED
  BY <1>1, <1>4, <1>5, <1>6 DEF Goes

\* The steps of a call that have no result.
LEMMA Going ==
  ASSUME Typed, BegunInv, NEW c \in Calls,
         NoSlot(c) \/ Proceed(c) \/ ProduceData(c) \/ MediasoupFails(c) \/ Lazy(c)
         \/ MakeDirect(c) \/ GetBridge(c) \/ Dial(c) \/ DialFails(c) \/ ConsumeData(c)
  PROVE  Goes(c)
<1>. USE DEF CallSteps
<1>1. CASE NoSlot(c)
  BY <1>1, GoesOn DEF NoSlot
<1>2. CASE Proceed(c)
  BY <1>2, GoesOn DEF Proceed, At
<1>3. CASE ProduceData(c)
  BY <1>3, GoesOn DEF ProduceData, At
<1>4. CASE MediasoupFails(c)
  BY <1>4, GoesOn DEF MediasoupFails
<1>5. CASE Lazy(c)
  BY <1>5, GoesOn DEF Lazy, At
<1>6. CASE MakeDirect(c)
  BY <1>6, GoesOn DEF MakeDirect, At
<1>7. CASE GetBridge(c)
  <2>1. CASE At(c, "bridge", "connect")
    BY <2>1, GoesOn DEF At
  <2>2. ASSUME NEW b \in Nat, Have(c, "bridge", b) PROVE Goes(c)
    BY <2>2, HaveGoesOn
  <2>3. registry \in Nat
    BY DEF Typed
  <2>4. bridge[call[c].state] \in Nat
    BY <1>7, Begun DEF Typed, GetBridge
  <2>. QED
    BY <1>7, <2>1, <2>2, <2>3, <2>4 DEF GetBridge
<1>8. CASE Dial(c)
  <2>1. opened + 1 \in Nat
    BY DEF Typed
  <2>. QED
    BY <1>8, <2>1, HaveGoesOn DEF Dial
<1>9. CASE DialFails(c)
  BY <1>9, HaveGoesOn DEF DialFails
<1>10. CASE ConsumeData(c)
  BY <1>10, GoesOn DEF ConsumeData, At
<1>. QED
  BY <1>1, <1>2, <1>3, <1>4, <1>5, <1>6, <1>7, <1>8, <1>9, <1>10

\* Every step keeps the types.
LEMMA TypedStep ==
  ASSUME Typed, BegunInv, [Next]_vars
  PROVE  Typed' /\ BegunInv'
<1>. USE InputAssumption DEF Typed, BegunInv, States, session, made, sockets, forwarding,
       vars
<1>1. CASE Provision
  BY <1>1 DEF Provision
<1>2. CASE CloseSession
  BY <1>2 DEF CloseSession
<1>3. CASE ServerCloses
  BY <1>3 DEF ServerCloses
<1>4. CASE Pass
  BY <1>4 DEF Pass
<1>5. ASSUME NEW v \in Viewers, Join(v)
      PROVE  Typed' /\ BegunInv'
  BY <1>5 DEF Join
<1>6. ASSUME NEW v \in Viewers, RemoveViewer(v)
      PROVE  Typed' /\ BegunInv'
  BY <1>6 DEF RemoveViewer
<1>7. ASSUME NEW c \in Calls, NEW v \in Viewers, Start(c, v)
      PROVE  Typed' /\ BegunInv'
  <2>1. [call[c] EXCEPT !.pc = "check", !.viewer = v, !.state = live] \in CallRecords
    <3>1. call[c] \in CallRecords
      OBVIOUS
    <3>2. live \in 0 .. MaxStates
      OBVIOUS
    <3>. QED
      BY <1>7, <3>1, <3>2, NewRecords DEF Start
  <2>2. call' \in [Calls -> CallRecords]
    BY <1>7, <2>1 DEF Start
  <2>3. BegunInv'
    BY <1>7 DEF Start, CallRecords
  <2>. QED
    BY <1>7, <2>2, <2>3 DEF Start
<1>8. ASSUME NEW c \in Calls, ReturnExisting(c)
      PROVE  Typed' /\ BegunInv'
  <2>1. [call[c] EXCEPT !.pc = "ok", !.result = Existing(c)] \in CallRecords
    <3>1. call[c] \in CallRecords
      OBVIOUS
    <3>2. live \in 0 .. MaxStates
      OBVIOUS
    <3>. QED
      BY <1>8, <3>1, <3>2, NewRecords, Begun DEF ReturnExisting, Existing
  <2>2. call' \in [Calls -> CallRecords]
    BY <1>8, <2>1 DEF ReturnExisting, Existing
  <2>3. BegunInv'
    BY <1>8 DEF ReturnExisting, CallRecords, Existing
  <2>. QED
    BY <1>8, <2>2, <2>3 DEF ReturnExisting
<1>9. ASSUME NEW c \in Calls, NoSlot(c)
      PROVE  Typed' /\ BegunInv'
  <2>1. Goes(c)
    BY <1>9, Going
  <2>2. BegunInv'
    BY <1>9, <2>1 DEF Goes, NoSlot
  <2>. QED
    BY <1>9, <2>1, <2>2 DEF Goes, NoSlot
<1>10. ASSUME NEW c \in Calls, Proceed(c)
       PROVE  Typed' /\ BegunInv'
  <2>1. Goes(c)
    BY <1>10, Going
  <2>2. BegunInv'
    BY <1>10, <2>1 DEF Goes, Proceed, At
  <2>. QED
    BY <1>10, <2>1, <2>2 DEF Goes, Proceed, At
<1>11. ASSUME NEW c \in Calls, ProduceData(c)
       PROVE  Typed' /\ BegunInv'
  <2>1. Goes(c)
    BY <1>11, Going
  <2>2. BegunInv'
    BY <1>11, <2>1 DEF Goes, ProduceData, At
  <2>. QED
    BY <1>11, <2>1, <2>2 DEF Goes, ProduceData, At
<1>12. ASSUME NEW c \in Calls, MediasoupFails(c)
       PROVE  Typed' /\ BegunInv'
  <2>1. Goes(c)
    BY <1>12, Going
  <2>2. BegunInv'
    BY <1>12, <2>1 DEF Goes, MediasoupFails
  <2>. QED
    BY <1>12, <2>1, <2>2 DEF Goes, MediasoupFails
<1>13. ASSUME NEW c \in Calls, Lazy(c)
       PROVE  Typed' /\ BegunInv'
  <2>1. Goes(c)
    BY <1>13, Going
  <2>2. BegunInv'
    BY <1>13, <2>1 DEF Goes, Lazy, At
  <2>. QED
    BY <1>13, <2>1, <2>2 DEF Goes, Lazy, At
<1>14. ASSUME NEW c \in Calls, MakeDirect(c)
       PROVE  Typed' /\ BegunInv'
  <2>1. Goes(c)
    BY <1>14, Going
  <2>2. BegunInv'
    BY <1>14, <2>1 DEF Goes, MakeDirect, At
  <2>3. call[c].state \in States
    BY <1>14, Begun DEF MakeDirect, At
  <2>4. directs' \in [States -> Nat]
    BY <1>14, <2>3 DEF MakeDirect
  <2>. QED
    BY <1>14, <2>1, <2>2, <2>3, <2>4 DEF Goes, MakeDirect
<1>15. ASSUME NEW c \in Calls, GetBridge(c)
       PROVE  Typed' /\ BegunInv'
  <2>1. Goes(c)
    BY <1>15, Going
  <2>2. BegunInv'
    BY <1>15, <2>1 DEF Goes, GetBridge, Have, At
  <2>3. call[c].state \in States
    BY <1>15, Begun DEF GetBridge
  <2>4. bridge' \in [States -> Nat] /\ lock' \in [States -> Calls \cup {Nobody}]
    <3>1. ASSUME NEW b \in Nat, Have(c, "bridge", b)
          PROVE  bridge' \in [States -> Nat] /\ lock' \in [States -> Calls \cup {Nobody}]
      BY <2>3, <3>1 DEF Have
    <3>2. bridge[call[c].state] \in Nat /\ registry \in Nat
      BY <2>3
    <3>. QED
      BY <1>15, <3>1, <3>2 DEF GetBridge
  <2>. QED
    BY <1>15, <2>1, <2>2, <2>3, <2>4 DEF Goes, GetBridge
<1>16. ASSUME NEW c \in Calls, Dial(c)
       PROVE  Typed' /\ BegunInv'
  <2>1. Goes(c)
    BY <1>16, Going
  <2>2. BegunInv'
    BY <1>16, <2>1 DEF Goes, Dial, Have
  <2>3. call[c].state \in States
    BY <1>16, Begun DEF Dial, Have
  <2>4. opened + 1 \in Nat /\ bridge' = [bridge EXCEPT ![call[c].state] = opened + 1]
    BY <1>16 DEF Dial, Have
  <2>5. bridge' \in [States -> Nat]
    BY <2>3, <2>4
  <2>6. lock' \in [States -> Calls \cup {Nobody}]
    BY <1>16, <2>3 DEF Dial, Have
  <2>7. opened' \in Nat /\ registry' \in Nat
    BY <1>16 DEF Dial
  <2>. QED
    BY <1>16, <2>1, <2>2, <2>3, <2>4, <2>5, <2>6, <2>7 DEF Goes, Dial
<1>17. ASSUME NEW c \in Calls, DialFails(c)
       PROVE  Typed' /\ BegunInv'
  <2>1. Goes(c)
    BY <1>17, Going
  <2>2. BegunInv'
    BY <1>17, <2>1 DEF Goes, DialFails, Have
  <2>. QED
    BY <1>17, <2>1, <2>2 DEF Goes, DialFails, Have
<1>18. ASSUME NEW c \in Calls, ConsumeData(c)
       PROVE  Typed' /\ BegunInv'
  <2>1. Goes(c)
    BY <1>18, Going
  <2>2. BegunInv'
    BY <1>18, <2>1 DEF Goes, ConsumeData, At
  <2>. QED
    BY <1>18, <2>1, <2>2 DEF Goes, ConsumeData, At
<1>19. ASSUME NEW c \in Calls, Store(c)
       PROVE  Typed' /\ BegunInv'
  <2>1. [call[c] EXCEPT !.pc = "ok", !.result = c] \in CallRecords
    <3>1. call[c] \in CallRecords
      OBVIOUS
    <3>2. live \in 0 .. MaxStates
      OBVIOUS
    <3>. QED
      BY <1>19, <3>1, <3>2, NewRecords
  <2>2. call' \in [Calls -> CallRecords]
    BY <1>19, <2>1 DEF Store
  <2>3. BegunInv'
    BY <1>19 DEF Store, CallRecords
  <2>4. producer' \in [Viewers -> Calls \cup {Nobody}]
    BY <1>19 DEF Store
  <2>. QED
    BY <1>19, <2>2, <2>3, <2>4 DEF Store
<1>20. ASSUME NEW c \in Calls, NEW e \in Envelopes, Message(c, e)
       PROVE  Typed' /\ BegunInv'
  <2>1. call[c].bridge \in Nat
    BY <1>20 DEF Message, TaskRecords, TaskSteps, CallRecords
  <2>2. [task[e] EXCEPT !.pc = "gate", !.bridge = call[c].bridge] \in TaskRecords
    BY <1>20 DEF Message, TaskRecords, TaskSteps, CallRecords
  <2>3. task' \in [Envelopes -> TaskRecords]
    BY <1>20, <2>1, <2>2 DEF Message
  <2>. QED
    BY <1>20, <2>3 DEF Message
<1>21. ASSUME NEW e \in Envelopes, Allow(e)
       PROVE  Typed' /\ BegunInv'
  <2>1. task[e] \in TaskRecords /\ now \in Int
    BY <1>21 DEF Allow, TaskRecords, TaskSteps
  <2>2. [task[e] EXCEPT !.pc = "dropped"] \in TaskRecords
    BY <1>21 DEF Allow, TaskRecords, TaskSteps
  <2>3. \/ task' = [task EXCEPT ![e] = [task[e] EXCEPT !.pc = "claim", !.at = now]]
        \/ task' = [task EXCEPT ![e] = [task[e] EXCEPT !.pc = "dropped"]]
    BY <1>21 DEF Allow
  <2>4. task' \in [Envelopes -> TaskRecords]
    <3>1. [task[e] EXCEPT !.pc = "claim", !.at = now] \in TaskRecords
      BY <2>1, NewRecords
    <3>. QED
      BY <2>2, <2>3, <3>1
  <2>. QED
    BY <1>21, <2>4 DEF Allow
<1>22. ASSUME NEW e \in Envelopes, Claim(e)
       PROVE  Typed' /\ BegunInv'
  <2>1. \A p \in {"event", "request"} : [task[e] EXCEPT !.pc = p] \in TaskRecords
    BY <1>22 DEF Claim, TaskRecords, TaskSteps
  <2>2. task[e].bridge \in Nat
    BY <1>22 DEF Claim, TaskRecords, TaskSteps
  <2>3. task' \in [Envelopes -> TaskRecords]
    BY <1>22, <2>1, <2>2 DEF Claim
  <2>. QED
    BY <1>22, <2>2, <2>3 DEF Claim
<1>23. ASSUME NEW e \in Envelopes, SendRequest(e)
       PROVE  Typed' /\ BegunInv'
  <2>1. [task[e] EXCEPT !.pc = "event"] \in TaskRecords
    BY <1>23 DEF SendRequest, TaskRecords, TaskSteps
  <2>2. requests' \in [Bridges -> Nat]
    <3>1. CASE task[e].bridge \in Bridges
      BY <1>23, <3>1 DEF SendRequest
    <3>2. CASE task[e].bridge \notin Bridges
      BY <1>23, <3>2 DEF SendRequest
    <3>. QED
      BY <3>1, <3>2
  <2>3. task' \in [Envelopes -> TaskRecords]
    BY <1>23, <2>1, <2>2 DEF SendRequest
  <2>. QED
    BY <1>23, <2>2, <2>3 DEF SendRequest
<1>24. ASSUME NEW e \in Envelopes, SendEvent(e)
       PROVE  Typed' /\ BegunInv'
  <2>1. [task[e] EXCEPT !.pc = "sent"] \in TaskRecords
    BY <1>24 DEF SendEvent, TaskRecords, TaskSteps
  <2>2. task' \in [Envelopes -> TaskRecords]
    BY <1>24, <2>1 DEF SendEvent
  <2>. QED
    BY <1>24, <2>2 DEF SendEvent
<1>25. ASSUME NEW e \in Envelopes, SendFails(e)
       PROVE  Typed' /\ BegunInv'
  <2>1. [task[e] EXCEPT !.pc = "failed"] \in TaskRecords
    BY <1>25 DEF SendFails, TaskRecords, TaskSteps
  <2>2. task' \in [Envelopes -> TaskRecords]
    BY <1>25, <2>1 DEF SendFails
  <2>. QED
    BY <1>25, <2>2 DEF SendFails
<1>26. CASE UNCHANGED vars
  BY <1>26
<1>. QED
  BY <1>1, <1>2, <1>3, <1>4, <1>5, <1>6, <1>7, <1>8, <1>9, <1>10, <1>11, <1>12, <1>13,
     <1>14, <1>15, <1>16, <1>17, <1>18, <1>19, <1>20, <1>21, <1>22, <1>23, <1>24, <1>25,
     <1>26 DEF Next, Call

\* A call that goes on without a result disturbs no viewer.
LEMMA GoingKeepsProducers ==
  ASSUME SlotInv, SameProducer, NEW c \in Calls, Goes(c), UNCHANGED <<joined, slots, producer>>
  PROVE  SlotInv' /\ SameProducer'
<1>1. \A d \in Calls : /\ call'[d].viewer = call[d].viewer
                       /\ call'[d].state = call[d].state
                       /\ call'[d].result = call[d].result
  BY DEF Goes
<1>2. SameProducer'
  <2>1. ASSUME NEW d \in Calls, call'[d].result # Nobody, call'[d].viewer \in slots'[call'[d].state]
        PROVE  producer'[call'[d].viewer] = call'[d].result
    <3>1. call[d].result # Nobody /\ call[d].viewer \in slots[call[d].state]
      BY <1>1, <2>1
    <3>2. producer[call[d].viewer] = call[d].result
      BY <3>1 DEF SameProducer, HasSlot
    <3>. QED
      BY <1>1, <3>2
  <2>. QED
    BY <2>1 DEF SameProducer, HasSlot
<1>3. SlotInv'
  BY DEF SlotInv
<1>. QED
  BY <1>2, <1>3

\* Every step keeps a viewer's slot and producer.
LEMMA SlotStep ==
  ASSUME Typed, BegunInv, SlotInv, SameProducer, [Next]_vars
  PROVE  SlotInv' /\ SameProducer'
<1>. USE InputAssumption DEF Typed, BegunInv, SlotInv, SameProducer, HasSlot, States,
       session, made, sockets, forwarding, vars
<1>1. ASSUME NEW v \in Viewers, Join(v)
      PROVE  SlotInv' /\ SameProducer'
  <2>1. live \in States
    BY <1>1 DEF Join
  <2>2. slots' = [slots EXCEPT ![live] = slots[live] \cup {v}] /\ joined' = joined \cup {v} /\ v \notin joined
    BY <1>1 DEF Join
  <2>3. SlotInv'
    <3>1. \A s \in States : slots'[s] = IF s = live THEN slots[s] \cup {v} ELSE slots[s]
      BY <2>1, <2>2
    <3>2. \A s \in States : v \notin slots[s]
      BY <2>2
    <3>3. \A s \in States : slots'[s] \subseteq joined'
      BY <2>2, <3>1
    <3>4. ASSUME NEW s \in States, NEW t \in States, s # t
          PROVE  slots'[s] \cap slots'[t] = {}
      <4>1. slots[s] \cap slots[t] = {} /\ v \notin slots[s] /\ v \notin slots[t]
        BY <3>2, <3>4
      <4>2. /\ slots'[s] = slots[s] \/ (s = live /\ slots'[s] = slots[s] \cup {v})
            /\ slots'[t] = slots[t] \/ (t = live /\ slots'[t] = slots[t] \cup {v})
        BY <3>1
      <4>. QED
        BY <3>4, <4>1, <4>2
    <3>. QED
      BY <3>3, <3>4
  <2>4. \A c \in Calls : call[c].result # Nobody => call[c].viewer # v /\ call[c].state \in States
    BY <2>2, Begun
  <2>5. UNCHANGED <<call, producer>>
    BY <1>1 DEF Join
  <2>. QED
    BY <2>1, <2>2, <2>3, <2>4, <2>5
<1>2. ASSUME NEW v \in Viewers, RemoveViewer(v)
      PROVE  SlotInv' /\ SameProducer'
  <2>1. live \in States /\ v \in slots[live]
    BY <1>2 DEF RemoveViewer
  <2>2. \A s \in States : v \notin slots'[s] /\ slots'[s] \subseteq slots[s]
    BY <1>2, <2>1 DEF RemoveViewer
  <2>3. \A w \in Viewers \ {v} : producer'[w] = producer[w]
    BY <1>2 DEF RemoveViewer
  <2>4. \A c \in Calls : call[c].result # Nobody => call[c].viewer \in Viewers /\ call[c].state \in States
    BY Begun
  <2>5. UNCHANGED <<call, joined>>
    BY <1>2 DEF RemoveViewer
  <2>6. SlotInv'
    BY <2>2, <2>5
  <2>. QED
    BY <2>2, <2>3, <2>4, <2>5, <2>6
<1>3. ASSUME NEW c \in Calls, NEW v \in Viewers, Start(c, v)
      PROVE  SlotInv' /\ SameProducer'
  <2>1. \A d \in Calls : call'[d].result # Nobody => call'[d] = call[d]
    BY <1>3 DEF Start, CallRecords
  <2>2. UNCHANGED <<joined, slots, producer>>
    BY <1>3 DEF Start
  <2>. QED
    BY <2>1, <2>2
<1>4. ASSUME NEW c \in Calls, ReturnExisting(c)
      PROVE  SlotInv' /\ SameProducer'
  <2>1. call'[c].viewer = call[c].viewer /\ call'[c].result = producer[call[c].viewer]
    BY <1>4 DEF ReturnExisting, Existing, CallRecords
  <2>2. \A d \in Calls \ {c} : call'[d] = call[d]
    BY <1>4 DEF ReturnExisting
  <2>3. UNCHANGED <<joined, slots, producer>>
    BY <1>4 DEF ReturnExisting
  <2>. QED
    BY <2>1, <2>2, <2>3
<1>5. ASSUME NEW c \in Calls, Store(c)
      PROVE  SlotInv' /\ SameProducer'
  <2>1. /\ call'[c].viewer = call[c].viewer /\ call'[c].result = c
        /\ call[c].viewer \in Viewers /\ call[c].state \in States
    BY <1>5 DEF Store, CallRecords
  <2>2. \A d \in Calls \ {c} : call'[d] = call[d]
    BY <1>5 DEF Store
  <2>3. producer' = [producer EXCEPT ![call[c].viewer] = c] /\ producer[call[c].viewer] = Nobody
    BY <1>5 DEF Store, Existing
  <2>4. UNCHANGED <<joined, slots>> /\ call[c].viewer \in slots[call[c].state]
    BY <1>5 DEF Store
  <2>5. ASSUME NEW d \in Calls \ {c}, call[d].result # Nobody, call[d].viewer \in slots[call[d].state]
        PROVE  call[d].viewer # call[c].viewer /\ producer[call[d].viewer] = call[d].result
               /\ call[d].viewer \in Viewers
    BY <2>3, <2>5
  <2>6. ASSUME NEW d \in Calls, call'[d].result # Nobody, call'[d].viewer \in slots'[call'[d].state]
        PROVE  producer'[call'[d].viewer] = call'[d].result
    <3>1. CASE d = c
      BY <2>1, <2>3, <3>1
    <3>2. CASE d # c
      <4>1. /\ call'[d] = call[d] /\ call[d].result # Nobody
            /\ call[d].viewer \in slots[call[d].state]
        BY <2>2, <2>4, <2>6, <3>2
      <4>2. /\ call[d].viewer # call[c].viewer /\ call[d].viewer \in Viewers
            /\ producer[call[d].viewer] = call[d].result
        BY <2>5, <3>2, <4>1
      <4>. QED
        BY <2>3, <4>1, <4>2
    <3>. QED
      BY <3>1, <3>2
  <2>. QED
    BY <2>4, <2>6
<1>6. ASSUME NEW c \in Calls,
           NoSlot(c) \/ Proceed(c) \/ ProduceData(c) \/ MediasoupFails(c) \/ Lazy(c)
           \/ MakeDirect(c) \/ GetBridge(c) \/ Dial(c) \/ DialFails(c) \/ ConsumeData(c)
       PROVE  SlotInv' /\ SameProducer'
  <2>1. Goes(c)
    BY <1>6, Going
  <2>2. UNCHANGED <<joined, slots, producer>>
    BY <1>6 DEF NoSlot, Proceed, ProduceData, MediasoupFails, Lazy, MakeDirect, GetBridge,
       Dial, DialFails, ConsumeData
  <2>. QED
    BY <2>1, <2>2, GoingKeepsProducers
<1>7. CASE UNCHANGED <<joined, slots, producer, call>>
  BY <1>7
<1>. QED
  BY <1>1, <1>2, <1>3, <1>4, <1>5, <1>6, <1>7 DEF Next, Call, Provision, CloseSession,
     ServerCloses, Pass, Message, Allow, Claim, SendRequest, SendEvent, SendFails

\* A step of a call outside the mutex.
LEMMA OutsideStep ==
  ASSUME LockInv, BridgeInv, Typed, NEW c \in Calls,
         call[c].pc \notin Locked, call'[c].pc \notin Locked \cup {"new"},
         call'[c].bridge = call[c].bridge,
         call'[c].state = call[c].state \/ call[c].pc = "new",
         \A d \in Calls \ {c} : call'[d] = call[d],
         UNCHANGED <<lock, directs, bridge>>
  PROVE  LockInv' /\ BridgeInv'
<1>1. \A s \in States : lock[s] # c
  BY InputAssumption DEF LockInv
<1>2. LockInv'
  <2>1. ASSUME NEW d \in Calls, call'[d].pc \in Locked PROVE lock'[call'[d].state] = d
    <3>1. call'[d] = call[d]
      BY <2>1
    <3>. QED
      BY <2>1, <3>1 DEF LockInv
  <2>2. ASSUME NEW s \in States, lock[s] # Nobody
        PROVE  call'[lock[s]].pc \in Locked /\ call'[lock[s]].state = s
    <3>1. lock[s] \in Calls \ {c}
      BY <1>1, <2>2 DEF Typed
    <3>2. call'[lock[s]] = call[lock[s]]
      BY <3>1
    <3>. QED
      BY <2>2, <3>2 DEF LockInv
  <2>. QED
    BY <2>1, <2>2 DEF LockInv
<1>3. ASSUME NEW d \in Calls
      PROVE  /\ call'[d].pc = "direct" => directs[call'[d].state] = 0
             /\ call'[d].pc = "connect" => bridge[call'[d].state] = 0
             /\ call'[d].bridge # 0 => call'[d].bridge = bridge[call'[d].state]
             /\ call'[d].pc = "new" => call'[d].bridge = 0
  <2>1. CASE d = c
    BY <2>1 DEF BridgeInv, Locked
  <2>2. CASE d # c
    <3>1. call'[d] = call[d]
      BY <2>2
    <3>. QED
      BY <3>1 DEF BridgeInv
  <2>. QED
    BY <2>1, <2>2
<1>. QED
  BY <1>2, <1>3 DEF BridgeInv

\* A step that ends the section under the mutex with the bridge b.
LEMMA HaveStep ==
  ASSUME Typed, BegunInv, LockInv, BridgeInv, NEW c \in Calls, NEW b \in Nat,
         NEW from \in {"bridge", "connect"}, Have(c, from, b),
         b = bridge[call[c].state] \/ bridge[call[c].state] = 0, directs' = directs
  PROVE  LockInv' /\ BridgeInv'
<1>. DEFINE s == call[c].state
<1>1. call[c].pc = from /\ s \in States
  BY Begun DEF Have
<1>2. Goes(c) /\ call'[c].pc = "consume" /\ call'[c].bridge = b
  BY HaveGoesOn
<1>3. call'[c].state = s /\ \A d \in Calls \ {c} : call'[d] = call[d]
  BY <1>2 DEF Goes
<1>4. /\ bridge' = [bridge EXCEPT ![s] = b]
      /\ lock' = [lock EXCEPT ![s] = Nobody]
  BY DEF Have
<1>5. lock[s] = c
  BY <1>1 DEF LockInv, Locked
<1>. HIDE DEF s
<1>6. ASSUME NEW d \in Calls \ {c}, call[d].pc \in Locked
      PROVE  call[d].state \in States \ {s} /\ lock'[call[d].state] = d
  <2>1. call[d].pc # "new"
    BY <1>6 DEF Locked
  <2>2. call[d].state \in States /\ lock[call[d].state] = d
    BY <1>6, <2>1, Begun DEF LockInv
  <2>. QED
    BY <1>4, <1>5, <2>2 DEF Typed
<1>7. ASSUME NEW d \in Calls, call'[d].pc \in Locked PROVE lock'[call'[d].state] = d
  <2>1. d # c
    BY <1>2, <1>7 DEF Locked
  <2>. QED
    BY <1>3, <1>6, <1>7, <2>1
<1>8. ASSUME NEW t \in States, lock'[t] # Nobody
      PROVE  call'[lock'[t]].pc \in Locked /\ call'[lock'[t]].state = t
  <2>1. t # s /\ lock'[t] = lock[t]
    BY <1>1, <1>4, <1>8 DEF Typed
  <2>2. lock[t] \in Calls /\ call[lock[t]].pc \in Locked /\ call[lock[t]].state = t
    BY <1>8, <2>1 DEF Typed, LockInv
  <2>3. lock[t] # c
    BY <2>1, <2>2 DEF s
  <2>. QED
    BY <1>3, <2>1, <2>2, <2>3
<1>9. LockInv'
  BY <1>7, <1>8 DEF LockInv
<1>10. ASSUME NEW d \in Calls
       PROVE  /\ call'[d].pc = "direct" => directs[call'[d].state] = 0
              /\ call'[d].pc = "connect" => bridge'[call'[d].state] = 0
              /\ call'[d].bridge # 0 => call'[d].bridge = bridge'[call'[d].state]
              /\ call'[d].pc = "new" => call'[d].bridge = 0
  <2>1. CASE d = c
    <3>1. bridge'[s] = b
      BY <1>1, <1>4 DEF Typed
    <3>. QED
      BY <1>2, <1>3, <2>1, <3>1
  <2>2. CASE d # c
    <3>1. call'[d] = call[d]
      BY <1>3, <2>2
    <3>2. call[d].pc = "connect" => bridge'[call[d].state] = 0
      BY <1>4, <1>6, <2>2 DEF Typed, BridgeInv, Locked
    <3>3. ASSUME call[d].bridge # 0 PROVE call[d].bridge = bridge'[call[d].state]
      <4>1. call[d].pc # "new" /\ call[d].bridge = bridge[call[d].state]
        BY <3>3 DEF BridgeInv
      <4>2. call[d].state \in States
        BY <4>1, Begun
      <4>3. call[d].state = s => b = bridge[s]
        BY <3>3, <4>1 DEF s
      <4>. QED
        BY <1>4, <4>1, <4>2, <4>3 DEF Typed
    <3>. QED
      BY <3>1, <3>2, <3>3 DEF BridgeInv
  <2>. QED
    BY <2>1, <2>2
<1>. QED
  BY <1>9, <1>10 DEF BridgeInv

\* Every step keeps the mutex and what is made under it.
LEMMA LockStep ==
  ASSUME Typed, BegunInv, LockInv, BridgeInv, [Next]_vars
  PROVE  LockInv' /\ BridgeInv'
<1>. USE InputAssumption DEF session, made, sockets, forwarding, vars
<1>1. ASSUME NEW c \in Calls, NEW v \in Viewers, Start(c, v)
      PROVE  LockInv' /\ BridgeInv'
  <2>1. /\ call[c].pc \notin Locked /\ call'[c].pc \notin Locked \cup {"new"}
        /\ call'[c].bridge = call[c].bridge
        /\ call'[c].state = call[c].state \/ call[c].pc = "new"
        /\ \A d \in Calls \ {c} : call'[d] = call[d]
    BY <1>1 DEF Typed, CallRecords, Locked, Start
  <2>2. UNCHANGED <<lock, directs, bridge>>
    BY <1>1 DEF made, Start
  <2>. QED
    BY <2>1, <2>2, OutsideStep
<1>2. ASSUME NEW c \in Calls, ReturnExisting(c)
      PROVE  LockInv' /\ BridgeInv'
  <2>1. /\ call[c].pc \notin Locked /\ call'[c].pc \notin Locked \cup {"new"}
        /\ call'[c].bridge = call[c].bridge
        /\ call'[c].state = call[c].state \/ call[c].pc = "new"
        /\ \A d \in Calls \ {c} : call'[d] = call[d]
    BY <1>2 DEF Typed, CallRecords, Locked, ReturnExisting
  <2>2. UNCHANGED <<lock, directs, bridge>>
    BY <1>2 DEF made, ReturnExisting
  <2>. QED
    BY <2>1, <2>2, OutsideStep
<1>3. ASSUME NEW c \in Calls, NoSlot(c)
      PROVE  LockInv' /\ BridgeInv'
  <2>1. /\ call[c].pc \notin Locked /\ call'[c].pc \notin Locked \cup {"new"}
        /\ call'[c].bridge = call[c].bridge
        /\ call'[c].state = call[c].state \/ call[c].pc = "new"
        /\ \A d \in Calls \ {c} : call'[d] = call[d]
    BY <1>3 DEF Typed, CallRecords, Locked, NoSlot
  <2>2. UNCHANGED <<lock, directs, bridge>>
    BY <1>3 DEF made, NoSlot
  <2>. QED
    BY <2>1, <2>2, OutsideStep
<1>4. ASSUME NEW c \in Calls, Proceed(c)
      PROVE  LockInv' /\ BridgeInv'
  <2>1. /\ call[c].pc \notin Locked /\ call'[c].pc \notin Locked \cup {"new"}
        /\ call'[c].bridge = call[c].bridge
        /\ call'[c].state = call[c].state \/ call[c].pc = "new"
        /\ \A d \in Calls \ {c} : call'[d] = call[d]
    BY <1>4 DEF Typed, CallRecords, Locked, Proceed, At
  <2>2. UNCHANGED <<lock, directs, bridge>>
    BY <1>4 DEF made, Proceed
  <2>. QED
    BY <2>1, <2>2, OutsideStep
<1>5. ASSUME NEW c \in Calls, ProduceData(c)
      PROVE  LockInv' /\ BridgeInv'
  <2>1. /\ call[c].pc \notin Locked /\ call'[c].pc \notin Locked \cup {"new"}
        /\ call'[c].bridge = call[c].bridge
        /\ call'[c].state = call[c].state \/ call[c].pc = "new"
        /\ \A d \in Calls \ {c} : call'[d] = call[d]
    BY <1>5 DEF Typed, CallRecords, Locked, ProduceData, At
  <2>2. UNCHANGED <<lock, directs, bridge>>
    BY <1>5 DEF made, ProduceData
  <2>. QED
    BY <2>1, <2>2, OutsideStep
<1>6. ASSUME NEW c \in Calls, MediasoupFails(c)
      PROVE  LockInv' /\ BridgeInv'
  BY <1>6 DEF MediasoupFails, Typed, BegunInv, LockInv, BridgeInv, Locked, CallRecords, States
<1>7. ASSUME NEW c \in Calls, Lazy(c)
      PROVE  LockInv' /\ BridgeInv'
  <2>1. /\ call[c].pc = "lazy" /\ call[c].state \in States /\ call[c] \in CallRecords
        /\ \A d \in Calls : call[d].pc # "new" => call[d].state \in States
    BY <1>7, Begun DEF Typed, Lazy, At
  <2>2. /\ call'[c].pc = IF directs[call[c].state] = 0 THEN "direct" ELSE "bridge"
        /\ call'[c].bridge = call[c].bridge /\ call'[c].state = call[c].state
        /\ \A d \in Calls \ {c} : call'[d] = call[d]
    BY <1>7, <2>1 DEF Typed, CallRecords, Lazy, At
  <2>3. lock[call[c].state] = Nobody /\ lock' = [lock EXCEPT ![call[c].state] = c]
    BY <1>7 DEF Lazy, Free
  <2>4. UNCHANGED <<directs, bridge>>
    BY <1>7 DEF Lazy, made
  <2>5. \A s \in States : lock'[s] = IF s = call[c].state THEN c ELSE lock[s]
    BY <2>1, <2>3 DEF Typed
  <2>6. \A s \in States : lock[s] # c
    BY <2>1, InputAssumption DEF LockInv, Locked
  <2>7. ASSUME NEW d \in Calls, call'[d].pc \in Locked PROVE lock'[call'[d].state] = d
    <3>1. CASE d = c
      BY <2>1, <2>2, <2>5, <3>1
    <3>2. CASE d # c
      <4>1. call'[d] = call[d] /\ call[d].state \in States /\ lock[call[d].state] = d
        BY <2>1, <2>2, <2>7, <3>2 DEF LockInv, Locked
      <4>2. call[d].state # call[c].state
        BY <2>3, <4>1, InputAssumption
      <4>. QED
        BY <2>5, <4>1, <4>2
    <3>. QED
      BY <3>1, <3>2
  <2>8. ASSUME NEW s \in States, lock'[s] # Nobody
        PROVE  call'[lock'[s]].pc \in Locked /\ call'[lock'[s]].state = s
    <3>1. CASE s = call[c].state
      BY <2>2, <2>5, <3>1 DEF Locked
    <3>2. CASE s # call[c].state
      <4>1. lock'[s] = lock[s] /\ lock[s] \in Calls \ {c}
        BY <2>5, <2>6, <2>8, <3>2 DEF Typed
      <4>. QED
        BY <2>2, <2>8, <4>1 DEF LockInv
    <3>. QED
      BY <3>1, <3>2
  <2>9. LockInv'
    BY <2>7, <2>8 DEF LockInv
  <2>. QED
    BY <2>1, <2>2, <2>4, <2>9 DEF BridgeInv
<1>8. ASSUME NEW c \in Calls, MakeDirect(c)
      PROVE  LockInv' /\ BridgeInv'
  <2>1. /\ call[c].pc = "direct" /\ call[c].state \in States /\ call[c] \in CallRecords
        /\ \A d \in Calls : call[d].pc # "new" => call[d].state \in States
    BY <1>8, Begun DEF Typed, MakeDirect, At
  <2>2. /\ call'[c].pc = "bridge"
        /\ call'[c].bridge = call[c].bridge /\ call'[c].state = call[c].state
        /\ \A d \in Calls \ {c} : call'[d] = call[d]
    BY <1>8, <2>1 DEF Typed, CallRecords, MakeDirect, At
  <2>3. directs' = [directs EXCEPT ![call[c].state] = directs[call[c].state] + 1]
    BY <1>8 DEF MakeDirect
  <2>4. UNCHANGED <<lock, bridge>>
    BY <1>8 DEF MakeDirect
  <2>5. lock[call[c].state] = c /\ directs[call[c].state] = 0
    BY <2>1 DEF LockInv, BridgeInv, Locked
  <2>6. LockInv'
    BY <2>1, <2>2, <2>4 DEF LockInv, Locked, Typed
  <2>7. \A d \in Calls \ {c} : call[d].pc = "direct" => call[d].state # call[c].state
    BY <2>1, <2>5 DEF LockInv, Locked
  <2>8. \A s \in States : directs'[s] = IF s = call[c].state THEN 1 ELSE directs[s]
    BY <2>1, <2>3, <2>5 DEF Typed
  <2>9. \A s \in States : directs'[s] <= 1
    BY <2>8 DEF BridgeInv
  <2>10. \A d \in Calls : call'[d].pc = "direct" => directs'[call'[d].state] = 0
    BY <2>1, <2>2, <2>7, <2>8 DEF BridgeInv
  <2>. QED
    BY <2>2, <2>4, <2>6, <2>9, <2>10 DEF BridgeInv
<1>9. ASSUME NEW c \in Calls, GetBridge(c)
      PROVE  LockInv' /\ BridgeInv'
  <2>1. /\ call[c].pc = "bridge" /\ call[c].state \in States /\ call[c] \in CallRecords
        /\ \A d \in Calls : call[d].pc # "new" => call[d].state \in States
    BY <1>9, Begun DEF Typed, GetBridge
  <2>2. bridge[call[c].state] \in Nat /\ registry \in Nat /\ directs' = directs
    BY <1>9, <2>1 DEF Typed, GetBridge, made
  <2>3. CASE At(c, "bridge", "connect") /\ bridge[call[c].state] = 0 /\ UNCHANGED <<bridge, lock>>
    <3>1. /\ call'[c].pc = "connect"
          /\ call'[c].bridge = call[c].bridge /\ call'[c].state = call[c].state
          /\ \A d \in Calls \ {c} : call'[d] = call[d]
      BY <2>1, <2>3 DEF Typed, CallRecords, At
    <3>. QED
      BY <2>1, <2>2, <2>3, <3>1 DEF LockInv, BridgeInv, Locked, Typed
  <2>. QED
    BY <1>9, <2>2, <2>3, HaveStep DEF GetBridge
<1>10. ASSUME NEW c \in Calls, Dial(c)
       PROVE  LockInv' /\ BridgeInv'
  <2>1. call[c].pc = "connect" /\ Have(c, "connect", opened + 1) /\ directs' = directs
    BY <1>10 DEF Dial, Have
  <2>2. bridge[call[c].state] = 0 /\ opened + 1 \in Nat
    BY <2>1 DEF BridgeInv, Typed
  <2>. QED
    BY <2>1, <2>2, HaveStep
<1>11. ASSUME NEW c \in Calls, DialFails(c)
       PROVE  LockInv' /\ BridgeInv'
  <2>1. call[c].pc = "connect" /\ Have(c, "connect", 0) /\ directs' = directs
    BY <1>11 DEF DialFails, Have
  <2>2. bridge[call[c].state] = 0
    BY <2>1 DEF BridgeInv
  <2>. QED
    BY <2>1, <2>2, HaveStep
<1>12. ASSUME NEW c \in Calls, ConsumeData(c)
       PROVE  LockInv' /\ BridgeInv'
  <2>1. /\ call[c].pc \notin Locked /\ call'[c].pc \notin Locked \cup {"new"}
        /\ call'[c].bridge = call[c].bridge
        /\ call'[c].state = call[c].state \/ call[c].pc = "new"
        /\ \A d \in Calls \ {c} : call'[d] = call[d]
    BY <1>12 DEF Typed, CallRecords, Locked, ConsumeData, At
  <2>2. UNCHANGED <<lock, directs, bridge>>
    BY <1>12 DEF made, ConsumeData
  <2>. QED
    BY <2>1, <2>2, OutsideStep
<1>13. ASSUME NEW c \in Calls, Store(c)
       PROVE  LockInv' /\ BridgeInv'
  <2>1. /\ call[c].pc \notin Locked /\ call'[c].pc \notin Locked \cup {"new"}
        /\ call'[c].bridge = call[c].bridge
        /\ call'[c].state = call[c].state \/ call[c].pc = "new"
        /\ \A d \in Calls \ {c} : call'[d] = call[d]
    BY <1>13 DEF Typed, CallRecords, Locked, Store
  <2>2. UNCHANGED <<lock, directs, bridge>>
    BY <1>13 DEF made, Store
  <2>. QED
    BY <2>1, <2>2, OutsideStep
<1>14. CASE UNCHANGED <<lock, directs, bridge, call>>
  BY <1>14 DEF LockInv, BridgeInv
<1>. QED
  BY <1>1, <1>2, <1>3, <1>4, <1>5, <1>6, <1>7, <1>8, <1>9, <1>10, <1>11, <1>12, <1>13, <1>14
     DEF Next, Call, Provision, CloseSession, ServerCloses, Pass, Join, RemoveViewer,
     Message, Allow, Claim, SendRequest, SendEvent, SendFails

\* One more SessionState with a bridge.
LEMMA Grows ==
  ASSUME Typed, SocketInv, NEW s \in 1 .. states
  PROVE  /\ Cardinality(Bridged) \in Nat
         /\ Cardinality(Bridged \cup {s}) =
              IF s \in Bridged THEN Cardinality(Bridged) ELSE Cardinality(Bridged) + 1
<1>1. IsFiniteSet(1 .. states)
  BY FS_Interval, InputAssumption DEF Typed
<1>2. IsFiniteSet(Bridged)
  BY <1>1, FS_Subset DEF SocketInv
<1>. QED
  BY <1>2, FS_CardinalityType, FS_AddElement

\* Every step keeps the sockets within the SessionStates.
LEMMA SocketStep ==
  ASSUME Typed, BegunInv, BridgeInv, SocketInv, [Next]_vars
  PROVE  SocketInv'
<1>. USE InputAssumption DEF Typed, BegunInv, BridgeInv, SocketInv, States, session, made,
       sockets, forwarding, vars
<1>1. CASE Provision
  <2>1. Bridged' = Bridged /\ states' = states + 1 /\ opened' = opened
    BY <1>1 DEF Provision, Bridged
  <2>. QED
    BY <2>1
<1>2. ASSUME NEW c \in Calls, GetBridge(c)
      PROVE  SocketInv'
  <2>1. call[c].state \in 1 .. states /\ call[c].state \in States
    BY <1>2, Begun DEF GetBridge
  <2>2. opened' = opened /\ states' = states
    BY <1>2 DEF GetBridge
  <2>3. ASSUME NEW b, bridge' = [bridge EXCEPT ![call[c].state] = b],
               b = bridge[call[c].state] \/ bridge[call[c].state] = 0
        PROVE  Bridged' = Bridged \/ Bridged' = Bridged \cup {call[c].state}
    <3>1. CASE b = bridge[call[c].state]
      <4>1. bridge' = bridge
        BY <2>3, <3>1
      <4>. QED
        BY <4>1 DEF Bridged
    <3>2. CASE b # 0 /\ bridge[call[c].state] = 0
      <4>1. \A s \in States : bridge'[s] = IF s = call[c].state THEN b ELSE bridge[s]
        BY <2>1, <2>3
      <4>2. \A s : s \in Bridged' <=> s \in Bridged \/ s = call[c].state
        BY <2>1, <3>2, <4>1 DEF Bridged
      <4>. QED
        BY <4>2
    <3>. QED
      BY <2>3, <3>1, <3>2
  <2>4. Bridged' = Bridged \/ Bridged' = Bridged \cup {call[c].state}
    <3>1. CASE UNCHANGED bridge
      BY <3>1 DEF Bridged
    <3>. QED
      BY <1>2, <2>3, <3>1 DEF GetBridge, Have
  <2>5. /\ Cardinality(Bridged) \in Nat
        /\ Cardinality(Bridged \cup {call[c].state}) \in {Cardinality(Bridged), Cardinality(Bridged) + 1}
    BY <2>1, Grows
  <2>6. \/ Cardinality(Bridged') = Cardinality(Bridged)
        \/ Cardinality(Bridged') = Cardinality(Bridged \cup {call[c].state})
    BY <2>4, Zenon
  <2>7. opened' <= Cardinality(Bridged')
    BY <2>2, <2>5, <2>6
  <2>8. Bridged' \subseteq 1 .. states'
    BY <2>1, <2>2, <2>4
  <2>. QED
    BY <2>7, <2>8
<1>3. ASSUME NEW c \in Calls, Dial(c)
      PROVE  SocketInv'
  <2>1. call[c].state \in 1 .. states /\ call[c].state \in States \ Bridged
    BY <1>3, Begun DEF Dial, Have, Bridged
  <2>2. opened' = opened + 1 /\ states' = states
    BY <1>3 DEF Dial
  <2>3. Bridged' = Bridged \cup {call[c].state}
    BY <1>3, <2>1 DEF Dial, Have, Bridged
  <2>4. /\ Cardinality(Bridged) \in Nat
        /\ Cardinality(Bridged') = Cardinality(Bridged) + 1
    BY <2>1, <2>3, Grows
  <2>5. opened' <= Cardinality(Bridged')
    BY <2>2, <2>4
  <2>6. Bridged' \subseteq 1 .. states'
    BY <2>1, <2>2, <2>3
  <2>. QED
    BY <2>5, <2>6
<1>4. ASSUME NEW c \in Calls, DialFails(c)
      PROVE  SocketInv'
  <2>1. call[c].state \in States /\ bridge[call[c].state] = 0
    BY <1>4, Begun DEF DialFails, Have
  <2>2. opened' = opened /\ states' = states
    BY <1>4 DEF DialFails
  <2>3. bridge' = bridge
    BY <1>4, <2>1 DEF DialFails, Have
  <2>. QED
    BY <2>2, <2>3 DEF Bridged
<1>5. CASE UNCHANGED <<states, bridge, opened>>
  BY <1>5 DEF Bridged
<1>. QED
  BY <1>1, <1>2, <1>3, <1>4, <1>5 DEF Next, Call, CloseSession, ServerCloses, Pass, Join,
     RemoveViewer, Start, ReturnExisting, NoSlot, Proceed, At, ProduceData, MediasoupFails,
     Lazy, MakeDirect, ConsumeData, Store, Message, Allow, Claim, SendRequest, SendEvent,
     SendFails

\* Every step keeps the one request for control.
LEMMA ControlStep ==
  ASSUME Typed, ControlInv, OneControlRequest, [Next]_vars
  PROVE  ControlInv' /\ OneControlRequest'
<1>. USE InputAssumption DEF Typed, ControlInv, OneControlRequest, TaskRecords, session,
       made, sockets, forwarding, vars
<1>1. ASSUME NEW c \in Calls, NEW e \in Envelopes, Message(c, e)
      PROVE  ControlInv' /\ OneControlRequest'
  BY <1>1 DEF Message, Observes
<1>2. ASSUME NEW e \in Envelopes, Allow(e)
      PROVE  ControlInv' /\ OneControlRequest'
  <2>1. \/ task' = [task EXCEPT ![e] = [task[e] EXCEPT !.pc = "claim", !.at = now]]
        \/ task' = [task EXCEPT ![e] = [task[e] EXCEPT !.pc = "dropped"]]
    BY <1>2 DEF Allow
  <2>2. task'[e].pc # "request" /\ \A f \in Envelopes \ {e} : task'[f] = task[f]
    <3>1. task[e] \in TaskRecords /\ now \in Int
      OBVIOUS
    <3>2. /\ [task[e] EXCEPT !.pc = "claim", !.at = now].pc = "claim"
          /\ [task[e] EXCEPT !.pc = "dropped"].pc = "dropped"
      BY <3>1, NewRecords
    <3>. QED
      BY <2>1, <3>2
  <2>3. UNCHANGED <<claimed, requests>>
    BY <1>2 DEF Allow
  <2>. QED
    BY <2>2, <2>3
<1>3. ASSUME NEW e \in Envelopes, Claim(e)
      PROVE  ControlInv' /\ OneControlRequest'
  BY <1>3 DEF Claim
<1>4. ASSUME NEW e \in Envelopes, SendRequest(e)
      PROVE  ControlInv' /\ OneControlRequest'
  BY <1>4 DEF SendRequest
<1>5. ASSUME NEW e \in Envelopes, SendEvent(e)
      PROVE  ControlInv' /\ OneControlRequest'
  BY <1>5 DEF SendEvent
<1>6. ASSUME NEW e \in Envelopes, SendFails(e)
      PROVE  ControlInv' /\ OneControlRequest'
  BY <1>6 DEF SendFails
<1>7. CASE UNCHANGED <<claimed, requests, task>>
  BY <1>7
<1>. QED
  BY <1>1, <1>2, <1>3, <1>4, <1>5, <1>6, <1>7 DEF Next, Call, Provision, CloseSession,
     ServerCloses, Pass, Join, RemoveViewer, Start, ReturnExisting, NoSlot, Proceed, At,
     ProduceData, MediasoupFails, Lazy, MakeDirect, GetBridge, Have, Dial, DialFails,
     ConsumeData, Store

\* The inductive invariant holds in every reachable state.
THEOREM Invariance == Spec => []IInv
<1>1. IInv /\ [Next]_vars => IInv'
  BY TypedStep, SlotStep, LockStep, SocketStep, ControlStep DEF IInv
<1>. QED
  BY <1>1, InitIInv, PTL DEF Spec

\* Whatever ProduceInput calls race, a viewer's calls return the producer its slot holds.
THEOREM SameProducerHolds == Spec => []SameProducer
<1>1. IInv => SameProducer
  BY DEF IInv
<1>. QED
  BY <1>1, Invariance, PTL

\* A SessionState has one direct transport and one bridge, and there are no more
\* sockets than SessionStates.
THEOREM BridgeSharedHolds == Spec => []BridgeShared
<1>1. ASSUME IInv PROVE BridgeShared
  <2>. USE <1>1 DEF IInv, Typed
  <2>1. Bridged \in SUBSET (1 .. states)
    BY DEF SocketInv
  <2>2. IsFiniteSet(1 .. states) /\ Cardinality(1 .. states) = states
    BY FS_Interval, InputAssumption
  <2>3. Cardinality(Bridged) <= states /\ Cardinality(Bridged) \in Nat
    <3>1. IsFiniteSet(Bridged) /\ Cardinality(Bridged) <= Cardinality(1 .. states)
      BY <2>1, <2>2, FS_Subset
    <3>. QED
      BY <2>2, <3>1, FS_CardinalityType
  <2>. QED
    BY <2>3, InputAssumption DEF BridgeShared, BridgeInv, SocketInv
<1>. QED
  BY <1>1, Invariance, PTL

\* Neko is asked for control at most once on each socket.
THEOREM OneControlRequestHolds == Spec => []OneControlRequest
<1>1. IInv => OneControlRequest
  BY DEF IInv
<1>. QED
  BY <1>1, Invariance, PTL

\* A call waits only for the call that is making the direct transport or the bridge of
\* its SessionState, which waits for nobody.
THEOREM NoStuckCallHolds == Spec => []NoStuckCall
<1>1. ASSUME IInv PROVE NoStuckCall
  <2>. SUFFICES ASSUME NEW c \in Calls, Waits(c)
                PROVE  LET owner == lock[call[c].state]
                       IN  call[owner].pc \notin {"new", "ok", "err"} /\ ~Waits(owner)
    BY DEF NoStuckCall
  <2>1. call[c].state \in States
    BY <1>1, Begun DEF IInv, Waits
  <2>2. lock[call[c].state] # Nobody
    BY DEF Waits, Free
  <2>3. call[lock[call[c].state]].pc \in Locked
    BY <1>1, <2>1, <2>2 DEF IInv, LockInv
  <2>. QED
    BY <2>3 DEF Locked, Waits
<1>. QED
  BY <1>1, Invariance, PTL

-----------------------------------------------------------------------------
(* The numbers of bridges, and the rate limiter.                           *)

\* A bridge that anybody knows has been opened.
KnownInv ==
  /\ registry <= opened
  /\ \A s \in States : bridge[s] <= opened
  /\ \A c \in Calls : call[c].bridge <= opened
  /\ \A e \in Envelopes :
       /\ task[e].bridge <= opened
       /\ task[e].pc # "unsent" => task[e].bridge # 0
  /\ closed \subseteq 1 .. opened
  /\ claimed \subseteq 1 .. opened

\* An envelope is stamped when it is admitted, with the time of then.
StampInv ==
  \A e \in Envelopes :
    /\ task[e].at \in -1 .. now
    /\ task[e].pc \in {"unsent", "gate"} => task[e].at = -1

\* The stamps of the envelopes in F are at different places of the window w.
Placed(F, stamp, w) ==
  \E f \in Injection(F, 1 .. Len(w)) : \A e \in F : w[f[e]] = stamp[e]

Stamp == [e \in Envelopes |-> task[e].at]

\* The envelopes that a bridge admitted less than a window ago.
Fresh(b) == {e \in Envelopes : /\ task[e].bridge = b /\ task[e].at # -1
                               /\ now - task[e].at < RateWindow}

\* The limiter still knows every fresh envelope.
WindowInv ==
  /\ window \in [Bridges -> Seq(0 .. MaxTime)]
  /\ \A b \in Bridges : Placed(Fresh(b), Stamp, window[b])

LimitInv == KnownInv /\ StampInv /\ WindowInv /\ RateBound

\* A nonempty set of naturals has a least element.
LEMMA LeastNat ==
  ASSUME NEW T \in SUBSET Nat, T # {}
  PROVE  \E n \in T : \A m \in T : n <= m
<1>. DEFINE R == {ss \in Nat \X Nat : ss[1] < ss[2]}
<1>1. IsWellFoundedOn(R, Nat)
  BY NatLessThanWellFounded, Zenon DEF OpToRel
<1>2. \A x, y \in T : ~ (<<y, x>> \in R) => x <= y
  OBVIOUS
<1>. HIDE DEF R
<1>3. \E x \in T : \A y \in T : ~ (<<y, x>> \in R)
  BY <1>1, WFMin
<1>. QED
  BY <1>2, <1>3

\* Prune drops stamps from the front, and only old ones.
LEMMA PruneDrops ==
  ASSUME NEW w \in Seq(0 .. MaxTime), now \in 0 .. MaxTime
  PROVE  \E k \in 1 .. Len(w) + 1 :
           /\ Prune(w) = SubSeq(w, k, Len(w))
           /\ \A m \in 1 .. k - 1 : now - w[m] >= RateWindow
<1>. USE InputAssumption
<1>. DEFINE old(n) == now - w[n] >= RateWindow
            N == 1 .. Len(w) + 1
            First(n) == /\ \A m \in 1 .. n - 1 : old(m)
                        /\ n <= Len(w) => ~old(n)
            T == {n \in N : n <= Len(w) => ~old(n)}
<1>1. Len(w) \in Nat
  BY LenProperties
<1>2. T \in SUBSET Nat /\ Len(w) + 1 \in T
  BY <1>1
<1>3. PICK k \in T : \A m \in T : k <= m
  BY <1>2, LeastNat
<1>4. k \in N /\ First(k)
  <2>1. ASSUME NEW m \in 1 .. k - 1 PROVE old(m)
    BY <1>1, <1>3
  <2>. QED
    BY <1>3, <2>1
<1>. DEFINE first == CHOOSE n \in N : First(n)
<1>5. first \in N /\ First(first)
  <2>. HIDE DEF First, N
  <2>. QED
    BY <1>4
<1>6. Prune(w) = SubSeq(w, first, Len(w))
  BY DEF Prune
<1>. HIDE DEF first
<1>. QED
  BY <1>5, <1>6

\* What is placed in a window stays placed when only older stamps are dropped ...
LEMMA PlacedAfterDrop ==
  ASSUME NEW F, NEW stamp, NEW w \in Seq(0 .. MaxTime), now \in 0 .. MaxTime,
         \A e \in F : now - stamp[e] < RateWindow,
         NEW k \in 1 .. Len(w) + 1, \A m \in 1 .. k - 1 : now - w[m] >= RateWindow,
         Placed(F, stamp, w)
  PROVE  Placed(F, stamp, SubSeq(w, k, Len(w)))
<1>. USE InputAssumption
<1>. DEFINE v == SubSeq(w, k, Len(w))
<1>1. Len(w) \in Nat /\ k \in Nat
  BY LenProperties
<1>2. Len(v) = Len(w) - k + 1 /\ \A i \in 1 .. Len(w) - k + 1 : v[i] = w[k + i - 1]
  BY <1>1, SubSeqProperties
<1>3. PICK f \in Injection(F, 1 .. Len(w)) : \A e \in F : w[f[e]] = stamp[e]
  BY DEF Placed
<1>4. ASSUME NEW e \in F PROVE f[e] \in 1 .. Len(w) /\ f[e] >= k
  <2>1. f[e] \in 1 .. Len(w)
    BY <1>3 DEF Injection, IsInjective
  <2>2. w[f[e]] \in 0 .. MaxTime /\ now - w[f[e]] < RateWindow
    <3>1. w[f[e]] = stamp[e] /\ now - stamp[e] < RateWindow
      BY <1>3
    <3>2. w[f[e]] \in 0 .. MaxTime
      BY <2>1, ElementOfSeq
    <3>. QED
      BY <3>1, <3>2
  <2>. QED
    BY <1>1, <2>1, <2>2
<1>. DEFINE g == [e \in F |-> f[e] - k + 1]
<1>5. \A a, b \in F : f[a] = f[b] => a = b
  BY <1>3 DEF Injection, IsInjective
<1>6. g \in [F -> 1 .. Len(v)]
  <2>. HIDE DEF v
  <2>1. \A e \in F : f[e] - k + 1 \in 1 .. Len(v)
    BY <1>1, <1>2, <1>4
  <2>. QED
    BY <2>1
<1>7. \A a, b \in F : g[a] = g[b] => a = b
  <2>1. ASSUME NEW a \in F, NEW b \in F, f[a] - k + 1 = f[b] - k + 1
        PROVE  f[a] = f[b]
    <3>1. f[a] \in Int /\ f[b] \in Int
      BY <1>4
    <3>. QED
      BY <1>1, <2>1, <3>1
  <2>. QED
    BY <1>5, <2>1
<1>8. \A e \in F : v[g[e]] = stamp[e]
  <2>. SUFFICES ASSUME NEW e \in F PROVE v[g[e]] = stamp[e]
    OBVIOUS
  <2>1. f[e] \in 1 .. Len(w) /\ f[e] >= k /\ g[e] = f[e] - k + 1
    BY <1>4
  <2>2. v[f[e] - k + 1] = w[f[e]]
    <3>1. f[e] - k + 1 \in 1 .. Len(w) - k + 1 /\ k + (f[e] - k + 1) - 1 = f[e]
      BY <1>1, <2>1
    <3>. HIDE DEF v
    <3>. QED
      BY <1>2, <3>1
  <2>. HIDE DEF v, g
  <2>. QED
    BY <1>3, <2>1, <2>2
<1>. HIDE DEF v, g
<1>9. g \in Injection(F, 1 .. Len(v))
  BY <1>6, <1>7 DEF Injection, IsInjective
<1>. QED
  BY <1>8, <1>9 DEF Placed, v

\* ... and so does what is admitted, at the end.
LEMMA PlacedAfterAppend ==
  ASSUME NEW F, NEW stamp, NEW w \in Seq(0 .. MaxTime), NEW e, e \notin F,
         NEW other, other[e] \in 0 .. MaxTime, \A x \in F : other[x] = stamp[x],
         Placed(F, stamp, w)
  PROVE  Placed(F \cup {e}, other, Append(w, other[e]))
<1>. DEFINE v == Append(w, other[e])
            n == Len(w) + 1
<1>1. /\ Len(w) \in Nat /\ Len(v) = n /\ v[n] = other[e]
      /\ \A i \in 1 .. Len(w) : v[i] = w[i]
  BY LenProperties, AppendProperties
<1>. HIDE DEF v
<1>2. PICK f \in Injection(F, 1 .. Len(w)) : \A x \in F : w[f[x]] = stamp[x]
  BY DEF Placed
<1>3. f \in [F -> 1 .. Len(w)] /\ \A a, b \in F : f[a] = f[b] => a = b
  BY <1>2 DEF Injection, IsInjective
<1>. DEFINE g == [x \in F \cup {e} |-> IF x = e THEN n ELSE f[x]]
<1>4. g[e] = n /\ \A x \in F : g[x] = f[x] /\ f[x] \in 1 .. Len(w)
  BY <1>3
<1>5. g \in [F \cup {e} -> 1 .. Len(v)]
  <2>1. n \in 1 .. Len(v) /\ \A x \in F : f[x] \in 1 .. Len(v)
    BY <1>1, <1>3
  <2>. QED
    BY <2>1
<1>. HIDE DEF g
<1>6. \A a, b \in F \cup {e} : g[a] = g[b] => a = b
  <2>1. \A x \in F : g[x] # g[e]
    BY <1>1, <1>4
  <2>. HIDE DEF n
  <2>. QED
    BY <1>3, <1>4, <2>1
<1>7. \A x \in F \cup {e} : v[g[x]] = other[x]
  BY <1>1, <1>2, <1>4
<1>8. g \in Injection(F \cup {e}, 1 .. Len(v))
  BY <1>5, <1>6 DEF Injection, IsInjective
<1>. QED
  BY <1>7, <1>8 DEF Placed, v

\* Fewer envelopes are placed too.
LEMMA PlacedSubset ==
  ASSUME NEW F, NEW stamp, NEW w, NEW G \in SUBSET F, NEW other,
         \A x \in G : other[x] = stamp[x], Placed(F, stamp, w)
  PROVE  Placed(G, other, w)
<1>1. PICK f \in Injection(F, 1 .. Len(w)) : \A x \in F : w[f[x]] = stamp[x]
  BY DEF Placed
<1>. DEFINE g == [x \in G |-> f[x]]
<1>2. g \in Injection(G, 1 .. Len(w))
  BY <1>1 DEF Injection, IsInjective
<1>3. \A x \in G : w[g[x]] = other[x]
  BY <1>1
<1>. QED
  BY <1>2, <1>3 DEF Placed

\* There are no more of them than places.
LEMMA PlacedCount ==
  ASSUME NEW F, NEW stamp, NEW w, Len(w) \in Nat, Placed(F, stamp, w)
  PROVE  IsFiniteSet(F) /\ Cardinality(F) \in Nat /\ Cardinality(F) <= Len(w)
<1>1. PICK f \in Injection(F, 1 .. Len(w)) : TRUE
  BY DEF Placed
<1>2. IsFiniteSet(1 .. Len(w)) /\ Cardinality(1 .. Len(w)) = Len(w)
  BY FS_Interval
<1>3. IsFiniteSet(F) /\ Cardinality(F) <= Cardinality(1 .. Len(w))
  BY <1>1, <1>2, FS_Injection
<1>. QED
  BY <1>2, <1>3, FS_CardinalityType

\* No more sockets are opened than there can be SessionStates.
LEMMA OpenedBound ==
  ASSUME IInv
  PROVE  opened <= MaxStates
<1>. USE DEF IInv, Typed
<1>1. Bridged \in SUBSET (1 .. states)
  BY DEF SocketInv
<1>2. IsFiniteSet(1 .. states) /\ Cardinality(1 .. states) = states
  BY FS_Interval, InputAssumption
<1>3. Cardinality(Bridged) <= states /\ Cardinality(Bridged) \in Nat
  <2>1. IsFiniteSet(Bridged) /\ Cardinality(Bridged) <= Cardinality(1 .. states)
    BY <1>1, <1>2, FS_Subset
  <2>. QED
    BY <1>2, <2>1, FS_CardinalityType
<1>. QED
  BY <1>3, InputAssumption DEF SocketInv

\* The envelopes that a bridge admitted in the window that ends at t.
Admitted(b, t) ==
  {e \in Envelopes : task[e].bridge = b /\ task[e].at \in 0 .. t /\ t - task[e].at < RateWindow}

\* The initial state.
LEMMA InitLimit == Init => LimitInv
<1>. SUFFICES ASSUME Init PROVE LimitInv
  OBVIOUS
<1>. USE InputAssumption DEF Init
<1>1. KnownInv /\ StampInv
  BY DEF KnownInv, StampInv, States
<1>2. WindowInv
  <2>1. window \in [Bridges -> Seq(0 .. MaxTime)]
    BY EmptySeq
  <2>2. ASSUME NEW b \in Bridges PROVE Placed(Fresh(b), Stamp, window[b])
    <3>1. Fresh(b) = {}
      BY DEF Fresh
    <3>. DEFINE f == [x \in {} |-> 0]
    <3>2. f \in Injection({}, 1 .. Len(window[b]))
      BY DEF Injection, IsInjective
    <3>. QED
      BY <3>1, <3>2 DEF Placed
  <2>. QED
    BY <2>1, <2>2 DEF WindowInv
<1>3. RateBound
  <2>. SUFFICES ASSUME NEW b \in Bridges, NEW t \in 0 .. MaxTime
                PROVE  Cardinality(Admitted(b, t)) <= MaxEvents
    BY DEF RateBound, Admitted
  <2>1. Admitted(b, t) = {}
    BY DEF Admitted
  <2>. QED
    BY <2>1, FS_EmptySet
<1>. QED
  BY <1>1, <1>2, <1>3 DEF LimitInv

\* A step that stamps nothing leaves the limiters right.
LEMMA Quiet ==
  ASSUME Typed, Typed', StampInv, WindowInv, RateBound, window' = window, now <= now',
         \A e \in Envelopes :
           /\ task'[e].at = task[e].at
           /\ task[e].at # -1 => task'[e].bridge = task[e].bridge
           /\ task'[e].pc \in {"unsent", "gate"} => task[e].pc \in {"unsent", "gate"}
  PROVE  StampInv' /\ WindowInv' /\ RateBound'
<1>. USE InputAssumption
<1>0. now \in Int /\ now' \in Int /\ \A e \in Envelopes : task[e].at \in -1 .. now
  BY DEF Typed, StampInv
<1>1. StampInv'
  BY <1>0 DEF StampInv
<1>2. WindowInv'
  <2>1. ASSUME NEW b \in Bridges PROVE Placed(Fresh(b)', Stamp', window[b])
    <3>1. Fresh(b)' \in SUBSET Fresh(b)
      BY <1>0 DEF Fresh
    <3>2. \A x \in Fresh(b)' : Stamp'[x] = Stamp[x]
      BY DEF Stamp, Fresh
    <3>3. Placed(Fresh(b), Stamp, window[b])
      BY DEF WindowInv
    <3>. HIDE DEF Fresh, Stamp
    <3>. QED
      BY <3>1, <3>2, <3>3, PlacedSubset
  <2>. QED
    BY <2>1 DEF WindowInv, Placed
<1>3. RateBound'
  <2>. SUFFICES ASSUME NEW b \in Bridges, NEW t \in 0 .. MaxTime
                PROVE  Cardinality(Admitted(b, t)') <= MaxEvents
    BY DEF RateBound, Admitted
  <2>1. Admitted(b, t)' = Admitted(b, t)
    BY <1>0 DEF Admitted
  <2>2. Cardinality(Admitted(b, t)) <= MaxEvents
    BY DEF RateBound, Admitted
  <2>. QED
    BY <2>1, <2>2
<1>. QED
  BY <1>1, <1>2, <1>3

\* The limiter's own step: what it admits it has room for.
LEMMA AllowLimit ==
  ASSUME IInv, IInv', LimitInv, NEW e \in Envelopes, Allow(e)
  PROVE  StampInv' /\ WindowInv' /\ RateBound'
<1>. USE InputAssumption
<1>0. /\ now \in 0 .. MaxTime /\ now' = now /\ task[e].pc = "gate" /\ task[e] \in TaskRecords
      /\ task[e].at = -1 /\ opened \in Nat /\ task \in [Envelopes -> TaskRecords]
      /\ task' \in [Envelopes -> TaskRecords]
  BY DEF IInv, Typed, Allow, LimitInv, StampInv
<1>b. PICK b : b = task[e].bridge
  OBVIOUS
<1>. DEFINE w == Prune(window[b])
<1>1. b \in Bridges
  <2>1. b \in Nat /\ b # 0 /\ b <= opened /\ opened <= MaxStates
    BY <1>0, <1>b, OpenedBound DEF LimitInv, KnownInv, TaskRecords
  <2>. QED
    BY <1>0, <2>1 DEF Bridges
<1>2. window \in [Bridges -> Seq(0 .. MaxTime)] /\ \A d \in Bridges : Placed(Fresh(d), Stamp, window[d])
  BY DEF LimitInv, WindowInv
<1>3. PICK k \in 1 .. Len(window[b]) + 1 :
        /\ w = SubSeq(window[b], k, Len(window[b]))
        /\ \A m \in 1 .. k - 1 : now - window[b][m] >= RateWindow
  BY <1>0, <1>1, <1>2, PruneDrops
<1>4. w \in Seq(0 .. MaxTime) /\ Len(w) \in Nat
  <2>1. window[b] \in Seq(0 .. MaxTime) /\ Len(window[b]) \in Nat
    BY <1>1, <1>2, LenProperties
  <2>2. SubSeq(window[b], k, Len(window[b])) \in Seq(0 .. MaxTime)
    <3>1. \A i \in k .. Len(window[b]) : window[b][i] \in 0 .. MaxTime
      <4>1. \A i \in k .. Len(window[b]) : i \in 1 .. Len(window[b])
        BY <2>1, <1>3
      <4>. QED
        BY <2>1, <4>1, ElementOfSeq
    <3>. QED
      BY <2>1, <3>1, SubSeqProperties
  <2>. QED
    BY <1>3, <2>2, LenProperties
<1>5. Placed(Fresh(b), Stamp, w)
  <2>1. \A x \in Fresh(b) : now - Stamp[x] < RateWindow
    BY DEF Fresh, Stamp
  <2>2. window[b] \in Seq(0 .. MaxTime) /\ Placed(Fresh(b), Stamp, window[b])
    BY <1>1, <1>2
  <2>. HIDE DEF Fresh, Stamp, w
  <2>3. Placed(Fresh(b), Stamp, SubSeq(window[b], k, Len(window[b])))
    BY <1>0, <1>3, <2>1, <2>2, PlacedAfterDrop
  <2>. QED
    BY <1>3, <2>3
<1>6. \/ /\ Len(w) < MaxEvents
         /\ window' = [window EXCEPT ![b] = Append(w, now)]
         /\ task' = [task EXCEPT ![e] = [task[e] EXCEPT !.pc = "claim", !.at = now]]
      \/ /\ window' = [window EXCEPT ![b] = w]
         /\ task' = [task EXCEPT ![e].pc = "dropped"]
  BY <1>b DEF Allow
<1>. HIDE DEF w
<1>7. CASE /\ window' = [window EXCEPT ![b] = w]
           /\ task' = [task EXCEPT ![e].pc = "dropped"]
  <2>1. /\ \A x \in Envelopes : task'[x].at = task[x].at /\ task'[x].bridge = task[x].bridge
        /\ \A x \in Envelopes : task'[x].pc \in {"unsent", "gate"} => task[x].pc \in {"unsent", "gate"}
    BY <1>0, <1>7 DEF TaskRecords
  <2>2. StampInv'
    BY <1>0, <2>1 DEF LimitInv, StampInv
  <2>3. \A d \in Bridges : Fresh(d)' = Fresh(d)
    BY <1>0, <1>b, <2>1 DEF Fresh
  <2>4. Stamp' = Stamp
    BY <2>1 DEF Stamp
  <2>5. window' \in [Bridges -> Seq(0 .. MaxTime)]
    BY <1>1, <1>2, <1>4, <1>7
  <2>6. ASSUME NEW d \in Bridges PROVE Placed(Fresh(d), Stamp, window'[d])
    <3>1. CASE d = b
      <4>1. window'[d] = w
        BY <1>1, <1>2, <1>7, <3>1
      <4>. QED
        BY <1>5, <3>1, <4>1
    <3>2. CASE d # b
      BY <1>1, <1>2, <1>7, <3>2
    <3>. QED
      BY <3>1, <3>2
  <2>7. WindowInv'
    BY <2>3, <2>4, <2>5, <2>6 DEF WindowInv, Placed
  <2>8. RateBound'
    <3>. SUFFICES ASSUME NEW d \in Bridges, NEW t \in 0 .. MaxTime
                  PROVE  Cardinality(Admitted(d, t)') <= MaxEvents
      BY DEF RateBound, Admitted
    <3>1. Admitted(d, t)' = Admitted(d, t)
      BY <2>1 DEF Admitted
    <3>2. Cardinality(Admitted(d, t)) <= MaxEvents
      BY DEF LimitInv, RateBound, Admitted
    <3>. QED
      BY <3>1, <3>2
  <2>. QED
    BY <2>2, <2>7, <2>8
<1>8. CASE /\ Len(w) < MaxEvents
           /\ window' = [window EXCEPT ![b] = Append(w, now)]
           /\ task' = [task EXCEPT ![e] = [task[e] EXCEPT !.pc = "claim", !.at = now]]
  <2>1. /\ task'[e].at = now /\ task'[e].bridge = b /\ task'[e].pc = "claim"
        /\ \A x \in Envelopes \ {e} : task'[x] = task[x]
    BY <1>0, <1>b, <1>8 DEF TaskRecords
  <2>2. StampInv'
    BY <1>0, <2>1 DEF LimitInv, StampInv
  <2>3. Fresh(b)' = Fresh(b) \cup {e} /\ e \notin Fresh(b)
    BY <1>0, <1>b, <2>1 DEF Fresh
  <2>4. \A d \in Bridges \ {b} : Fresh(d)' = Fresh(d) /\ e \notin Fresh(d)
    BY <1>0, <1>b, <2>1 DEF Fresh
  <2>5. Stamp'[e] = now /\ \A x \in Envelopes \ {e} : Stamp'[x] = Stamp[x]
    BY <2>1 DEF Stamp
  <2>6. /\ Append(w, now) \in Seq(0 .. MaxTime) /\ Len(Append(w, now)) = Len(w) + 1
        /\ Len(w) + 1 \in Nat
    BY <1>0, <1>4, AppendProperties
  <2>7. window' \in [Bridges -> Seq(0 .. MaxTime)]
    BY <1>1, <1>2, <1>8, <2>6
  <2>8. Placed(Fresh(b)', Stamp', Append(w, now))
    <3>1. \A x \in Fresh(b) : Stamp'[x] = Stamp[x]
      BY <2>3, <2>5 DEF Fresh
    <3>2. Stamp'[e] \in 0 .. MaxTime
      BY <1>0, <2>5
    <3>. DEFINE other == Stamp'
    <3>3. Placed(Fresh(b) \cup {e}, other, Append(w, other[e]))
      <4>. HIDE DEF other, Fresh, Stamp
      <4>1. other[e] \in 0 .. MaxTime /\ \A x \in Fresh(b) : other[x] = Stamp[x]
        BY <3>1, <3>2 DEF other
      <4>. QED
        BY <1>4, <1>5, <2>3, <4>1, PlacedAfterAppend
    <3>. QED
      BY <2>3, <2>5, <3>3
  <2>9. ASSUME NEW d \in Bridges PROVE Placed(Fresh(d)', Stamp', window'[d])
    <3>1. CASE d = b
      <4>1. window'[d] = Append(w, now)
        BY <1>1, <1>2, <1>8, <3>1
      <4>. QED
        BY <2>8, <3>1, <4>1
    <3>2. CASE d # b
      <4>1. window'[d] = window[d] /\ Placed(Fresh(d), Stamp, window[d])
        BY <1>1, <1>2, <1>8, <3>2
      <4>2. Fresh(d)' = Fresh(d) /\ \A x \in Fresh(d) : Stamp'[x] = Stamp[x]
        BY <2>4, <2>5, <3>2 DEF Fresh
      <4>. DEFINE other == Stamp'
      <4>3. Placed(Fresh(d), other, window[d])
        <5>1. \A x \in Fresh(d) : other[x] = Stamp[x]
          BY <4>2
        <5>. HIDE DEF other, Fresh, Stamp
        <5>. QED
          BY <4>1, <5>1, PlacedSubset
      <4>. QED
        BY <4>1, <4>2, <4>3
    <3>. QED
      BY <3>1, <3>2
  <2>10. WindowInv'
    BY <2>7, <2>9 DEF WindowInv, Placed
  <2>11. RateBound'
    <3>. SUFFICES ASSUME NEW d \in Bridges, NEW t \in 0 .. MaxTime
                  PROVE  Cardinality(Admitted(d, t)') <= MaxEvents
      BY DEF RateBound, Admitted
    <3>1. CASE d = b /\ now <= t
      <4>1. IsFiniteSet(Fresh(b)') /\ Cardinality(Fresh(b)') \in Nat
            /\ Cardinality(Fresh(b)') <= Len(w) + 1
        <5>. DEFINE F == Fresh(b)'
                    other == Stamp'
                    v == Append(w, now)
        <5>1. Len(v) \in Nat /\ Placed(F, other, v)
          BY <2>6, <2>8
        <5>. HIDE DEF F, other, v
        <5>2. IsFiniteSet(F) /\ Cardinality(F) \in Nat /\ Cardinality(F) <= Len(v)
          BY <5>1, PlacedCount
        <5>. QED
          BY <2>6, <5>2 DEF F, v
      <4>2. Admitted(d, t)' \in SUBSET (Fresh(b)')
        <5>1. \A x \in Envelopes : task'[x].at \in Int
          BY <1>0 DEF TaskRecords
        <5>2. ASSUME NEW x \in Envelopes, task'[x].at \in 0 .. t, t - task'[x].at < RateWindow
              PROVE  task'[x].at # -1 /\ now' - task'[x].at < RateWindow
          BY <1>0, <3>1, <5>1, <5>2
        <5>. QED
          BY <3>1, <5>2 DEF Admitted, Fresh
      <4>3. /\ Cardinality(Admitted(d, t)') <= Cardinality(Fresh(b)')
            /\ Cardinality(Admitted(d, t)') \in Nat
        BY <4>1, <4>2, FS_Subset, FS_CardinalityType
      <4>. QED
        BY <1>4, <1>8, <4>1, <4>3
    <3>2. CASE ~(d = b /\ now <= t)
      <4>1. Admitted(d, t)' = Admitted(d, t)
        BY <1>0, <2>1, <3>2 DEF Admitted
      <4>2. Cardinality(Admitted(d, t)) <= MaxEvents
        BY DEF LimitInv, RateBound, Admitted
      <4>. QED
        BY <4>1, <4>2
    <3>. QED
      BY <3>1, <3>2
  <2>. QED
    BY <2>2, <2>10, <2>11
<1>. QED
  BY <1>6, <1>7, <1>8

\* What everybody knows of the bridges, after a call's critical section ended with b.
LEMMA HaveKnown ==
  ASSUME Typed, BegunInv, KnownInv, NEW c \in Calls, NEW from \in {"bridge", "connect"},
         NEW b \in Nat, Have(c, from, b), b <= opened', opened' \in Nat, opened <= opened',
         registry' <= opened', UNCHANGED <<closed, claimed, task>>
  PROVE  KnownInv'
<1>1. call[c].state \in States
  BY Begun DEF Have
<1>2. Goes(c) /\ call'[c].bridge = b
  BY HaveGoesOn
<1>3. \A s \in States : bridge'[s] <= opened'
  BY <1>1 DEF Have, KnownInv, Typed
<1>4. \A d \in Calls : call'[d].bridge <= opened'
  <2>1. \A d \in Calls \ {c} : call'[d] = call[d] /\ call[d].bridge \in Nat
    BY <1>2 DEF Goes, Typed, CallRecords
  <2>. QED
    BY <1>2, <2>1 DEF KnownInv, Typed
<1>5. \A e \in Envelopes : task[e].bridge \in Nat
  BY DEF Typed, TaskRecords
<1>. QED
  BY <1>3, <1>4, <1>5 DEF KnownInv, Typed

\* Every step keeps the numbers of the bridges.
LEMMA KnownStep ==
  ASSUME Typed, BegunInv, KnownInv, [Next]_vars
  PROVE  KnownInv'
<1>. USE InputAssumption DEF session, made, sockets, forwarding, vars
<1>0. registry \in Nat /\ opened \in Nat /\ bridge \in [States -> Nat]
      /\ call \in [Calls -> CallRecords] /\ task \in [Envelopes -> TaskRecords]
      /\ \A c \in Calls : call[c].bridge \in Nat
  BY DEF Typed, CallRecords
<1>1. ASSUME NEW c \in Calls, GetBridge(c) PROVE KnownInv'
  <2>1. call[c].state \in States
    BY <1>1, Begun DEF GetBridge
  <2>2. bridge[call[c].state] \in Nat /\ bridge[call[c].state] <= opened /\ registry <= opened
    BY <1>0, <2>1 DEF KnownInv
  <2>3. UNCHANGED <<registry, opened, closed, claimed, task>>
    BY <1>1 DEF GetBridge
  <2>4. ASSUME NEW b \in Nat, Have(c, "bridge", b), b <= opened PROVE KnownInv'
    BY <1>0, <2>2, <2>3, <2>4, HaveKnown
  <2>5. CASE At(c, "bridge", "connect") /\ UNCHANGED bridge
    <3>1. \A d \in Calls : call'[d].bridge = call[d].bridge
      BY <1>0, <2>5 DEF At, CallRecords
    <3>. QED
      BY <2>3, <2>5, <3>1 DEF KnownInv
  <2>. QED
    BY <1>0, <1>1, <2>2, <2>4, <2>5 DEF GetBridge
<1>2. ASSUME NEW c \in Calls, Dial(c) PROVE KnownInv'
  BY <1>0, <1>2, HaveKnown DEF Dial
<1>3. ASSUME NEW c \in Calls, DialFails(c) PROVE KnownInv'
  <2>1. registry <= opened
    BY DEF KnownInv
  <2>. QED
    BY <1>0, <1>3, <2>1, HaveKnown DEF DialFails
<1>4. ASSUME NEW c \in Calls, NEW e \in Envelopes, Message(c, e) PROVE KnownInv'
  <2>1. call[c].bridge # 0 /\ call[c].bridge \in Nat /\ call[c].bridge <= opened
    BY <1>0, <1>4 DEF Message, Observes, KnownInv
  <2>2. task'[e].bridge = call[c].bridge /\ \A f \in Envelopes \ {e} : task'[f] = task[f]
    BY <1>0, <1>4 DEF Message, TaskRecords
  <2>3. UNCHANGED <<registry, opened, bridge, call, closed, claimed>>
    BY <1>4 DEF Message
  <2>. QED
    BY <2>1, <2>2, <2>3 DEF KnownInv
<1>5. ASSUME NEW e \in Envelopes,
             Allow(e) \/ Claim(e) \/ SendRequest(e) \/ SendEvent(e) \/ SendFails(e)
      PROVE  KnownInv'
  <2>1. task[e].pc # "unsent"
    BY <1>5 DEF Allow, Claim, SendRequest, SendEvent, SendFails
  <2>2. /\ \A f \in Envelopes : task'[f].bridge = task[f].bridge
        /\ \A f \in Envelopes \ {e} : task'[f] = task[f]
    <3>1. CASE Allow(e)
      <4>1. \/ task' = [task EXCEPT ![e] = [task[e] EXCEPT !.pc = "claim", !.at = now]]
            \/ task' = [task EXCEPT ![e].pc = "dropped"]
        BY <3>1 DEF Allow
      <4>. QED
        <5>1. CASE task' = [task EXCEPT ![e] = [task[e] EXCEPT !.pc = "claim", !.at = now]]
          BY <1>0, <5>1 DEF TaskRecords
        <5>2. CASE task' = [task EXCEPT ![e].pc = "dropped"]
          BY <1>0, <5>2 DEF TaskRecords
        <5>. QED
          BY <4>1, <5>1, <5>2
    <3>2. CASE Claim(e)
      BY <1>0, <3>2 DEF Claim, TaskRecords
    <3>3. CASE SendRequest(e) \/ SendEvent(e) \/ SendFails(e)
      BY <1>0, <3>3 DEF SendRequest, SendEvent, SendFails, TaskRecords
    <3>. QED
      BY <1>5, <3>1, <3>2, <3>3
  <2>3. UNCHANGED <<registry, opened, bridge, call, closed>>
    BY <1>5 DEF Allow, Claim, SendRequest, SendEvent, SendFails
  <2>4. claimed' \in {claimed, claimed \cup {task[e].bridge}}
    BY <1>5 DEF Allow, Claim, SendRequest, SendEvent, SendFails
  <2>5. task[e].bridge \in 1 .. opened
    BY <1>0, <2>1 DEF KnownInv, TaskRecords
  <2>6. claimed' \subseteq 1 .. opened
    BY <2>4, <2>5 DEF KnownInv
  <2>. QED
    BY <2>1, <2>2, <2>3, <2>6 DEF KnownInv
<1>6. CASE ServerCloses
  BY <1>0, <1>6 DEF ServerCloses, KnownInv
<1>7. ASSUME UNCHANGED <<made, sockets, claimed, task>>,
             \A c \in Calls : call'[c].bridge = call[c].bridge
      PROVE  KnownInv'
  BY <1>7 DEF KnownInv
<1>8. ASSUME NEW c \in Calls, MakeDirect(c) PROVE KnownInv'
  <2>1. \A d \in Calls : call'[d].bridge = call[d].bridge
    BY <1>0, <1>8 DEF MakeDirect, At, CallRecords
  <2>. QED
    BY <1>8, <2>1 DEF MakeDirect, KnownInv
<1>9. ASSUME NEW c \in Calls,
             (\E v \in Viewers : Start(c, v)) \/ ReturnExisting(c) \/ NoSlot(c) \/ Proceed(c)
             \/ ProduceData(c) \/ MediasoupFails(c) \/ Lazy(c) \/ ConsumeData(c) \/ Store(c)
      PROVE  KnownInv'
  <2>1. \A d \in Calls : call'[d].bridge = call[d].bridge
    <3>1. CASE \E v \in Viewers : Start(c, v)
      BY <1>0, <3>1 DEF Start, CallRecords
    <3>2. CASE ReturnExisting(c)
      BY <1>0, <3>2 DEF ReturnExisting, CallRecords
    <3>3. CASE Store(c)
      BY <1>0, <3>3 DEF Store, CallRecords
    <3>4. ASSUME NEW p \in CallSteps, call' = [call EXCEPT ![c].pc = p]
          PROVE  \A d \in Calls : call'[d].bridge = call[d].bridge
      BY <1>0, <3>4 DEF CallRecords
    <3>5. CASE NoSlot(c) \/ Proceed(c) \/ ProduceData(c) \/ MediasoupFails(c) \/ Lazy(c)
               \/ ConsumeData(c)
      <4>1. \E p \in CallSteps : call' = [call EXCEPT ![c].pc = p]
        BY <3>5 DEF NoSlot, Proceed, ProduceData, MediasoupFails, Lazy, ConsumeData, At, CallSteps
      <4>. QED
        BY <3>4, <4>1
    <3>. QED
      BY <1>9, <3>1, <3>2, <3>3, <3>5
  <2>2. UNCHANGED <<made, sockets, claimed, task>>
    BY <1>9 DEF Start, ReturnExisting, NoSlot, Proceed, ProduceData, MediasoupFails, Lazy,
       ConsumeData, Store
  <2>. QED
    BY <1>7, <2>1, <2>2
<1>10. CASE UNCHANGED <<made, sockets, claimed, task, call>>
  BY <1>7, <1>10
<1>11. CASE Provision \/ CloseSession \/ Pass \/ \E v \in Viewers : Join(v) \/ RemoveViewer(v)
  BY <1>10, <1>11 DEF Provision, CloseSession, Pass, Join, RemoveViewer
<1>12. CASE UNCHANGED vars
  BY <1>10, <1>12
<1>. QED
  BY <1>1, <1>2, <1>3, <1>4, <1>5, <1>6, <1>8, <1>9, <1>11, <1>12, Zenon DEF Next, Call

\* Every step keeps the limiters right.
LEMMA LimitStep ==
  ASSUME IInv, IInv', LimitInv, [Next]_vars
  PROVE  LimitInv'
<1>. SUFFICES StampInv' /\ WindowInv' /\ RateBound'
  BY KnownStep DEF IInv, LimitInv
<1>2. ASSUME NEW e \in Envelopes, Allow(e) PROVE StampInv' /\ WindowInv' /\ RateBound'
  BY <1>2, AllowLimit
<1>3. Typed /\ Typed' /\ StampInv /\ WindowInv /\ RateBound
  BY DEF IInv, LimitInv
<1>4. ASSUME window' = window, now <= now',
             \A e \in Envelopes :
               /\ task'[e].at = task[e].at
               /\ task[e].at # -1 => task'[e].bridge = task[e].bridge
               /\ task'[e].pc \in {"unsent", "gate"} => task[e].pc \in {"unsent", "gate"}
      PROVE  StampInv' /\ WindowInv' /\ RateBound'
  BY <1>3, <1>4, Quiet
<1>0. /\ task \in [Envelopes -> TaskRecords] /\ now \in Int
      /\ \A e \in Envelopes : task[e].pc \in {"unsent", "gate"} => task[e].at = -1
  BY <1>3 DEF Typed, StampInv
<1>5. ASSUME NEW c \in Calls, NEW e \in Envelopes, Message(c, e)
      PROVE  StampInv' /\ WindowInv' /\ RateBound'
  <2>1. UNCHANGED <<window, now>>
    BY <1>5 DEF Message
  <2>2. /\ \A f \in Envelopes \ {e} : task'[f] = task[f]
        /\ task'[e].at = task[e].at /\ task[e].pc = "unsent"
    BY <1>0, <1>5 DEF Message, TaskRecords
  <2>. QED
    BY <1>0, <1>4, <2>1, <2>2
<1>6. ASSUME NEW e \in Envelopes, Claim(e) \/ SendRequest(e) \/ SendEvent(e) \/ SendFails(e)
      PROVE  StampInv' /\ WindowInv' /\ RateBound'
  <2>1. UNCHANGED <<window, now>>
    BY <1>6 DEF Claim, SendRequest, SendEvent, SendFails
  <2>2. /\ \A f \in Envelopes \ {e} : task'[f] = task[f]
        /\ task'[e].at = task[e].at /\ task'[e].bridge = task[e].bridge
        /\ task'[e].pc \notin {"unsent", "gate"}
    BY <1>0, <1>6 DEF Claim, SendRequest, SendEvent, SendFails, TaskRecords
  <2>. QED
    BY <1>0, <1>4, <2>1, <2>2
<1>7. CASE Pass
  <2>1. window' = window /\ task' = task /\ now <= now'
    BY <1>0, <1>7 DEF Pass, forwarding
  <2>. QED
    BY <1>4, <2>1, Zenon
<1>8. CASE UNCHANGED <<forwarding, now>>
  <2>1. window' = window /\ task' = task /\ now <= now'
    BY <1>0, <1>8 DEF forwarding
  <2>. QED
    BY <1>4, <2>1, Zenon
<1>9. ASSUME NEW c \in Calls, Call(c)
      PROVE  UNCHANGED <<forwarding, now>>
  BY <1>9 DEF Call, ReturnExisting, NoSlot, Proceed, ProduceData, MediasoupFails, Lazy,
     MakeDirect, GetBridge, Dial, DialFails, ConsumeData, Store
<1>10. CASE \/ Provision \/ CloseSession \/ ServerCloses \/ UNCHANGED vars
            \/ \E v \in Viewers : Join(v) \/ RemoveViewer(v) \/ \E c \in Calls : Start(c, v)
  <2>1. UNCHANGED <<forwarding, now>>
    BY <1>10 DEF Provision, CloseSession, ServerCloses, Join, RemoveViewer, Start, vars
  <2>. QED
    BY <1>8, <2>1
<1>11. CASE Next
  BY <1>2, <1>5, <1>6, <1>7, <1>8, <1>9, <1>10, <1>11, Zenon DEF Next
<1>. QED
  BY <1>10, <1>11

\* The limiters are right in every reachable state.
THEOREM LimitInvariance == Spec => []LimitInv
<1>1. IInv /\ IInv' /\ LimitInv /\ [Next]_vars => LimitInv'
  BY LimitStep
<1>. QED
  BY <1>1, InitLimit, Invariance, PTL DEF Spec

\* However the forward tasks of a bridge interleave with the clock, no rolling window
\* holds more admitted envelopes than MAX_EVENTS_PER_SECOND.
THEOREM RateBoundHolds == Spec => []RateBound
<1>1. LimitInv => RateBound
  BY DEF LimitInv
<1>. QED
  BY <1>1, LimitInvariance, PTL

\* The state has its type; in particular a bridge's number stays within the SessionStates.
THEOREM TypeCorrect == Spec => []TypeOK
<1>1. ASSUME IInv, LimitInv PROVE TypeOK
  <2>. USE <1>1, InputAssumption DEF IInv, Typed
  <2>1. opened \in 0 .. MaxStates /\ registry \in 0 .. opened
    BY OpenedBound DEF LimitInv, KnownInv
  <2>2. bridge \in [States -> 0 .. MaxStates]
    BY <2>1 DEF LimitInv, KnownInv
  <2>3. directs \in [States -> 0 .. 1]
    <3>1. \A s \in States : directs[s] \in Nat /\ directs[s] <= 1
      BY DEF BridgeInv
    <3>2. \A s \in States : directs[s] \in 0 .. 1
      BY <3>1
    <3>. QED
      BY <3>2
  <2>4. \A c \in Calls : call[c] \in [pc : CallSteps, viewer : Viewers \cup {Nobody},
          state : 0 .. MaxStates, bridge : 0 .. MaxStates, result : Calls \cup {Nobody}]
    <3>. SUFFICES ASSUME NEW c \in Calls
                  PROVE  call[c] \in [pc : CallSteps, viewer : Viewers \cup {Nobody},
                           state : 0 .. MaxStates, bridge : 0 .. MaxStates,
                           result : Calls \cup {Nobody}]
      OBVIOUS
    <3>1. call[c] \in CallRecords
      OBVIOUS
    <3>2. call[c].bridge \in Nat /\ call[c].bridge <= opened
      BY <3>1 DEF CallRecords, LimitInv, KnownInv
    <3>3. call[c].bridge \in 0 .. MaxStates
      BY <2>1, <3>2
    <3>. QED
      BY <3>1, <3>3 DEF CallRecords
  <2>5. \A e \in Envelopes : task[e] \in [pc : TaskSteps, bridge : 0 .. MaxStates,
                                          at : -1 .. MaxTime]
    <3>. SUFFICES ASSUME NEW e \in Envelopes
                  PROVE  task[e] \in [pc : TaskSteps, bridge : 0 .. MaxStates, at : -1 .. MaxTime]
      OBVIOUS
    <3>1. task[e] \in TaskRecords
      OBVIOUS
    <3>2. task[e].bridge \in Nat /\ task[e].bridge <= opened /\ task[e].at \in -1 .. now
      BY <3>1 DEF TaskRecords, LimitInv, KnownInv, StampInv
    <3>3. task[e].bridge \in 0 .. MaxStates /\ task[e].at \in -1 .. MaxTime
      BY <2>1, <3>2
    <3>. QED
      BY <3>1, <3>3 DEF TaskRecords
  <2>6. call \in [Calls -> [pc : CallSteps, viewer : Viewers \cup {Nobody},
          state : 0 .. MaxStates, bridge : 0 .. MaxStates, result : Calls \cup {Nobody}]]
    BY <2>4
  <2>7. task \in [Envelopes -> [pc : TaskSteps, bridge : 0 .. MaxStates, at : -1 .. MaxTime]]
    BY <2>5
  <2>8. closed \subseteq 1 .. opened /\ claimed \subseteq 1 .. opened
        /\ window \in [Bridges -> Seq(0 .. MaxTime)]
    BY DEF LimitInv, KnownInv, WindowInv
  <2>. QED
    BY <2>1, <2>2, <2>3, <2>6, <2>7, <2>8 DEF TypeOK
<1>. QED
  BY <1>1, Invariance, LimitInvariance, PTL
=============================================================================
