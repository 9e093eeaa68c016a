------------------------- MODULE ProvisioningProofs -------------------------
(***************************************************************************)
(* Proofs about Provisioning, for any sets of sessions, requests and ports *)
(* and any number of restarts.                                             *)
(***************************************************************************)
EXTENDS Provisioning, TLAPS

\* A running request has a session.
SessInv == \A h \in Handlers : Active(h) => sess[h] \in Sessions

\* Before a rollback releases its port nobody listens on it.
GivenUp ==
  \A h \in Handlers, s \in Sessions :
    pc[h] \in {"rb_persist", "rb_release"} => services[s] # port[h]

\* A route that is not stale has a port that no other session can get.
RouteInv ==
  \A s \in Sessions :
    routes[s] # None /\ s \notin stale =>
      /\ routes[s] \notin free
      /\ \A t \in Sessions \ {s} : services[t] # routes[s]
      /\ \A h \in Handlers : Creating(h) /\ port[h] = routes[s] => sess[h] = s

IInv == TypeOK /\ SessInv /\ PortsExclusive /\ GivenUp /\ RouteInv

-----------------------------------------------------------------------------
(* Type correctness.                                                       *)

USE DEF Creating, Active, CreateSteps, RollbackSteps, DeleteSteps, Ended, Tables, NoEntries

Kinds == {"route", "undone", "save", "race"}

\* Init fixes every variable; no request runs.
LEMMA InitIInv == Init => IInv
<1>. SUFFICES ASSUME Init PROVE IInv
  OBVIOUS
<1>1. TypeOK
  BY ProvisioningAssumption DEF Init, TypeOK, Pool!PoolInit
<1>2. SessInv /\ GivenUp
  BY DEF Init, SessInv, GivenUp
<1>3. PortsExclusive
  BY ProvisioningAssumption DEF Init, PortsExclusive, Pool!PoolInit
<1>4. RouteInv
  BY DEF Init, RouteInv
<1>. QED
  BY <1>1, <1>2, <1>3, <1>4 DEF IInv

\* A request to Caddy leaves a table of routes.
LEMMA OutcomesTyped ==
  ASSUME TypeOK, NEW h \in Handlers
  PROVE  Outcomes(h) \subseteq Tables
<1>1. /\ [routes EXCEPT ![sess[h]] = port[h]] \in Tables
      /\ [snap[h] EXCEPT ![sess[h]] = port[h]] \in Tables
      /\ routes \in Tables
      /\ \A s : [routes EXCEPT ![s] = None] \in Tables
  BY DEF TypeOK
<1>2. \A table \in Outcomes(h) :
        \/ table = [routes EXCEPT ![sess[h]] = port[h]]
        \/ table = [snap[h] EXCEPT ![sess[h]] = port[h]]
        \/ table = routes
        \/ \E s : table = [routes EXCEPT ![s] = None]
  BY DEF Outcomes
<1>. HIDE DEF Tables
<1>. QED
  BY <1>1, <1>2, Zenon

\* So the routes and what is kept about them have their types.
LEMMA BecomesTyped ==
  ASSUME TypeOK, NEW h \in Handlers, NEW table \in Outcomes(h) \cup {routes},
         CaddyBecomes(h, table)
  PROVE  routes' \in Tables /\ shifted' \in SUBSET Handlers /\ stale' \in SUBSET Sessions
<1>1. table \in Tables
  BY OutcomesTyped DEF TypeOK
<1>. QED
  BY <1>1 DEF TypeOK, CaddyBecomes

\* And the faults.
LEMMA NotedTyped ==
  ASSUME TypeOK, NEW h \in Handlers, NEW table, NEW own \in SUBSET Kinds,
         Noted(h, table, own)
  PROVE  faults' \in [Sessions -> SUBSET Kinds]
  BY DEF TypeOK, Noted, Kinds

\* remove_route keeps the types, whatever it returns.
LEMMA RemovedTyped ==
  ASSUME TypeOK, SessInv, NEW h \in Handlers, Active(h), RouteRemoved(h)
  PROVE  /\ routes' \in Tables /\ shifted' \in SUBSET Handlers /\ stale' \in SUBSET Sessions
         /\ faults' \in [Sessions -> SUBSET Kinds]
<1>1. faults[sess[h]] \in SUBSET Kinds
  BY DEF TypeOK, SessInv, Kinds
<1>2. PICK table \in Outcomes(h) \cup {routes}, own \in SUBSET Kinds :
        CaddyBecomes(h, table) /\ Noted(h, table, own)
  <2>1. CASE \E table \in Outcomes(h) :
               /\ CaddyBecomes(h, table)
               /\ Noted(h, table, IF table[sess[h]] = None
                                  THEN faults[sess[h]] \ {"route", "undone"}
                                  ELSE faults[sess[h]] \cup {"undone"})
    <3>1. PICK table \in Outcomes(h) :
               /\ CaddyBecomes(h, table)
               /\ Noted(h, table, IF table[sess[h]] = None
                                  THEN faults[sess[h]] \ {"route", "undone"}
                                  ELSE faults[sess[h]] \cup {"undone"})
      BY <2>1
    <3>2. (IF table[sess[h]] = None THEN faults[sess[h]] \ {"route", "undone"}
                                    ELSE faults[sess[h]] \cup {"undone"}) \in SUBSET Kinds
      BY <1>1 DEF Kinds
    <3>. QED
      BY <3>1, <3>2
  <2>2. CASE \E table \in Outcomes(h) \cup {routes} :
               CaddyBecomes(h, table) /\ Noted(h, table, faults[sess[h]] \cup {"route"})
    <3>1. faults[sess[h]] \cup {"route"} \in SUBSET Kinds
      BY <1>1 DEF Kinds
    <3>. QED
      BY <2>2, <3>1
  <2>. QED
    BY <2>1, <2>2 DEF RouteRemoved
<1>. QED
  BY <1>2, BecomesTyped, NotedTyped

\* The steps of a create keep the types.
LEMMA CreateTypes ==
  ASSUME TypeOK, SessInv, NEW h \in Handlers, Create(h)
  PROVE  TypeOK' /\ SessInv'
<1>. USE DEF TypeOK, SessInv, Goto, End, memory, outside, locals, history,
             NoteRace, Fault, Pool!Allocate, Pool!Exhausted, Pool!Release,
             TomlIfFailed, TomlEither, caddy
<1>1. CASE CreateExhausted(h)
  BY <1>1 DEF CreateExhausted
<1>2. CASE \E s \in Sessions, p \in Ports : CreateAllocate(h, s, p)
  BY <1>2 DEF CreateAllocate
<1>3. CASE Register(h)
  BY <1>3 DEF Register
<1>4. CASE PersistRegistered(h)
  BY <1>4 DEF PersistRegistered
<1>5. CASE PersistFailed(h)
  BY <1>5 DEF PersistFailed
<1>0. ASSUME Active(h) PROVE faults[sess[h]] \in SUBSET Kinds
  BY <1>0 DEF Kinds
<1>6. CASE AddRoute(h)
  <2>1. PICK table \in Outcomes(h) :
          /\ CaddyBecomes(h, table)
          /\ Noted(h, table, faults[sess[h]] \ {"route", "undone"})
    BY <1>6 DEF AddRoute
  <2>2. faults[sess[h]] \ {"route", "undone"} \in SUBSET Kinds
    BY <1>0, <1>6 DEF AddRoute, Putting
  <2>3. faults' \in [Sessions -> SUBSET Kinds]
    BY <2>1, <2>2, NotedTyped
  <2>4. routes' \in Tables /\ shifted' \in SUBSET Handlers /\ stale' \in SUBSET Sessions
    BY <2>1, BecomesTyped
  <2>. QED
    BY <1>6, <2>3, <2>4 DEF AddRoute, Putting, Kinds
<1>7. CASE AddRouteFailed(h)
  <2>1. PICK table \in Outcomes(h) \cup {routes} :
          /\ CaddyBecomes(h, table)
          /\ Noted(h, table, faults[sess[h]] \cup
                             IF table[sess[h]] = routes[sess[h]] THEN {} ELSE {"route"})
    BY <1>7 DEF AddRouteFailed
  <2>2. faults[sess[h]] \cup (IF table[sess[h]] = routes[sess[h]] THEN {} ELSE {"route"})
          \in SUBSET Kinds
    BY <1>0, <1>7 DEF AddRouteFailed, Putting, Kinds
  <2>3. faults' \in [Sessions -> SUBSET Kinds]
    BY <2>1, <2>2, NotedTyped
  <2>4. routes' \in Tables /\ shifted' \in SUBSET Handlers /\ stale' \in SUBSET Sessions
    BY <2>1, BecomesTyped
  <2>. QED
    BY <1>7, <2>3, <2>4 DEF AddRouteFailed, Putting, Kinds
<1>8. CASE Provision(h)
  BY <1>8 DEF Provision
<1>9. CASE ProvisionFailed(h)
  BY <1>9 DEF ProvisionFailed
<1>10. CASE RollbackRoute(h)
  <2>1. /\ routes' \in Tables /\ shifted' \in SUBSET Handlers /\ stale' \in SUBSET Sessions
        /\ faults' \in [Sessions -> SUBSET Kinds]
    BY <1>10, RemovedTyped DEF RollbackRoute
  <2>. QED
    BY <1>10, <2>1 DEF RollbackRoute, Kinds
<1>11. CASE RollbackDeregister(h)
  BY <1>11 DEF RollbackDeregister
<1>12. CASE RollbackPersist(h)
  BY <1>12 DEF RollbackPersist
<1>13. CASE RollbackRelease(h)
  BY <1>13 DEF RollbackRelease
<1>14. CASE Record(h)
  BY <1>14 DEF Record
<1>15. CASE Save(h)
  BY <1>15 DEF Save
<1>16. CASE SaveFailed(h)
  BY <1>16 DEF SaveFailed
<1>17. CASE ProvisionLookup(h)
  BY <1>17 DEF ProvisionLookup
<1>18. CASE SweepScan(h)
  BY <1>18 DEF SweepScan, ScanRoutes
<1>19. CASE SweepDelete(h)
  <2>1. PICK table \in Outcomes(h) \cup {routes} :
          CaddyBecomes(h, table) /\ Noted(h, table, faults[sess[h]])
    BY <1>19 DEF SweepDelete
  <2>2. faults' \in [Sessions -> SUBSET Kinds]
    BY <1>0, <1>19, <2>1, NotedTyped DEF SweepDelete
  <2>3. routes' \in Tables /\ shifted' \in SUBSET Handlers /\ stale' \in SUBSET Sessions
    BY <2>1, BecomesTyped
  <2>. QED
    BY <1>19, <2>2, <2>3 DEF SweepDelete, Kinds
<1>20. CASE ReadRoutes(h)
  BY <1>20 DEF ReadRoutes, Putting
<1>21. CASE RollbackScan(h)
  BY <1>21 DEF RollbackScan, ScanRoutes
<1>. QED
  BY <1>1, <1>2, <1>3, <1>4, <1>5, <1>6, <1>7, <1>8, <1>9, <1>10, <1>11, <1>12,
     <1>13, <1>14, <1>15, <1>16, <1>17, <1>18, <1>19, <1>20, <1>21 DEF Create

\* So do those of a DELETE, of a token rotation and of a lost client.
LEMMA OtherTypes ==
  ASSUME TypeOK, SessInv, NEW h \in Handlers, Delete(h) \/ Token(h) \/ ClientGone(h)
  PROVE  TypeOK' /\ SessInv'
<1>. USE DEF TypeOK, SessInv, Goto, End, memory, outside, locals, history, Arms,
             Arm, ArmDone, NoteRace, Fault, TomlIfFailed, TomlEither, caddy
<1>1. CASE \E s \in Sessions : DeleteStart(h, s)
  BY <1>1 DEF DeleteStart
<1>2. CASE DeleteUnstore(h)
  BY <1>2 DEF DeleteUnstore
<1>3. CASE JoinCaddy(h)
  <2>1. /\ routes' \in Tables /\ shifted' \in SUBSET Handlers /\ stale' \in SUBSET Sessions
        /\ faults' \in [Sessions -> SUBSET Kinds]
    BY <1>3, RemovedTyped DEF JoinCaddy
  <2>. QED
    BY <1>3, <2>1 DEF JoinCaddy, Kinds
<1>4. CASE JoinDeregister(h)
  BY <1>4 DEF JoinDeregister
<1>5. CASE JoinPersist(h)
  BY <1>5 DEF JoinPersist
<1>6. CASE JoinClose(h)
  BY <1>6 DEF JoinClose
<1>7. CASE DeleteReturn(h)
  BY <1>7 DEF DeleteReturn
<1>8. CASE TokenPersist(h)
  <2>1. End(h, "ok") \/ End(h, "failed")
    BY <1>8 DEF TokenPersist
  <2>2. /\ toml' \in Tables
        /\ UNCHANGED <<free, services, sfu, subdomains, routes, shifted, store, restarts,
                       faults, stale>>
    BY <1>8 DEF TokenPersist
  <2>3. CASE End(h, "ok")
    BY <2>2, <2>3
  <2>4. CASE End(h, "failed")
    BY <2>2, <2>4
  <2>. QED
    BY <2>1, <2>3, <2>4
<1>9. CASE \E s \in Sessions : TokenStart(h, s)
  BY <1>9 DEF TokenStart
<1>10. CASE \E s \in Sessions : TokenUnknown(h, s)
  BY <1>10 DEF TokenUnknown
<1>11. CASE ClientGone(h)
  <2>1. PICK table \in Outcomes(h) \cup {routes} :
          /\ CaddyBecomes(h, table)
          /\ Noted(h, table, faults[sess[h]]
                               \cup (IF LeavesRoute(h) THEN {"route"} ELSE {})
                               \cup (IF pc[h] = "save" THEN {"save"} ELSE {}))
    BY <1>11 DEF ClientGone
  <2>2. faults[sess[h]] \cup (IF LeavesRoute(h) THEN {"route"} ELSE {})
                        \cup (IF pc[h] = "save" THEN {"save"} ELSE {}) \in SUBSET Kinds
    BY <1>11 DEF ClientGone, Waiting, Kinds
  <2>3. faults' \in [Sessions -> SUBSET Kinds]
    BY <2>1, <2>2, NotedTyped
  <2>4. routes' \in Tables /\ shifted' \in SUBSET Handlers /\ stale' \in SUBSET Sessions
    BY <2>1, BecomesTyped
  <2>5. toml' \in Tables /\ store' \in SUBSET Sessions
    BY <1>11 DEF ClientGone
  <2>. QED
    BY <1>11, <2>3, <2>4, <2>5 DEF ClientGone, Waiting, Kinds
<1>12. CASE JoinScan(h)
  BY <1>12 DEF JoinScan, ScanRoutes
<1>. QED
  BY <1>1, <1>2, <1>3, <1>4, <1>5, <1>6, <1>7, <1>8, <1>9, <1>10, <1>11, <1>12 DEF
     Delete, Token

\* A restart builds every variable of the process anew, within its type.
LEMMA RestartTypes ==
  ASSUME TypeOK, SessInv, Restart
  PROVE  TypeOK' /\ SessInv'
<1>1. restarts' \in 0 .. MaxRestarts
  BY ProvisioningAssumption DEF TypeOK, Restart
<1>2. /\ free' \in SUBSET Ports /\ services' \in [Sessions -> Ports \cup {None}]
      /\ sfu' \in SUBSET Sessions /\ toml' \in Tables
      /\ store' \in SUBSET Sessions /\ subdomains' \in SUBSET Sessions
  BY DEF TypeOK, Restart, TomlIfFailed, TomlEither
<1>6. routes' \in Tables /\ shifted' \in SUBSET Handlers
  BY OutcomesTyped DEF TypeOK, Restart
<1>3. /\ pc' \in [Handlers -> {"idle", "token"} \cup CreateSteps \cup RollbackSteps
                              \cup DeleteSteps \cup Ended]
      /\ sess' \in [Handlers -> Sessions \cup {None}]
      /\ port' \in [Handlers -> Ports \cup {None}]
      /\ found' \in [Handlers -> BOOLEAN] /\ pend' \in [Handlers -> SUBSET Arms]
      /\ stale' \in SUBSET Sessions /\ snap' \in [Handlers -> Tables]
  BY DEF TypeOK, Restart
<1>4. faults' \in [Sessions -> SUBSET {"route", "undone", "save", "race"}]
  BY DEF TypeOK, Restart
<1>5. SessInv'
  BY DEF TypeOK, Restart, SessInv
<1>. QED
  BY <1>1, <1>2, <1>3, <1>4, <1>5, <1>6 DEF TypeOK

-----------------------------------------------------------------------------
(* Ports.                                                                  *)

\* A step that takes services away, and no more, leaves the claims exclusive.
LEMMA FewerServices ==
  ASSUME PortsExclusive, TypeOK, UNCHANGED <<free, port, sess>>,
         \A s \in Sessions : services'[s] \in {services[s], None},
         \A g \in Handlers : Creating(g)' => Creating(g)
  PROVE  PortsExclusive'
<1>. HIDE DEF Creating
<1>1. None \notin free
  BY ProvisioningAssumption DEF TypeOK
<1>2. \A g \in Handlers : Creating(g) => port[g] # None
  BY ProvisioningAssumption, Zenon DEF PortsExclusive
<1>. QED
  BY <1>1, <1>2 DEF PortsExclusive

\* What the steps of a create do to the claims on ports.
LEMMA CreatePorts ==
  ASSUME IInv, NEW h \in Handlers, Create(h)
  PROVE  PortsExclusive' /\ GivenUp'
<1>. USE ProvisioningAssumption
     DEF IInv, TypeOK, SessInv, PortsExclusive, GivenUp, Goto, End, memory, outside,
         caddy, locals, Pool!Allocate, Pool!Exhausted, Pool!Release
<1>1. CASE CreateExhausted(h)
  BY <1>1 DEF CreateExhausted
<1>2. CASE \E s \in Sessions, p \in Ports : CreateAllocate(h, s, p)
  BY <1>2 DEF CreateAllocate
<1>3. CASE Register(h)
  BY <1>3 DEF Register
<1>4. CASE PersistRegistered(h)
  BY <1>4 DEF PersistRegistered
<1>5. CASE PersistFailed(h)
  BY <1>5 DEF PersistFailed
<1>6. CASE AddRoute(h)
  BY <1>6 DEF AddRoute, Putting
<1>7. CASE AddRouteFailed(h)
  BY <1>7 DEF AddRouteFailed, Putting
<1>8. CASE Provision(h)
  BY <1>8 DEF Provision
<1>9. CASE ProvisionFailed(h)
  BY <1>9 DEF ProvisionFailed
<1>10. CASE RollbackRoute(h)
  BY <1>10 DEF RollbackRoute
<1>11. CASE RollbackDeregister(h)
  <2>1. \A s \in Sessions : services'[s] \in {services[s], None}
    BY <1>11 DEF RollbackDeregister
  <2>2. services'[sess[h]] = None /\ None \notin free
    BY <1>11 DEF RollbackDeregister
  <2>3. /\ free' = free /\ port' = port /\ sess' = sess
        /\ \A g \in Handlers : Creating(g)' => Creating(g)
    BY <1>11 DEF RollbackDeregister
  <2>4. PortsExclusive'
    <3>. HIDE DEF Creating, PortsExclusive, TypeOK
    <3>. QED
      BY <2>1, <2>3, FewerServices DEF IInv
  <2>5. GivenUp'
    BY <1>11, <2>1, <2>2, <2>3 DEF RollbackDeregister
  <2>. QED
    BY <2>4, <2>5
<1>12. CASE RollbackPersist(h)
  BY <1>12 DEF RollbackPersist
<1>13. CASE RollbackRelease(h)
  BY <1>13 DEF RollbackRelease
<1>14. CASE Record(h)
  BY <1>14 DEF Record
<1>15. CASE Save(h)
  BY <1>15 DEF Save
<1>16. CASE SaveFailed(h)
  BY <1>16 DEF SaveFailed
<1>17. CASE ProvisionLookup(h)
  BY <1>17 DEF ProvisionLookup
<1>18. CASE SweepScan(h)
  BY <1>18 DEF SweepScan, ScanRoutes
<1>19. CASE SweepDelete(h)
  BY <1>19 DEF SweepDelete
<1>20. CASE ReadRoutes(h)
  BY <1>20 DEF ReadRoutes, Putting
<1>21. CASE RollbackScan(h)
  BY <1>21 DEF RollbackScan, ScanRoutes
<1>. QED
  BY <1>1, <1>2, <1>3, <1>4, <1>5, <1>6, <1>7, <1>8, <1>9, <1>10, <1>11,
     <1>12, <1>13, <1>14, <1>15, <1>16, <1>17, <1>18, <1>19, <1>20, <1>21 DEF Create

\* No other request takes a port or adds a service.
LEMMA OtherPorts ==
  ASSUME IInv, NEW h \in Handlers, Delete(h) \/ Token(h) \/ ClientGone(h)
  PROVE  PortsExclusive' /\ GivenUp'
<1>. USE ProvisioningAssumption
     DEF IInv, TypeOK, SessInv, PortsExclusive, GivenUp, Goto, End, memory, outside,
         caddy, locals, Arm, ArmDone
<1>1. CASE \E s \in Sessions : DeleteStart(h, s)
  BY <1>1 DEF DeleteStart
<1>2. CASE DeleteUnstore(h)
  BY <1>2 DEF DeleteUnstore
<1>3. CASE JoinCaddy(h)
  BY <1>3 DEF JoinCaddy
<1>4. CASE JoinDeregister(h)
  <2>1. \A s \in Sessions : services'[s] \in {services[s], None}
    BY <1>4 DEF JoinDeregister
  <2>2. services'[sess[h]] = None /\ None \notin free
    BY <1>4 DEF JoinDeregister
  <2>3. /\ free' = free /\ port' = port /\ sess' = sess
        /\ \A g \in Handlers : Creating(g)' => Creating(g)
    BY <1>4 DEF JoinDeregister
  <2>4. PortsExclusive'
    <3>. HIDE DEF Creating, PortsExclusive, TypeOK
    <3>. QED
      BY <2>1, <2>3, FewerServices DEF IInv
  <2>5. GivenUp'
    BY <1>4, <2>1, <2>2, <2>3 DEF JoinDeregister
  <2>. QED
    BY <2>4, <2>5
<1>5. CASE JoinPersist(h)
  BY <1>5 DEF JoinPersist
<1>6. CASE JoinClose(h)
  BY <1>6 DEF JoinClose
<1>7. CASE DeleteReturn(h)
  BY <1>7 DEF DeleteReturn
<1>8. CASE TokenPersist(h)
  <2>1. End(h, "ok") \/ End(h, "failed")
    BY <1>8 DEF TokenPersist
  <2>2. UNCHANGED <<free, services>>
    BY <1>8 DEF TokenPersist
  <2>3. \A g \in Handlers : /\ Creating(g)' => Creating(g)
                            /\ Creating(g)' => /\ pc'[g] = pc[g] /\ port'[g] = port[g]
                                               /\ sess'[g] = sess[g]
    BY <2>1
  <2>. QED
    BY <2>2, <2>3
<1>9. CASE \E s \in Sessions : TokenStart(h, s)
  BY <1>9 DEF TokenStart
<1>10. CASE \E s \in Sessions : TokenUnknown(h, s)
  BY <1>10 DEF TokenUnknown
<1>11. CASE ClientGone(h)
  BY <1>11 DEF ClientGone
<1>12. CASE JoinScan(h)
  BY <1>12 DEF JoinScan, ScanRoutes
<1>. QED
  BY <1>1, <1>2, <1>3, <1>4, <1>5, <1>6, <1>7, <1>8, <1>9, <1>10, <1>11, <1>12 DEF
     Delete, Token

\* A restart forgets every claim on a port.
LEMMA RestartPorts ==
  ASSUME IInv, Restart
  PROVE  PortsExclusive' /\ GivenUp' /\ RouteInv'
<1>1. \A h \in Handlers : pc'[h] \in {"idle"} \cup Ended
  BY DEF Restart, IInv, TypeOK
<1>. QED
  BY <1>1, ProvisioningAssumption
  DEF Restart, PortsExclusive, GivenUp, RouteInv

-----------------------------------------------------------------------------
(* Routes.                                                                 *)

\* A request to Caddy makes a route only on a port that the route's session has a claim
\* on, or notes it as stale.
LEMMA BecomesRouted ==
  ASSUME IInv, NEW h \in Handlers, NEW table \in Outcomes(h) \cup {routes},
         CaddyBecomes(h, table), UNCHANGED <<free, services>>,
         \A g \in Handlers : Creating(g)' =>
           Creating(g) /\ port'[g] = port[g] /\ sess'[g] = sess[g]
  PROVE  RouteInv'
<1>. SUFFICES ASSUME NEW s \in Sessions, table[s] # None, s \notin stale'
              PROVE  /\ table[s] \notin free
                     /\ \A t \in Sessions \ {s} : services[t] # table[s]
                     /\ \A g \in Handlers : Creating(g) /\ port[g] = table[s] => sess[g] = s
  BY DEF RouteInv, CaddyBecomes
<1>1. CASE table[s] = routes[s]
  BY <1>1 DEF IInv, RouteInv, CaddyBecomes
<1>2. CASE table[s] # routes[s]
  <2>1. Holds(s, table[s])
    BY <1>2 DEF CaddyBecomes
  <2>. QED
    BY <2>1 DEF Holds, IInv, PortsExclusive
<1>. QED
  BY <1>1, <1>2

\* A create routes a host only to the port it holds itself.
LEMMA CreateRoutes ==
  ASSUME IInv, NEW h \in Handlers, Create(h)
  PROVE  RouteInv'
<1>. USE ProvisioningAssumption
     DEF IInv, TypeOK, SessInv, PortsExclusive, RouteInv, Goto, End, memory,
         outside, caddy, locals, history, Pool!Allocate, Pool!Exhausted, Pool!Release
<1>1. CASE CreateExhausted(h)
  BY <1>1 DEF CreateExhausted
<1>2. CASE \E s \in Sessions, p \in Ports : CreateAllocate(h, s, p)
  BY <1>2 DEF CreateAllocate
<1>3. CASE Register(h)
  BY <1>3 DEF Register
<1>4. CASE PersistRegistered(h)
  BY <1>4 DEF PersistRegistered
<1>5. CASE PersistFailed(h)
  BY <1>5 DEF PersistFailed
<1>6. CASE AddRoute(h)
  <2>1. \E table \in Outcomes(h) \cup {routes} : CaddyBecomes(h, table)
    BY <1>6 DEF AddRoute
  <2>2. UNCHANGED <<free, services>>
    BY <1>6 DEF AddRoute
  <2>3. \A g \in Handlers : Creating(g)' =>
          Creating(g) /\ port'[g] = port[g] /\ sess'[g] = sess[g]
    BY <1>6 DEF AddRoute, Putting
  <2>. QED
    BY <2>1, <2>2, <2>3, BecomesRouted
<1>7. CASE AddRouteFailed(h)
  <2>1. \E table \in Outcomes(h) \cup {routes} : CaddyBecomes(h, table)
    BY <1>7 DEF AddRouteFailed
  <2>2. UNCHANGED <<free, services>>
    BY <1>7 DEF AddRouteFailed
  <2>3. \A g \in Handlers : Creating(g)' =>
          Creating(g) /\ port'[g] = port[g] /\ sess'[g] = sess[g]
    BY <1>7 DEF AddRouteFailed, Putting
  <2>. QED
    BY <2>1, <2>2, <2>3, BecomesRouted
<1>8. CASE Provision(h)
  BY <1>8 DEF Provision
<1>9. CASE ProvisionFailed(h)
  BY <1>9 DEF ProvisionFailed
<1>10. CASE RollbackRoute(h)
  <2>1. \E table \in Outcomes(h) \cup {routes} : CaddyBecomes(h, table)
    BY <1>10 DEF RollbackRoute, RouteRemoved
  <2>2. UNCHANGED <<free, services>>
    BY <1>10 DEF RollbackRoute
  <2>3. \A g \in Handlers : Creating(g)' =>
          Creating(g) /\ port'[g] = port[g] /\ sess'[g] = sess[g]
    BY <1>10 DEF RollbackRoute, Putting
  <2>. QED
    BY <2>1, <2>2, <2>3, BecomesRouted
<1>11. CASE RollbackDeregister(h)
  BY <1>11 DEF RollbackDeregister
<1>12. CASE RollbackPersist(h)
  BY <1>12 DEF RollbackPersist
<1>13. CASE RollbackRelease(h)
  BY <1>13 DEF RollbackRelease
<1>14. CASE Record(h)
  BY <1>14 DEF Record
<1>15. CASE Save(h)
  BY <1>15 DEF Save
<1>16. CASE SaveFailed(h)
  BY <1>16 DEF SaveFailed
<1>17. CASE ProvisionLookup(h)
  BY <1>17 DEF ProvisionLookup
<1>18. CASE SweepScan(h)
  BY <1>18 DEF SweepScan, ScanRoutes
<1>19. CASE SweepDelete(h)
  <2>1. \E table \in Outcomes(h) \cup {routes} : CaddyBecomes(h, table)
    BY <1>19 DEF SweepDelete
  <2>2. UNCHANGED <<free, services>>
    BY <1>19 DEF SweepDelete
  <2>3. \A g \in Handlers : Creating(g)' =>
          Creating(g) /\ port'[g] = port[g] /\ sess'[g] = sess[g]
    BY <1>19 DEF SweepDelete, Putting
  <2>. QED
    BY <2>1, <2>2, <2>3, BecomesRouted
<1>20. CASE ReadRoutes(h)
  BY <1>20 DEF ReadRoutes, Putting
<1>21. CASE RollbackScan(h)
  BY <1>21 DEF RollbackScan, ScanRoutes
<1>. QED
  BY <1>1, <1>2, <1>3, <1>4, <1>5, <1>6, <1>7, <1>8, <1>9, <1>10, <1>11,
     <1>12, <1>13, <1>14, <1>15, <1>16, <1>17, <1>18, <1>19, <1>20, <1>21 DEF Create

\* No other request routes a host to a port that its session does not hold, except as a
\* stale route.
LEMMA OtherRoutes ==
  ASSUME IInv, NEW h \in Handlers, Delete(h) \/ Token(h) \/ ClientGone(h)
  PROVE  RouteInv'
<1>. USE ProvisioningAssumption
     DEF IInv, TypeOK, SessInv, PortsExclusive, RouteInv, Goto, End, memory,
         outside, caddy, locals, history, Arm, ArmDone
<1>1. CASE \E s \in Sessions : DeleteStart(h, s)
  BY <1>1 DEF DeleteStart
<1>2. CASE DeleteUnstore(h)
  BY <1>2 DEF DeleteUnstore
<1>3. CASE JoinCaddy(h)
  <2>1. \E table \in Outcomes(h) \cup {routes} : CaddyBecomes(h, table)
    BY <1>3 DEF JoinCaddy, RouteRemoved
  <2>2. UNCHANGED <<free, services>>
    BY <1>3 DEF JoinCaddy
  <2>3. \A g \in Handlers : Creating(g)' =>
          Creating(g) /\ port'[g] = port[g] /\ sess'[g] = sess[g]
    BY <1>3 DEF JoinCaddy, Putting
  <2>. QED
    BY <2>1, <2>2, <2>3, BecomesRouted
<1>4. CASE JoinDeregister(h)
  BY <1>4 DEF JoinDeregister
<1>5. CASE JoinPersist(h)
  BY <1>5 DEF JoinPersist
<1>6. CASE JoinClose(h)
  BY <1>6 DEF JoinClose
<1>7. CASE DeleteReturn(h)
  BY <1>7 DEF DeleteReturn
<1>8. CASE TokenPersist(h)
  BY <1>8 DEF TokenPersist
<1>9. CASE \E s \in Sessions : TokenStart(h, s)
  BY <1>9 DEF TokenStart
<1>10. CASE \E s \in Sessions : TokenUnknown(h, s)
  BY <1>10 DEF TokenUnknown
<1>11. CASE ClientGone(h)
  <2>1. \E table \in Outcomes(h) \cup {routes} : CaddyBecomes(h, table)
    BY <1>11 DEF ClientGone
  <2>2. UNCHANGED <<free, services>>
    BY <1>11 DEF ClientGone
  <2>3. \A g \in Handlers : Creating(g)' =>
          Creating(g) /\ port'[g] = port[g] /\ sess'[g] = sess[g]
    BY <1>11 DEF ClientGone, Putting
  <2>. QED
    BY <2>1, <2>2, <2>3, BecomesRouted
<1>12. CASE JoinScan(h)
  BY <1>12 DEF JoinScan, ScanRoutes
<1>. QED
  BY <1>1, <1>2, <1>3, <1>4, <1>5, <1>6, <1>7, <1>8, <1>9, <1>10, <1>11, <1>12 DEF
     Delete, Token

-----------------------------------------------------------------------------
(* The theorems.                                                           *)

\* Every step keeps the inductive invariant.
LEMMA NextIInv == IInv /\ [Next]_vars => IInv'
<1>. SUFFICES ASSUME IInv, [Next]_vars PROVE IInv'
  OBVIOUS
<1>1. ASSUME NEW h \in Handlers, Create(h) PROVE IInv'
  BY <1>1, CreateTypes, CreatePorts, CreateRoutes DEF IInv
<1>2. ASSUME NEW h \in Handlers, Delete(h) \/ Token(h) \/ ClientGone(h) PROVE IInv'
  BY <1>2, OtherTypes, OtherPorts, OtherRoutes DEF IInv
<1>3. CASE Restart
  BY <1>3, RestartTypes, RestartPorts DEF IInv
<1>4. CASE UNCHANGED vars
  BY <1>4 DEF IInv, TypeOK, SessInv, PortsExclusive, GivenUp, RouteInv, vars, memory,
              outside, caddy, request, history
<1>. QED
  BY <1>1, <1>2, <1>3, <1>4 DEF Next

\* The inductive invariant holds in every reachable state.
LEMMA IInvHolds == Spec => []IInv
  BY InitIInv, NextIInv, PTL DEF Spec

\* Every variable of the provisioning handlers keeps its type, whatever fails.
THEOREM TypeCorrect == Spec => []TypeOK
<1>1. IInv => TypeOK
  BY DEF IInv
<1>. QED
  BY <1>1, IInvHolds, PTL

\* create, its rollback and deprovision never promise a port twice, in any
\* interleaving of requests, failures, lost clients and restarts.
THEOREM PortsExclusiveHolds == Spec => []PortsExclusive
<1>1. IInv => PortsExclusive
  BY DEF IInv
<1>. QED
  BY <1>1, IInvHolds, PTL

\* Only a route that outlived the claim on its port, or that a write from an outdated
\* array brought back after it, can lead to another session's tunnel.
THEOREM NoCrossRoutingHolds == Spec => []NoCrossRouting
<1>1. IInv => NoCrossRouting
  BY DEF IInv, RouteInv, NoCrossRouting
<1>. QED
  BY <1>1, IInvHolds, PTL
=============================================================================
