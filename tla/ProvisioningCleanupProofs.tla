--------------------- MODULE ProvisioningCleanupProofs ---------------------
(***************************************************************************)
(* Theorems about what Provisioning's requests leave behind: routes,       *)
(* mappings, and the resources of a create and of a DELETE about to answer.*)
(***************************************************************************)
EXTENDS ProvisioningProofs

\* A create or a DELETE that runs.
Owner(h) == Active(h) /\ pc[h] # "token"

\* No other create or DELETE of its session overlapped it.
Alone(h) == "race" \notin faults[sess[h]]

\* Two creates or DELETEs of one session that run at once are noted as a race.
RaceInv ==
  \A g, h \in Handlers :
    Owner(g) /\ Owner(h) /\ sess[g] = sess[h] /\ g # h => ~Alone(h)

\* A Caddy call for the session failed or was cut off, or a write from an array read
\* earlier changed or missed its route.
Excused(s) == "route" \in faults[s] \/ "undone" \in faults[s]

\* What a create has in place at each of its steps.
Routing == {"addroute", "sweep", "reput", "patch"}
Routed == {"provision", "newrouter", "record", "save"}

InPlace(h) ==
  /\ pc[h] \in {"persist"} \cup Routing \cup Routed => services[sess[h]] = port[h]
  /\ pc[h] \in Routing \cup Routed => toml[sess[h]] = port[h] \/ toml = NoEntries
  /\ pc[h] \in Routed => routes[sess[h]] = port[h] \/ "undone" \in faults[sess[h]]
  /\ pc[h] \in {"record", "save"} => sess[h] \in sfu
  /\ pc[h] = "save" => sess[h] \in subdomains

\* The Caddy arm of a DELETE's join! still runs.
CaddyArm(h) == "caddy" \in pend[h] \/ "index" \in pend[h]

\* What a DELETE has taken away at each of its steps.  Without a mapping, the route
\* was gone when it started, or excused.
TakenAway(h) ==
  /\ pc[h] \in {"unstore", "join"} => sess[h] \notin subdomains
  /\ pc[h] = "join" /\ "dereg" \notin pend[h] => services[sess[h]] = None
  /\ pc[h] = "join" /\ "sfu" \notin pend[h] => sess[h] \notin sfu
  /\ \/ pc[h] = "unstore" /\ found[h] = FALSE
     \/ pc[h] = "join" /\ ~CaddyArm(h)
     => routes[sess[h]] = None \/ Excused(sess[h])

OwnerInv ==
  \A h \in Handlers : Owner(h) /\ Alone(h) => InPlace(h) /\ TakenAway(h)

\* A request that made the route, or took its mapping, and is not done with it.
Claims(h) ==
  \/ pc[h] \in {"provision", "newrouter", "rb_route", "rb_index", "record"}
  \/ pc[h] = "unstore" /\ found[h] = TRUE
  \/ pc[h] = "join" /\ CaddyArm(h)

\* A route has a mapping, a request that answers for it, or an excuse.
ClaimInv ==
  \A s \in Sessions :
    routes[s] # None =>
      \/ s \in subdomains
      \/ Excused(s)
      \/ \E h \in Handlers : sess[h] = s /\ Claims(h)

CleanupInv == TypeOK /\ SessInv /\ RaceInv /\ OwnerInv /\ MappingOnDisk /\ ClaimInv

-----------------------------------------------------------------------------

\* No request runs, nothing is in place.
LEMMA InitCleanup == Init => CleanupInv
<1>. SUFFICES ASSUME Init PROVE CleanupInv
  OBVIOUS
<1>1. TypeOK /\ SessInv
  BY InitIInv DEF IInv
<1>2. \A h \in Handlers : ~Owner(h)
  BY DEF Init, Owner, Active
<1>3. RaceInv /\ OwnerInv
  BY <1>2 DEF RaceInv, OwnerInv
<1>4. MappingOnDisk /\ ClaimInv
  BY DEF Init, MappingOnDisk, ClaimInv, NoEntries
<1>. QED
  BY <1>1, <1>3, <1>4 DEF CleanupInv

\* A DELETE notes that it took a mapping.
LEMMA FoundIfMapped ==
  ASSUME TypeOK, NEW h \in Handlers, NEW s \in Sessions, DeleteStart(h, s)
  PROVE  s \in subdomains => found'[h] = TRUE
  BY Zenon DEF TypeOK, DeleteStart

-----------------------------------------------------------------------------
(* What a request to Caddy does to its session and to the others.          *)

\* Another session's route stays, or the change is noted.
OthersNoted(h) ==
  \A t \in Sessions \ {sess[h]} :
    \/ routes'[t] = routes[t] /\ faults'[t] = faults[t]
    \/ faults'[t] = faults[t] \cup {"undone"}

\* Noted keeps to that, for any table the request leaves.
LEMMA NotedEffect ==
  ASSUME TypeOK, NEW h \in Handlers, sess[h] \in Sessions, NEW table, NEW own,
         CaddyBecomes(h, table), Noted(h, table, own)
  PROVE  OthersNoted(h) /\ routes' = table /\ faults'[sess[h]] = own
  BY DEF TypeOK, CaddyBecomes, Noted, OthersNoted

\* The route that add_route's writes leave is the create's own.
LEMMA AddedTable ==
  ASSUME TypeOK, NEW h \in Handlers, sess[h] \in Sessions, Putting(h) \/ pc[h] = "patch",
         NEW table \in Outcomes(h)
  PROVE  table[sess[h]] = port[h]
<1>1. ~Deleting(h) /\ ~ByIndex(h)
  BY DEF Deleting, ByIndex, ByPath, Putting
<1>2. \/ table = [routes EXCEPT ![sess[h]] = port[h]]
      \/ table = [snap[h] EXCEPT ![sess[h]] = port[h]]
  BY <1>1 DEF Outcomes
<1>. QED
  BY <1>2 DEF TypeOK, Tables

\* The sweep takes the route away, or leaves it.
LEMMA SweptTable ==
  ASSUME TypeOK, NEW h \in Handlers, sess[h] \in Sessions, pc[h] = "sweep",
         NEW table \in Outcomes(h) \cup {routes}
  PROVE  table[sess[h]] \in {routes[sess[h]], None}
<1>1. ~Deleting(h) /\ ByIndex(h) /\ ~Putting(h)
  BY DEF Deleting, ByIndex, ByPath, Putting
<1>2. table = routes \/ \E s \in Sessions : table = [routes EXCEPT ![s] = None]
  BY <1>1 DEF Outcomes
<1>. QED
  BY <1>2 DEF TypeOK, Tables

\* add_route's Ok.
LEMMA AddRouteEffect ==
  ASSUME TypeOK, SessInv, NEW h \in Handlers, AddRoute(h)
  PROVE  /\ OthersNoted(h) /\ sess[h] \in Sessions /\ routes'[sess[h]] = port[h]
         /\ faults'[sess[h]] = faults[sess[h]] \ {"route", "undone"}
<1>1. Putting(h) \/ pc[h] = "patch"
  BY DEF AddRoute
<1>2. sess[h] \in Sessions
  BY <1>1 DEF SessInv, Putting, Active, Ended
<1>3. PICK table \in Outcomes(h) :
        CaddyBecomes(h, table) /\ Noted(h, table, faults[sess[h]] \ {"route", "undone"})
  BY DEF AddRoute
<1>. QED
  BY <1>1, <1>2, <1>3, AddedTable, NotedEffect

\* add_route's Err.
LEMMA AddRouteFailedEffect ==
  ASSUME TypeOK, SessInv, NEW h \in Handlers, AddRouteFailed(h)
  PROVE  /\ OthersNoted(h) /\ sess[h] \in Sessions
         /\ \/ routes'[sess[h]] = routes[sess[h]] /\ faults'[sess[h]] = faults[sess[h]]
            \/ faults'[sess[h]] = faults[sess[h]] \cup {"route"}
<1>1. sess[h] \in Sessions
  BY DEF AddRouteFailed, SessInv, Putting, Active, Ended
<1>2. PICK table \in Outcomes(h) \cup {routes} :
        /\ CaddyBecomes(h, table)
        /\ Noted(h, table, faults[sess[h]] \cup
                           IF table[sess[h]] = routes[sess[h]] THEN {} ELSE {"route"})
  BY DEF AddRouteFailed
<1>3. /\ OthersNoted(h) /\ routes' = table
      /\ faults'[sess[h]] = faults[sess[h]] \cup
                            IF table[sess[h]] = routes[sess[h]] THEN {} ELSE {"route"}
  BY <1>1, <1>2, NotedEffect
<1>. QED
  BY <1>1, <1>3

\* The dedup sweep.
LEMMA SweepEffect ==
  ASSUME TypeOK, SessInv, NEW h \in Handlers, SweepDelete(h)
  PROVE  /\ OthersNoted(h) /\ sess[h] \in Sessions
         /\ routes'[sess[h]] \in {routes[sess[h]], None}
         /\ faults'[sess[h]] = faults[sess[h]]
<1>1. pc[h] = "sweep" /\ sess[h] \in Sessions
  BY DEF SweepDelete, SessInv, Goto, Active, Ended
<1>2. PICK table \in Outcomes(h) \cup {routes} :
        CaddyBecomes(h, table) /\ Noted(h, table, faults[sess[h]])
  BY DEF SweepDelete
<1>. QED
  BY <1>1, <1>2, SweptTable, NotedEffect

\* remove_route, with either answer: the route is gone, or excused.
LEMMA RemovedEffect ==
  ASSUME TypeOK, NEW h \in Handlers, sess[h] \in Sessions, RouteRemoved(h)
  PROVE  /\ OthersNoted(h)
         /\ \/ routes'[sess[h]] = None
            \/ "route" \in faults'[sess[h]] \/ "undone" \in faults'[sess[h]]
         /\ "race" \in faults'[sess[h]] <=> "race" \in faults[sess[h]]
         /\ "save" \in faults'[sess[h]] <=> "save" \in faults[sess[h]]
<1>1. ASSUME NEW table, NEW own, CaddyBecomes(h, table), Noted(h, table, own),
             \/ own = faults[sess[h]] \cup {"route"}
             \/ own = faults[sess[h]] \cup {"undone"}
             \/ table[sess[h]] = None /\ own = faults[sess[h]] \ {"route", "undone"}
      PROVE  /\ OthersNoted(h)
             /\ routes'[sess[h]] = None \/ "route" \in faults'[sess[h]] \/ "undone" \in faults'[sess[h]]
             /\ "race" \in faults'[sess[h]] <=> "race" \in faults[sess[h]]
             /\ "save" \in faults'[sess[h]] <=> "save" \in faults[sess[h]]
  <2>1. OthersNoted(h) /\ routes' = table /\ faults'[sess[h]] = own
    BY <1>1, NotedEffect
  <2>. QED
    BY <1>1, <2>1
<1>2. \E table, own :
        /\ CaddyBecomes(h, table) /\ Noted(h, table, own)
        /\ \/ own = faults[sess[h]] \cup {"route"}
           \/ own = faults[sess[h]] \cup {"undone"}
           \/ table[sess[h]] = None /\ own = faults[sess[h]] \ {"route", "undone"}
  BY DEF RouteRemoved
<1>3. PICK table, own :
        /\ CaddyBecomes(h, table) /\ Noted(h, table, own)
        /\ \/ own = faults[sess[h]] \cup {"route"}
           \/ own = faults[sess[h]] \cup {"undone"}
           \/ table[sess[h]] = None /\ own = faults[sess[h]] \ {"route", "undone"}
  BY <1>2
<1>. QED
  BY <1>1, <1>3

\* Only a request that may leave a route behind is at a write to Caddy.
LEMMA WritersLeaveRoutes ==
  ASSUME NEW h \in Handlers, Outcomes(h) # {}
  PROVE  LeavesRoute(h)
  BY DEF Outcomes, Putting, Deleting, ByIndex, ByPath, LeavesRoute

\* A client that goes away.
LEMMA GoneEffect ==
  ASSUME TypeOK, SessInv, NEW h \in Handlers, ClientGone(h)
  PROVE  /\ OthersNoted(h) /\ sess[h] \in Sessions
         /\ routes'[sess[h]] = routes[sess[h]] \/ LeavesRoute(h)
         /\ faults[sess[h]] \subseteq faults'[sess[h]]
         /\ LeavesRoute(h) => "route" \in faults'[sess[h]]
         /\ pc[h] = "save" => "save" \in faults'[sess[h]]
         /\ "race" \in faults'[sess[h]] => "race" \in faults[sess[h]]
         /\ LeavesRoute(h) \/ pc[h] = "save" \/ faults'[sess[h]] = faults[sess[h]]
<1>1. sess[h] \in Sessions
  BY DEF ClientGone, Waiting, SessInv, Active, Ended
<1>2. PICK table \in Outcomes(h) \cup {routes} :
        /\ CaddyBecomes(h, table)
        /\ Noted(h, table, faults[sess[h]]
                             \cup (IF LeavesRoute(h) THEN {"route"} ELSE {})
                             \cup (IF pc[h] = "save" THEN {"save"} ELSE {}))
  BY DEF ClientGone
<1>3. /\ OthersNoted(h) /\ routes' = table
      /\ faults'[sess[h]] = faults[sess[h]]
                             \cup (IF LeavesRoute(h) THEN {"route"} ELSE {})
                             \cup (IF pc[h] = "save" THEN {"save"} ELSE {})
  BY <1>1, <1>2, NotedEffect
<1>4. table = routes \/ LeavesRoute(h)
  BY <1>2, WritersLeaveRoutes
<1>. QED
  BY <1>1, <1>3, <1>4

\* What the steps that write to Caddy do besides: add_route's Ok leads on to the SFU.
LEMMA AddRouteRest ==
  ASSUME NEW h \in Handlers, AddRoute(h)
  PROVE  /\ pc[h] \in {"addroute", "reput", "patch"} /\ pc' = [pc EXCEPT ![h] = "provision"]
         /\ UNCHANGED <<memory, toml, store, sess, port, found, pend>>
  BY DEF AddRoute, Putting

\* A failed add_route ends the create.
LEMMA AddRouteFailedRest ==
  ASSUME NEW h \in Handlers, AddRouteFailed(h)
  PROVE  /\ pc[h] \in {"addroute", "reput", "patch"} /\ End(h, "failed")
         /\ UNCHANGED <<memory, toml, store>>
  BY DEF AddRouteFailed, Putting

\* The sweep goes back to the PUT.
LEMMA SweepRest ==
  ASSUME NEW h \in Handlers, SweepDelete(h)
  PROVE  Goto(h, "sweep", "reput") /\ UNCHANGED <<memory, toml, store, locals>>
  BY DEF SweepDelete

\* A handler whose client went away ends; its persist or its save may be half done.
LEMMA GoneRest ==
  ASSUME NEW h \in Handlers, ClientGone(h)
  PROVE  /\ Waiting(h) /\ End(h, "gone") /\ UNCHANGED memory
         /\ toml' \in TomlEither
         /\ store' = store \/ (pc[h] = "save" /\ store' = store \ {sess[h]})
  BY DEF ClientGone, TomlEither, TomlIfFailed

-----------------------------------------------------------------------------
(* A step of one request and the others.                                   *)

\* The step of h leaves the other requests and the other sessions alone, but for routes
\* whose change is noted; rathole's file is shared, and becomes the registry's table, or
\* goes, or stays.
Frame(h, s) ==
  /\ \A g \in Handlers \ {h} :
       /\ pc'[g] = pc[g] /\ sess'[g] = sess[g] /\ port'[g] = port[g]
       /\ found'[g] = found[g] /\ pend'[g] = pend[g]
  /\ \A t \in Sessions \ {s} :
       /\ services'[t] = services[t]
       /\ routes'[t] = routes[t] \/ "undone" \in faults'[t]
       /\ faults[t] \subseteq faults'[t] /\ faults'[t] \subseteq faults[t] \cup {"undone"}
       /\ t \in sfu' <=> t \in sfu
       /\ t \in subdomains' <=> t \in subdomains
  /\ toml' = toml \/ toml' = services' \/ toml' = NoEntries
  /\ Owner(h)' => sess'[h] = s
  /\ s \in Sessions /\ "race" \in faults[s] => "race" \in faults'[s]
  /\ s \in Sessions =>
       \A g \in Handlers \ {h} : Owner(g) /\ sess[g] = s => "race" \in faults'[s]

\* A step of a create works on its own session.
LEMMA CreateFrame ==
  ASSUME TypeOK, SessInv, RaceInv, NEW h \in Handlers, Create(h)
  PROVE  \E t \in Sessions \cup {None} : Frame(h, t)
<1>. USE ProvisioningAssumption
     DEF TypeOK, SessInv, RaceInv, Frame, Owner, Alone, Active, Ended, CreateSteps, RollbackSteps, DeleteSteps, NoEntries, Goto, End, memory, outside, caddy, locals, history, request
<1>1. CASE CreateExhausted(h)
  <2>1. Frame(h, None)
    BY <1>1 DEF CreateExhausted, Goto, Pool!Exhausted
  <2>. QED
    BY <1>1, <2>1 DEF CreateExhausted, Goto, Pool!Exhausted
<1>2. ASSUME NEW s \in Sessions, NEW p \in Ports, CreateAllocate(h, s, p)
      PROVE  \E t \in Sessions \cup {None} : Frame(h, t)
  <2>1. Frame(h, s)
    BY <1>2 DEF CreateAllocate, Goto, Pool!Allocate, NoteRace, Fault, Busy
  <2>. QED
    BY <1>2, <2>1 DEF CreateAllocate, Goto, Pool!Allocate, NoteRace, Fault, Busy
<1>3. CASE Register(h)
  <2>1. Frame(h, sess[h])
    BY <1>3 DEF Register
  <2>. QED
    BY <1>3, <2>1 DEF Register
<1>4. CASE PersistRegistered(h)
  <2>1. Frame(h, sess[h])
    BY <1>4 DEF PersistRegistered
  <2>. QED
    BY <1>4, <2>1 DEF PersistRegistered
<1>5. CASE PersistFailed(h)
  <2>1. Frame(h, sess[h])
    BY <1>5 DEF PersistFailed, TomlIfFailed
  <2>. QED
    BY <1>5, <2>1 DEF PersistFailed, TomlIfFailed
<1>6. CASE AddRoute(h)
  <2>1. Frame(h, sess[h])
    BY <1>6, AddRouteEffect, AddRouteRest DEF OthersNoted
  <2>. QED
    BY <1>6, <2>1, AddRouteEffect, AddRouteRest DEF OthersNoted
<1>7. CASE AddRouteFailed(h)
  <2>1. Frame(h, sess[h])
    BY <1>7, AddRouteFailedEffect, AddRouteFailedRest DEF OthersNoted
  <2>. QED
    BY <1>7, <2>1, AddRouteFailedEffect, AddRouteFailedRest DEF OthersNoted
<1>8. CASE ProvisionLookup(h)
  <2>1. Frame(h, sess[h])
    BY <1>8 DEF ProvisionLookup
  <2>. QED
    BY <1>8, <2>1 DEF ProvisionLookup
<1>9. CASE Provision(h)
  <2>1. Frame(h, sess[h])
    BY <1>9 DEF Provision
  <2>. QED
    BY <1>9, <2>1 DEF Provision
<1>10. CASE ProvisionFailed(h)
  <2>1. Frame(h, sess[h])
    BY <1>10 DEF ProvisionFailed
  <2>. QED
    BY <1>10, <2>1 DEF ProvisionFailed
<1>11. CASE RollbackRoute(h)
  <2>1. Frame(h, sess[h])
    BY <1>11, RemovedEffect DEF RollbackRoute, OthersNoted
  <2>. QED
    BY <1>11, <2>1, RemovedEffect DEF RollbackRoute, OthersNoted
<1>12. CASE RollbackDeregister(h)
  <2>1. Frame(h, sess[h])
    BY <1>12 DEF RollbackDeregister
  <2>. QED
    BY <1>12, <2>1 DEF RollbackDeregister
<1>13. CASE RollbackPersist(h)
  <2>1. Frame(h, sess[h])
    BY <1>13 DEF RollbackPersist, TomlEither, TomlIfFailed
  <2>. QED
    BY <1>13, <2>1 DEF RollbackPersist, TomlEither, TomlIfFailed
<1>14. CASE RollbackRelease(h)
  <2>1. Frame(h, sess[h])
    BY <1>14 DEF RollbackRelease, Pool!Release
  <2>. QED
    BY <1>14, <2>1 DEF RollbackRelease, Pool!Release
<1>15. CASE Record(h)
  <2>1. Frame(h, sess[h])
    BY <1>15 DEF Record
  <2>. QED
    BY <1>15, <2>1 DEF Record
<1>16. CASE Save(h)
  <2>1. Frame(h, sess[h])
    BY <1>16 DEF Save
  <2>. QED
    BY <1>16, <2>1 DEF Save
<1>17. CASE SaveFailed(h)
  <2>1. Frame(h, sess[h])
    BY <1>17 DEF SaveFailed, Fault
  <2>. QED
    BY <1>17, <2>1 DEF SaveFailed, Fault
<1>18. CASE SweepScan(h)
  <2>1. Frame(h, sess[h])
    BY <1>18 DEF SweepScan, ScanRoutes
  <2>. QED
    BY <1>18, <2>1 DEF SweepScan, Putting
<1>19. CASE SweepDelete(h)
  <2>1. Frame(h, sess[h])
    BY <1>19, SweepEffect, SweepRest DEF OthersNoted
  <2>. QED
    BY <1>19, <2>1 DEF SweepDelete, Putting
<1>20. CASE ReadRoutes(h)
  <2>1. Frame(h, sess[h])
    BY <1>20 DEF ReadRoutes, Putting
  <2>. QED
    BY <1>20, <2>1 DEF ReadRoutes, Putting
<1>21. CASE RollbackScan(h)
  <2>1. Frame(h, sess[h])
    BY <1>21 DEF RollbackScan, ScanRoutes
  <2>. QED
    BY <1>21, <2>1 DEF RollbackScan, Putting
<1>. HIDE DEF TypeOK, SessInv, RaceInv, Frame, Owner, Alone, Active, Ended, CreateSteps, RollbackSteps, DeleteSteps, NoEntries, Goto, End, memory, outside, caddy, locals, history, request
<1>. QED
  BY <1>1, <1>2, <1>3, <1>4, <1>5, <1>6, <1>7, <1>8, <1>9, <1>10, <1>11, <1>12,
     <1>13, <1>14, <1>15, <1>16, <1>17, <1>18, <1>19, <1>20, <1>21, Zenon DEF Create

\* So does one of a DELETE and of a lost client; a token rotation changes none.
LEMMA OtherFrame ==
  ASSUME TypeOK, SessInv, RaceInv, NEW h \in Handlers, Delete(h) \/ Token(h) \/ ClientGone(h)
  PROVE  \E t \in Sessions \cup {None} : Frame(h, t)
<1>. USE ProvisioningAssumption
     DEF TypeOK, SessInv, RaceInv, Frame, Owner, Alone, Active, Ended, CreateSteps, RollbackSteps, DeleteSteps, NoEntries, Goto, End, memory, outside, caddy, locals, history, request
<1>1. ASSUME NEW s \in Sessions, DeleteStart(h, s)
      PROVE  \E t \in Sessions \cup {None} : Frame(h, t)
  <2>1. Frame(h, s)
    BY <1>1 DEF DeleteStart, NoteRace, Fault, Busy
  <2>. QED
    BY <1>1, <2>1 DEF DeleteStart, NoteRace, Fault, Busy
<1>2. CASE DeleteUnstore(h)
  <2>1. Frame(h, sess[h])
    BY <1>2 DEF DeleteUnstore
  <2>. QED
    BY <1>2, <2>1 DEF DeleteUnstore
<1>3. CASE JoinCaddy(h)
  <2>1. Frame(h, sess[h])
    BY <1>3, RemovedEffect DEF JoinCaddy, Arm, ArmDone, OthersNoted
  <2>. QED
    BY <1>3, <2>1, RemovedEffect DEF JoinCaddy, Arm, ArmDone, OthersNoted
<1>4. CASE JoinDeregister(h)
  <2>1. Frame(h, sess[h])
    BY <1>4 DEF JoinDeregister, Arm
  <2>. QED
    BY <1>4, <2>1 DEF JoinDeregister, Arm
<1>5. CASE JoinPersist(h)
  <2>1. Frame(h, sess[h])
    BY <1>5 DEF JoinPersist, Arm, ArmDone, TomlEither, TomlIfFailed
  <2>. QED
    BY <1>5, <2>1 DEF JoinPersist, Arm, ArmDone, TomlEither, TomlIfFailed
<1>6. CASE JoinClose(h)
  <2>1. Frame(h, sess[h])
    BY <1>6 DEF JoinClose, Arm, ArmDone
  <2>. QED
    BY <1>6, <2>1 DEF JoinClose, Arm, ArmDone
<1>7. CASE DeleteReturn(h)
  <2>1. Frame(h, sess[h])
    BY <1>7 DEF DeleteReturn
  <2>. QED
    BY <1>7, <2>1 DEF DeleteReturn
<1>8. CASE TokenPersist(h)
  <2>1. Frame(h, None)
    BY <1>8 DEF TokenPersist, TomlIfFailed
  <2>. QED
    BY <1>8, <2>1 DEF TokenPersist, TomlIfFailed
<1>9. ASSUME NEW s \in Sessions, TokenStart(h, s)
      PROVE  \E t \in Sessions \cup {None} : Frame(h, t)
  <2>1. Frame(h, None)
    BY <1>9 DEF TokenStart
  <2>. QED
    BY <1>9, <2>1 DEF TokenStart
<1>10. ASSUME NEW s \in Sessions, TokenUnknown(h, s)
      PROVE  \E t \in Sessions \cup {None} : Frame(h, t)
  <2>1. Frame(h, None)
    BY <1>10 DEF TokenUnknown
  <2>. QED
    BY <1>10, <2>1 DEF TokenUnknown
<1>11. CASE ClientGone(h)
  <2>1. CASE pc[h] = "token"
    <3>1. Frame(h, None)
      BY <1>11, <2>1, GoneEffect, GoneRest DEF LeavesRoute, TomlEither, TomlIfFailed, OthersNoted
    <3>. QED
      BY <3>1
  <2>2. CASE pc[h] # "token"
    <3>1. Frame(h, sess[h])
      BY <1>11, <2>2, GoneEffect, GoneRest DEF Waiting, TomlEither, TomlIfFailed, OthersNoted
    <3>. QED
      BY <1>11, <2>2, <3>1 DEF ClientGone, Waiting
  <2>. QED
    BY <2>1, <2>2
<1>12. CASE JoinScan(h)
  <2>1. Frame(h, sess[h])
    BY <1>12 DEF JoinScan, Arm, ScanRoutes
  <2>. QED
    BY <1>12, <2>1 DEF JoinScan, Arm
<1>. HIDE DEF TypeOK, SessInv, RaceInv, Frame, Owner, Alone, Active, Ended, CreateSteps, RollbackSteps, DeleteSteps, NoEntries, Goto, End, memory, outside, caddy, locals, history, request
<1>. QED
  BY <1>1, <1>2, <1>3, <1>4, <1>5, <1>6, <1>7, <1>8, <1>9, <1>10, <1>11, <1>12, Zenon
     DEF Delete, Token

\* So what is known of the other requests stays true, unless they are overlapped.
LEMMA OthersKept ==
  ASSUME TypeOK, TypeOK', SessInv, RaceInv, OwnerInv, NEW h \in Handlers,
         NEW s \in Sessions \cup {None}, Frame(h, s),
         NEW g \in Handlers \ {h}, Owner(g)', Alone(g)'
  PROVE  InPlace(g)' /\ TakenAway(g)'
<1>1. Owner(g) /\ sess[g] \in Sessions /\ sess'[g] = sess[g]
  BY DEF Frame, Owner, Active, SessInv
<1>2. sess[g] # s
  BY <1>1 DEF Frame, Alone
<1>3. Alone(g)
  BY <1>1, <1>2 DEF Frame, Alone
<1>4. InPlace(g) /\ TakenAway(g)
  BY <1>1, <1>3 DEF OwnerInv
<1>5. toml' = toml \/ toml' = NoEntries \/ toml'[sess[g]] = services[sess[g]]
  BY <1>1, <1>2 DEF Frame
<1>6. InPlace(g)'
  BY <1>1, <1>2, <1>4, <1>5 DEF Frame, InPlace, NoEntries, Routing, Routed
<1>7. TakenAway(g)'
  BY <1>1, <1>2, <1>4 DEF Frame, TakenAway, CaddyArm, Excused
<1>. QED
  BY <1>6, <1>7

\* And requests that overlap stay noted.
LEMMA RaceKept ==
  ASSUME TypeOK, TypeOK', SessInv, RaceInv, NEW h \in Handlers,
         NEW s \in Sessions \cup {None}, Frame(h, s), SessInv'
  PROVE  RaceInv'
<1>. SUFFICES ASSUME NEW g \in Handlers, NEW k \in Handlers, Owner(g)', Owner(k)',
                     sess'[g] = sess'[k], g # k
              PROVE  "race" \in faults'[sess'[k]]
  BY DEF RaceInv, Alone
<1>0. sess'[k] \in Sessions
  BY DEF SessInv, Owner
<1>1. CASE g # h /\ k # h
  <2>1. /\ Owner(g) /\ Owner(k) /\ sess[g] = sess[k] /\ sess'[k] = sess[k]
    BY <1>1 DEF Frame, Owner, Active
  <2>2. "race" \in faults[sess[k]]
    BY <2>1 DEF RaceInv, Alone
  <2>. QED
    BY <1>0, <2>1, <2>2 DEF Frame
<1>2. CASE g = h
  <2>1. sess'[h] = s /\ Owner(k) /\ sess[k] = s /\ sess'[k] = s /\ s \in Sessions
    BY <1>0, <1>2 DEF Frame, Owner, Active
  <2>. QED
    BY <1>2, <2>1 DEF Frame
<1>3. CASE k = h
  <2>1. sess'[h] = s /\ Owner(g) /\ sess[g] = s /\ s \in Sessions
    BY <1>0, <1>3 DEF Frame, Owner, Active
  <2>. QED
    BY <1>3, <2>1 DEF Frame
<1>. QED
  BY <1>1, <1>2, <1>3

\* A step of a create that nothing overlapped keeps what its session has.
LEMMA CreateOwn ==
  ASSUME TypeOK, SessInv, RaceInv, OwnerInv, ClaimInv, NEW h \in Handlers, Owner(h)', Alone(h)',
         Create(h)
  PROVE  InPlace(h)' /\ TakenAway(h)'
<1>. USE ProvisioningAssumption
     DEF TypeOK, SessInv, RaceInv, OwnerInv, ClaimInv, Claims, InPlace, TakenAway, Routing, Routed, Excused, CaddyArm, Owner, Alone, Active, Ended, CreateSteps, RollbackSteps, DeleteSteps, NoEntries, Goto, End, memory, outside, caddy, locals, history, request
<1>1. CASE CreateExhausted(h)
  BY <1>1 DEF CreateExhausted, Goto, Pool!Exhausted
<1>2. ASSUME NEW s \in Sessions, NEW p \in Ports, CreateAllocate(h, s, p)
      PROVE  InPlace(h)' /\ TakenAway(h)'
  BY <1>2 DEF CreateAllocate, Goto, Pool!Allocate, NoteRace, Fault, Busy
<1>3. CASE Register(h)
  <2>1. services \in [Sessions -> Ports \cup {None}]
    BY DEF Tables
  <2>. QED
    BY <1>3, <2>1 DEF Register
<1>4. CASE PersistRegistered(h)
  BY <1>4 DEF PersistRegistered
<1>5. CASE PersistFailed(h)
  BY <1>5 DEF PersistFailed, TomlIfFailed
<1>6. CASE AddRoute(h)
  BY <1>6, AddRouteEffect, AddRouteRest DEF OthersNoted
<1>7. CASE AddRouteFailed(h)
  BY <1>7, AddRouteFailedEffect, AddRouteFailedRest DEF OthersNoted
<1>8. CASE ProvisionLookup(h)
  BY <1>8 DEF ProvisionLookup
<1>9. CASE Provision(h)
  BY <1>9 DEF Provision
<1>10. CASE ProvisionFailed(h)
  BY <1>10 DEF ProvisionFailed
<1>11. CASE RollbackRoute(h)
  BY <1>11, RemovedEffect DEF RollbackRoute, OthersNoted
<1>12. CASE RollbackDeregister(h)
  BY <1>12 DEF RollbackDeregister
<1>13. CASE RollbackPersist(h)
  BY <1>13 DEF RollbackPersist, TomlEither, TomlIfFailed
<1>14. CASE RollbackRelease(h)
  BY <1>14 DEF RollbackRelease, Pool!Release
<1>15. CASE Record(h)
  BY <1>15 DEF Record
<1>16. CASE Save(h)
  BY <1>16 DEF Save
<1>17. CASE SaveFailed(h)
  BY <1>17 DEF SaveFailed, Fault
<1>18. CASE SweepScan(h)
  BY <1>18 DEF SweepScan, ScanRoutes
<1>19. CASE SweepDelete(h)
  BY <1>19, SweepEffect, SweepRest DEF OthersNoted
<1>20. CASE ReadRoutes(h)
  BY <1>20 DEF ReadRoutes, Putting
<1>21. CASE RollbackScan(h)
  BY <1>21 DEF RollbackScan, ScanRoutes
<1>. HIDE DEF TypeOK, SessInv, RaceInv, OwnerInv, ClaimInv, Claims, InPlace, TakenAway, Routing, Routed, Excused, CaddyArm, Owner, Alone, Active, Ended, CreateSteps, RollbackSteps, DeleteSteps, NoEntries, Goto, End, memory, outside, caddy, locals, history, request
<1>. QED
  BY <1>1, <1>2, <1>3, <1>4, <1>5, <1>6, <1>7, <1>8, <1>9, <1>10, <1>11, <1>12,
     <1>13, <1>14, <1>15, <1>16, <1>17, <1>18, <1>19, <1>20, <1>21, Zenon DEF Create

\* And one of a DELETE keeps what its session no longer has.
LEMMA OtherOwn ==
  ASSUME TypeOK, SessInv, RaceInv, OwnerInv, ClaimInv, NEW h \in Handlers, Owner(h)', Alone(h)',
         Delete(h) \/ Token(h) \/ ClientGone(h)
  PROVE  InPlace(h)' /\ TakenAway(h)'
<1>. USE ProvisioningAssumption
     DEF TypeOK, SessInv, RaceInv, OwnerInv, ClaimInv, Claims, InPlace, TakenAway, Routing, Routed, Excused, CaddyArm, Owner, Alone, Active, Ended, CreateSteps, RollbackSteps, DeleteSteps, NoEntries, Goto, End, memory, outside, caddy, locals, history, request
<1>1. ASSUME NEW s \in Sessions, DeleteStart(h, s)
      PROVE  InPlace(h)' /\ TakenAway(h)'
  <2>1. /\ sess'[h] = s /\ pc'[h] = "unstore" /\ routes' = routes
        /\ subdomains' = subdomains \ {s}
    BY <1>1 DEF DeleteStart
  <2>2. s \in subdomains => found'[h] = TRUE
    BY <1>1, FoundIfMapped
  <2>3. ~Busy(s)
    BY <1>1, <2>1 DEF DeleteStart, NoteRace, Fault
  <2>4. faults' = faults
    BY <1>1, <2>3 DEF DeleteStart, NoteRace
  <2>5. \A g \in Handlers : sess[g] = s => ~Claims(g)
    BY <2>3 DEF Busy
  <2>6. found'[h] = FALSE => routes[s] = None \/ Excused(s)
    <3>1. found'[h] = FALSE => s \notin subdomains
      BY <2>2
    <3>. QED
      BY <2>5, <3>1 DEF ClaimInv
  <2>. QED
    BY <2>1, <2>4, <2>6 DEF InPlace, TakenAway, Routing, Routed, Excused
<1>2. CASE DeleteUnstore(h)
  BY <1>2 DEF DeleteUnstore
<1>3. CASE JoinCaddy(h)
  BY <1>3, RemovedEffect DEF JoinCaddy, Arm, ArmDone, OthersNoted
<1>4. CASE JoinDeregister(h)
  <2>1. services \in [Sessions -> Ports \cup {None}]
    BY DEF Tables
  <2>. QED
    BY <1>4, <2>1 DEF JoinDeregister, Arm
<1>5. CASE JoinPersist(h)
  BY <1>5 DEF JoinPersist, Arm, ArmDone, TomlEither, TomlIfFailed
<1>6. CASE JoinClose(h)
  BY <1>6 DEF JoinClose, Arm, ArmDone
<1>7. CASE DeleteReturn(h)
  BY <1>7 DEF DeleteReturn
<1>8. CASE TokenPersist(h)
  BY <1>8 DEF TokenPersist, TomlIfFailed
<1>9. ASSUME NEW s \in Sessions, TokenStart(h, s)
      PROVE  InPlace(h)' /\ TakenAway(h)'
  BY <1>9 DEF TokenStart
<1>10. ASSUME NEW s \in Sessions, TokenUnknown(h, s)
      PROVE  InPlace(h)' /\ TakenAway(h)'
  BY <1>10 DEF TokenUnknown
<1>11. CASE ClientGone(h)
  BY <1>11, GoneEffect, GoneRest DEF Waiting, LeavesRoute, OthersNoted
<1>12. CASE JoinScan(h)
  BY <1>12 DEF JoinScan, Arm, ScanRoutes
<1>. HIDE DEF TypeOK, SessInv, RaceInv, OwnerInv, ClaimInv, Claims, InPlace, TakenAway, Routing, Routed, Excused, CaddyArm, Owner, Alone, Active, Ended, CreateSteps, RollbackSteps, DeleteSteps, NoEntries, Goto, End, memory, outside, caddy, locals, history, request
<1>. QED
  BY <1>1, <1>2, <1>3, <1>4, <1>5, <1>6, <1>7, <1>8, <1>9, <1>10, <1>11, <1>12, Zenon
     DEF Delete, Token

\* A step of a create keeps mappings on disk.
LEMMA CreateMapping ==
  ASSUME TypeOK, SessInv, OwnerInv, MappingOnDisk, NEW h \in Handlers, Create(h)
  PROVE  MappingOnDisk'
<1>. USE ProvisioningAssumption
     DEF TypeOK, SessInv, OwnerInv, MappingOnDisk, TakenAway, Excused, CaddyArm, Owner, Alone, Active, Ended, CreateSteps, RollbackSteps, DeleteSteps, Goto, End, memory, outside, caddy, locals, history, request
<1>1. CASE CreateExhausted(h)
  BY <1>1 DEF CreateExhausted, Goto, Pool!Exhausted
<1>2. ASSUME NEW s \in Sessions, NEW p \in Ports, CreateAllocate(h, s, p)
      PROVE  MappingOnDisk'
  BY <1>2 DEF CreateAllocate, Goto, Pool!Allocate, NoteRace, Fault, Busy
<1>3. CASE Register(h)
  BY <1>3 DEF Register
<1>4. CASE PersistRegistered(h)
  BY <1>4 DEF PersistRegistered
<1>5. CASE PersistFailed(h)
  BY <1>5 DEF PersistFailed, TomlIfFailed
<1>6. CASE AddRoute(h)
  BY <1>6, AddRouteEffect, AddRouteRest DEF OthersNoted
<1>7. CASE AddRouteFailed(h)
  BY <1>7, AddRouteFailedEffect, AddRouteFailedRest DEF OthersNoted
<1>8. CASE ProvisionLookup(h)
  BY <1>8 DEF ProvisionLookup
<1>9. CASE Provision(h)
  BY <1>9 DEF Provision
<1>10. CASE ProvisionFailed(h)
  BY <1>10 DEF ProvisionFailed
<1>11. CASE RollbackRoute(h)
  BY <1>11, RemovedEffect DEF RollbackRoute, OthersNoted
<1>12. CASE RollbackDeregister(h)
  BY <1>12 DEF RollbackDeregister
<1>13. CASE RollbackPersist(h)
  BY <1>13 DEF RollbackPersist, TomlEither, TomlIfFailed
<1>14. CASE RollbackRelease(h)
  BY <1>14 DEF RollbackRelease, Pool!Release
<1>15. CASE Record(h)
  BY <1>15 DEF Record
<1>16. CASE Save(h)
  BY <1>16 DEF Save
<1>17. CASE SaveFailed(h)
  <2>1. /\ subdomains' = subdomains /\ sess[h] \in Sessions
        /\ store \ {sess[h]} \subseteq store'
        /\ \A t \in Sessions : faults[t] \subseteq faults'[t]
        /\ "save" \in faults'[sess[h]]
        /\ \A g \in Handlers \ {h} : pc'[g] = pc[g] /\ sess'[g] = sess[g]
    BY <1>17 DEF SaveFailed, Fault
  <2>. QED
    BY <2>1
<1>18. CASE SweepScan(h)
  BY <1>18 DEF SweepScan, ScanRoutes
<1>19. CASE SweepDelete(h)
  BY <1>19, SweepEffect, SweepRest DEF OthersNoted
<1>20. CASE ReadRoutes(h)
  BY <1>20 DEF ReadRoutes, Putting
<1>21. CASE RollbackScan(h)
  BY <1>21 DEF RollbackScan, ScanRoutes
<1>. HIDE DEF TypeOK, SessInv, OwnerInv, MappingOnDisk, TakenAway, Excused, CaddyArm, Owner, Alone, Active, Ended, CreateSteps, RollbackSteps, DeleteSteps, Goto, End, memory, outside, caddy, locals, history, request
<1>. QED
  BY <1>1, <1>2, <1>3, <1>4, <1>5, <1>6, <1>7, <1>8, <1>9, <1>10, <1>11, <1>12,
     <1>13, <1>14, <1>15, <1>16, <1>17, <1>18, <1>19, <1>20, <1>21, Zenon DEF Create

\* So does a step of a DELETE, of a token rotation or of a lost client.
LEMMA OtherMapping ==
  ASSUME TypeOK, SessInv, OwnerInv, MappingOnDisk, NEW h \in Handlers, Delete(h) \/ Token(h) \/ ClientGone(h)
  PROVE  MappingOnDisk'
<1>. USE ProvisioningAssumption
     DEF TypeOK, SessInv, OwnerInv, MappingOnDisk, TakenAway, Excused, CaddyArm, Owner, Alone, Active, Ended, CreateSteps, RollbackSteps, DeleteSteps, Goto, End, memory, outside, caddy, locals, history, request
<1>1. ASSUME NEW s \in Sessions, DeleteStart(h, s)
      PROVE  MappingOnDisk'
  BY <1>1 DEF DeleteStart, NoteRace, Fault, Busy
<1>2. CASE DeleteUnstore(h)
  BY <1>2 DEF DeleteUnstore
<1>3. CASE JoinCaddy(h)
  BY <1>3, RemovedEffect DEF JoinCaddy, Arm, ArmDone, OthersNoted
<1>4. CASE JoinDeregister(h)
  BY <1>4 DEF JoinDeregister, Arm
<1>5. CASE JoinPersist(h)
  BY <1>5 DEF JoinPersist, Arm, ArmDone, TomlEither, TomlIfFailed
<1>6. CASE JoinClose(h)
  BY <1>6 DEF JoinClose, Arm, ArmDone
<1>7. CASE DeleteReturn(h)
  BY <1>7 DEF DeleteReturn
<1>8. CASE TokenPersist(h)
  BY <1>8 DEF TokenPersist, TomlIfFailed
<1>9. ASSUME NEW s \in Sessions, TokenStart(h, s)
      PROVE  MappingOnDisk'
  BY <1>9 DEF TokenStart
<1>10. ASSUME NEW s \in Sessions, TokenUnknown(h, s)
      PROVE  MappingOnDisk'
  BY <1>10 DEF TokenUnknown
<1>11. CASE ClientGone(h)
  <2>1. /\ subdomains' = subdomains /\ sess[h] \in Sessions
        /\ \A t \in Sessions : faults[t] \subseteq faults'[t]
        /\ \A g \in Handlers \ {h} : pc'[g] = pc[g] /\ sess'[g] = sess[g]
    BY <1>11, GoneEffect, GoneRest DEF Waiting, OthersNoted
  <2>2. CASE pc[h] = "save"
    <3>1. "save" \in faults'[sess[h]] /\ store \ {sess[h]} \subseteq store'
      BY <1>11, <2>1, <2>2, GoneEffect DEF ClientGone
    <3>. QED
      BY <2>1, <2>2, <3>1
  <2>3. CASE pc[h] # "save"
    <3>1. store' = store
      BY <1>11, <2>3 DEF ClientGone
    <3>. QED
      BY <2>1, <2>3, <3>1
  <2>. QED
    BY <2>2, <2>3
<1>12. CASE JoinScan(h)
  BY <1>12 DEF JoinScan, Arm, ScanRoutes
<1>. HIDE DEF TypeOK, SessInv, OwnerInv, MappingOnDisk, TakenAway, Excused, CaddyArm, Owner, Alone, Active, Ended, CreateSteps, RollbackSteps, DeleteSteps, Goto, End, memory, outside, caddy, locals, history, request
<1>. QED
  BY <1>1, <1>2, <1>3, <1>4, <1>5, <1>6, <1>7, <1>8, <1>9, <1>10, <1>11, <1>12, Zenon
     DEF Delete, Token

\* A step of a create leaves no route behind.
LEMMA CreateClaim ==
  ASSUME TypeOK, SessInv, ClaimInv, NEW h \in Handlers, Create(h)
  PROVE  ClaimInv'
<1>. USE ProvisioningAssumption
     DEF TypeOK, SessInv, ClaimInv, Claims, Excused, CaddyArm, Owner, Alone, Active, Ended, CreateSteps, RollbackSteps, DeleteSteps, Goto, End, memory, outside, caddy, locals, history, request
<1>1. CASE CreateExhausted(h)
  BY <1>1 DEF CreateExhausted, Goto, Pool!Exhausted
<1>2. ASSUME NEW s \in Sessions, NEW p \in Ports, CreateAllocate(h, s, p)
      PROVE  ClaimInv'
  BY <1>2 DEF CreateAllocate, Goto, Pool!Allocate, NoteRace, Fault, Busy
<1>3. CASE Register(h)
  BY <1>3 DEF Register
<1>4. CASE PersistRegistered(h)
  BY <1>4 DEF PersistRegistered
<1>5. CASE PersistFailed(h)
  BY <1>5 DEF PersistFailed, TomlIfFailed
<1>6. CASE AddRoute(h)
  BY <1>6, AddRouteEffect, AddRouteRest DEF OthersNoted
<1>7. CASE AddRouteFailed(h)
  BY <1>7, AddRouteFailedEffect, AddRouteFailedRest DEF OthersNoted
<1>8. CASE ProvisionLookup(h)
  BY <1>8 DEF ProvisionLookup
<1>9. CASE Provision(h)
  BY <1>9 DEF Provision
<1>10. CASE ProvisionFailed(h)
  BY <1>10 DEF ProvisionFailed
<1>11. CASE RollbackRoute(h)
  BY <1>11, RemovedEffect DEF RollbackRoute, OthersNoted
<1>12. CASE RollbackDeregister(h)
  BY <1>12 DEF RollbackDeregister
<1>13. CASE RollbackPersist(h)
  BY <1>13 DEF RollbackPersist, TomlEither, TomlIfFailed
<1>14. CASE RollbackRelease(h)
  BY <1>14 DEF RollbackRelease, Pool!Release
<1>15. CASE Record(h)
  BY <1>15 DEF Record
<1>16. CASE Save(h)
  BY <1>16 DEF Save
<1>17. CASE SaveFailed(h)
  BY <1>17 DEF SaveFailed, Fault
<1>18. CASE SweepScan(h)
  BY <1>18 DEF SweepScan, ScanRoutes
<1>19. CASE SweepDelete(h)
  BY <1>19, SweepEffect, SweepRest DEF OthersNoted
<1>20. CASE ReadRoutes(h)
  BY <1>20 DEF ReadRoutes, Putting
<1>21. CASE RollbackScan(h)
  BY <1>21 DEF RollbackScan, ScanRoutes
<1>. HIDE DEF TypeOK, SessInv, ClaimInv, Claims, Excused, CaddyArm, Owner, Alone, Active, Ended, CreateSteps, RollbackSteps, DeleteSteps, Goto, End, memory, outside, caddy, locals, history, request
<1>. QED
  BY <1>1, <1>2, <1>3, <1>4, <1>5, <1>6, <1>7, <1>8, <1>9, <1>10, <1>11, <1>12,
     <1>13, <1>14, <1>15, <1>16, <1>17, <1>18, <1>19, <1>20, <1>21, Zenon DEF Create

\* Nor does a step of a DELETE, of a token rotation or of a lost client.
LEMMA OtherClaim ==
  ASSUME TypeOK, SessInv, ClaimInv, NEW h \in Handlers, Delete(h) \/ Token(h) \/ ClientGone(h)
  PROVE  ClaimInv'
<1>. USE ProvisioningAssumption
     DEF TypeOK, SessInv, ClaimInv, Claims, Excused, CaddyArm, Owner, Alone, Active, Ended, CreateSteps, RollbackSteps, DeleteSteps, Goto, End, memory, outside, caddy, locals, history, request
<1>1. ASSUME NEW s \in Sessions, DeleteStart(h, s)
      PROVE  ClaimInv'
  <2>1. /\ sess'[h] = s /\ pc'[h] = "unstore" /\ routes' = routes
        /\ subdomains' = subdomains \ {s} /\ ~Claims(h)
        /\ \A t \in Sessions : faults[t] \subseteq faults'[t]
    BY <1>1 DEF DeleteStart, NoteRace, Fault
  <2>2. s \in subdomains => found'[h] = TRUE
    BY <1>1, FoundIfMapped
  <2>3. \A g \in Handlers : Claims(g) => sess'[g] = sess[g] /\ Claims(g)'
    <3>1. \A g \in Handlers \ {h} : /\ pc'[g] = pc[g] /\ sess'[g] = sess[g]
                                    /\ found'[g] = found[g] /\ pend'[g] = pend[g]
      BY <1>1 DEF DeleteStart
    <3>. QED
      BY <2>1, <3>1
  <2>4. s \in subdomains => Claims(h)'
    BY <2>1, <2>2
  <2>. QED
    BY <2>1, <2>3, <2>4 DEF ClaimInv
<1>2. CASE DeleteUnstore(h)
  BY <1>2 DEF DeleteUnstore
<1>3. CASE JoinCaddy(h)
  BY <1>3, RemovedEffect DEF JoinCaddy, Arm, ArmDone, OthersNoted
<1>4. CASE JoinDeregister(h)
  BY <1>4 DEF JoinDeregister, Arm
<1>5. CASE JoinPersist(h)
  BY <1>5 DEF JoinPersist, Arm, ArmDone, TomlEither, TomlIfFailed
<1>6. CASE JoinClose(h)
  BY <1>6 DEF JoinClose, Arm, ArmDone
<1>7. CASE DeleteReturn(h)
  BY <1>7 DEF DeleteReturn
<1>8. CASE TokenPersist(h)
  BY <1>8 DEF TokenPersist, TomlIfFailed
<1>9. ASSUME NEW s \in Sessions, TokenStart(h, s)
      PROVE  ClaimInv'
  BY <1>9 DEF TokenStart
<1>10. ASSUME NEW s \in Sessions, TokenUnknown(h, s)
      PROVE  ClaimInv'
  BY <1>10 DEF TokenUnknown
<1>11. CASE ClientGone(h)
  BY <1>11, GoneEffect, GoneRest DEF Waiting, LeavesRoute, OthersNoted
<1>12. CASE JoinScan(h)
  BY <1>12 DEF JoinScan, Arm, ScanRoutes
<1>. HIDE DEF TypeOK, SessInv, ClaimInv, Claims, Excused, CaddyArm, Owner, Alone, Active, Ended, CreateSteps, RollbackSteps, DeleteSteps, Goto, End, memory, outside, caddy, locals, history, request
<1>. QED
  BY <1>1, <1>2, <1>3, <1>4, <1>5, <1>6, <1>7, <1>8, <1>9, <1>10, <1>11, <1>12, Zenon
     DEF Delete, Token

-----------------------------------------------------------------------------
(* A restart.                                                              *)

\* No request runs after a restart.  Of the routes that are left, a mapping that was
\* read back leads to one, and for the others the restart has noted why not.
LEMMA RestartCleanup ==
  ASSUME CleanupInv, Restart
  PROVE  CleanupInv'
<1>. USE DEF CleanupInv, TypeOK
<1>1. TypeOK' /\ SessInv'
  BY RestartTypes
<1>2. \A h \in Handlers : ~Owner(h)'
  BY DEF Restart, Owner, Active, Ended
<1>3. RaceInv' /\ OwnerInv'
  BY <1>2 DEF RaceInv, OwnerInv
<1>4. MappingOnDisk'
  BY DEF Restart, MappingOnDisk
<1>5. ASSUME NEW s \in Sessions, routes'[s] # None
      PROVE  s \in subdomains' \/ Excused(s)'
  <2>1. \/ \E h \in Handlers : sess[h] = s /\ LeavesRoute(h)
        \/ s \in Saving \/ s \in store' \ subdomains' \/ faults[s] \cap {"save", "race"} # {}
        \/ Excused(s) \/ routes'[s] # routes[s]
        => "route" \in faults'[s] \/ "undone" \in faults'[s]
    BY DEF Restart, Excused
  <2>2. CASE routes[s] = None
    BY <1>5, <2>1, <2>2 DEF Excused
  <2>3. CASE \E h \in Handlers : sess[h] = s /\ Claims(h)
    BY <2>1, <2>3 DEF Claims, CaddyArm, LeavesRoute, Excused
  <2>4. CASE s \in subdomains
    <3>1. CASE s \notin store
      BY <2>1, <2>4, <3>1 DEF MappingOnDisk, Saving, Excused
    <3>2. CASE s \in store
      BY <2>1, <3>2 DEF Restart, Excused
    <3>. QED
      BY <3>1, <3>2
  <2>. QED
    BY <1>5, <2>1, <2>2, <2>3, <2>4 DEF ClaimInv, Excused
<1>. QED
  BY <1>1, <1>3, <1>4, <1>5 DEF ClaimInv

-----------------------------------------------------------------------------
(* The theorems.                                                           *)

\* Every step keeps the inductive invariant.
LEMMA NextCleanup == CleanupInv /\ [Next]_vars => CleanupInv'
<1>. SUFFICES ASSUME CleanupInv, [Next]_vars PROVE CleanupInv'
  OBVIOUS
<1>1. ASSUME NEW h \in Handlers, NEW s \in Sessions \cup {None}, Frame(h, s),
             TypeOK', SessInv', Owner(h)' /\ Alone(h)' => InPlace(h)' /\ TakenAway(h)'
      PROVE  RaceInv' /\ OwnerInv'
  <2>1. RaceInv'
    BY <1>1, RaceKept DEF CleanupInv
  <2>2. \A g \in Handlers \ {h} : Owner(g)' /\ Alone(g)' => InPlace(g)' /\ TakenAway(g)'
    BY <1>1, OthersKept DEF CleanupInv
  <2>. QED
    BY <1>1, <2>1, <2>2 DEF OwnerInv
<1>2. ASSUME NEW h \in Handlers, Create(h) PROVE CleanupInv'
  <2>1. TypeOK' /\ SessInv'
    BY <1>2, CreateTypes DEF CleanupInv
  <2>2. \E s \in Sessions \cup {None} : Frame(h, s)
    BY <1>2, CreateFrame DEF CleanupInv
  <2>3. Owner(h)' /\ Alone(h)' => InPlace(h)' /\ TakenAway(h)'
    BY <1>2, CreateOwn DEF CleanupInv
  <2>4. MappingOnDisk' /\ ClaimInv'
    BY <1>2, CreateMapping, CreateClaim DEF CleanupInv
  <2>. QED
    BY <1>1, <2>1, <2>2, <2>3, <2>4 DEF CleanupInv
<1>3. ASSUME NEW h \in Handlers, Delete(h) \/ Token(h) \/ ClientGone(h) PROVE CleanupInv'
  <2>1. TypeOK' /\ SessInv'
    BY <1>3, OtherTypes DEF CleanupInv
  <2>2. \E s \in Sessions \cup {None} : Frame(h, s)
    BY <1>3, OtherFrame DEF CleanupInv
  <2>3. Owner(h)' /\ Alone(h)' => InPlace(h)' /\ TakenAway(h)'
    BY <1>3, OtherOwn DEF CleanupInv
  <2>4. MappingOnDisk' /\ ClaimInv'
    BY <1>3, OtherMapping, OtherClaim DEF CleanupInv
  <2>. QED
    BY <1>1, <2>1, <2>2, <2>3, <2>4 DEF CleanupInv
<1>4. CASE Restart
  BY <1>4, RestartCleanup
<1>5. CASE UNCHANGED vars
  BY <1>5 DEF CleanupInv, TypeOK, SessInv, RaceInv, OwnerInv, InPlace, TakenAway, Owner,
              Alone, Active, MappingOnDisk, ClaimInv, Claims, Excused, CaddyArm, vars, memory, outside, caddy,
              request, history
<1>. QED
  BY <1>2, <1>3, <1>4, <1>5 DEF Next

\* The inductive invariant holds in every reachable state.
LEMMA CleanupInvHolds == Spec => []CleanupInv
  BY InitCleanup, NextCleanup, PTL DEF Spec

\* Every Caddy route that create left can be found by a DELETE, or has an excuse: the
\* record of a Caddy call for it that failed or was cut off, or of a write from an array
\* read earlier, across races, lost clients and restarts.
THEOREM NoOrphanRouteHolds == Spec => []NoOrphanRoute
<1>1. CleanupInv => NoOrphanRoute
  BY DEF CleanupInv, ClaimInv, Claims, Excused, NoOrphanRoute, Busy, Active, Ended
<1>. QED
  BY <1>1, CleanupInvHolds, PTL

\* A mapping in memory is on disk, so a restart reads it back, unless its save failed,
\* is under way, or raced a DELETE.
THEOREM MappingOnDiskHolds == Spec => []MappingOnDisk
<1>1. CleanupInv => MappingOnDisk
  BY DEF CleanupInv
<1>. QED
  BY <1>1, CleanupInvHolds, PTL

\* A create that no request of its session overlapped answers 200 with the service,
\* rathole's file, the route, the Router and the mapping in place, all on its port, but
\* for a file that another's failed persist took away and a route that another session's
\* write from an outdated array changed.
THEOREM CreateCompleteHolds == Spec => []CreateComplete
<1>1. CleanupInv => CreateComplete
  BY DEF CleanupInv, OwnerInv, InPlace, Routed, Owner, Alone, Active, Ended, CreateComplete
<1>. QED
  BY <1>1, CleanupInvHolds, PTL

\* A DELETE that no request of its session overlapped answers 204 with no service, Router
\* or mapping of the session left, and no route but one that Caddy would not remove or
\* that a write from an outdated array brought back or missed.
THEOREM DeleteCompleteHolds == Spec => []DeleteComplete
<1>1. CleanupInv => DeleteComplete
  BY DEF CleanupInv, OwnerInv, TakenAway, CaddyArm, Excused, Owner, Alone, Active, Ended,
         DeleteComplete
<1>. QED
  BY <1>1, CleanupInvHolds, PTL

-----------------------------------------------------------------------------
(* The DELETE that skips Caddy.                                            *)

\* Only a DELETE that took the mapping calls remove_route.
CaddyArmInv ==
  \A h \in Handlers : pc[h] = "join" /\ CaddyArm(h) => found[h] = TRUE

\* A DELETE that found no mapping, and that nothing overlapped, leaves no route behind,
\* unless an earlier Caddy call for the session failed or was cut off, or a write from an
\* array read earlier brought the route back or missed it.
SkipExplained ==
  \A h \in Handlers :
    pc[h] = "join" /\ found[h] = FALSE /\ Alone(h)
      => routes[sess[h]] = None \/ Excused(sess[h])

\* Every step keeps the Caddy arm to the DELETEs that took a mapping.
LEMMA CaddyArmStep ==
  ASSUME TypeOK, CaddyArmInv, [Next]_vars
  PROVE  CaddyArmInv'
<1>1. ASSUME NEW h \in Handlers,
             \A g \in Handlers \ {h} : pc'[g] = pc[g] /\ pend'[g] = pend[g] /\ found'[g] = found[g],
             \/ pc'[h] # "join"
             \/ ~CaddyArm(h)'
             \/ found'[h] = TRUE
             \/ pc'[h] = pc[h] /\ (CaddyArm(h)' => CaddyArm(h)) /\ found'[h] = found[h]
      PROVE  CaddyArmInv'
  <2>. SUFFICES ASSUME NEW g \in Handlers, pc'[g] = "join", CaddyArm(g)'
                PROVE  found'[g] = TRUE
    BY DEF CaddyArmInv
  <2>1. CASE g = h
    BY <1>1, <2>1, Zenon DEF CaddyArmInv
  <2>2. CASE g # h
    BY <1>1, <2>2, Zenon DEF CaddyArmInv, CaddyArm
  <2>. QED
    BY <2>1, <2>2
<1>2. ASSUME NEW h \in Handlers, NEW how \in Ended, End(h, how) PROVE CaddyArmInv'
  <2>1. /\ pc'[h] = how
        /\ \A g \in Handlers \ {h} : pc'[g] = pc[g] /\ pend'[g] = pend[g]
    BY <1>2 DEF End, TypeOK
  <2>2. \A g \in Handlers \ {h} : found'[g] = found[g]
    BY <1>2, Zenon DEF End, TypeOK
  <2>. QED
    BY <1>1, <2>1, <2>2 DEF Ended
<1>3. ASSUME NEW h \in Handlers, NEW from, NEW to, Goto(h, from, to), to # "join",
             UNCHANGED <<found, pend>>
      PROVE  CaddyArmInv'
  <2>1. pc'[h] = to /\ \A g \in Handlers \ {h} : pc'[g] = pc[g]
    BY <1>3 DEF Goto, TypeOK
  <2>. QED
    BY <1>1, <1>3, <2>1
<1>4. ASSUME NEW h \in Handlers, Create(h) PROVE CaddyArmInv'
  <2>1. CASE \/ CreateExhausted(h) \/ \E s \in Sessions, p \in Ports : CreateAllocate(h, s, p)
             \/ Register(h) \/ PersistRegistered(h) \/ SweepScan(h) \/ SweepDelete(h)
             \/ ProvisionLookup(h) \/ Provision(h) \/ ProvisionFailed(h) \/ RollbackScan(h)
             \/ RollbackDeregister(h) \/ RollbackPersist(h) \/ Record(h)
    <3>1. /\ UNCHANGED <<found, pend>>
          /\ \E from, to : Goto(h, from, to) /\ to # "join"
      BY <2>1 DEF CreateExhausted, CreateAllocate, Register, PersistRegistered, SweepScan,
         SweepDelete, ProvisionLookup, Provision, ProvisionFailed, RollbackScan,
         RollbackDeregister, RollbackPersist, Record, locals
    <3>. QED
      BY <1>3, <3>1
  <2>2. CASE \/ PersistFailed(h) \/ AddRouteFailed(h) \/ RollbackRelease(h) \/ Save(h)
             \/ SaveFailed(h)
    BY <1>2, <2>2 DEF PersistFailed, AddRouteFailed, RollbackRelease, Save, SaveFailed, Ended
  <2>3. CASE ReadRoutes(h) \/ AddRoute(h) \/ RollbackRoute(h)
    <3>1. /\ UNCHANGED <<found, pend>>
          /\ \E to \in {"patch", "provision", "rb_dereg"} : pc' = [pc EXCEPT ![h] = to]
      BY <2>3 DEF ReadRoutes, AddRoute, RollbackRoute, locals
    <3>2. pc'[h] # "join" /\ \A g \in Handlers \ {h} : pc'[g] = pc[g]
      BY <3>1 DEF TypeOK
    <3>. QED
      BY <1>1, <3>1, <3>2
  <2>. QED
    BY <1>4, <2>1, <2>2, <2>3, Zenon DEF Create
<1>5. ASSUME NEW h \in Handlers, NEW s \in Sessions, DeleteStart(h, s) PROVE CaddyArmInv'
  <2>1. /\ pc'[h] = "unstore" /\ \A g \in Handlers \ {h} : pc'[g] = pc[g]
    BY <1>5 DEF DeleteStart, Goto, TypeOK
  <2>2. \A g \in Handlers \ {h} : found'[g] = found[g] /\ pend'[g] = pend[g]
    BY <1>5, Zenon DEF DeleteStart, TypeOK
  <2>. QED
    BY <1>1, <2>1, <2>2
<1>6. ASSUME NEW h \in Handlers, DeleteUnstore(h) PROVE CaddyArmInv'
  <2>1. /\ \A g \in Handlers \ {h} : pc'[g] = pc[g] /\ pend'[g] = pend[g]
        /\ pend'[h] = {"dereg", "rtp", "sfu"} \cup (IF found[h] THEN {"caddy"} ELSE {})
    BY <1>6 DEF DeleteUnstore, Goto, TypeOK
  <2>2. found' = found /\ found[h] \in BOOLEAN
    BY <1>6, Zenon DEF DeleteUnstore, TypeOK
  <2>3. CASE found[h] = FALSE
    <3>1. ~CaddyArm(h)'
      BY <2>1, <2>3 DEF CaddyArm
    <3>. QED
      BY <1>1, <2>1, <2>2, <3>1
  <2>4. CASE found[h] = TRUE
    BY <1>1, <2>1, <2>2, <2>4
  <2>. QED
    BY <2>2, <2>3, <2>4, Zenon
<1>7. ASSUME NEW h \in Handlers,
             JoinScan(h) \/ JoinCaddy(h) \/ JoinDeregister(h) \/ JoinPersist(h) \/ JoinClose(h)
      PROVE  CaddyArmInv'
  <2>1. /\ UNCHANGED <<pc, found>>
        /\ \E a : \E x \in {{}, {"persist"}, {"index"}} :
             /\ pend' = [pend EXCEPT ![h] = (@ \ {a}) \cup x]
             /\ x = {"index"} => "caddy" \in pend[h]
    BY <1>7 DEF JoinScan, JoinCaddy, JoinDeregister, JoinPersist, JoinClose, ArmDone, Arm
  <2>2. /\ CaddyArm(h)' => CaddyArm(h)
        /\ \A g \in Handlers \ {h} : pend'[g] = pend[g]
    BY <2>1 DEF TypeOK, CaddyArm
  <2>. QED
    BY <1>1, <2>1, <2>2
<1>8. ASSUME NEW h \in Handlers, DeleteReturn(h) \/ TokenPersist(h) \/ ClientGone(h)
      PROVE  CaddyArmInv'
  BY <1>2, <1>8 DEF DeleteReturn, TokenPersist, ClientGone, Ended
<1>9. ASSUME NEW h \in Handlers, NEW s \in Sessions, TokenStart(h, s) \/ TokenUnknown(h, s)
      PROVE  CaddyArmInv'
  BY <1>3, <1>9 DEF TokenStart, TokenUnknown, locals
<1>10. CASE Restart
  BY <1>10 DEF Restart, CaddyArmInv, CaddyArm
<1>11. CASE UNCHANGED vars
  BY <1>11 DEF vars, request, CaddyArmInv, CaddyArm
<1>. QED
  BY <1>4, <1>5, <1>6, <1>7, <1>8, <1>9, <1>10, <1>11, Zenon DEF Next, Delete, Token

\* What SkipMeansGone asks for fails in two ways only: after a Caddy call for the session
\* that failed or was cut off, and after a write from an array read earlier that brought
\* the route back or missed it.  Otherwise a DELETE that skips Caddy has nothing to
\* remove, across restarts and lost clients.
THEOREM SkipExplainedHolds == Spec => []SkipExplained
<1>1. Init => CaddyArmInv
  BY DEF Init, CaddyArmInv
<1>2. TypeOK /\ CaddyArmInv /\ [Next]_vars => CaddyArmInv'
  BY CaddyArmStep
<1>3. ASSUME CleanupInv, CaddyArmInv PROVE SkipExplained
  <2>. SUFFICES ASSUME NEW h \in Handlers, pc[h] = "join", found[h] = FALSE, Alone(h)
                PROVE  routes[sess[h]] = None \/ Excused(sess[h])
    BY DEF SkipExplained
  <2>1. ~CaddyArm(h)
    BY <1>3 DEF CaddyArmInv
  <2>2. Owner(h)
    BY DEF Owner, Active, Ended
  <2>. QED
    BY <1>3, <2>1, <2>2 DEF CleanupInv, OwnerInv, TakenAway
<1>4. CleanupInv => TypeOK
  BY DEF CleanupInv
<1>. QED
  BY <1>1, <1>2, <1>3, <1>4, CleanupInvHolds, PTL DEF Spec
=============================================================================
