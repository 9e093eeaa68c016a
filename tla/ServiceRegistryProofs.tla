------------------------ MODULE ServiceRegistryProofs ------------------------
(***************************************************************************)
(* Proofs about ServiceRegistry for every set of callers, every set of     *)
(* names and every bound on the writes.                                    *)
(*                                                                         *)
(* The argument: write_lock has one owner (LockInv), so the config file    *)
(* only changes by the owner's rename.  The owner's copy of every name it  *)
(* has read is at least as new as the file, because it was read from the   *)
(* map after the file was last renamed, and the map is at least as new as  *)
(* the file (SnapInv, FileInv).  A call whose mutation came before its own *)
(* copy therefore finds its write in what it renames (ReloadInv).          *)
(***************************************************************************)
EXTENDS ServiceRegistry, TLAPS

LockInv == \A p \in Procs : pc[p] \in Holding <=> lock = p

NeedInv == \A p \in Procs : pc[p] # "idle" => need[p] <= services[target[p]].ver

FileInv ==
  \A n \in Names :
    /\ acked[n] <= file[n].ver
    /\ loaded[n].ver <= file[n].ver
    /\ file[n].ver <= services[n].ver
    /\ file[n].ver = services[n].ver => file[n] = services[n]

SnapInv ==
  \A p \in Procs :
    pc[p] \in {"scan", "remove", "rename"} =>
      \A n \in scanned[p] :
        /\ file[n].ver <= snap[p][n].ver
        /\ snap[p][n].ver <= services[n].ver
        /\ snap[p][n].ver = services[n].ver => snap[p][n] = services[n]
        /\ n = target[p] => need[p] <= snap[p][n].ver

TmpInv ==
  \A p \in Procs :
    /\ pc[p] \in {"idle", "lock"} => scanned[p] = {}
    /\ pc[p] \in {"remove", "rename"} => scanned[p] = Names /\ tmp = snap[p]

ReloadInv ==
  \A p \in Procs :
    pc[p] = "reload" => present /\ need[p] <= file[target[p]].ver

BoundInv == \A n \in Names : services[n].ver <= MaxWrites[n]

\* The inductive invariant.
IInv ==
  /\ TypeOK
  /\ BoundInv
  /\ LockInv
  /\ NeedInv
  /\ FileInv
  /\ SnapInv
  /\ TmpInv
  /\ ReloadInv
  /\ NoSilentLoss
  /\ AbsentOnlyInWindow

-----------------------------------------------------------------------------
\* Constants used by Init and Return have the right types.
LEMMA Defaults == AnyName \in Names /\ EmptyTable \in Table
<1>1. AnyName \in Names
  BY RegistryAssumption DEF AnyName
<1>2. EmptyTable \in Table
  BY DEF EmptyTable, Table, NoService, Entry
<1>3. QED  BY <1>1, <1>2

\* The registry starts well typed: ServiceRegistry::new.
LEMMA TypeInit == Init => TypeOK
<1> SUFFICES ASSUME Init PROVE TypeOK
  OBVIOUS
<1>1. failed \in [Names -> BOOLEAN] /\ present \in BOOLEAN
  BY Zenon DEF Init
<1>2. pc \in [Procs -> {"idle", "lock"} \cup Holding]
  BY DEF Init
<1>3. QED  BY Defaults, <1>1, <1>2 DEF Init, TypeOK

\* Every step of a call keeps the types.
LEMMA TypeStep == TypeOK /\ [Next]_vars => TypeOK'
<1> SUFFICES ASSUME TypeOK, [Next]_vars PROVE TypeOK'
  OBVIOUS
<1> USE DEF TypeOK
<1>1. ASSUME NEW p \in Procs, NEW n \in Names, NEW alive \in BOOLEAN,
             Put(p, n, alive)
      PROVE  TypeOK'
  BY <1>1, RegistryAssumption DEF Put, Enter, Holding, Table, Entry, disk
<1>2. ASSUME NEW p \in Procs, NEW n \in Names, Deregister(p, n)
      PROVE  TypeOK'
  <2>1. CASE Put(p, n, FALSE)
    BY <1>1, <2>1
  <2>2. CASE Enter(p, n, services[n].ver) /\ UNCHANGED <<services, failed>>
    BY <2>2 DEF Enter, Holding, Table, Entry, disk
  <2>3. QED  BY <1>2, <2>1, <2>2 DEF Deregister
<1>3. ASSUME NEW p \in Procs, Acquire(p) PROVE TypeOK'
  BY <1>3 DEF Acquire, Goto, Holding, disk, outcome
<1>4. ASSUME NEW p \in Procs, NEW n \in Names, Scan(p, n) PROVE TypeOK'
  BY <1>4 DEF Scan, disk, outcome, Table
<1>5. ASSUME NEW p \in Procs, WriteTmp(p) PROVE TypeOK'
  BY <1>5 DEF WriteTmp, Goto, Holding, outcome
<1>6. ASSUME NEW p \in Procs, RemoveOld(p) PROVE TypeOK'
  BY <1>6 DEF RemoveOld, Goto, Holding, outcome
<1>7. ASSUME NEW p \in Procs, RenameTmp(p) PROVE TypeOK'
  BY <1>7 DEF RenameTmp, Goto, Holding, outcome
<1>8. ASSUME NEW p \in Procs, Fail(p) PROVE TypeOK'
  BY <1>8, Defaults DEF Fail, Return, Forget, NoteFailed, Goto, Holding, disk
<1>9. ASSUME NEW p \in Procs, ReloadAndReturn(p) PROVE TypeOK'
  BY <1>9, Defaults DEF ReloadAndReturn, Return, Forget, Goto, Holding
<1>10. CASE UNCHANGED vars
  BY <1>10 DEF vars, disk, outcome
<1>11. ASSUME NEW p \in Procs, ClientGone(p) PROVE TypeOK'
  <2>1. /\ tmp' \in Table \cup {NoContents}
        /\ file' \in Table /\ loaded' \in Table
    <3>0. snap[p] \in Table /\ (tmp # NoContents => tmp \in Table)
      OBVIOUS
    <3>1. loaded' \in Table
      BY <1>11 DEF ClientGone, CutOff, disk
    <3>2. file' = file \/ (tmp # NoContents /\ file' = tmp)
      BY <1>11 DEF ClientGone, CutOff, disk
    <3>3. tmp' \in {tmp, NoContents, snap[p]}
      BY <1>11 DEF ClientGone, CutOff, disk
    <3>. QED
      BY <3>0, <3>1, <3>2, <3>3
  <2>3. present' \in BOOLEAN
    BY <1>11, Zenon DEF ClientGone, CutOff, disk
  <2>2. failed' \in [Names -> BOOLEAN] /\ last' \in {"none", "ok", "err", "gone"}
    BY <1>11 DEF ClientGone, NoteFailed
  <2>. QED
    BY <1>11, <2>1, <2>2, <2>3, Defaults DEF ClientGone, Forget, Holding
<1>12. QED
  BY <1>1, <1>2, <1>3, <1>4, <1>5, <1>6, <1>7, <1>8, <1>9, <1>10, <1>11
     DEF Next, Persist, Register, UpdateToken

\* The type invariant of the registry's calls, whatever they interleave with.
THEOREM TypeCorrect == Spec => []TypeOK
BY TypeInit, TypeStep, PTL DEF Spec

-----------------------------------------------------------------------------
\* The invariant holds of the empty registry.
LEMMA IInvInit == Init => IInv
<1> SUFFICES ASSUME Init PROVE IInv
  OBVIOUS
<1>1. TypeOK
  BY TypeInit
<1>2. LockInv /\ NeedInv /\ SnapInv /\ TmpInv /\ ReloadInv /\ AbsentOnlyInWindow
  BY RegistryAssumption
     DEF Init, LockInv, NeedInv, SnapInv, TmpInv, ReloadInv,
         AbsentOnlyInWindow, Holding
<1>3. FileInv /\ NoSilentLoss /\ BoundInv
  BY RegistryAssumption DEF Init, BoundInv, FileInv, NoSilentLoss, Unwritten, EmptyTable, NoService
<1>4. QED  BY <1>1, <1>2, <1>3 DEF IInv

\* A mutation (the map changes, the call queues for the lock) keeps it.
LEMMA PutStep ==
  ASSUME NEW p \in Procs, NEW n \in Names, NEW alive \in BOOLEAN,
         IInv, Put(p, n, alive), TypeOK'
  PROVE  IInv'
<1> USE DEF IInv, TypeOK, Put, Enter, Table, Entry, disk
<1>1. LockInv' /\ TmpInv' /\ ReloadInv' /\ AbsentOnlyInWindow'
  BY RegistryAssumption
     DEF LockInv, TmpInv, ReloadInv, AbsentOnlyInWindow, Holding
<1>2. \A m \in Names : /\ services[m].ver <= services'[m].ver
                       /\ m # n => services'[m] = services[m]
                       /\ services'[n].ver = services[n].ver + 1
  OBVIOUS
<1>3. NeedInv' /\ BoundInv'
  BY <1>2, RegistryAssumption DEF NeedInv, BoundInv
<1>4. FileInv'
  BY <1>2 DEF FileInv
<1>5. SnapInv'
  BY <1>2 DEF SnapInv
<1>6. NoSilentLoss'
  <2> SUFFICES ASSUME NEW m \in Names, Unwritten(m)'
               PROVE  \/ failed'[m]
                      \/ \E q \in Procs : /\ pc'[q] \in PreRename
                                          /\ target'[q] = m
                                          /\ need'[q] = services'[m].ver
    BY DEF NoSilentLoss
  <2>1. CASE m = n
    BY <1>2, <2>1 DEF PreRename
  <2>2. CASE m # n
    BY <1>2, <2>2, ZenonT(40) DEF NoSilentLoss, Unwritten, PreRename
  <2>3. QED  BY <2>1, <2>2
<1>7. QED  BY <1>1, <1>3, <1>4, <1>5, <1>6

\* So does a deregister of an unknown name, which only queues for the lock.
LEMMA EnterStep ==
  ASSUME NEW p \in Procs, NEW n \in Names, IInv,
         Enter(p, n, services[n].ver), UNCHANGED <<services, failed>>, TypeOK'
  PROVE  IInv'
<1> USE DEF IInv, TypeOK, Enter, Table, Entry, disk
<1>1. LockInv' /\ TmpInv' /\ ReloadInv' /\ AbsentOnlyInWindow'
  BY RegistryAssumption
     DEF LockInv, TmpInv, ReloadInv, AbsentOnlyInWindow, Holding
<1>2. NeedInv' /\ FileInv' /\ BoundInv'
  BY DEF NeedInv, FileInv, BoundInv
<1>3. SnapInv'
  BY DEF SnapInv
<1>4. NoSilentLoss'
  BY DEF NoSilentLoss, Unwritten, PreRename
<1>5. QED  BY <1>1, <1>2, <1>3, <1>4

\* Taking the lock and copying one shard of the map keep it.
LEMMA AcquireStep ==
  ASSUME NEW p \in Procs, IInv, Acquire(p), TypeOK'
  PROVE  IInv'
<1> USE DEF IInv, TypeOK, Acquire, Goto, Table, Entry, disk, outcome
<1>1. LockInv' /\ ReloadInv' /\ AbsentOnlyInWindow'
  BY RegistryAssumption DEF LockInv, ReloadInv, AbsentOnlyInWindow, Holding
<1>2. NeedInv' /\ FileInv' /\ TmpInv' /\ BoundInv'
  BY DEF NeedInv, FileInv, TmpInv, BoundInv
<1>3. SnapInv'
  BY DEF SnapInv, TmpInv
<1>4. NoSilentLoss'
  BY DEF NoSilentLoss, Unwritten, PreRename
<1>5. QED  BY <1>1, <1>2, <1>3, <1>4

\* A copied shard is no older than what its own call wrote.
LEMMA ScanStep ==
  ASSUME NEW p \in Procs, NEW n \in Names, IInv, Scan(p, n), TypeOK'
  PROVE  IInv'
<1> USE DEF IInv, TypeOK, Scan, Table, Entry, disk, outcome
<1>1. LockInv' /\ ReloadInv' /\ AbsentOnlyInWindow' /\ NeedInv' /\ FileInv'
  BY DEF LockInv, ReloadInv, AbsentOnlyInWindow, NeedInv, FileInv
<1>2. TmpInv' /\ BoundInv'
  BY DEF TmpInv, BoundInv
<1>3. SnapInv'
  BY DEF SnapInv, FileInv, NeedInv
<1>4. NoSilentLoss'
  BY DEF NoSilentLoss, Unwritten
<1>5. QED  BY <1>1, <1>2, <1>3, <1>4

\* Only the owner of the lock is past the scan, so its temporary file is its own.
LEMMA WriteTmpStep ==
  ASSUME NEW p \in Procs, IInv, WriteTmp(p), TypeOK'
  PROVE  IInv'
<1> USE DEF IInv, TypeOK, WriteTmp, Goto, outcome
<1>1. LockInv' /\ ReloadInv' /\ AbsentOnlyInWindow' /\ NeedInv' /\ FileInv'
  BY DEF LockInv, ReloadInv, AbsentOnlyInWindow, NeedInv, FileInv, Holding
<1>2. TmpInv' /\ BoundInv'
  BY DEF TmpInv, BoundInv, LockInv, Holding
<1>3. SnapInv'
  BY DEF SnapInv
<1>4. NoSilentLoss'
  BY DEF NoSilentLoss, Unwritten, PreRename
<1>5. QED  BY <1>1, <1>2, <1>3, <1>4

\* The unlink opens the window in which no file is there.
LEMMA RemoveOldStep ==
  ASSUME NEW p \in Procs, IInv, RemoveOld(p), TypeOK'
  PROVE  IInv'
<1> USE DEF IInv, TypeOK, RemoveOld, Goto, outcome
<1>1. LockInv' /\ NeedInv' /\ FileInv' /\ TmpInv'
  BY DEF LockInv, NeedInv, FileInv, TmpInv, Holding
<1>2. ReloadInv' /\ BoundInv'
  BY DEF ReloadInv, BoundInv, LockInv, Holding
<1>3. AbsentOnlyInWindow'
  BY DEF AbsentOnlyInWindow, LockInv, Holding
<1>4. SnapInv'
  BY DEF SnapInv
<1>5. NoSilentLoss'
  BY DEF NoSilentLoss, Unwritten, PreRename
<1>6. QED  BY <1>1, <1>2, <1>3, <1>4, <1>5

\* The rename installs a copy that is no older than the file and holds the
\* caller's own write.
LEMMA RenameStep ==
  ASSUME NEW p \in Procs, IInv, RenameTmp(p), TypeOK'
  PROVE  IInv'
<1> USE DEF IInv, TypeOK, RenameTmp, Goto, outcome, Table, Entry
<1>1. file' = snap[p] /\ scanned[p] = Names
  BY DEF TmpInv
<1>2. \A n \in Names : /\ file[n].ver <= file'[n].ver
                       /\ file'[n].ver <= services[n].ver
                       /\ file'[n].ver = services[n].ver => file'[n] = services[n]
                       /\ n = target[p] => need[p] <= file'[n].ver
  BY <1>1 DEF SnapInv
<1>3. \A q \in Procs : q # p => pc[q] \notin Holding
  BY DEF LockInv, Holding
<1>4. LockInv' /\ NeedInv' /\ AbsentOnlyInWindow'
  BY DEF LockInv, NeedInv, AbsentOnlyInWindow, Holding
<1>5. FileInv' /\ BoundInv'
  BY <1>2 DEF FileInv, BoundInv
<1>6. SnapInv' /\ TmpInv'
  BY <1>3 DEF SnapInv, TmpInv, Holding
<1>7. ReloadInv'
  BY <1>2, <1>3 DEF ReloadInv, Holding
<1>8. NoSilentLoss'
  <2> SUFFICES ASSUME NEW n \in Names, Unwritten(n)'
               PROVE  \/ failed[n]
                      \/ \E q \in Procs : /\ pc'[q] \in PreRename
                                          /\ target[q] = n
                                          /\ need[q] = services[n].ver
    BY DEF NoSilentLoss
  <2>1. file'[n].ver < services[n].ver
    <3>1. file'[n].ver \in Nat /\ services[n].ver \in Nat
      BY <1>1
    <3>2. file'[n] # services[n]
      BY DEF Unwritten
    <3>3. /\ file'[n].ver <= services[n].ver
          /\ file'[n].ver = services[n].ver => file'[n] = services[n]
      BY <1>2
    <3>4. QED  BY ONLY <3>1, <3>2, <3>3
  <2>2. Unwritten(n)
    BY <1>2, <2>1 DEF Unwritten
  <2>3. PICK q \in Procs : failed[n] \/ (/\ pc[q] \in PreRename
                                         /\ target[q] = n
                                         /\ need[q] = services[n].ver)
    BY <2>2 DEF NoSilentLoss
  <2>4. CASE q = p
    BY <1>2, <2>1, <2>3, <2>4
  <2>5. CASE q # p
    BY <2>3, <2>5
  <2>6. QED  BY <2>4, <2>5
<1>9. QED  BY <1>4, <1>5, <1>6, <1>7, <1>8

\* Returning Err keeps the change in the map and marks it as failed.
LEMMA FailStep ==
  ASSUME NEW p \in Procs, IInv, Fail(p), TypeOK'
  PROVE  IInv'
<1> USE DEF IInv, TypeOK, Fail, Return, Forget, NoteFailed, Goto, disk, Table, Entry
<1>1. lock = p /\ pc[p] \in {"scan", "rename"}
  BY DEF LockInv, Holding
<1>2. LockInv'
  BY <1>1, RegistryAssumption, ZenonT(40) DEF LockInv, Holding
<1>3. NeedInv' /\ FileInv' /\ TmpInv' /\ ReloadInv'
  BY DEF NeedInv, FileInv, TmpInv, ReloadInv
<1>4. SnapInv'
  BY DEF SnapInv
<1>5. AbsentOnlyInWindow' /\ BoundInv'
  BY DEF AbsentOnlyInWindow, BoundInv
<1>6. NoSilentLoss'
  <2> SUFFICES ASSUME NEW n \in Names, Unwritten(n)'
               PROVE  \/ failed'[n]
                      \/ \E q \in Procs : /\ pc'[q] \in PreRename
                                          /\ target'[q] = n
                                          /\ need'[q] = services[n].ver
    BY DEF NoSilentLoss
  <2>1. Unwritten(n)
    BY DEF Unwritten
  <2>2. CASE failed[n]
    BY <2>2
  <2>3. ASSUME NEW q \in Procs, pc[q] \in PreRename, target[q] = n,
               need[q] = services[n].ver
        PROVE  \/ failed'[n]
               \/ \E r \in Procs : /\ pc'[r] \in PreRename
                                   /\ target'[r] = n
                                   /\ need'[r] = services[n].ver
    <3>1. CASE q = p
      BY <2>3, <3>1
    <3>2. CASE q # p
      BY <2>3, <3>2
    <3>3. QED  BY <3>1, <3>2
  <2>4. QED  BY <2>1, <2>2, <2>3 DEF NoSilentLoss
<1>7. QED  BY <1>2, <1>3, <1>4, <1>5, <1>6

\* Returning Ok is justified by ReloadInv: the file holds the caller's write.
LEMMA ReloadStep ==
  ASSUME NEW p \in Procs, IInv, ReloadAndReturn(p), TypeOK'
  PROVE  IInv'
<1> USE DEF IInv, TypeOK, ReloadAndReturn, Return, Forget, Goto, Table, Entry
<1>1. lock = p
  BY DEF LockInv, Holding
<1>2. LockInv'
  BY <1>1, RegistryAssumption DEF LockInv, Holding
<1>3. NeedInv' /\ TmpInv' /\ BoundInv'
  BY DEF NeedInv, TmpInv, BoundInv
<1>4. FileInv'
  BY DEF FileInv, ReloadInv
<1>5. ReloadInv' /\ SnapInv'
  BY DEF ReloadInv, SnapInv
<1>6. AbsentOnlyInWindow'
  BY DEF AbsentOnlyInWindow, ReloadInv
<1>7. NoSilentLoss'
  BY DEF NoSilentLoss, Unwritten, PreRename
<1>8. QED  BY <1>2, <1>3, <1>4, <1>5, <1>6, <1>7

\* A call that is dropped keeps its change in the map and marks it as unanswered; what
\* its last file operation did is what the operation itself would have done.
LEMMA GoneStep ==
  ASSUME NEW p \in Procs, IInv, ClientGone(p), TypeOK'
  PROVE  IInv'
<1> USE DEF IInv, TypeOK, ClientGone, Forget, Table, Entry
<1>0. /\ pc[p] # "idle" /\ pc'[p] = "idle"
      /\ \A q \in Procs : q # p => /\ pc'[q] = pc[q] /\ target'[q] = target[q]
                                   /\ need'[q] = need[q] /\ snap'[q] = snap[q]
                                   /\ scanned'[q] = scanned[q]
  <2>1. pc[p] # "idle"
    BY DEF CutOff
  <2>. QED
    BY <2>1
<1>1. \A q \in Procs : q # p /\ pc[p] # "lock" => pc[q] \notin Holding
  BY <1>0 DEF LockInv, Holding
<1>2. LockInv'
  BY <1>0, RegistryAssumption DEF LockInv, Holding
<1>3. NeedInv' /\ BoundInv'
  BY <1>0 DEF NeedInv, BoundInv
<1>4. \/ UNCHANGED <<tmp, present, file>>
      \/ pc[p] \in {"scan", "remove"} /\ file' = file
      \/ /\ pc[p] = "rename" /\ present' /\ file' = snap[p] /\ scanned[p] = Names
  BY DEF CutOff, TmpInv, disk
<1>5. \A n \in Names : /\ file[n].ver <= file'[n].ver
                       /\ file'[n].ver <= services[n].ver
                       /\ file'[n].ver = services[n].ver => file'[n] = services[n]
  BY <1>4 DEF SnapInv, FileInv
<1>6. loaded' = loaded \/ loaded' = file
  BY DEF CutOff, disk
<1>7. FileInv'
  BY <1>5, <1>6 DEF FileInv
<1>8. pc[p] = "lock" => UNCHANGED <<tmp, present, file>>
  BY DEF CutOff, disk
<1>9. SnapInv'
  BY <1>0, <1>1, <1>8 DEF SnapInv, Holding
<1>10. TmpInv' /\ ReloadInv'
  BY <1>0, <1>1, <1>8 DEF TmpInv, ReloadInv, Holding
<1>11. AbsentOnlyInWindow'
  <2>1. CASE lock = p
    BY <2>1 DEF AbsentOnlyInWindow
  <2>2. CASE lock # p
    BY <1>0, <1>8, <2>2 DEF AbsentOnlyInWindow, LockInv, Holding
  <2>. QED
    BY <2>1, <2>2
<1>12. NoSilentLoss'
  <2> SUFFICES ASSUME NEW n \in Names, Unwritten(n)'
               PROVE  \/ failed'[n]
                      \/ \E q \in Procs : /\ pc'[q] \in PreRename
                                          /\ target'[q] = n
                                          /\ need'[q] = services[n].ver
    BY DEF NoSilentLoss
  <2>1. Unwritten(n)
    <3>1. file'[n].ver # services[n].ver
      BY <1>5 DEF Unwritten
    <3>2. file[n].ver \in Nat /\ file'[n].ver \in Nat /\ services[n].ver \in Nat
      OBVIOUS
    <3>3. file[n].ver <= file'[n].ver /\ file'[n].ver <= services[n].ver
      BY <1>5
    <3>4. file[n].ver # services[n].ver
      BY ONLY <3>1, <3>2, <3>3
    <3>5. QED
      BY <3>4 DEF Unwritten
  <2>2. failed[n] => failed'[n]
    BY DEF NoteFailed
  <2>3. ASSUME NEW q \in Procs, pc[q] \in PreRename, target[q] = n,
               need[q] = services[n].ver
        PROVE  \/ failed'[n]
               \/ \E r \in Procs : /\ pc'[r] \in PreRename
                                   /\ target'[r] = n
                                   /\ need'[r] = services[n].ver
    <3>1. CASE q = p
      BY <2>3, <3>1 DEF NoteFailed
    <3>2. CASE q # p
      BY <1>0, <2>3, <3>2
    <3>3. QED  BY <3>1, <3>2
  <2>4. QED  BY <2>1, <2>2, <2>3 DEF NoSilentLoss
<1>13. QED  BY <1>2, <1>3, <1>7, <1>9, <1>10, <1>11, <1>12

-----------------------------------------------------------------------------
\* The invariant is preserved by every step of every call.
LEMMA IInvStep == IInv /\ [Next]_vars => IInv'
<1> SUFFICES ASSUME IInv, [Next]_vars PROVE IInv'
  OBVIOUS
<1>1. TypeOK'
  BY TypeStep DEF IInv
<1>2. CASE UNCHANGED vars
  BY <1>2 DEF vars, disk, outcome, IInv, TypeOK, BoundInv, LockInv, NeedInv, FileInv,
              SnapInv, TmpInv, ReloadInv, NoSilentLoss, Unwritten,
              AbsentOnlyInWindow
<1>3. ASSUME NEW p \in Procs, NEW n \in Names,
             Register(p, n) \/ Deregister(p, n) \/ UpdateToken(p, n)
      PROVE  IInv'
  BY <1>1, <1>3, PutStep, EnterStep DEF Register, Deregister, UpdateToken
<1>4. ASSUME NEW p \in Procs, Persist(p) PROVE IInv'
  BY <1>1, <1>4, AcquireStep, ScanStep, WriteTmpStep, RemoveOldStep, RenameStep,
     FailStep, ReloadStep DEF Persist
<1>5. ASSUME NEW p \in Procs, ClientGone(p) PROVE IInv'
  BY <1>1, <1>5, GoneStep
<1>6. QED  BY <1>2, <1>3, <1>4, <1>5 DEF Next

\* The inductive invariant holds in every reachable state.
LEMMA Invariance == Spec => []IInv
BY IInvInit, IInvStep, PTL DEF Spec

\* A call answered Ok has its write, or a later one, in the config file.
THEOREM AckedOnDiskHolds == Spec => []AckedOnDisk
<1>1. IInv => AckedOnDisk
  BY DEF IInv, FileInv, AckedOnDisk
<1>2. QED  BY <1>1, Invariance, PTL

\* No change of the map stays out of the file without an Err, a call that is still
\* going to write it, or a call that was dropped with its client.
THEOREM NoSilentLossHolds == Spec => []NoSilentLoss
<1>1. IInv => NoSilentLoss
  BY DEF IInv
<1>2. QED  BY <1>1, Invariance, PTL

\* The config file is missing only before the first Ok, inside a rename window, or
\* after a call that failed or was dropped under write_lock.
THEOREM AbsentOnlyInWindowHolds == Spec => []AbsentOnlyInWindow
<1>1. IInv => AbsentOnlyInWindow
  BY DEF IInv
<1>2. QED  BY <1>1, Invariance, PTL

\* rathole never loads an older entry than the one it has.
THEOREM LoadedMovesForwardHolds == Spec => LoadedMovesForward
<1>1. IInv /\ IInv' /\ [Next]_vars
        => [\A n \in Names : loaded[n].ver <= loaded'[n].ver]_loaded
  <2> SUFFICES ASSUME IInv, [Next]_vars
               PROVE  loaded' = loaded \/ loaded' = file
    BY DEF IInv, FileInv
  <2> USE DEF disk, outcome
  <2>1. CASE UNCHANGED vars
    BY <2>1 DEF vars
  <2>2. ASSUME NEW p \in Procs, NEW n \in Names,
               Register(p, n) \/ Deregister(p, n) \/ UpdateToken(p, n)
        PROVE  loaded' = loaded
    BY <2>2 DEF Register, Deregister, UpdateToken, Put, Enter
  <2>3. ASSUME NEW p \in Procs, Persist(p)
        PROVE  loaded' = loaded \/ loaded' = file
    BY <2>3 DEF Persist, Acquire, Scan, WriteTmp, RemoveOld, RenameTmp, Fail,
                ReloadAndReturn
  <2>4. ASSUME NEW p \in Procs, ClientGone(p)
        PROVE  loaded' = loaded \/ loaded' = file
    BY <2>4 DEF ClientGone, CutOff
  <2>5. QED  BY <2>1, <2>2, <2>3, <2>4 DEF Next
<1>2. QED  BY <1>1, Invariance, PTL DEF Spec, LoadedMovesForward

-----------------------------------------------------------------------------
(* Refinement: the registry implements DurableTable.                       *)

\* An empty registry is an empty durable table.
LEMMA RefineInit == Init => Abstract!Init
BY DEF Init, Abstract!Init, EmptyTable, NoService

\* Every step of a call is a step of the durable table, or invisible to it.
LEMMA RefineStep ==
  IInv /\ IInv' /\ [Next]_vars => [Abstract!Next]_(Abstract!tableVars)
<1> SUFFICES ASSUME IInv, IInv', [Next]_vars
             PROVE  [Abstract!Next]_(Abstract!tableVars)
  OBVIOUS
<1> DEFINE cur == [n \in Names |-> services[n].ver]
           dsk == [n \in Names |-> file[n].ver]
           Same == cur' = cur /\ dsk' = dsk /\ present' = present /\ acked' = acked
<1> USE DEF TypeOK, Table, Entry
<1>t. TypeOK /\ TypeOK'
  BY DEF IInv
<1>s. Same => UNCHANGED Abstract!tableVars
  BY DEF Abstract!tableVars
<1>1. ASSUME NEW p \in Procs, NEW n \in Names, NEW alive \in BOOLEAN,
             Put(p, n, alive)
      PROVE  Abstract!Write(n)
  BY <1>1, <1>t DEF Put, Enter, disk, Abstract!Write
<1>2. ASSUME NEW p \in Procs, NEW n \in Names,
             Enter(p, n, services[n].ver), UNCHANGED <<services, failed>>
      PROVE  Same
  BY <1>2 DEF Enter, disk
<1>3. ASSUME NEW p \in Procs, Acquire(p) PROVE Same
  BY <1>3 DEF Acquire, disk, outcome
<1>4. ASSUME NEW p \in Procs, NEW n \in Names, Scan(p, n) PROVE Same
  BY <1>4 DEF Scan, disk, outcome
<1>5. ASSUME NEW p \in Procs, WriteTmp(p) PROVE Same
  BY <1>5 DEF WriteTmp, outcome
<1>6. ASSUME NEW p \in Procs, RemoveOld(p) PROVE Same \/ Abstract!Vanish
  BY <1>6 DEF RemoveOld, outcome, Abstract!Vanish
<1>7. ASSUME NEW p \in Procs, RenameTmp(p) PROVE Abstract!Publish
  <2>1. file' = snap[p] /\ scanned[p] = Names
    BY <1>7 DEF IInv, TmpInv, RenameTmp, Goto
  <2>2. \A n \in Names : file[n].ver <= file'[n].ver /\ file'[n].ver <= services[n].ver
    BY <1>7, <2>1 DEF IInv, SnapInv, RenameTmp, Goto
  <2>3. dsk' \in [Names -> Nat]
    BY <1>t
  <2>4. QED
    BY <1>7, <1>t, <2>2, <2>3 DEF RenameTmp, outcome, Abstract!Publish
<1>8. ASSUME NEW p \in Procs, Fail(p) PROVE Same
  BY <1>8 DEF Fail, disk
<1>9. ASSUME NEW p \in Procs, ReloadAndReturn(p)
      PROVE  Abstract!Acknowledge(target[p], need[p])
  BY <1>9, <1>t DEF ReloadAndReturn, Goto, IInv, ReloadInv, Abstract!Acknowledge
<1>10. ASSUME NEW p \in Procs, ReloadAndReturn(p) PROVE Abstract!Next
  <2>1. need[p] \in 0 .. MaxWrites[target[p]]
    <3>1. target[p] \in Names /\ need[p] \in Nat
      BY <1>t
    <3>2. /\ services[target[p]].ver \in Nat
          /\ MaxWrites[target[p]] \in Nat
      BY <1>t, <3>1, RegistryAssumption
    <3>3. need[p] <= services[target[p]].ver
      BY <1>10 DEF IInv, NeedInv, ReloadAndReturn, Goto
    <3>4. services[target[p]].ver <= MaxWrites[target[p]]
      BY <3>1 DEF IInv, BoundInv
    <3>5. QED  BY ONLY <3>1, <3>2, <3>3, <3>4
  <2>2. QED  BY <1>9, <1>10, <1>t, <2>1 DEF Abstract!Next
<1>11. CASE UNCHANGED vars
  BY <1>11, <1>s DEF vars, disk, outcome
<1>12. ASSUME NEW p \in Procs, NEW n \in Names,
              Register(p, n) \/ Deregister(p, n) \/ UpdateToken(p, n)
       PROVE  Abstract!Next \/ Same
  BY <1>1, <1>2, <1>12 DEF Register, Deregister, UpdateToken, Abstract!Next
<1>13. ASSUME NEW p \in Procs, Persist(p) PROVE Abstract!Next \/ Same
  BY <1>3, <1>4, <1>5, <1>6, <1>7, <1>8, <1>10, <1>13 DEF Persist, Abstract!Next
<1>14. ASSUME NEW p \in Procs, ClientGone(p) PROVE Abstract!Next \/ Same
  <2>0. cur' = cur /\ acked' = acked /\ TmpInv /\ SnapInv
    BY <1>14 DEF ClientGone, IInv
  <2>1. CASE UNCHANGED <<present, file>>
    BY <2>0, <2>1
  <2>2. CASE present' = FALSE /\ file' = file
    BY <2>0, <2>2 DEF Abstract!Vanish, Abstract!Next
  <2>3. CASE pc[p] = "rename" /\ file' = tmp /\ present' = TRUE
    <3>1. file' = snap[p] /\ scanned[p] = Names
      BY <2>0, <2>3 DEF TmpInv
    <3>2. \A n \in Names : file[n].ver <= file'[n].ver /\ file'[n].ver <= services[n].ver
      BY <2>0, <2>3, <3>1 DEF SnapInv
    <3>3. dsk' \in [Names -> Nat]
      BY <1>t
    <3>4. Abstract!Publish
      BY <1>t, <2>0, <2>3, <3>2, <3>3 DEF Abstract!Publish
    <3>. QED
      BY <3>4 DEF Abstract!Next
  <2>. QED
    BY <1>14, <2>1, <2>2, <2>3 DEF ClientGone, CutOff, disk
<1>15. QED
  <2> HIDE DEF Same
  <2> QED  BY <1>s, <1>11, <1>12, <1>13, <1>14 DEF Next

\* The registry, with its lock, its shard-by-shard copy and its temporary file,
\* implements the durable table its callers rely on.
THEOREM Refinement == Spec => DurableTableSpec
BY RefineInit, RefineStep, Invariance, PTL DEF Spec, DurableTableSpec, Abstract!Spec

-----------------------------------------------------------------------------
(* write_lock comes back: what EveryCallReturns rests on.                  *)

\* The step that follows the step s of a call that holds the lock.
After(s) ==
  CASE s = "scan" -> "remove" [] s = "remove" -> "rename" [] s = "rename" -> "reload"
    [] OTHER -> "idle"

\* write_lock is held only by a call that runs, and the temporary file that its rename
\* needs is there.
OwnerRuns ==
  lock # Nobody => pc[lock] \in Holding /\ (pc[lock] = "rename" => tmp # NoContents)

\* A step of the owner, or its being dropped, reads one more shard, goes on to the next
\* step or lets the lock go; the other calls leave the owner where it is.
OwnerStep(p) ==
  lock = p =>
    /\ Persist(p) \/ ClientGone(p) =>
         \/ /\ lock' = p /\ pc[p] = "scan" /\ pc'[p] = "scan"
            /\ \E n \in Names \ scanned[p] : scanned'[p] = scanned[p] \cup {n}
         \/ lock' = p /\ pc[p] # "reload" /\ pc'[p] = After(pc[p])
         \/ lock' = Nobody /\ pc'[p] = "idle"
    /\ ~(Persist(p) \/ ClientGone(p)) =>
         lock' = p /\ pc'[p] = pc[p] /\ scanned'[p] = scanned[p]

OwnerMovesOn == [][\A p \in Procs : OwnerStep(p)]_vars

\* No path of persist_and_reload keeps write_lock, the failing ones and the dropped
\* calls included, and its owner waits for nobody: only the scheduler's fairness is left for TLC to assume.
THEOREM LockComesBack == Spec => []OwnerRuns /\ OwnerMovesOn
<1>1. ASSUME IInv PROVE OwnerRuns
  <2>1. CASE lock = Nobody
    BY <2>1 DEF OwnerRuns
  <2>2. CASE lock \in Procs
    <3>1. pc[lock] \in Holding
      BY <1>1, <2>2 DEF IInv, LockInv
    <3>2. pc[lock] = "rename" => tmp \in [Names -> [live : BOOLEAN, ver : Nat]]
      BY <1>1, <2>2 DEF IInv, TmpInv, TypeOK, Table, Entry
    <3>. QED
      BY <3>1, <3>2, RegistryAssumption DEF OwnerRuns
  <2>. QED
    BY <1>1, <2>1, <2>2 DEF IInv, TypeOK
<1>2. ASSUME IInv, [Next]_vars, NEW p \in Procs, lock = p,
             Persist(p) \/ ClientGone(p)
      PROVE  \/ /\ lock' = p /\ pc[p] = "scan" /\ pc'[p] = "scan"
                /\ \E n \in Names \ scanned[p] : scanned'[p] = scanned[p] \cup {n}
             \/ lock' = p /\ pc[p] # "reload" /\ pc'[p] = After(pc[p])
             \/ lock' = Nobody /\ pc'[p] = "idle"
  <2>0. lock # Nobody /\ TypeOK
    BY <1>2, RegistryAssumption DEF IInv
  <2>. USE <1>2, <2>0 DEF TypeOK, Goto
  <2>1. ASSUME NEW n \in Names, Scan(p, n)
        PROVE  /\ lock' = p /\ pc[p] = "scan" /\ pc'[p] = "scan"
               /\ n \in Names \ scanned[p] /\ scanned'[p] = scanned[p] \cup {n}
    BY <2>1 DEF Scan
  <2>2. CASE WriteTmp(p) \/ RemoveOld(p) \/ RenameTmp(p)
    BY <2>2 DEF WriteTmp, RemoveOld, RenameTmp, After
  <2>3. CASE Fail(p) \/ ReloadAndReturn(p)
    BY <2>3 DEF Fail, ReloadAndReturn, Return
  <2>5. CASE ClientGone(p)
    BY <2>5 DEF ClientGone
  <2>4. ~Acquire(p)
    BY DEF Acquire
  <2>. QED
    BY <2>1, <2>2, <2>3, <2>4, <2>5 DEF Persist
<1>3. ASSUME IInv, [Next]_vars, NEW p \in Procs, lock = p,
             ~(Persist(p) \/ ClientGone(p))
      PROVE  lock' = p /\ pc'[p] = pc[p] /\ scanned'[p] = scanned[p]
  <2>0. lock # Nobody /\ TypeOK /\ LockInv /\ pc[p] \in Holding
    BY <1>3, RegistryAssumption DEF IInv, LockInv
  <2>. USE <1>3, <2>0 DEF TypeOK, Goto
  <2>1. CASE UNCHANGED vars
    BY <2>1 DEF vars
  <2>2. ASSUME NEW q \in Procs, NEW n \in Names,
               Register(q, n) \/ Deregister(q, n) \/ UpdateToken(q, n)
        PROVE  lock' = p /\ pc'[p] = pc[p] /\ scanned'[p] = scanned[p]
    <3>1. \E v : Enter(q, n, v)
      BY <2>2 DEF Register, Deregister, UpdateToken, Put
    <3>2. q # p
      BY <3>1 DEF Enter, Holding
    <3>. QED
      BY <3>1, <3>2 DEF Enter
  <2>3. ASSUME NEW q \in Procs, q # p PROVE ~Persist(q)
    <3>1. pc[q] \notin Holding
      BY <2>3 DEF LockInv
    <3>. QED
      BY <3>1 DEF Persist, Acquire, Scan, WriteTmp, RemoveOld, RenameTmp, Fail, ReloadAndReturn,
         Holding
  <2>4. ASSUME NEW q \in Procs, q # p, ClientGone(q)
        PROVE  lock' = p /\ pc'[p] = pc[p] /\ scanned'[p] = scanned[p]
    BY <2>4 DEF ClientGone, Forget
  <2>. QED
    BY <2>1, <2>2, <2>3, <2>4 DEF Next
<1>4. IInv /\ [Next]_vars => [\A p \in Procs : OwnerStep(p)]_vars
  BY <1>2, <1>3 DEF OwnerStep
<1>. QED
  BY <1>1, <1>4, Invariance, PTL DEF Spec, OwnerMovesOn
=============================================================================
