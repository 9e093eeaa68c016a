--------------------------- MODULE ServiceRegistry ---------------------------
(***************************************************************************)
(* edge-rathole-bridge: ServiceRegistry and the atomic_write of its config *)
(* file (service_registry.rs, config_writer.rs).                           *)
(*                                                                         *)
(* Concurrent calls of register, deregister and update_token change a      *)
(* DashMap without any common lock, then each one enters                   *)
(* persist_and_reload: take write_lock, copy the map shard by shard,       *)
(* render it, write a temporary file, unlink the old config, rename the    *)
(* new one over it, trigger a reload, drop the lock.  A caller whose client *)
(* goes away is dropped at the await it is at.                             *)
(*                                                                         *)
(* An entry (token, bind address) is abstracted to the number of the write *)
(* that produced it: two entries of one name are equal iff they come from  *)
(* the same write.                                                         *)
(***************************************************************************)
EXTENDS Naturals

CONSTANTS Procs,      \* concurrent callers
          Names,      \* service names (session ids)
          MaxWrites,  \* MaxWrites[n]: bound on the writes made to n
          Nobody,     \* write_lock is free
          NoContents  \* there is no temporary file

ASSUME RegistryAssumption ==
  /\ MaxWrites \in [Names -> Nat]
  /\ Nobody \notin Procs
  /\ Names # {}
  /\ NoContents \notin [Names -> [live : BOOLEAN, ver : Nat]]

VARIABLES services,   \* the DashMap: Entry of every name
          lock,       \* owner of write_lock
          pc,         \* where each call is
          target,     \* the name each call is about
          need,       \* the write of target each call must put on disk
          snap,       \* the copy of services each call is rendering
          scanned,    \* the names already copied into snap
          tmp,        \* contents of the temporary file, NoContents if absent
          present,    \* whether the config file exists
          file,       \* the contents the config file has, or last had
          loaded,     \* the table rathole last loaded
          acked,      \* latest write of every name answered with Ok
          failed,     \* whether the current write of a name was answered with Err
                      \* or with nothing, because its caller was gone
          last        \* how the call that last held write_lock ended

disk == <<tmp, present, file, loaded>>
outcome == <<acked, failed, last>>
vars == <<services, lock, pc, target, need, snap, scanned, disk, outcome>>

Entry == [live : BOOLEAN, ver : Nat]
Table == [Names -> Entry]
NoService == [live |-> FALSE, ver |-> 0]
EmptyTable == [n \in Names |-> NoService]
AnyName == CHOOSE n \in Names : TRUE   \* target of a caller that is idle

Holding == {"scan", "remove", "rename", "reload"}
PreRename == {"lock", "scan", "remove", "rename"}

TypeOK ==
  /\ services \in Table
  /\ lock \in Procs \cup {Nobody}
  /\ pc \in [Procs -> {"idle", "lock"} \cup Holding]
  /\ target \in [Procs -> Names]
  /\ need \in [Procs -> Nat]
  /\ snap \in [Procs -> Table]
  /\ scanned \in [Procs -> SUBSET Names]
  /\ tmp \in Table \cup {NoContents}
  /\ present \in BOOLEAN
  /\ file \in Table
  /\ loaded \in Table
  /\ acked \in [Names -> Nat]
  /\ failed \in [Names -> BOOLEAN]
  /\ last \in {"none", "ok", "err", "gone"}

Init ==
  /\ services = EmptyTable
  /\ lock = Nobody
  /\ pc = [p \in Procs |-> "idle"]
  /\ target = [p \in Procs |-> AnyName]
  /\ need = [p \in Procs |-> 0]
  /\ snap = [p \in Procs |-> EmptyTable]
  /\ scanned = [p \in Procs |-> {}]
  /\ tmp = NoContents
  /\ present = FALSE
  /\ file = EmptyTable
  /\ loaded = EmptyTable
  /\ acked = [n \in Names |-> 0]
  /\ failed = [n \in Names |-> FALSE]
  /\ last = "none"

-----------------------------------------------------------------------------
(* The mutations: register, deregister, update_token up to the call of     *)
(* persist_and_reload.                                                     *)

Enter(p, n, v) ==
  /\ pc[p] = "idle"
  /\ pc' = [pc EXCEPT ![p] = "lock"]
  /\ target' = [target EXCEPT ![p] = n]
  /\ need' = [need EXCEPT ![p] = v]
  /\ UNCHANGED <<lock, snap, scanned, disk, acked, last>>

\* Mutant: the map is copied by the call itself, before it queues for the lock.
PutAndCopy(p, n, alive) ==
  /\ services[n].ver < MaxWrites[n]
  /\ pc[p] = "idle"
  /\ services' = [services EXCEPT ![n] = [live |-> alive, ver |-> @.ver + 1]]
  /\ failed' = [failed EXCEPT ![n] = FALSE]
  /\ pc' = [pc EXCEPT ![p] = "lock"]
  /\ target' = [target EXCEPT ![p] = n]
  /\ need' = [need EXCEPT ![p] = services[n].ver + 1]
  /\ snap' = [snap EXCEPT ![p] = services']
  /\ scanned' = [scanned EXCEPT ![p] = Names]
  /\ UNCHANGED <<lock, disk, acked, last>>

Put(p, n, alive) ==
  /\ services[n].ver < MaxWrites[n]
  /\ services' = [services EXCEPT ![n] = [live |-> alive, ver |-> @.ver + 1]]
  /\ failed' = [failed EXCEPT ![n] = FALSE]
  /\ Enter(p, n, services[n].ver + 1)

\* services.insert replaces whatever was there.
Register(p, n) == Put(p, n, TRUE)

\* services.remove of an absent name changes nothing, and still persists.
Deregister(p, n) ==
  \/ services[n].live /\ Put(p, n, FALSE)
  \/ /\ ~services[n].live
     /\ Enter(p, n, services[n].ver)
     /\ UNCHANGED <<services, failed>>

\* An unknown name answers Ok(false) at once and changes nothing, so only the
\* known name is a step.
UpdateToken(p, n) == services[n].live /\ Put(p, n, TRUE)

-----------------------------------------------------------------------------
(* persist_and_reload and atomic_write.                                    *)

Goto(p, from, to) ==
  /\ pc[p] = from
  /\ pc' = [pc EXCEPT ![p] = to]

\* Mutant: write_lock does not exclude anyone.
AcquireShared(p) ==
  /\ Goto(p, "lock", "scan")
  /\ lock' = p
  /\ UNCHANGED <<services, target, need, snap, scanned, disk, outcome>>

Acquire(p) ==
  /\ lock = Nobody
  /\ Goto(p, "lock", "scan")
  /\ lock' = p
  /\ UNCHANGED <<services, target, need, snap, scanned, disk, outcome>>

\* services.iter() locks one shard at a time: writes to the other names go on.
Scan(p, n) ==
  /\ pc[p] = "scan"
  /\ n \notin scanned[p]
  /\ snap' = [snap EXCEPT ![p] = [@ EXCEPT ![n] = services[n]]]
  /\ scanned' = [scanned EXCEPT ![p] = @ \cup {n}]
  /\ UNCHANGED <<services, lock, pc, target, need, disk, outcome>>

\* Mutant: the copy is rendered before every shard was read.
WriteTmpEarly(p) ==
  /\ Goto(p, "scan", "remove")
  /\ tmp' = snap[p]
  /\ UNCHANGED <<services, lock, target, need, snap, scanned, present, file,
                 loaded, outcome>>

\* Mutant: the temporary file is written and never renamed.
WriteTmpOnly(p) ==
  /\ scanned[p] = Names
  /\ Goto(p, "scan", "reload")
  /\ tmp' = snap[p]
  /\ UNCHANGED <<services, lock, target, need, snap, scanned, present, file,
                 loaded, outcome>>

\* render_toml of the finished copy, then open, write_all, flush and sync_all of
\* the temporary file, whose name every call shares.
WriteTmp(p) ==
  /\ scanned[p] = Names
  /\ Goto(p, "scan", "remove")
  /\ tmp' = snap[p]
  /\ UNCHANGED <<services, lock, target, need, snap, scanned, present, file,
                 loaded, outcome>>

\* remove_file if the path exists; its error is ignored.
RemoveOld(p) ==
  /\ Goto(p, "remove", "rename")
  /\ present' \in {FALSE, present}
  /\ UNCHANGED <<services, lock, target, need, snap, scanned, tmp, file, loaded,
                 outcome>>

RenameTmp(p) ==
  /\ tmp # NoContents
  /\ Goto(p, "rename", "reload")
  /\ file' = tmp
  /\ present' = TRUE
  /\ tmp' = NoContents
  /\ UNCHANGED <<services, lock, target, need, snap, scanned, loaded, outcome>>

\* The locals of a call that is over.
Forget(p) ==
  /\ target' = [target EXCEPT ![p] = AnyName]
  /\ need' = [need EXCEPT ![p] = 0]
  /\ snap' = [snap EXCEPT ![p] = EmptyTable]
  /\ scanned' = [scanned EXCEPT ![p] = {}]

\* Returning drops the lock guard and the locals, on every path.
Return(p) == lock' = Nobody /\ Forget(p)

\* The current write of the call's name will not be reported as done.
NoteFailed(p) ==
  failed' = [failed EXCEPT ![target[p]] = @ \/ need[p] = services[target[p]].ver]

\* Mutant: a failed write or rename is logged and answered with Ok.
FailSwallowed(p) ==
  /\ \/ scanned[p] = Names /\ Goto(p, "scan", "idle")
     \/ Goto(p, "rename", "idle")
  /\ Return(p)
  /\ last' = "ok"
  /\ UNCHANGED <<services, disk, acked, failed>>

\* Mutant: the error path returns without dropping the lock guard.
FailKeepingLock(p) ==
  /\ \/ scanned[p] = Names /\ Goto(p, "scan", "idle")
     \/ Goto(p, "rename", "idle")
  /\ last' = "err"
  /\ UNCHANGED <<services, lock, target, need, snap, scanned, disk, acked, failed>>

\* Encoding, writing or renaming fails: `?` returns Err, and the map and the two
\* files stay as they are.
Fail(p) ==
  /\ \/ scanned[p] = Names /\ Goto(p, "scan", "idle")
     \/ Goto(p, "rename", "idle")
  /\ Return(p)
  /\ NoteFailed(p)
  /\ last' = "err"
  /\ UNCHANGED <<services, disk, acked>>

\* trigger_reload succeeds or only logs; either way the call returns Ok.
ReloadAndReturn(p) ==
  /\ Goto(p, "reload", "idle")
  /\ Return(p)
  /\ loaded' \in {loaded, file}
  /\ acked' = [acked EXCEPT ![target[p]] = IF need[p] > @ THEN need[p] ELSE @]
  /\ last' = "ok"
  /\ UNCHANGED <<services, tmp, present, file, failed>>

\* The awaits at which a call can be dropped: the queue for write_lock, and each
\* file operation or reload, which may still take effect.
CutOff(p) ==
  \/ pc[p] = "lock" /\ UNCHANGED disk
  \/ /\ pc[p] = "scan" /\ scanned[p] = Names
     /\ tmp' \in {tmp, snap[p]}
     /\ UNCHANGED <<present, file, loaded>>
  \/ pc[p] = "remove" /\ present' \in {FALSE, present} /\ UNCHANGED <<tmp, file, loaded>>
  \/ /\ pc[p] = "rename"
     /\ \/ UNCHANGED <<tmp, present, file>>
        \/ tmp # NoContents /\ file' = tmp /\ present' = TRUE /\ tmp' = NoContents
     /\ UNCHANGED loaded
  \/ pc[p] = "reload" /\ loaded' \in {loaded, file} /\ UNCHANGED <<tmp, present, file>>

\* The caller's client disconnects: axum drops the handler and this call with it,
\* and the guard of write_lock if it has it.  Nobody is told anything, and the map
\* keeps the change.
ClientGone(p) ==
  /\ CutOff(p)
  /\ pc' = [pc EXCEPT ![p] = "idle"]
  /\ Forget(p)
  /\ lock' = IF lock = p THEN Nobody ELSE lock
  /\ last' = IF lock = p THEN "gone" ELSE last
  /\ NoteFailed(p)
  /\ UNCHANGED <<services, acked>>

-----------------------------------------------------------------------------
Persist(p) ==
  \/ Acquire(p)
  \/ \E n \in Names : Scan(p, n)
  \/ WriteTmp(p)
  \/ RemoveOld(p)
  \/ RenameTmp(p)
  \/ Fail(p)
  \/ ReloadAndReturn(p)

Next ==
  \E p \in Procs :
    \/ \E n \in Names : Register(p, n) \/ Deregister(p, n) \/ UpdateToken(p, n)
    \/ Persist(p)
    \/ ClientGone(p)

Spec == Init /\ [][Next]_vars

\* tokio polls every woken task, and its Mutex hands the lock over in arrival
\* order, so a waiter that can acquire again and again does acquire.
Fairness == \A p \in Procs : WF_vars(Persist(p)) /\ SF_vars(Acquire(p))

FairSpec == Spec /\ Fairness

-----------------------------------------------------------------------------
(* Properties.                                                             *)

\* A call that returned Ok has its write, or a later one to the same name, in
\* the last complete config file, whatever the other callers did meanwhile.
AckedOnDisk == \A n \in Names : acked[n] <= file[n].ver

\* Unwritten(n): the config file is behind the map for name n.
Unwritten(n) == file[n] # services[n]

\* The config file is behind the map only for a change whose own call is still
\* on its way to the rename, was answered with Err, or was dropped with its client
\* before it was answered: no call leaves a change of its own unwritten and
\* reports success, and two racing calls never settle on the older table.
NoSilentLoss ==
  \A n \in Names :
    Unwritten(n) =>
      \/ failed[n]
      \/ \E p \in Procs :
           /\ pc[p] \in PreRename
           /\ target[p] = n
           /\ need[p] = services[n].ver

\* A reader finds no config file only before the first call has returned Ok,
\* while the owner of write_lock is between unlink and rename, or after a call
\* that failed or was dropped under write_lock and until the next Ok.
AbsentOnlyInWindow ==
  ~present =>
    last # "ok" \/ \E p \in Procs : lock = p /\ pc[p] = "rename"

\* rathole never goes back to an older entry of any name: reloads happen under
\* write_lock and read a file that only moves forward.
LoadedMovesForward ==
  [][\A n \in Names : loaded[n].ver <= loaded'[n].ver]_loaded

\* Every call comes to an end: no path keeps write_lock, provided the reload it
\* waits for ends (reload_via_command has no timeout).
EveryCallReturns == \A p \in Procs : (pc[p] # "idle") ~> (pc[p] = "idle")

\* The registry implements the durable table its callers are promised.
Abstract == INSTANCE DurableTable WITH
  cur <- [n \in Names |-> services[n].ver],
  disk <- [n \in Names |-> file[n].ver],
  present <- present,
  acked <- acked

DurableTableSpec == Abstract!Spec
=============================================================================
