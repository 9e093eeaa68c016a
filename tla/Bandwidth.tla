------------------------------ MODULE Bandwidth ------------------------------
(***************************************************************************)
(* Bandwidth accounting of one session: the 60-second reporter loop and    *)
(* its sequence files (edge-bandwidth), the callback client with its       *)
(* retries (edge-callback-client), the byte counter of the SFU session,    *)
(* and dun-api, which bills a delta once by its sequence number.           *)
(*                                                                         *)
(* Bytes are counted in units of which MinDelta make the 0.1 MB below      *)
(* which a delta is not reported.  traffic, excused and kept are history:  *)
(* no step depends on them.                                                *)
(***************************************************************************)
EXTENDS Integers

CONSTANTS MinDelta,      \* MIN_DELTA_MB
          Attempts,      \* tries of one callback
          MaxTraffic,    \* bound on the traffic
          MaxSessions,   \* bound on the times the session is provisioned
          MaxRestarts    \* bound on the crashes

ASSUME BandwidthAssumption ==
  /\ MinDelta \in Nat \ {0}
  /\ Attempts \in Nat \ {0}
  /\ MaxTraffic \in Nat
  /\ MaxSessions \in Nat
  /\ MaxRestarts \in Nat

VARIABLES
  live,       \* the session is in RouterManager's map
  counter,    \* get_session_bytes: what its present viewers' transports count
  rpc,        \* the reporter loop
  active,     \* the session was in the list of this tick
  known,      \* the reporter has an entry for it ...
  cum, seq,   \* ... its cumulative_bytes and next_sequence
  sampled,    \* the counter read for the report under way
  attempt,    \* the try of its callback
  disk,       \* the sequence file, NoFile if there is none
  late,       \* requests that timed out here and may still arrive
  last,       \* dun-api's lastBandwidthSequence
  billed,     \* what dun-api has added up
  sessions, restarts,
  traffic,    \* all the bytes there have been
  excused,    \* something happened that may cost traffic
  kept        \* no sequence file was removed, lost or left behind

sfu == <<live, counter, sessions, traffic>>
entry == <<known, cum, seq>>
reporter == <<rpc, active, entry, sampled, attempt>>
api == <<last, billed>>
vars == <<sfu, reporter, disk, late, api, restarts, excused, kept>>

NoFile == -1
Reports == [seq : Nat, delta : Nat]

TypeOK ==
  /\ live \in BOOLEAN /\ active \in BOOLEAN /\ known \in BOOLEAN
  /\ excused \in BOOLEAN /\ kept \in BOOLEAN
  /\ counter \in 0 .. MaxTraffic
  /\ traffic \in 0 .. MaxTraffic
  /\ sampled \in 0 .. MaxTraffic
  /\ cum \in 0 .. MaxTraffic
  /\ seq \in Nat
  /\ attempt \in 0 .. Attempts
  /\ rpc \in {"boot", "idle", "sample", "send", "save", "rename", "ended", "remove"}
  /\ disk \in Nat \cup {NoFile}
  /\ late \subseteq Reports
  /\ last \in Nat \cup {-1}
  /\ billed \in Nat
  /\ sessions \in 0 .. MaxSessions
  /\ restarts \in 0 .. MaxRestarts

Init ==
  /\ live = FALSE /\ counter = 0 /\ sessions = 0 /\ traffic = 0
  /\ rpc = "boot" /\ active = FALSE /\ sampled = 0 /\ attempt = 0
  /\ known = FALSE /\ cum = 0 /\ seq = 0
  /\ disk = NoFile
  /\ late = {}
  /\ last = -1 /\ billed = 0
  /\ restarts = 0
  /\ excused = FALSE
  /\ kept = TRUE

-----------------------------------------------------------------------------
(* The SFU session whose bytes are counted.                                *)

Provision ==
  /\ ~live
  /\ sessions < MaxSessions
  /\ live' = TRUE
  /\ sessions' = sessions + 1
  /\ UNCHANGED <<counter, traffic, reporter, disk, late, api, restarts, excused, kept>>

Traffic ==
  /\ live
  /\ traffic < MaxTraffic
  /\ traffic' = traffic + 1
  /\ counter' = counter + 1
  /\ UNCHANGED <<live, sessions, reporter, disk, late, api, restarts, excused, kept>>

\* The counter is the sum over the viewers of the moment: a viewer that leaves
\* takes its bytes along.
ViewerLeaves ==
  /\ live
  /\ \E rest \in 0 .. counter - 1 : counter' = rest
  /\ excused' = TRUE
  /\ UNCHANGED <<live, sessions, traffic, reporter, disk, late, api, restarts, kept>>

CloseSession ==
  /\ live
  /\ live' = FALSE
  /\ counter' = 0
  /\ excused' = TRUE
  /\ UNCHANGED <<sessions, traffic, reporter, disk, late, api, restarts, kept>>

-----------------------------------------------------------------------------
(* dun-api: only a sequence above the last one counts.                     *)

Receive(r) ==
  /\ last' = IF r.seq > last THEN r.seq ELSE last
  /\ billed' = IF r.seq > last THEN billed + r.delta ELSE billed

Lost == UNCHANGED api

LateArrives ==
  /\ \E r \in late : late' = late \ {r} /\ (Receive(r) \/ Lost)
  /\ UNCHANGED <<sfu, reporter, disk, restarts, excused, kept>>

-----------------------------------------------------------------------------
(* The reporter loop.                                                      *)

\* load_all: the bytes are not persisted and start at zero.
Load ==
  /\ rpc = "boot"
  /\ rpc' = "idle"
  /\ \/ /\ known' = (disk # NoFile)
        /\ seq' = IF disk = NoFile THEN 0 ELSE disk
        /\ UNCHANGED kept
     \/ /\ kept' = FALSE            \* the directory cannot be read
        /\ UNCHANGED <<known, seq>>
  /\ UNCHANGED <<sfu, active, cum, sampled, attempt, disk, late, api, restarts, excused>>

\* A tick lists the active sessions.
Tick ==
  /\ rpc = "idle"
  /\ active' = live
  /\ rpc' = IF live THEN "sample" ELSE "ended"
  /\ UNCHANGED <<sfu, entry, sampled, attempt, disk, late, api, restarts, excused, kept>>

\* Mutant: a delta that is too small to report is taken off the next one.
SampleForgetting ==
  /\ rpc = "sample"
  /\ known' = TRUE
  /\ \/ /\ counter < cum + MinDelta
        /\ rpc' = "ended"
        /\ cum' = counter
        /\ UNCHANGED <<sampled, attempt>>
     \/ /\ counter >= cum + MinDelta
        /\ rpc' = "send"
        /\ sampled' = counter
        /\ attempt' = 1
        /\ UNCHANGED cum
  /\ UNCHANGED <<sfu, active, seq, disk, late, api, restarts, excused, kept>>

\* Mutant: the difference is taken without saturation.
SampleUnsaturated ==
  /\ rpc = "sample"
  /\ known' = TRUE
  /\ \/ /\ counter \in cum .. cum + MinDelta - 1
        /\ rpc' = "ended"
        /\ UNCHANGED <<sampled, attempt>>
     \/ /\ counter \notin cum .. cum + MinDelta - 1
        /\ rpc' = "send"
        /\ sampled' = counter
        /\ attempt' = 1
  /\ UNCHANGED <<sfu, active, cum, seq, disk, late, api, restarts, excused, kept>>

\* report_one: the entry is made if there is none; below 0.1 MB it is left as
\* it is.  A session that is gone by now counts zero bytes.
Sample ==
  /\ rpc = "sample"
  /\ known' = TRUE
  /\ \/ /\ counter < cum + MinDelta
        /\ rpc' = "ended"
        /\ UNCHANGED <<sampled, attempt>>
     \/ /\ counter >= cum + MinDelta
        /\ rpc' = "send"
        /\ sampled' = counter
        /\ attempt' = 1
  /\ UNCHANGED <<sfu, active, cum, seq, disk, late, api, restarts, excused, kept>>

\* A transport's statistics cannot be had: the report is left out.
SampleFails ==
  /\ rpc = "sample"
  /\ live
  /\ rpc' = "ended"
  /\ UNCHANGED <<sfu, active, entry, sampled, attempt, disk, late, api, restarts,
                 excused, kept>>

\* Mutant: every try is an event of its own.
ReportPerTry == [seq |-> seq + attempt - 1, delta |-> sampled - cum]

Report == [seq |-> seq, delta |-> sampled - cum]

\* What one POST does when no answer comes back: it arrived, or not, or not yet.
Unanswered ==
  \/ Receive(Report) /\ UNCHANGED late
  \/ Lost /\ UNCHANGED late
  \/ Lost /\ late' = late \cup {Report}

\* send returned Ok: the entry moves on before the file is written.
Sent ==
  /\ rpc' = "save"
  /\ seq' = seq + 1
  /\ cum' = sampled
  /\ attempt' = 0
  /\ UNCHANGED <<sfu, active, known, sampled, disk, restarts, kept>>

Answered ==
  /\ rpc = "send"
  /\ Receive(Report)
  /\ Sent
  /\ UNCHANGED <<late, excused>>

TryAgain ==
  /\ rpc = "send"
  /\ attempt < Attempts
  /\ attempt' = attempt + 1
  /\ Unanswered
  /\ UNCHANGED <<sfu, rpc, active, entry, sampled, disk, restarts, excused, kept>>

\* Mutant: the client does not give up.
GiveUpNever ==
  /\ rpc = "send"
  /\ attempt = Attempts
  /\ Unanswered
  /\ UNCHANGED <<sfu, reporter, disk, restarts, excused, kept>>

\* The last try failed: enqueue does nothing, and send returns Ok.
GiveUp ==
  /\ rpc = "send"
  /\ attempt = Attempts
  /\ Unanswered
  /\ Sent
  /\ excused' = (excused \/ last' < seq)

\* Mutant: the file gets the number of the report, not of the next one.
SaveRenameOld ==
  /\ rpc = "rename"
  /\ rpc' = "ended"
  /\ disk' = seq - 1
  /\ UNCHANGED <<sfu, active, entry, sampled, attempt, late, api, restarts, excused, kept>>

\* atomic_write: the temporary file is written, the old file unlinked ...
SaveUnlink ==
  /\ rpc = "save"
  /\ rpc' = "rename"
  /\ disk' = NoFile
  /\ UNCHANGED <<sfu, active, entry, sampled, attempt, late, api, restarts, excused, kept>>

\* ... and the temporary file renamed.
SaveRename ==
  /\ rpc = "rename"
  /\ rpc' = "ended"
  /\ disk' = seq
  /\ UNCHANGED <<sfu, active, entry, sampled, attempt, late, api, restarts, excused, kept>>

\* A failed save is logged.
SaveFails ==
  /\ rpc \in {"save", "rename"}
  /\ rpc' = "ended"
  /\ kept' = FALSE
  /\ UNCHANGED <<sfu, active, entry, sampled, attempt, disk, late, api, restarts, excused>>

\* A session that was not in this tick's list has ended: its entry goes ...
Ended ==
  /\ rpc = "ended"
  /\ \/ /\ active \/ ~known
        /\ rpc' = "idle"
        /\ UNCHANGED <<entry, excused>>
     \/ /\ ~active /\ known
        /\ rpc' = "remove"
        /\ known' = FALSE /\ cum' = 0 /\ seq' = 0
        /\ excused' = TRUE
  /\ UNCHANGED <<sfu, active, sampled, attempt, disk, late, api, restarts, kept>>

\* ... and its file, unless that fails, which is logged.
Remove ==
  /\ rpc = "remove"
  /\ rpc' = "idle"
  /\ disk' \in {NoFile, disk}
  /\ kept' = FALSE
  /\ UNCHANGED <<sfu, active, entry, sampled, attempt, late, api, restarts, excused>>

Loop == Load \/ Tick \/ Sample \/ SampleFails \/ Answered \/ TryAgain \/ GiveUp
        \/ SaveUnlink \/ SaveRename \/ SaveFails \/ Ended \/ Remove

\* The process dies, with it the sessions and the reporter's memory.
Restart ==
  /\ restarts < MaxRestarts
  /\ restarts' = restarts + 1
  /\ live' = FALSE /\ counter' = 0
  /\ rpc' = "boot" /\ active' = FALSE /\ sampled' = 0 /\ attempt' = 0
  /\ known' = FALSE /\ cum' = 0 /\ seq' = 0
  /\ \/ UNCHANGED late
     \/ rpc = "send" /\ late' = late \cup {Report}
  /\ excused' = TRUE
  /\ kept' = (kept /\ rpc # "rename")
  /\ UNCHANGED <<sessions, traffic, disk, api>>

Next == Provision \/ Traffic \/ ViewerLeaves \/ CloseSession \/ LateArrives
        \/ Loop \/ Restart

\* The loop is a task the runtime keeps running; every request has a timeout.
Spec == Init /\ [][Next]_vars /\ WF_vars(Loop)

-----------------------------------------------------------------------------
(* Properties.                                                             *)

\* No byte is billed twice, whatever is retried, delayed, lost or forgotten.
NeverOverbilled == billed <= traffic

\* As long as no viewer left, the session did not end, the edge did not restart
\* and no callback was given up, every byte is either billed or still ahead of the
\* reporter, exactly once: through lost answers, retries, late duplicates, small
\* deltas and failed saves.
ExactlyOnce ==
  ~excused =>
    traffic = billed + counter - cum
              - (IF rpc = "send" /\ last = seq THEN sampled - cum ELSE 0)

\* The restart contract of the sequence files: the number a restart reads back
\* repeats at most the one report that was under way.  It rests on files being
\* removed by nobody, and the loop removes them (Ended).
SequenceKept ==
  kept /\ rpc # "rename" => last <= IF disk = NoFile THEN 0 ELSE disk

\* Reports of all sessions are sent one after the other by one loop; a dun-api
\* that never answers does not stop it.
TickEnds == rpc # "idle" ~> rpc = "idle"
=============================================================================
