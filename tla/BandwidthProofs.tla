--------------------------- MODULE BandwidthProofs ---------------------------
(***************************************************************************)
(* Theorems about Bandwidth, for every traffic, number of sessions, of     *)
(* restarts and of tries.                                                  *)
(***************************************************************************)
EXTENDS Bandwidth, FiniteSetTheorems, TLAPS

\* The counter has only bytes that there have been, and the delta of a report
\* that is being sent is not negative.
CountInv ==
  /\ counter <= traffic
  /\ rpc = "send" => cum <= sampled

\* What load_all would read back now.
Stored == IF disk = NoFile THEN 0 ELSE disk

\* While no file was removed, lost or left behind: the next sequence number is the
\* one on disk, or one ahead between the answer and the rename, and dun-api has seen
\* and will see none above it.
SeqInv ==
  kept =>
    /\ rpc \in {"idle", "sample", "send", "ended"} => seq = Stored
    /\ rpc = "save" => seq = Stored + 1
    /\ rpc # "rename" => last <= Stored /\ \A r \in late : r.seq <= Stored
    /\ rpc = "rename" => last <= seq /\ \A r \in late : r.seq <= seq

\* While nothing has happened that may cost traffic: dun-api has every report up to
\* the one under way, and what is late is that one or an older one.
OrderInv ==
  ~excused =>
    /\ last \in {seq - 1, seq}
    /\ last = seq => rpc = "send"
    /\ \A r \in late : r.seq <= seq /\ (r.seq = seq => rpc = "send" /\ r.delta = sampled - cum)
    /\ rpc = "boot" => disk = NoFile /\ seq = 0
    /\ rpc # "remove"

\* The Boolean variables, for the prover that deals with them.
Flags ==
  /\ live \in BOOLEAN /\ active \in BOOLEAN /\ known \in BOOLEAN
  /\ excused \in BOOLEAN /\ kept \in BOOLEAN

IInv == TypeOK /\ CountInv /\ SeqInv /\ OrderInv /\ ExactlyOnce

-----------------------------------------------------------------------------

\* Init fixes every variable.
LEMMA InitIInv == Init => IInv
<1>. SUFFICES ASSUME Init PROVE IInv
  OBVIOUS
<1>1. Flags
  BY Zenon DEF Init, Flags
<1>2. TypeOK
  BY <1>1, BandwidthAssumption DEF Init, Flags, TypeOK, NoFile, Reports
<1>3. CountInv /\ SeqInv /\ OrderInv /\ ExactlyOnce
  BY DEF Init, CountInv, SeqInv, OrderInv, ExactlyOnce, Stored, NoFile
<1>. QED
  BY <1>2, <1>3 DEF IInv

\* Every step keeps the types and the counts.
LEMMA TypeStep ==
  ASSUME TypeOK, CountInv, [Next]_vars
  PROVE  TypeOK' /\ CountInv'
<1>. USE BandwidthAssumption DEF TypeOK, CountInv, Reports, NoFile, sfu, entry, reporter, api, vars
<1>1. CASE Provision
  BY <1>1 DEF Provision
<1>2. CASE Traffic
  BY <1>2 DEF Traffic
<1>3. CASE ViewerLeaves
  BY <1>3 DEF ViewerLeaves
<1>4. CASE CloseSession
  <2>1. Flags'
    BY <1>4, Zenon DEF CloseSession, Flags
  <2>. QED
    BY <1>4, <2>1 DEF CloseSession, Flags
<1>5. CASE LateArrives
  BY <1>5 DEF LateArrives, Receive, Lost
<1>6. CASE Load
  <2>1. Flags'
    BY <1>6, Zenon DEF Load, Flags
  <2>. QED
    BY <1>6, <2>1 DEF Load, Flags
<1>7. CASE Tick
  BY <1>7 DEF Tick
<1>8. CASE Sample
  BY <1>8 DEF Sample
<1>9. CASE SampleFails
  BY <1>9 DEF SampleFails
<1>10. CASE Answered
  BY <1>10 DEF Answered, Receive, Report, Sent
<1>11. CASE TryAgain
  BY <1>11 DEF TryAgain, Unanswered, Receive, Lost, Report
<1>12. CASE GiveUp
  BY <1>12 DEF GiveUp, Unanswered, Receive, Lost, Report, Sent
<1>13. CASE SaveUnlink
  BY <1>13 DEF SaveUnlink
<1>14. CASE SaveRename
  BY <1>14 DEF SaveRename
<1>15. CASE SaveFails
  BY <1>15 DEF SaveFails
<1>16. CASE Ended
  <2>1. Flags'
    BY <1>16, Zenon DEF Ended, Flags
  <2>. QED
    BY <1>16, <2>1 DEF Ended, Flags
<1>17. CASE Remove
  BY <1>17 DEF Remove
<1>18. CASE Restart
  <2>1. Flags'
    BY <1>18, Zenon DEF Restart, Flags
  <2>. QED
    BY <1>18, <2>1 DEF Restart, Report, Flags
<1>19. CASE UNCHANGED vars
  BY <1>19
<1>. QED
  BY <1>1, <1>2, <1>3, <1>4, <1>5, <1>6, <1>7, <1>8, <1>9, <1>10, <1>11, <1>12, <1>13,
     <1>14, <1>15, <1>16, <1>17, <1>18, <1>19 DEF Next, Loop

\* Every step keeps the sequence number and its file together.
LEMMA SeqStep ==
  ASSUME TypeOK, SeqInv, [Next]_vars
  PROVE  SeqInv'
<1>. USE BandwidthAssumption DEF TypeOK, SeqInv, Stored, Reports, NoFile, sfu, entry, reporter, api, vars
<1>1. CASE Provision
  BY <1>1 DEF Provision
<1>2. CASE Traffic
  BY <1>2 DEF Traffic
<1>3. CASE ViewerLeaves
  BY <1>3 DEF ViewerLeaves
<1>4. CASE CloseSession
  BY <1>4 DEF CloseSession
<1>5. CASE LateArrives
  BY <1>5 DEF LateArrives, Receive, Lost
<1>6. CASE Load
  BY <1>6 DEF Load
<1>7. CASE Tick
  BY <1>7 DEF Tick
<1>8. CASE Sample
  BY <1>8 DEF Sample
<1>9. CASE SampleFails
  BY <1>9 DEF SampleFails
<1>10. CASE Answered
  BY <1>10 DEF Answered, Receive, Report, Sent
<1>11. CASE TryAgain
  BY <1>11 DEF TryAgain, Unanswered, Receive, Lost, Report
<1>12. CASE GiveUp
  BY <1>12 DEF GiveUp, Unanswered, Receive, Lost, Report, Sent
<1>13. CASE SaveUnlink
  BY <1>13 DEF SaveUnlink
<1>14. CASE SaveRename
  BY <1>14 DEF SaveRename
<1>15. CASE SaveFails
  BY <1>15 DEF SaveFails
<1>16. CASE Ended
  BY <1>16 DEF Ended
<1>17. CASE Remove
  BY <1>17 DEF Remove
<1>18. CASE Restart
  <2>1. kept' => kept /\ rpc # "rename"
    BY <1>18, Zenon DEF Restart
  <2>2. rpc' = "boot" /\ disk' = disk /\ last' = last /\ seq' = 0 /\ cum' = 0
    BY <1>18 DEF Restart
  <2>3. (late' = late) \/ (rpc = "send" /\ late' = late \cup {Report})
    BY <1>18 DEF Restart
  <2>. QED
    BY <2>1, <2>2, <2>3 DEF Report
<1>19. CASE UNCHANGED vars
  BY <1>19
<1>. QED
  BY <1>1, <1>2, <1>3, <1>4, <1>5, <1>6, <1>7, <1>8, <1>9, <1>10, <1>11, <1>12, <1>13,
     <1>14, <1>15, <1>16, <1>17, <1>18, <1>19 DEF Next, Loop

\* Every step keeps the account.
LEMMA OrderStep ==
  ASSUME TypeOK, CountInv, OrderInv, ExactlyOnce, [Next]_vars
  PROVE  OrderInv' /\ ExactlyOnce'
<1>. USE BandwidthAssumption DEF TypeOK, CountInv, OrderInv, ExactlyOnce, Reports, NoFile, sfu, entry, reporter, api, vars
<1>1. CASE Provision
  BY <1>1 DEF Provision
<1>2. CASE Traffic
  BY <1>2 DEF Traffic
<1>3. CASE ViewerLeaves
  BY <1>3 DEF ViewerLeaves
<1>4. CASE CloseSession
  BY <1>4 DEF CloseSession
<1>5. CASE LateArrives
  BY <1>5 DEF LateArrives, Receive, Lost
<1>6. CASE Load
  BY <1>6 DEF Load
<1>7. CASE Tick
  BY <1>7 DEF Tick
<1>8. CASE Sample
  BY <1>8 DEF Sample
<1>9. CASE SampleFails
  BY <1>9 DEF SampleFails
<1>10. CASE Answered
  BY <1>10 DEF Answered, Receive, Report, Sent
<1>11. CASE TryAgain
  BY <1>11 DEF TryAgain, Unanswered, Receive, Lost, Report
<1>12. CASE GiveUp
  <2>1. ~excused' => ~excused /\ ~(last' < seq)
    BY <1>12, Zenon DEF GiveUp
  <2>2. rpc = "send" /\ Unanswered /\ Sent
    BY <1>12 DEF GiveUp
  <2>. QED
    BY <2>1, <2>2 DEF Unanswered, Receive, Lost, Report, Sent
<1>13. CASE SaveUnlink
  BY <1>13 DEF SaveUnlink
<1>14. CASE SaveRename
  BY <1>14 DEF SaveRename
<1>15. CASE SaveFails
  BY <1>15 DEF SaveFails
<1>16. CASE Ended
  BY <1>16 DEF Ended
<1>17. CASE Remove
  BY <1>17 DEF Remove
<1>18. CASE Restart
  BY <1>18 DEF Restart, Report
<1>19. CASE UNCHANGED vars
  BY <1>19
<1>. QED
  BY <1>1, <1>2, <1>3, <1>4, <1>5, <1>6, <1>7, <1>8, <1>9, <1>10, <1>11, <1>12, <1>13,
     <1>14, <1>15, <1>16, <1>17, <1>18, <1>19 DEF Next, Loop

\* The inductive invariant holds in every reachable state.
THEOREM Invariance == Spec => []IInv
<1>1. IInv /\ [Next]_vars => IInv'
  BY TypeStep, SeqStep, OrderStep DEF IInv
<1>. QED
  BY <1>1, InitIInv, PTL DEF Spec

\* Every variable keeps its type: bytes never exceed the traffic, and the delta of a
\* report is a natural number although the counter it comes from may fall.
THEOREM TypeCorrect == Spec => []TypeOK
<1>1. IInv => TypeOK
  BY DEF IInv
<1>. QED
  BY <1>1, Invariance, PTL

\* While no viewer left, no session ended, nothing restarted and no callback was given
\* up, every byte is billed or still to be billed, exactly once.
THEOREM ExactlyOnceHolds == Spec => []ExactlyOnce
<1>1. IInv => ExactlyOnce
  BY DEF IInv
<1>. QED
  BY <1>1, Invariance, PTL

\* The sequence number that a restart reads back is not behind dun-api's.
THEOREM SequenceKeptHolds == Spec => []SequenceKept
<1>1. IInv => SequenceKept
  BY DEF IInv, SeqInv, SequenceKept, Stored
<1>. QED
  BY <1>1, Invariance, PTL

-----------------------------------------------------------------------------
(* Nothing is billed twice.                                                *)

\* The reports that dun-api would still bill: one under way, or late.
Pending == {r \in late \cup (IF rpc = "send" THEN {Report} ELSE {}) : r.seq > last}

Positive(n) == IF n > 0 THEN n ELSE 0

\* The bytes of the counter that no report has yet.  After a tick that did not list
\* the session all of them are: the entry goes, and the next one starts from zero.
Ahead ==
  IF rpc = "ended" /\ active = FALSE THEN counter
  ELSE Positive(counter - IF rpc = "send" THEN sampled ELSE cum)

\* The bytes 1 .. n can be shared out so that nobody's share is another's: b of them
\* billed, a of them ahead of the reporter, and r.delta of them for every r in P.
Shares(P, b, a, n) ==
  \E own \in [Reports -> SUBSET (1 .. n)], B \in SUBSET (1 .. n), A \in SUBSET (1 .. n) :
    /\ Cardinality(B) >= b /\ Cardinality(A) >= a /\ A \cap B = {}
    /\ \A r \in P : /\ Cardinality(own[r]) >= r.delta
                    /\ own[r] \cap A = {} /\ own[r] \cap B = {}
    /\ \A r, q \in P : r # q => own[r] \cap own[q] = {}

\* A listed session is reported in the same tick; a session that is gone counts nothing.
ListInv ==
  /\ rpc \in {"sample", "send", "save", "rename"} => active = TRUE
  /\ live = FALSE => counter = 0

PaidInv == ListInv /\ Shares(Pending, billed, Ahead, traffic)

\* A difference of counts, cut off at zero.
LEMMA PositiveBound ==
  \A m, n \in Nat : Positive(m - n) \in Int /\ Positive(m - n) <= m
BY DEF Positive

\* A share has a size.
LEMMA Share ==
  ASSUME NEW n \in Nat, NEW S \in SUBSET (1 .. n)
  PROVE  IsFiniteSet(S) /\ Cardinality(S) \in Nat /\ Cardinality(S) <= n
<1>1. IsFiniteSet(1 .. n) /\ Cardinality(1 .. n) = n
  BY FS_Interval
<1>. QED
  BY <1>1, FS_Subset, FS_CardinalityType

\* Less may be shared out.
LEMMA SharesLess ==
  ASSUME NEW P, NEW Q \in SUBSET P, NEW b, NEW n \in Nat, NEW a \in Int, NEW c \in Int,
         c <= a, Shares(P, b, a, n)
  PROVE  Shares(Q, b, c, n)
<1>1. PICK own \in [Reports -> SUBSET (1 .. n)], B \in SUBSET (1 .. n), A \in SUBSET (1 .. n) :
        /\ Cardinality(B) >= b /\ Cardinality(A) >= a /\ A \cap B = {}
        /\ \A r \in P : /\ Cardinality(own[r]) >= r.delta
                        /\ own[r] \cap A = {} /\ own[r] \cap B = {}
        /\ \A r, q \in P : r # q => own[r] \cap own[q] = {}
  BY DEF Shares
<1>2. Cardinality(A) \in Nat
  BY Share
<1>3. Cardinality(A) >= c
  BY <1>1, <1>2
<1>. QED
  BY <1>1, <1>3 DEF Shares

\* A new byte is ahead of the reporter.
LEMMA SharesGrow ==
  ASSUME NEW P \in SUBSET Reports, NEW b, NEW a \in Int, NEW n \in Nat, Shares(P, b, a, n)
  PROVE  Shares(P, b, a + 1, n + 1)
<1>1. PICK own \in [Reports -> SUBSET (1 .. n)], B \in SUBSET (1 .. n), A \in SUBSET (1 .. n) :
        /\ Cardinality(B) >= b /\ Cardinality(A) >= a /\ A \cap B = {}
        /\ \A r \in P : /\ Cardinality(own[r]) >= r.delta
                        /\ own[r] \cap A = {} /\ own[r] \cap B = {}
        /\ \A r, q \in P : r # q => own[r] \cap own[q] = {}
  BY DEF Shares
<1>. DEFINE C == A \cup {n + 1}
<1>2. 1 .. n \subseteq 1 .. n + 1 /\ n + 1 \in 1 .. n + 1 /\ n + 1 \notin 1 .. n
  OBVIOUS
<1>3. Cardinality(C) >= a + 1
  <2>1. IsFiniteSet(A)
    BY Share
  <2>2. Cardinality(A) \in Nat
    BY Share
  <2>3. Cardinality(C) = Cardinality(A) + 1
    BY <1>2, <2>1, FS_AddElement
  <2>. QED
    BY <1>1, <2>2, <2>3
<1>4. /\ own \in [Reports -> SUBSET (1 .. n + 1)]
      /\ B \in SUBSET (1 .. n + 1) /\ C \in SUBSET (1 .. n + 1)
  BY <1>2
<1>5. C \cap B = {} /\ \A r \in P : own[r] \cap C = {}
  <2>1. n + 1 \notin B /\ \A r \in P : n + 1 \notin own[r]
    BY <1>2
  <2>. QED
    BY <1>1, <2>1
<1>. HIDE DEF C
<1>. QED
  BY <1>1, <1>3, <1>4, <1>5 DEF Shares

\* What is ahead becomes a report.
LEMMA SharesTake ==
  ASSUME NEW P \in SUBSET Reports, NEW b, NEW n \in Nat, NEW r \in Reports,
         Shares(P, b, r.delta, n)
  PROVE  Shares(P \cup {r}, b, 0, n)
<1>1. PICK own \in [Reports -> SUBSET (1 .. n)], B \in SUBSET (1 .. n), A \in SUBSET (1 .. n) :
        /\ Cardinality(B) >= b /\ Cardinality(A) >= r.delta /\ A \cap B = {}
        /\ \A x \in P : /\ Cardinality(own[x]) >= x.delta
                        /\ own[x] \cap A = {} /\ own[x] \cap B = {}
        /\ \A x, q \in P : x # q => own[x] \cap own[q] = {}
  BY DEF Shares
<1>. DEFINE gets == [own EXCEPT ![r] = A]
<1>2. /\ gets \in [Reports -> SUBSET (1 .. n)] /\ gets[r] = A
      /\ \A x \in Reports \ {r} : gets[x] = own[x]
  OBVIOUS
<1>. HIDE DEF gets
<1>3. \A x \in P \cup {r} : /\ Cardinality(gets[x]) >= x.delta
                            /\ gets[x] \cap {} = {} /\ gets[x] \cap B = {}
  BY <1>1, <1>2
<1>4. \A x, q \in P \cup {r} : x # q => gets[x] \cap gets[q] = {}
  BY <1>1, <1>2
<1>5. Cardinality({}) >= 0
  BY FS_EmptySet
<1>. QED
  BY <1>1, <1>2, <1>3, <1>4, <1>5 DEF Shares

\* A report is billed.
LEMMA SharesPay ==
  ASSUME NEW P \in SUBSET Reports, NEW b \in Nat, NEW a, NEW n \in Nat, NEW r \in P,
         Shares(P, b, a, n)
  PROVE  Shares(P \ {r}, b + r.delta, a, n)
<1>1. PICK own \in [Reports -> SUBSET (1 .. n)], B \in SUBSET (1 .. n), A \in SUBSET (1 .. n) :
        /\ Cardinality(B) >= b /\ Cardinality(A) >= a /\ A \cap B = {}
        /\ \A x \in P : /\ Cardinality(own[x]) >= x.delta
                        /\ own[x] \cap A = {} /\ own[x] \cap B = {}
        /\ \A x, q \in P : x # q => own[x] \cap own[q] = {}
  BY DEF Shares
<1>. DEFINE C == B \cup own[r]
<1>2. C \in SUBSET (1 .. n)
  OBVIOUS
<1>3. Cardinality(C) >= b + r.delta
  <2>1. IsFiniteSet(B) /\ IsFiniteSet(own[r])
    BY Share
  <2>2. Cardinality(B) \in Nat /\ Cardinality(own[r]) \in Nat
    BY Share
  <2>3. Cardinality(B \cap own[r]) = 0
    <3>1. B \cap own[r] = {}
      BY <1>1
    <3>. QED
      BY <3>1, FS_EmptySet, Zenon
  <2>4. Cardinality(C) = Cardinality(B) + Cardinality(own[r]) - Cardinality(B \cap own[r])
    BY <2>1, FS_Union
  <2>5. Cardinality(C) = Cardinality(B) + Cardinality(own[r])
    BY <2>2, <2>3, <2>4
  <2>6. r.delta \in Nat
    BY DEF Reports
  <2>. QED
    BY <1>1, <2>2, <2>5, <2>6
<1>4. A \cap C = {}
  BY <1>1
<1>5. \A x \in P \ {r} : own[x] \cap C = {}
  BY <1>1
<1>. HIDE DEF C
<1>. QED
  BY <1>1, <1>2, <1>3, <1>4, <1>5 DEF Shares

\* No more is billed than there is.
LEMMA SharesBound ==
  ASSUME NEW P, NEW b \in Nat, NEW a, NEW n \in Nat, Shares(P, b, a, n)
  PROVE  b <= n
<1>1. PICK B \in SUBSET (1 .. n) : Cardinality(B) >= b
  BY DEF Shares
<1>2. Cardinality(B) \in Nat /\ Cardinality(B) <= n
  BY Share
<1>. QED
  BY <1>1, <1>2

\* Every step keeps the list.
LEMMA ListStep ==
  ASSUME TypeOK, ListInv, [Next]_vars
  PROVE  ListInv'
<1>. USE DEF TypeOK, ListInv, sfu, entry, reporter, api, vars
<1>1. CASE Provision \/ Traffic \/ ViewerLeaves \/ CloseSession
  BY <1>1 DEF Provision, Traffic, ViewerLeaves, CloseSession
<1>2. CASE LateArrives \/ Load \/ SampleFails \/ UNCHANGED vars
  BY <1>2 DEF LateArrives, Load, SampleFails
<1>3. CASE Tick
  BY <1>3 DEF Tick
<1>4. CASE Sample \/ TryAgain
  BY <1>4 DEF Sample, TryAgain
<1>5. CASE Answered \/ GiveUp
  BY <1>5 DEF Answered, GiveUp, Sent
<1>6. CASE SaveUnlink \/ SaveRename \/ SaveFails \/ Ended \/ Remove
  BY <1>6 DEF SaveUnlink, SaveRename, SaveFails, Ended, Remove
<1>7. CASE Restart
  BY <1>7 DEF Restart
<1>. QED
  BY <1>1, <1>2, <1>3, <1>4, <1>5, <1>6, <1>7, Zenon DEF Next, Loop

\* What is counted is a number, and the reports are reports.
LEMMA PaidTypes ==
  ASSUME TypeOK, CountInv
  PROVE  /\ Pending \in SUBSET Reports /\ billed \in Nat /\ traffic \in Nat
         /\ Ahead \in Nat /\ counter \in Nat /\ cum \in Nat /\ sampled \in Nat /\ last \in Int
         /\ rpc = "send" => Report \in Reports /\ Report.seq = seq /\ Report.delta = sampled - cum
<1>. USE BandwidthAssumption DEF TypeOK
<1>1. counter \in Nat /\ cum \in Nat /\ sampled \in Nat /\ billed \in Nat /\ traffic \in Nat
      /\ last \in Int /\ seq \in Nat
  OBVIOUS
<1>2. rpc = "send" => Report \in Reports /\ Report.seq = seq /\ Report.delta = sampled - cum
  BY <1>1 DEF CountInv, Report, Reports
<1>3. Pending \in SUBSET Reports
  BY <1>2 DEF Pending
<1>4. Ahead \in Nat
  BY <1>1 DEF Ahead, Positive
<1>. QED
  BY <1>1, <1>2, <1>3, <1>4

\* dun-api gets a report that is pending, or that it has counted already: what else is
\* pending afterwards was so before.
LEMMA Received ==
  ASSUME NEW P \in SUBSET Reports, NEW r \in Reports, last \in Int, billed \in Nat,
         NEW a \in Int, NEW n \in Nat, Receive(r), r.seq > last => r \in P,
         Shares(P, billed, a, n)
  PROVE  Shares({q \in P : q.seq > last'}, billed', a, n)
<1>. DEFINE Q == {q \in P : q.seq > last'}
<1>0. r.seq \in Nat /\ r.delta \in Nat /\ \A q \in P : q.seq \in Nat
  BY DEF Reports
<1>1. CASE r.seq > last
  <2>1. last' = r.seq /\ billed' = billed + r.delta
    BY <1>1 DEF Receive
  <2>2. Q \in SUBSET (P \ {r})
    BY <1>0, <2>1
  <2>3. Shares(P \ {r}, billed + r.delta, a, n)
    BY <1>1, SharesPay
  <2>. HIDE DEF Q
  <2>4. Shares(Q, billed + r.delta, a, n)
    BY <2>2, <2>3, SharesLess
  <2>. QED
    BY <2>1, <2>4 DEF Q
<1>2. CASE ~(r.seq > last)
  <2>1. last' = last /\ billed' = billed
    BY <1>2 DEF Receive
  <2>2. Q \in SUBSET P
    OBVIOUS
  <2>. HIDE DEF Q
  <2>3. Shares(Q, billed, a, n)
    BY <2>2, SharesLess
  <2>. QED
    BY <2>1, <2>3 DEF Q
<1>. QED
  BY <1>1, <1>2

\* Nothing is billed or counted: fewer reports are pending, and no more is ahead.
LEMMA Kept ==
  ASSUME TypeOK, TypeOK', CountInv, CountInv', Shares(Pending, billed, Ahead, traffic),
         Pending' \in SUBSET Pending, billed' = billed, traffic' = traffic, Ahead' <= Ahead
  PROVE  Shares(Pending, billed, Ahead, traffic)'
<1>. DEFINE P == Pending
            Q == Pending'
            a == Ahead
            c == Ahead'
<1>0. counter' \in Nat /\ cum' \in Nat /\ sampled' \in Nat
  BY BandwidthAssumption DEF TypeOK
<1>1. c \in Int
  <2>1. c \in {counter', Positive(counter' - sampled'), Positive(counter' - cum')}
    BY DEF Ahead
  <2>2. Positive(counter' - sampled') \in Int /\ Positive(counter' - cum') \in Int
    BY <1>0, PositiveBound, Zenon
  <2>. QED
    BY <1>0, <2>1, <2>2
<1>2. Q \in SUBSET P /\ a \in Int /\ c <= a /\ traffic \in Nat /\ Shares(P, billed, a, traffic)
  BY PaidTypes
<1>. HIDE DEF P, Q, a, c
<1>3. Shares(Q, billed, c, traffic)
  BY <1>1, <1>2, SharesLess
<1>. QED
  BY <1>3 DEF Q, c, Shares

\* Every step keeps the shares.
LEMMA PaidStep ==
  ASSUME TypeOK, TypeOK', CountInv, CountInv', PaidInv, [Next]_vars
  PROVE  PaidInv'
<1>. USE BandwidthAssumption
<1>. DEFINE Goal == Shares(Pending, billed, Ahead, traffic)'
<1>. SUFFICES Goal
  BY ListStep, Zenon DEF PaidInv
<1>0. /\ Pending \in SUBSET Reports /\ billed \in Nat /\ traffic \in Nat
      /\ Ahead \in Nat /\ counter \in Nat /\ cum \in Nat /\ sampled \in Nat /\ last \in Int
      /\ rpc = "send" => Report \in Reports /\ Report.seq = seq /\ Report.delta = sampled - cum
  BY PaidTypes
<1>1. Shares(Pending, billed, Ahead, traffic) /\ ListInv
  BY DEF PaidInv
<1>2. ASSUME Pending' \in SUBSET Pending, billed' = billed, traffic' = traffic, Ahead' <= Ahead
      PROVE  Goal
  BY <1>1, <1>2, Kept
<1>3. CASE Provision
  <2>1. Pending' = Pending /\ Ahead' = Ahead /\ billed' = billed /\ traffic' = traffic
    BY <1>3 DEF Provision, Pending, Ahead, Report, reporter, entry, api
  <2>. QED
    BY <1>0, <1>2, <2>1
<1>4. CASE Traffic
  <2>1. Pending' = Pending /\ billed' = billed /\ traffic' = traffic + 1 /\ counter' = counter + 1
    BY <1>4 DEF Traffic, Pending, Report, reporter, entry, api
  <2>2. Ahead' <= Ahead + 1 /\ Ahead' \in Nat
    BY <1>0, <1>4, <2>1 DEF Traffic, Ahead, Positive, reporter, entry
  <2>3. Shares(Pending, billed, Ahead + 1, traffic + 1)
    BY <1>0, <1>1, SharesGrow
  <2>. DEFINE c == Ahead'
              n == traffic + 1
  <2>4. Shares(Pending, billed, c, n)
    <3>1. c \in Int /\ c <= Ahead + 1 /\ n \in Nat /\ Shares(Pending, billed, Ahead + 1, n)
      BY <1>0, <2>2, <2>3
    <3>. HIDE DEF c, n
    <3>. QED
      BY <1>0, <3>1, SharesLess
  <2>. QED
    BY <2>1, <2>4
<1>5. CASE ViewerLeaves \/ CloseSession
  <2>1. /\ Pending' = Pending /\ billed' = billed /\ traffic' = traffic
        /\ counter' \in Nat /\ counter' <= counter
    BY <1>0, <1>5 DEF ViewerLeaves, CloseSession, Pending, Report, reporter, entry, api
  <2>2. Ahead' <= Ahead
    BY <1>0, <1>5, <2>1 DEF ViewerLeaves, CloseSession, Ahead, Positive, reporter, entry
  <2>. QED
    BY <1>2, <2>1, <2>2
<1>6. CASE LateArrives
  <2>1. Ahead' = Ahead /\ traffic' = traffic /\ rpc' = rpc /\ Report' = Report
    BY <1>6 DEF LateArrives, Ahead, Report, sfu, reporter, entry
  <2>2. PICK r \in late : late' = late \ {r} /\ (Receive(r) \/ Lost)
    BY <1>6 DEF LateArrives
  <2>3. CASE Lost
    <3>1. Pending' \in SUBSET Pending /\ billed' = billed
      BY <2>1, <2>2, <2>3 DEF Lost, Pending, api
    <3>. QED
      BY <1>0, <1>2, <2>1, <3>1
  <2>4. CASE Receive(r)
    <3>1. r \in Reports /\ (r.seq > last => r \in Pending)
      BY DEF TypeOK, Pending
    <3>. DEFINE Q == {q \in Pending : q.seq > last'}
                P == Pending
    <3>2. Shares({q \in P : q.seq > last'}, billed', Ahead, traffic)
      <4>1. P \in SUBSET Reports /\ Ahead \in Int /\ Shares(P, billed, Ahead, traffic)
            /\ (r.seq > last => r \in P)
        BY <1>0, <1>1, <3>1
      <4>. HIDE DEF P
      <4>. QED
        BY <1>0, <2>4, <3>1, <4>1, Received
    <3>3. Pending' \in SUBSET Q
      <4>1. last' >= last /\ last' \in Int /\ \A q \in late : q.seq \in Nat
        BY <1>0, <2>4, <3>1 DEF Receive, TypeOK, Reports
      <4>2. rpc = "send" => Report.seq \in Nat
        BY <1>0 DEF TypeOK
      <4>3. late' \subseteq late
        BY <2>2
      <4>. QED
        BY <1>0, <2>1, <4>1, <4>2, <4>3 DEF Pending
    <3>4. Shares(Pending', billed', Ahead, traffic)
      <4>. DEFINE R == Pending'
                  b == billed'
      <4>1. R \in SUBSET Q /\ Ahead \in Int /\ traffic \in Nat /\ Shares(Q, b, Ahead, traffic)
        BY <1>0, <3>2, <3>3
      <4>. HIDE DEF Q, R, b
      <4>2. Shares(R, b, Ahead, traffic)
        BY <4>1, SharesLess
      <4>. QED
        BY <4>2 DEF R, b
    <3>. QED
      BY <2>1, <3>4
  <2>. QED
    BY <2>2, <2>3, <2>4
<1>7. CASE Tick
  <2>1. /\ Pending' \in SUBSET Pending /\ billed' = billed /\ traffic' = traffic
        /\ counter' = counter /\ cum' = cum
    BY <1>7 DEF Tick, Pending, Report, sfu, entry, api
  <2>2. Ahead' <= Ahead
    <3>1. CASE live = TRUE
      BY <1>0, <1>7, <2>1, <3>1 DEF Tick, Ahead, Positive
    <3>2. CASE live = FALSE
      BY <1>0, <1>1, <1>7, <2>1, <3>2 DEF Tick, Ahead, Positive, ListInv
    <3>. QED
      BY <3>1, <3>2 DEF TypeOK
  <2>. QED
    BY <1>2, <2>1, <2>2
<1>8. CASE Load \/ SampleFails \/ SaveUnlink \/ SaveRename \/ SaveFails \/ Remove
      \/ UNCHANGED vars
  <2>1. /\ Pending' \in SUBSET Pending /\ billed' = billed /\ traffic' = traffic
        /\ counter' = counter /\ cum' = cum
    BY <1>8 DEF Load, SampleFails, SaveUnlink, SaveRename, SaveFails, Remove, Pending, Report,
       sfu, entry, api, vars, reporter
  <2>2. Ahead' = Ahead
    BY <1>0, <1>1, <1>8, <2>1 DEF Load, SampleFails, SaveUnlink, SaveRename, SaveFails, Remove,
       Ahead, ListInv, sfu, entry, vars, reporter
  <2>. QED
    BY <1>0, <1>2, <2>1, <2>2
<1>9. CASE Ended
  <2>1. /\ Pending' \in SUBSET Pending /\ billed' = billed /\ traffic' = traffic
        /\ counter' = counter /\ rpc = "ended" /\ rpc' \in {"idle", "remove"}
    BY <1>9 DEF Ended, Pending, Report, sfu, api
  <2>2. Ahead' <= Ahead
    <3>1. CASE active = TRUE
      BY <1>0, <1>9, <2>1, <3>1 DEF Ended, Ahead, Positive, entry
    <3>2. CASE active = FALSE
      <4>1. cum' \in Nat
        BY DEF TypeOK
      <4>. QED
        <5>1. Ahead = counter /\ Ahead' = Positive(counter - cum')
          BY <2>1, <3>2 DEF Ahead, Positive
        <5>2. counter \in Nat
          BY <1>0
        <5>3. Positive(counter - cum') <= counter
          BY <4>1, <5>2, PositiveBound
        <5>. QED
          BY <5>1, <5>3
    <3>. QED
      BY <3>1, <3>2 DEF TypeOK
  <2>. QED
    BY <1>2, <2>1, <2>2
<1>10. CASE Restart
  <2>1. Pending' \in SUBSET Pending /\ billed' = billed /\ traffic' = traffic
    BY <1>10 DEF Restart, Pending, api
  <2>2. Ahead' <= Ahead
    BY <1>0, <1>10 DEF Restart, Ahead, Positive
  <2>. QED
    BY <1>2, <2>1, <2>2
<1>11. CASE Sample
  <2>1. CASE rpc' = "ended"
    <3>1. Pending' = Pending /\ billed' = billed /\ traffic' = traffic
      BY <1>11, <2>1 DEF Sample, Pending, sfu, api
    <3>2. Ahead' = Ahead
      BY <1>1, <1>11, <2>1 DEF Sample, Ahead, ListInv, sfu
    <3>. QED
      BY <1>0, <1>2, <3>1, <3>2
  <2>2. CASE rpc' = "send"
    <3>1. /\ rpc = "sample" /\ sampled' = counter /\ counter >= cum + MinDelta
          /\ counter' = counter /\ cum' = cum /\ seq' = seq /\ late' = late /\ last' = last
          /\ billed' = billed /\ traffic' = traffic
      BY <1>11, <2>2 DEF Sample, sfu, api
    <3>. DEFINE r == [seq |-> seq, delta |-> counter - cum]
    <3>2. r \in Reports /\ r.delta = Ahead
      BY <1>0, <3>1 DEF Reports, TypeOK, Ahead, Positive
    <3>3. Pending' \in SUBSET (Pending \cup {r})
      BY <2>2, <3>1 DEF Pending, Report
    <3>4. Ahead' = 0
      BY <1>0, <2>2, <3>1 DEF Ahead, Positive
    <3>5. Shares(Pending \cup {r}, billed, 0, traffic)
      <4>. HIDE DEF r
      <4>. QED
        BY <1>0, <1>1, <3>2, SharesTake
    <3>6. Shares(Pending', billed, 0, traffic)
      <4>. DEFINE P == Pending \cup {r}
                  Q == Pending'
      <4>1. Q \in SUBSET P /\ Shares(P, billed, 0, traffic)
        BY <3>3, <3>5
      <4>. HIDE DEF P, Q
      <4>2. Shares(Q, billed, 0, traffic)
        BY <1>0, <4>1, SharesLess
      <4>. QED
        BY <4>2 DEF Q
    <3>. QED
      BY <3>1, <3>4, <3>6
  <2>. QED
    BY <1>11, <2>1, <2>2 DEF Sample
<1>12. CASE Answered \/ TryAgain \/ GiveUp
  <2>1. /\ rpc = "send" /\ traffic' = traffic /\ counter' = counter
        /\ Receive(Report) \/ Lost
        /\ late' \in {late, late \cup {Report}}
    BY <1>12 DEF Answered, TryAgain, GiveUp, Unanswered, Sent, sfu
  <2>2. Ahead' = Ahead
    BY <1>0, <1>1, <1>12, <2>1 DEF Answered, TryAgain, GiveUp, Sent, Ahead, ListInv, entry
  <2>3. rpc' = "send" => Report' = Report
    BY <1>12 DEF Answered, TryAgain, GiveUp, Sent, Report, entry
  <2>4. Report \in Reports /\ (Report.seq > last => Report \in Pending)
    BY <1>0, <2>1 DEF Pending
  <2>5. last' \in Int /\ last' >= last
    BY <1>0, <2>1, <2>4 DEF Receive, Lost, api, Reports
  <2>. DEFINE Q == {q \in Pending : q.seq > last'}
  <2>6. Pending' \in SUBSET Q
    <3>1. \A q \in late \cup {Report} : q.seq \in Nat
      BY <2>4 DEF TypeOK, Reports
    <3>. QED
      BY <1>0, <2>1, <2>3, <2>5, <3>1 DEF Pending
  <2>7. Shares(Q, billed', Ahead, traffic)
    <3>. DEFINE P == Pending
                r == Report
    <3>1. /\ P \in SUBSET Reports /\ r \in Reports /\ Ahead \in Int /\ (r.seq > last => r \in P)
          /\ Shares(P, billed, Ahead, traffic)
      BY <1>0, <1>1, <2>4
    <3>2. CASE Receive(Report)
      <4>. HIDE DEF P
      <4>1. Shares({q \in P : q.seq > last'}, billed', Ahead, traffic)
        BY <1>0, <3>1, <3>2, Received
      <4>. QED
        BY <4>1 DEF P
    <3>3. CASE Lost
      <4>1. billed' = billed /\ Q \in SUBSET P
        BY <3>3 DEF Lost, api
      <4>. HIDE DEF P, Q
      <4>2. Shares(Q, billed, Ahead, traffic)
        BY <1>0, <3>1, <4>1, SharesLess
      <4>. QED
        BY <4>1, <4>2
    <3>. QED
      BY <2>1, <3>2, <3>3
  <2>8. Shares(Pending', billed', Ahead, traffic)
    <3>. DEFINE R == Pending'
                b == billed'
    <3>1. R \in SUBSET Q /\ Ahead \in Int /\ traffic \in Nat /\ Shares(Q, b, Ahead, traffic)
      BY <1>0, <2>6, <2>7
    <3>. HIDE DEF Q, R, b
    <3>2. Shares(R, b, Ahead, traffic)
      BY <3>1, SharesLess
    <3>. QED
      BY <3>2 DEF R, b
  <2>. QED
    BY <2>1, <2>2, <2>8
<1>. HIDE DEF Goal
<1>. QED
  BY <1>3, <1>4, <1>5, <1>6, <1>7, <1>8, <1>9, <1>10, <1>11, <1>12, Zenon DEF Next, Loop

\* Nothing is shared out at first.
LEMMA InitPaid == Init => PaidInv
<1>. SUFFICES ASSUME Init PROVE PaidInv
  OBVIOUS
<1>1. Pending = {} /\ billed = 0 /\ Ahead = 0 /\ traffic = 0 /\ ListInv
  BY DEF Init, Pending, Ahead, Positive, ListInv
<1>. DEFINE own == [r \in Reports |-> {}]
<1>2. own \in [Reports -> SUBSET (1 .. 0)] /\ {} \in SUBSET (1 .. 0) /\ Cardinality({}) >= 0
  BY FS_EmptySet
<1>. HIDE DEF own
<1>3. Shares({}, 0, 0, 0)
  BY <1>2 DEF Shares
<1>. QED
  BY <1>1, <1>3 DEF PaidInv

\* No byte is billed twice, whatever is retried, delayed, lost or forgotten: every
\* report that dun-api may still count has bytes of its own.
THEOREM NeverOverbilledHolds == Spec => []NeverOverbilled
<1>1. IInv /\ IInv' /\ PaidInv /\ [Next]_vars => PaidInv'
  BY PaidStep, Zenon DEF IInv
<1>2. ASSUME IInv, PaidInv PROVE NeverOverbilled
  BY <1>2, PaidTypes, SharesBound DEF IInv, PaidInv, NeverOverbilled
<1>. QED
  BY <1>1, <1>2, InitPaid, Invariance, PTL DEF Spec

-----------------------------------------------------------------------------
(* A tick ends: what TickEnds rests on.                                    *)

\* The steps that the loop has at most ahead of it until it waits for the next tick.
ToGo ==
  CASE rpc = "idle" -> 0
    [] rpc \in {"boot", "remove"} -> 1
    [] rpc = "ended" -> 2
    [] rpc = "rename" -> 3
    [] rpc = "save" -> 4
    [] rpc = "send" -> 5 + Attempts - attempt
    [] rpc = "sample" -> 5 + Attempts

\* Every step of the loop brings it closer to the end of the tick, a retry too, and what
\* dun-api, the viewers and the late requests do does not set it back.
TickCloser ==
  [][/\ rpc # "idle" /\ Loop => ToGo' < ToGo
     /\ ~Loop /\ ~Restart => ToGo' = ToGo]_vars

\* A tick takes at most Attempts + 5 more steps of the loop, whatever dun-api answers or
\* leaves unanswered; only the fairness of the runtime is left for TLC to assume.
THEOREM TickIsBounded ==
  Spec => [](ToGo \in 0 .. 5 + Attempts /\ (ToGo = 0 <=> rpc = "idle")) /\ TickCloser
<1>. USE BandwidthAssumption
<1>1. TypeOK => ToGo \in 0 .. 5 + Attempts /\ (ToGo = 0 <=> rpc = "idle")
  BY DEF TypeOK, ToGo
<1>2. ASSUME TypeOK, Loop, rpc # "idle" PROVE ToGo' < ToGo
  <2>. USE <1>2 DEF TypeOK, ToGo
  <2>1. CASE Load \/ Tick
    BY <2>1 DEF Load, Tick
  <2>2. CASE Sample
    BY <2>2 DEF Sample
  <2>3. CASE SampleFails
    BY <2>3 DEF SampleFails
  <2>4. CASE Answered
    BY <2>4 DEF Answered, Sent
  <2>5. CASE TryAgain
    BY <2>5 DEF TryAgain
  <2>6. CASE GiveUp
    BY <2>6 DEF GiveUp, Sent
  <2>7. CASE SaveUnlink \/ SaveRename \/ SaveFails
    BY <2>7 DEF SaveUnlink, SaveRename, SaveFails
  <2>8. CASE Ended \/ Remove
    BY <2>8 DEF Ended, Remove
  <2>. QED
    BY <1>2, <2>1, <2>2, <2>3, <2>4, <2>5, <2>6, <2>7, <2>8 DEF Loop
<1>3. ASSUME TypeOK, [Next]_vars, ~Loop, ~Restart PROVE ToGo' = ToGo
  <2>1. UNCHANGED <<rpc, attempt>>
    BY <1>3 DEF Next, vars, reporter, Provision, Traffic, ViewerLeaves, CloseSession, LateArrives
  <2>. QED
    BY <2>1 DEF ToGo
<1>. QED
  BY <1>1, <1>2, <1>3, TypeCorrect, PTL DEF Spec, TickCloser
==============================================================================
