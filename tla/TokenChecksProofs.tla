-------------------------- MODULE TokenChecksProofs --------------------------
(***************************************************************************)
(* Theorems about TokenChecks, for all tokens, requests, intervals and     *)
(* timeouts.                                                               *)
(***************************************************************************)
EXTENDS TokenChecks, TLAPS

\* No time stamp is ahead of the clock, and requests are within their timeouts.
ClockInv ==
  /\ \A j \in Jtis : revoked[j] = Never \/ revoked[j] <= now
  /\ success <= now
  /\ PollOut => poll.at <= now /\ now <= poll.at + PollTimeout
  /\ \A k \in Checks : check[k].at <= now
  /\ \A j \in Jtis : cache[j].at <= now
  /\ \A v \in Verifies :
       /\ verify[v].at <= now
       /\ verify[v].pc \in {"asking", "valid", "revoked"} => now <= verify[v].at + FetchTimeout

\* An answer lacks only tokens that were revoked after its poll went out; "not
\* modified" says that of the mirror, since the tag is the mirror's own.
PollInv ==
  /\ tag # NoTag => tag = mirror
  /\ poll.answer = "same" => \A j \in Jtis \ mirror : poll.at <= revoked[j]
  /\ poll.answer = "new" => \A j \in Jtis \ poll.list : poll.at <= revoked[j]

\* The mirror is at most one poll behind its last success.
MirrorInv ==
  success >= 0 => \A j \in Jtis \ mirror : success - revoked[j] <= PollTimeout

\* A strict check went on only with a fresh mirror, and successes do not go back.
FreshInv ==
  \A k \in Checks :
    /\ check[k].pc # "idle" => check[k].token.jti \in Jtis
    /\ strict /\ polling /\ check[k].pc = "fresh" =>
         success >= 0 /\ check[k].at - success <= MaxStaleness

\* The next poll goes out on time.
DueInv ==
  polling =>
    /\ ~PollOut => now <= due
    /\ PollOut => poll.at <= due
    /\ ~failed /\ success >= 0 => due <= success + Cap

\* An oracle's "not revoked" is at most one request old when it is cached.
OracleInv ==
  /\ \A v \in Verifies :
       verify[v].pc = "valid" => verify[v].at <= revoked[verify[v].jti]
  /\ \A j \in Jtis :
       cache[j].answer = "valid" => cache[j].at - revoked[j] <= FetchTimeout

IInv ==
  /\ TypeOK /\ ClockInv /\ PollInv /\ MirrorInv /\ FreshInv /\ DueInv /\ OracleInv
  /\ StrictWindow /\ TunnelWindow

-----------------------------------------------------------------------------

\* The cap of the polling interval: at most half of max_staleness, or the interval.
LEMMA CapBounds ==
  /\ Cap \in Nat
  /\ PollInterval <= Cap /\ Cap <= PollInterval + PollCeiling
  /\ 2 * Cap <= MaxStaleness \/ Cap = PollInterval
BY TokenAssumption DEF Cap, Greatest, Least, Base

\* A stretched wait never exceeds the cap.
LEMMA StretchedBounds ==
  ASSUME NEW n \in Nat
  PROVE  Stretched(n) \in 0 .. Cap
<1>1. \A k \in 0 .. 4 : 2^k \in Nat
  <2>1. 2^0 \in Nat /\ 2^1 \in Nat /\ 2^2 \in Nat /\ 2^3 \in Nat /\ 2^4 \in Nat
    OBVIOUS
  <2>2. \A k \in 0 .. 4 : k = 0 \/ k = 1 \/ k = 2 \/ k = 3 \/ k = 4
    OBVIOUS
  <2>. QED
    BY <2>1, <2>2, Zenon
<1>2. Least(n, 4) \in 0 .. 4
  BY DEF Least
<1>. DEFINE factor == 2^Least(n, 4)
<1>3. factor \in Nat
  BY <1>1, <1>2
<1>. HIDE DEF factor
<1>4. Base * factor \in Nat
  BY <1>3, TokenAssumption DEF Base
<1>5. Stretched(n) = Least(Base * factor, Cap)
  BY DEF Stretched, factor
<1>. QED
  BY <1>4, <1>5, CapBounds DEF Least

\* A verification that goes on or ends is a verification.
LEMMA NewVerification ==
  ASSUME NEW r \in Verifications, NEW n \in 0 .. MaxTime,
         NEW p \in {"idle", "asking", "valid", "revoked", "accepted"}
  PROVE  [r EXCEPT !.pc = p, !.at = n] \in Verifications
BY DEF Verifications

\* The Boolean variables, for the prover that deals with them.
Flags == strict \in BOOLEAN /\ polling \in BOOLEAN /\ failed \in BOOLEAN

\* The initial states.
LEMMA InitIInv == Init => IInv
<1>. SUFFICES ASSUME Init PROVE IInv
  OBVIOUS
<1>1. Flags
  BY Zenon DEF Init, Flags
<1>2. TypeOK
  BY <1>1, TokenAssumption DEF Init, Flags, TypeOK, Entries, Verifications, NoPoll, PollOut,
     NoCheck, Answers, Never
<1>3. ClockInv /\ PollInv /\ MirrorInv /\ FreshInv
  BY TokenAssumption DEF Init, ClockInv, PollInv, MirrorInv, FreshInv, NoPoll, PollOut,
     NoCheck, Never
<1>4. DueInv /\ OracleInv /\ StrictWindow /\ TunnelWindow
  BY TokenAssumption DEF Init, DueInv, OracleInv, StrictWindow, TunnelWindow, NoPoll,
     PollOut, NoCheck, Never
<1>. QED
  BY <1>2, <1>3, <1>4 DEF IInv

\* Every step keeps the types.
LEMMA TypeStep ==
  ASSUME TypeOK, [Next]_vars
  PROVE  TypeOK'
<1>. USE TokenAssumption DEF TypeOK, NoPoll, PollOut, NoCheck, Answers, Never, Base, config,
       poller, vars
<1>1. CASE Pass
  BY <1>1 DEF Pass
<1>2. ASSUME NEW j \in Jtis, Revoke(j)
      PROVE  TypeOK'
  BY <1>2 DEF Revoke
<1>3. CASE SendPoll
  BY <1>3 DEF SendPoll
<1>4. CASE ApiAnswers
  <2>1. Revoked \in SUBSET Jtis
    BY DEF Revoked
  <2>. QED
    BY <1>4, <2>1 DEF ApiAnswers
<1>5. CASE NotModified
  <2>1. Stretched(streak + 1) \in 0 .. Cap
    BY StretchedBounds
  <2>2. Least(streak + 1, 4) \in 0 .. 4
    BY DEF Least
  <2>3. Flags'
    BY <1>5, Zenon DEF NotModified, Flags
  <2>. QED
    BY <1>5, <2>1, <2>2, <2>3, CapBounds DEF NotModified, Flags
<1>6. CASE NewList
  <2>1. Flags'
    BY <1>6, Zenon DEF NewList, Flags
  <2>. QED
    BY <1>6, <2>1 DEF NewList, Flags
<1>7. CASE PollFails
  <2>1. Flags'
    BY <1>7, Zenon DEF PollFails, Flags
  <2>. QED
    BY <1>7, <2>1 DEF PollFails, Flags
<1>8. ASSUME NEW doc \in SUBSET Kids, RefreshKeys(doc)
      PROVE  TypeOK'
  BY <1>8 DEF RefreshKeys
<1>9. ASSUME NEW k \in Checks, Admit(k)
      PROVE  TypeOK'
  BY <1>9 DEF Admit
<1>10. ASSUME NEW k \in Checks, Reject(k)
      PROVE  TypeOK'
  BY <1>10 DEF Reject
<1>11. ASSUME NEW k \in Checks, Leave(k)
      PROVE  TypeOK'
  BY <1>11 DEF Leave
<1>12. ASSUME NEW k \in Checks, NEW t \in Tokens, CheckFresh(k, t)
      PROVE  TypeOK'
  BY <1>12 DEF CheckFresh, IsFresh
<1>13. ASSUME NEW v \in Verifies, VerifyCached(v)
      PROVE  TypeOK'
  <2>1. [verify[v] EXCEPT !.pc = "accepted", !.at = now] \in Verifications
    <3>1. verify[v] \in Verifications /\ now \in 0 .. MaxTime
      OBVIOUS
    <3>. QED
      BY <3>1, NewVerification
  <2>. QED
    BY <1>13, <2>1 DEF VerifyCached
<1>14. ASSUME NEW v \in Verifies, VerifyAsk(v)
      PROVE  TypeOK'
  <2>1. [verify[v] EXCEPT !.pc = "asking", !.at = now] \in Verifications
    <3>1. verify[v] \in Verifications /\ now \in 0 .. MaxTime
      OBVIOUS
    <3>. QED
      BY <3>1, NewVerification
  <2>. QED
    BY <1>14, <2>1 DEF VerifyAsk
<1>15. ASSUME NEW v \in Verifies, ApiTells(v)
      PROVE  TypeOK'
  <2>1. \A p \in {"valid", "revoked"} : [verify[v] EXCEPT !.pc = p] \in Verifications
    BY <1>15 DEF ApiTells, Entries, Verifications
  <2>. QED
    BY <1>15, <2>1 DEF ApiTells
<1>16. ASSUME NEW v \in Verifies, CachePut(v)
      PROVE  TypeOK'
  <2>1. [verify[v] EXCEPT !.pc = "idle", !.at = 0] \in Verifications
    <3>1. verify[v] \in Verifications /\ 0 \in 0 .. MaxTime
      OBVIOUS
    <3>. QED
      BY <3>1, NewVerification
  <2>2. [verify[v] EXCEPT !.pc = "accepted"] \in Verifications
    BY <1>16 DEF CachePut, Entries, Verifications
  <2>3. [answer |-> verify[v].pc, at |-> now] \in Entries
    BY <1>16 DEF CachePut, Entries, Verifications
  <2>4. cache' \in [Jtis -> Entries]
    BY <1>16, <2>3 DEF CachePut
  <2>5. verify' \in [Verifies -> Verifications]
    BY <1>16, <2>1, <2>2 DEF CachePut
  <2>. QED
    BY <1>16, <2>4, <2>5 DEF CachePut
<1>17. ASSUME NEW v \in Verifies, FetchFails(v)
      PROVE  TypeOK'
  <2>1. [verify[v] EXCEPT !.pc = "idle", !.at = 0] \in Verifications
    <3>1. verify[v] \in Verifications /\ 0 \in 0 .. MaxTime
      OBVIOUS
    <3>. QED
      BY <3>1, NewVerification
  <2>. QED
    BY <1>17, <2>1 DEF FetchFails
<1>18. ASSUME NEW v \in Verifies, VerifyReturns(v)
      PROVE  TypeOK'
  <2>1. [verify[v] EXCEPT !.pc = "idle", !.at = 0] \in Verifications
    <3>1. verify[v] \in Verifications /\ 0 \in 0 .. MaxTime
      OBVIOUS
    <3>. QED
      BY <3>1, NewVerification
  <2>. QED
    BY <1>18, <2>1 DEF VerifyReturns
<1>19. CASE UNCHANGED vars
  BY <1>19
<1>. QED
  BY <1>1, <1>2, <1>3, <1>4, <1>5, <1>6, <1>7, <1>8, <1>9, <1>10, <1>11, <1>12, <1>13,
     <1>14, <1>15, <1>16, <1>17, <1>18, <1>19 DEF Next

\* Every step keeps the time stamps behind the clock.
LEMMA ClockStep ==
  ASSUME TypeOK, ClockInv, [Next]_vars
  PROVE  ClockInv'
<1>. USE TokenAssumption DEF TypeOK, ClockInv, Entries, Verifications, NoPoll, PollOut,
       NoCheck, Never, config, poller, vars
<1>1. CASE Pass
  BY <1>1 DEF Pass
<1>2. ASSUME NEW j \in Jtis, Revoke(j)
      PROVE  ClockInv'
  BY <1>2 DEF Revoke
<1>3. CASE SendPoll
  BY <1>3 DEF SendPoll
<1>4. CASE ApiAnswers
  BY <1>4 DEF ApiAnswers, Revoked
<1>5. CASE NotModified
  BY <1>5 DEF NotModified
<1>6. CASE NewList
  BY <1>6 DEF NewList
<1>7. CASE PollFails
  BY <1>7 DEF PollFails
<1>8. ASSUME NEW doc \in SUBSET Kids, RefreshKeys(doc)
      PROVE  ClockInv'
  BY <1>8 DEF RefreshKeys
<1>9. ASSUME NEW k \in Checks, Admit(k)
      PROVE  ClockInv'
  BY <1>9 DEF Admit
<1>10. ASSUME NEW k \in Checks, Reject(k)
      PROVE  ClockInv'
  BY <1>10 DEF Reject
<1>11. ASSUME NEW k \in Checks, Leave(k)
      PROVE  ClockInv'
  BY <1>11 DEF Leave
<1>12. ASSUME NEW k \in Checks, NEW t \in Tokens, CheckFresh(k, t)
      PROVE  ClockInv'
  BY <1>12 DEF CheckFresh, IsFresh
<1>13. ASSUME NEW v \in Verifies, VerifyCached(v)
      PROVE  ClockInv'
  BY <1>13 DEF VerifyCached, Cached
<1>14. ASSUME NEW v \in Verifies, VerifyAsk(v)
      PROVE  ClockInv'
  BY <1>14 DEF VerifyAsk
<1>15. ASSUME NEW v \in Verifies, ApiTells(v)
      PROVE  ClockInv'
  BY <1>15 DEF ApiTells, Revoked
<1>16. ASSUME NEW v \in Verifies, CachePut(v)
      PROVE  ClockInv'
  <2>1. \A w \in Verifies : verify'[w].at <= now /\ verify'[w].pc \in {verify[w].pc, "idle", "accepted"}
                           /\ (verify'[w].at = verify[w].at \/ verify'[w].pc = "idle")
    <3>1. CASE verify[v].pc = "valid"
      BY <1>16, <3>1 DEF CachePut
    <3>2. CASE verify[v].pc = "revoked"
      <4>1. verify'[v] = [verify[v] EXCEPT !.pc = "idle", !.at = 0]
        BY <1>16, <3>2 DEF CachePut
      <4>2. verify'[v].at = 0 /\ verify'[v].pc = "idle"
        BY <4>1
      <4>3. \A w \in Verifies \ {v} : verify'[w] = verify[w]
        BY <1>16, <3>2 DEF CachePut
      <4>. QED
        BY <4>2, <4>3
    <3>. QED
      BY <1>16, <3>1, <3>2 DEF CachePut
  <2>2. \A j \in Jtis : cache'[j].at <= now
    BY <1>16 DEF CachePut
  <2>. QED
    BY <1>16, <2>1, <2>2 DEF CachePut
<1>17. ASSUME NEW v \in Verifies, FetchFails(v)
      PROVE  ClockInv'
  BY <1>17 DEF FetchFails
<1>18. ASSUME NEW v \in Verifies, VerifyReturns(v)
      PROVE  ClockInv'
  BY <1>18 DEF VerifyReturns
<1>19. CASE UNCHANGED vars
  BY <1>19
<1>. QED
  BY <1>1, <1>2, <1>3, <1>4, <1>5, <1>6, <1>7, <1>8, <1>9, <1>10, <1>11, <1>12, <1>13,
     <1>14, <1>15, <1>16, <1>17, <1>18, <1>19 DEF Next

\* Every step keeps the mirror within one poll of its last success.
LEMMA PollerStep ==
  ASSUME TypeOK, ClockInv, PollInv, MirrorInv, [Next]_vars
  PROVE  PollInv' /\ MirrorInv'
<1>. USE TokenAssumption DEF TypeOK, ClockInv, PollInv, MirrorInv, NoPoll, PollOut, Never,
       config, poller, vars
<1>1. CASE Pass
  BY <1>1 DEF Pass
<1>2. ASSUME NEW j \in Jtis, Revoke(j)
      PROVE  PollInv' /\ MirrorInv'
  BY <1>2 DEF Revoke
<1>3. CASE SendPoll
  BY <1>3 DEF SendPoll
<1>4. CASE ApiAnswers
  <2>1. Revoked \in SUBSET Jtis /\ \A j \in Jtis \ Revoked : now <= revoked[j]
    BY DEF Revoked
  <2>2. tag = Revoked => mirror = Revoked
    BY <2>1
  <2>3. poll.at <= now
    BY <1>4 DEF ApiAnswers
  <2>4. MirrorInv'
    BY <1>4 DEF ApiAnswers
  <2>5. CASE tag = Revoked /\ poll' = [poll EXCEPT !.answer = "same"]
    BY <1>4, <2>1, <2>2, <2>3, <2>4, <2>5 DEF ApiAnswers
  <2>6. CASE poll' = [poll EXCEPT !.answer = "new", !.list = Revoked]
    BY <1>4, <2>1, <2>3, <2>4, <2>6 DEF ApiAnswers
  <2>7. CASE poll' = [poll EXCEPT !.answer = "garbled", !.list = Revoked]
    BY <1>4, <2>4, <2>7 DEF ApiAnswers
  <2>. QED
    BY <1>4, <2>5, <2>6, <2>7 DEF ApiAnswers
<1>5. CASE NotModified
  BY <1>5 DEF NotModified
<1>6. CASE NewList
  BY <1>6 DEF NewList
<1>7. CASE PollFails
  BY <1>7 DEF PollFails
<1>8. CASE UNCHANGED <<revoked, poller>>
  BY <1>8
<1>. QED
  BY <1>1, <1>2, <1>3, <1>4, <1>5, <1>6, <1>7, <1>8 DEF Next, RefreshKeys, Admit, Reject,
     Leave, CheckFresh, VerifyCached, VerifyAsk, ApiTells, CachePut, FetchFails,
     VerifyReturns

\* Every step keeps the next poll on time.
LEMMA DueStep ==
  ASSUME TypeOK, ClockInv, DueInv, [Next]_vars
  PROVE  DueInv'
<1>. USE TokenAssumption DEF TypeOK, ClockInv, DueInv, NoPoll, PollOut, Base, config,
       poller, vars
<1>1. CASE Pass
  BY <1>1 DEF Pass
<1>2. CASE SendPoll
  BY <1>2 DEF SendPoll
<1>3. CASE ApiAnswers
  BY <1>3 DEF ApiAnswers, Revoked
<1>4. CASE NotModified
  <2>1. Stretched(streak + 1) \in 0 .. Cap
    BY StretchedBounds
  <2>. QED
    BY <1>4, <2>1, CapBounds DEF NotModified
<1>5. CASE NewList
  BY <1>5, CapBounds DEF NewList
<1>6. CASE PollFails
  BY <1>6 DEF PollFails
<1>7. CASE UNCHANGED <<now, config, poller>>
  BY <1>7
<1>. QED
  BY <1>1, <1>2, <1>3, <1>4, <1>5, <1>6, <1>7 DEF Next, Revoke, RefreshKeys, Admit, Reject,
     Leave, CheckFresh, VerifyCached, VerifyAsk, ApiTells, CachePut, FetchFails,
     VerifyReturns

\* Every step keeps the window of a strict check.
LEMMA GateStep ==
  ASSUME TypeOK, ClockInv, MirrorInv, FreshInv, StrictWindow, [Next]_vars
  PROVE  FreshInv' /\ StrictWindow'
<1>. USE TokenAssumption DEF TypeOK, ClockInv, MirrorInv, FreshInv, StrictWindow, NoCheck,
       Never, config, poller, vars
<1>1. ASSUME NEW j \in Jtis, Revoke(j)
      PROVE  FreshInv' /\ StrictWindow'
  BY <1>1 DEF Revoke
<1>2. CASE NotModified
  BY <1>2 DEF NotModified
<1>3. CASE NewList
  BY <1>3 DEF NewList
<1>4. ASSUME NEW k \in Checks, Admit(k)
      PROVE  FreshInv' /\ StrictWindow'
  <2>1. check[k].token.jti \in Jtis \ mirror
    BY <1>4 DEF Admit, Authorize
  <2>. QED
    BY <1>4, <2>1 DEF Admit
<1>5. ASSUME NEW k \in Checks, Reject(k)
      PROVE  FreshInv' /\ StrictWindow'
  BY <1>5 DEF Reject
<1>6. ASSUME NEW k \in Checks, Leave(k)
      PROVE  FreshInv' /\ StrictWindow'
  BY <1>6 DEF Leave
<1>7. ASSUME NEW k \in Checks, NEW t \in Tokens, CheckFresh(k, t)
      PROVE  FreshInv' /\ StrictWindow'
  <2>1. t.jti \in Jtis
    BY DEF Jtis
  <2>. QED
    BY <1>7, <2>1 DEF CheckFresh, IsFresh
<1>8. CASE UNCHANGED <<revoked, config, success, check>>
  BY <1>8
<1>. QED
  BY <1>1, <1>2, <1>3, <1>4, <1>5, <1>6, <1>7, <1>8 DEF Next, Pass, SendPoll, ApiAnswers,
     PollFails, RefreshKeys, VerifyCached, VerifyAsk, ApiTells, CachePut, FetchFails,
     VerifyReturns

\* Every step keeps the window of a tunnel's verification.
LEMMA OracleStep ==
  ASSUME TypeOK, ClockInv, OracleInv, TunnelWindow, [Next]_vars
  PROVE  OracleInv' /\ TunnelWindow'
<1>. USE TokenAssumption DEF TypeOK, ClockInv, OracleInv, TunnelWindow, Entries,
       Verifications, Never, config, poller, vars
<1>1. ASSUME NEW j \in Jtis, Revoke(j)
      PROVE  OracleInv' /\ TunnelWindow'
  BY <1>1 DEF Revoke
<1>2. ASSUME NEW v \in Verifies, VerifyCached(v)
      PROVE  OracleInv' /\ TunnelWindow'
  BY <1>2 DEF VerifyCached, Cached
<1>3. ASSUME NEW v \in Verifies, VerifyAsk(v)
      PROVE  OracleInv' /\ TunnelWindow'
  BY <1>3 DEF VerifyAsk
<1>4. ASSUME NEW v \in Verifies, ApiTells(v)
      PROVE  OracleInv' /\ TunnelWindow'
  BY <1>4 DEF ApiTells, Revoked
<1>5. ASSUME NEW v \in Verifies, CachePut(v)
      PROVE  OracleInv' /\ TunnelWindow'
  <2>1. \A w \in Verifies \ {v} : verify'[w] = verify[w]
    BY <1>5 DEF CachePut
  <2>2. verify[v].pc = "valid" => verify'[v].at = verify[v].at /\ verify'[v].jti = verify[v].jti
    BY <1>5 DEF CachePut
  <2>3. verify'[v].pc # "valid" /\ (verify'[v].pc = "accepted" => verify[v].pc = "valid")
    <3>1. CASE verify[v].pc = "valid"
      BY <1>5, <3>1 DEF CachePut
    <3>2. CASE verify[v].pc = "revoked"
      <4>1. verify'[v] = [verify[v] EXCEPT !.pc = "idle", !.at = 0]
        BY <1>5, <3>2 DEF CachePut
      <4>. QED
        BY <4>1
    <3>. QED
      BY <1>5, <3>1, <3>2 DEF CachePut
  <2>4. revoked' = revoked
    BY <1>5 DEF CachePut
  <2>5. verify[v].pc = "valid" => verify[v].at <= revoked[verify[v].jti] /\ now <= verify[v].at + FetchTimeout
    OBVIOUS
  <2>6. \A j \in Jtis : cache'[j].answer = "valid" => cache'[j].at - revoked[j] <= FetchTimeout
    BY <1>5, <2>5 DEF CachePut
  <2>7. \A w \in Verifies : verify'[w].pc = "valid" => verify'[w].at <= revoked[verify'[w].jti]
    BY <2>1, <2>3
  <2>8. TunnelWindow'
    BY <2>1, <2>2, <2>3, <2>4, <2>5
  <2>. QED
    BY <2>4, <2>6, <2>7, <2>8
<1>6. ASSUME NEW v \in Verifies, FetchFails(v)
      PROVE  OracleInv' /\ TunnelWindow'
  BY <1>6 DEF FetchFails
<1>7. ASSUME NEW v \in Verifies, VerifyReturns(v)
      PROVE  OracleInv' /\ TunnelWindow'
  BY <1>7 DEF VerifyReturns
<1>8. CASE UNCHANGED <<revoked, cache, verify>>
  BY <1>8
<1>. QED
  BY <1>1, <1>2, <1>3, <1>4, <1>5, <1>6, <1>7, <1>8 DEF Next, Pass, SendPoll, ApiAnswers,
     NotModified, NewList, PollFails, RefreshKeys, Admit, Reject, Leave, CheckFresh

\* The inductive invariant holds in every reachable state.
THEOREM Invariance == Spec => []IInv
<1>1. IInv /\ [Next]_vars => IInv'
  BY TypeStep, ClockStep, PollerStep, DueStep, GateStep, OracleStep DEF IInv
<1>. QED
  BY <1>1, InitIInv, PTL DEF Spec

\* Every variable keeps its type; the next poll is never further away than the
\* interval or the cap allows.
THEOREM TypeCorrect == Spec => []TypeOK
<1>1. IInv => TypeOK
  BY DEF IInv
<1>. QED
  BY <1>1, Invariance, PTL

\* In strict mode the gate admits no token that had been revoked for longer than
\* max_staleness and one poll when the request came in.
THEOREM StrictWindowHolds == Spec => []StrictWindow
<1>1. IInv => StrictWindow
  BY DEF IInv
<1>. QED
  BY <1>1, Invariance, PTL

\* The back-off of the polls never makes the mirror stale by itself.
THEOREM StaleOnlyAfterFailureHolds == Spec => []StaleOnlyAfterFailure
<1>1. IInv => StaleOnlyAfterFailure
  BY CapBounds, TokenAssumption DEF IInv, TypeOK, ClockInv, DueInv, StaleOnlyAfterFailure,
     IsFresh
<1>. QED
  BY <1>1, Invariance, PTL

\* A tunnel token is accepted for less than the cache's time and one request after
\* it was revoked.
THEOREM TunnelWindowHolds == Spec => []TunnelWindow
<1>1. IInv => TunnelWindow
  BY DEF IInv
<1>. QED
  BY <1>1, Invariance, PTL
=============================================================================
