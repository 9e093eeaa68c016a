----------------------------- MODULE TokenChecks -----------------------------
(***************************************************************************)
(* How a revoked token stops working.  dun-api keeps the list of revoked   *)
(* tokens.  The viewer gate (edge-viewer-gate) mirrors the list by polling *)
(* it with an ETag, and checks every viewer request against the mirror and *)
(* a cache of signing keys.  edge-control (edge-shared's JwtVerifier and   *)
(* HttpRevocationOracle) asks dun-api about each tunnel token and caches   *)
(* the answer.                                                             *)
(*                                                                         *)
(* Time is counted in ticks.  A request that is out is answered, or fails, *)
(* within its timeout: the clock waits for that, as for a poll that is     *)
(* due.  Nothing here is exact to less than a tick.                        *)
(***************************************************************************)
EXTENDS Integers, FiniteSets

CONSTANTS Tokens,        \* [jti, sub, host, kid, exp]
          Sessions, Hosts, Kids,
          Checks,        \* concurrent /check requests
          Verifies,      \* concurrent tunnel verifications
          NoToken, NoTag,
          MaxTime,       \* bound on the clock
          PollInterval,  \* REVOCATION_POLL_SECONDS
          MaxStaleness,  \* REVOCATION_MAX_STALENESS_SECONDS
          PollTimeout,   \* of a poll of the list
          PollCeiling,   \* the hard ceiling of the polling interval
          Ttl,           \* DEFAULT_CACHE_TTL
          FetchTimeout   \* of a question about one token

Never == MaxTime + 1
Jtis == {t.jti : t \in Tokens}

ASSUME TokenAssumption ==
  /\ Tokens \subseteq [jti : Jtis, sub : Sessions, host : Hosts, kid : Kids, exp : Nat]
  /\ NoToken \notin Tokens
  /\ \A list \in SUBSET Jtis : NoTag # list
  /\ MaxTime \in Nat /\ MaxStaleness \in Nat
  /\ PollInterval \in Nat \ {0} /\ PollTimeout \in Nat \ {0} /\ PollCeiling \in Nat \ {0}
  /\ Ttl \in Nat \ {0} /\ FetchTimeout \in Nat \ {0}

VARIABLES
  now,
  revoked,       \* dun-api: when each jti was revoked, Never if it was not
  strict, polling,   \* the gate's configuration
  keys,          \* the gate's key cache
  mirror,        \* its copy of the list ...
  tag,           \* ... the ETag it came with
  success,       \* ... and when a poll last succeeded, -1 if none did
  streak,        \* answers "not modified" in a row, counted up to 4
  due,           \* when the next poll is due
  poll,          \* the poll that is out
  failed,        \* a poll has failed since the last success
  check,         \* requests at the gate
  cache,         \* the oracle's entries: answer and time
  verify         \* tunnel verifications

config == <<strict, polling>>
poller == <<mirror, tag, success, streak, due, poll, failed>>
vars == <<now, revoked, config, keys, poller, check, cache, verify>>

\* of a poll: none is out, it has no answer yet, or what the answer is.
Answers == {"idle", "none", "new", "same", "garbled"}
Entries == [answer : {"none", "valid", "revoked"}, at : 0 .. MaxTime]
Verifications == [pc : {"idle", "asking", "valid", "revoked", "accepted"},
                  at : 0 .. MaxTime, jti : Jtis]

TypeOK ==
  /\ now \in 0 .. MaxTime
  /\ revoked \in [Jtis -> 0 .. Never]
  /\ strict \in BOOLEAN /\ polling \in BOOLEAN /\ failed \in BOOLEAN
  /\ keys \in (SUBSET Kids) \ {{}}
  /\ mirror \subseteq Jtis
  /\ tag \in (SUBSET Jtis) \cup {NoTag}
  /\ success \in -1 .. MaxTime
  /\ streak \in 0 .. 4
  /\ due \in 0 .. MaxTime + PollInterval + PollCeiling
  /\ poll \in [at : 0 .. MaxTime, answer : Answers, list : SUBSET Jtis]
  /\ check \in [Checks -> [pc : {"idle", "fresh", "admitted"}, at : 0 .. MaxTime,
                           token : Tokens \cup {NoToken}]]
  /\ cache \in [Jtis -> Entries]
  /\ verify \in [Verifies -> Verifications]

NoPoll == [at |-> 0, answer |-> "idle", list |-> {}]
NoCheck == [pc |-> "idle", at |-> 0, token |-> NoToken]

Init ==
  /\ now = 0
  /\ revoked = [j \in Jtis |-> Never]
  /\ strict \in BOOLEAN /\ polling \in BOOLEAN
  /\ keys \in (SUBSET Kids) \ {{}}
  /\ mirror = {} /\ tag = NoTag /\ success = -1 /\ streak = 0 /\ due = 0
  /\ poll = NoPoll /\ failed = FALSE
  /\ check = [k \in Checks |-> NoCheck]
  /\ cache = [j \in Jtis |-> [answer |-> "none", at |-> 0]]
  /\ verify \in [Verifies -> {[pc |-> "idle", at |-> 0, jti |-> j] : j \in Jtis}]

-----------------------------------------------------------------------------
(* dun-api and the clock.                                                  *)

PollOut == poll.answer # "idle"

Revoked == {j \in Jtis : revoked[j] <= now}

Revoke(j) ==
  /\ revoked[j] = Never
  /\ revoked' = [revoked EXCEPT ![j] = now]
  /\ UNCHANGED <<now, config, keys, poller, check, cache, verify>>

\* Requests that are out end within their timeouts, and a due poll goes out.
Pass ==
  /\ now < MaxTime
  /\ PollOut => now < poll.at + PollTimeout
  /\ polling /\ ~PollOut => now < due
  /\ \A v \in Verifies : verify[v].pc \in {"asking", "valid", "revoked"} => now < verify[v].at + FetchTimeout
  /\ now' = now + 1
  /\ UNCHANGED <<revoked, config, keys, poller, check, cache, verify>>

-----------------------------------------------------------------------------
(* The gate's poll loop: RevocationList::start.                            *)

Least(a, b) == IF a < b THEN a ELSE b
Greatest(a, b) == IF a > b THEN a ELSE b

Base == PollInterval

\* Mutant: the interval may grow to the whole of max_staleness.
CapWhole == Greatest(Least(MaxStaleness, PollCeiling), Base)

Cap == Greatest(Least(MaxStaleness \div 2, PollCeiling), Base)

\* The wait after a "not modified": doubled each time up to 16 times, capped.
Stretched(n) == Least(Base * 2^Least(n, 4), Cap)

SendPoll ==
  /\ polling
  /\ ~PollOut
  /\ now >= due
  /\ poll' = [at |-> now, answer |-> "none", list |-> {}]
  /\ UNCHANGED <<now, revoked, config, keys, mirror, tag, success, streak, due, failed,
                 check, cache, verify>>

\* dun-api answers "not modified" to the tag of its present list; a body may
\* arrive unreadable, or with a status that is an error.
ApiAnswers ==
  /\ poll.answer = "none"
  /\ \/ tag = Revoked /\ poll' = [poll EXCEPT !.answer = "same"]
     \/ tag # Revoked /\ poll' = [poll EXCEPT !.answer = "new", !.list = Revoked]
     \/ tag # Revoked /\ poll' = [poll EXCEPT !.answer = "garbled", !.list = Revoked]
  /\ UNCHANGED <<now, revoked, config, keys, mirror, tag, success, streak, due, failed,
                 check, cache, verify>>

NotModified ==
  /\ poll.answer = "same"
  /\ success' = now
  /\ streak' = Least(streak + 1, 4)
  /\ due' = now + Stretched(streak + 1)
  /\ poll' = NoPoll
  /\ failed' = FALSE
  /\ UNCHANGED <<now, revoked, config, keys, mirror, tag, check, cache, verify>>

\* The list is replaced; its ETag is optional.
NewList ==
  /\ poll.answer = "new"
  /\ mirror' = poll.list
  /\ tag' \in {poll.list, NoTag}
  /\ success' = now
  /\ streak' = 0
  /\ due' = now + Base
  /\ poll' = NoPoll
  /\ failed' = FALSE
  /\ UNCHANGED <<now, revoked, config, keys, check, cache, verify>>

\* Mutant: the ETag is kept although the body could not be read.
PollFailsKeepingTag ==
  /\ PollOut
  /\ tag' = IF poll.answer = "garbled" THEN poll.list ELSE tag
  /\ due' = now + Base
  /\ poll' = NoPoll
  /\ failed' = TRUE
  /\ UNCHANGED <<now, revoked, config, keys, mirror, success, streak, check, cache, verify>>

\* No answer in time, an error status or an unreadable body.
PollFails ==
  /\ PollOut
  /\ due' = now + Base
  /\ poll' = NoPoll
  /\ failed' = TRUE
  /\ UNCHANGED <<now, revoked, config, keys, mirror, tag, success, streak, check, cache, verify>>

\* Mutant: a document without a usable key is stored too.
RefreshKeysEmpty(doc) ==
  /\ keys' = doc
  /\ keys' # keys
  /\ UNCHANGED <<now, revoked, config, poller, check, cache, verify>>

\* The periodic refresh, with the usable keys of the document it fetched; an empty
\* document or an error changes nothing.
RefreshKeys(doc) ==
  /\ doc # {}
  /\ keys' = doc
  /\ keys' # keys
  /\ UNCHANGED <<now, revoked, config, poller, check, cache, verify>>

-----------------------------------------------------------------------------
(* A viewer's request: check_handler and authorize, then ws_handler.       *)

IsFresh == ~polling \/ (success >= 0 /\ now - success <= MaxStaleness)

\* In strict mode a stale mirror answers 503; nothing else has been looked at yet.
CheckFresh(k, t) ==
  /\ check[k].pc = "idle"
  /\ strict => IsFresh
  /\ check' = [check EXCEPT ![k] = [pc |-> "fresh", at |-> now, token |-> t]]
  /\ UNCHANGED <<now, revoked, config, keys, poller, cache, verify>>

\* The cookie's checks, at the time they are made; exp stands for the claim and the
\* library's leeway.
Authorize(t, host) ==
  /\ t.kid \in keys
  /\ now <= t.exp
  /\ t.host = host
  /\ t.jti \notin mirror

\* authorize_viewer: X-Forwarded-Sub admits to the token's own session only.
AuthorizeViewer(t, session) == t.sub = session

Admit(k) ==
  /\ check[k].pc = "fresh"
  /\ \E host \in Hosts : Authorize(check[k].token, host)
  /\ \E session \in Sessions : AuthorizeViewer(check[k].token, session)
  /\ check' = [check EXCEPT ![k].pc = "admitted"]
  /\ UNCHANGED <<now, revoked, config, keys, poller, cache, verify>>

\* 401 from the gate, or 403 from the upgrade.
Reject(k) ==
  /\ check[k].pc = "fresh"
  /\ \/ \E host \in Hosts : ~Authorize(check[k].token, host)
     \/ \E session \in Sessions : ~AuthorizeViewer(check[k].token, session)
  /\ check' = [check EXCEPT ![k] = NoCheck]
  /\ UNCHANGED <<now, revoked, config, keys, poller, cache, verify>>

\* The request is answered.
Leave(k) ==
  /\ check[k].pc = "admitted"
  /\ check' = [check EXCEPT ![k] = NoCheck]
  /\ UNCHANGED <<now, revoked, config, keys, poller, cache, verify>>

-----------------------------------------------------------------------------
(* A tunnel's token: verify_tunnel, check_revocation and is_revoked.       *)

\* cache_get; it also misses while another task writes the cache.
Cached(j) == cache[j].answer # "none" /\ now - cache[j].at < Ttl

\* Mutant: an answer that is used is kept for another Ttl.
VerifyCachedSliding(v) ==
  /\ verify[v].pc = "idle"
  /\ Cached(verify[v].jti) /\ cache[verify[v].jti].answer = "valid"
  /\ cache' = [cache EXCEPT ![verify[v].jti].at = now]
  /\ verify' = [verify EXCEPT ![v] = [@ EXCEPT !.pc = "accepted", !.at = now]]
  /\ UNCHANGED <<now, revoked, config, keys, poller, check>>

\* A cached answer decides; one that says "revoked" rejects and changes nothing.
VerifyCached(v) ==
  /\ verify[v].pc = "idle"
  /\ Cached(verify[v].jti) /\ cache[verify[v].jti].answer = "valid"
  /\ verify' = [verify EXCEPT ![v] = [@ EXCEPT !.pc = "accepted", !.at = now]]
  /\ UNCHANGED <<now, revoked, config, keys, poller, check, cache>>

\* Without an entry that is young enough dun-api is asked, and also when another
\* call holds the cache's write lock: try_read does not wait.
VerifyAsk(v) ==
  /\ verify[v].pc = "idle"
  /\ ~Cached(verify[v].jti) \/ \E w \in Verifies : verify[w].pc \in {"valid", "revoked"}
  /\ verify' = [verify EXCEPT ![v] = [@ EXCEPT !.pc = "asking", !.at = now]]
  /\ UNCHANGED <<now, revoked, config, keys, poller, check, cache>>

ApiTells(v) ==
  /\ verify[v].pc = "asking"
  /\ verify' = [verify EXCEPT ![v].pc = IF verify[v].jti \in Revoked THEN "revoked" ELSE "valid"]
  /\ UNCHANGED <<now, revoked, config, keys, poller, check, cache>>

\* The answer is cached as of now, and decides.
CachePut(v) ==
  /\ verify[v].pc \in {"valid", "revoked"}
  /\ cache' = [cache EXCEPT ![verify[v].jti] = [answer |-> verify[v].pc, at |-> now]]
  /\ \/ verify[v].pc = "valid" /\ verify' = [verify EXCEPT ![v].pc = "accepted"]
     \/ verify[v].pc = "revoked" /\ verify' = [verify EXCEPT ![v] = [@ EXCEPT !.pc = "idle", !.at = 0]]
  /\ UNCHANGED <<now, revoked, config, keys, poller, check>>

\* An error counts as revoked, and is not cached.
FetchFails(v) ==
  /\ verify[v].pc \in {"asking", "valid", "revoked"}
  /\ verify' = [verify EXCEPT ![v] = [@ EXCEPT !.pc = "idle", !.at = 0]]
  /\ UNCHANGED <<now, revoked, config, keys, poller, check, cache>>

VerifyReturns(v) ==
  /\ verify[v].pc = "accepted"
  /\ verify' = [verify EXCEPT ![v] = [@ EXCEPT !.pc = "idle", !.at = 0]]
  /\ UNCHANGED <<now, revoked, config, keys, poller, check, cache>>

Next ==
  \/ Pass \/ \E j \in Jtis : Revoke(j)
  \/ SendPoll \/ ApiAnswers \/ NotModified \/ NewList \/ PollFails
  \/ \E doc \in SUBSET Kids : RefreshKeys(doc)
  \/ \E k \in Checks : Admit(k) \/ Reject(k) \/ Leave(k) \/ \E t \in Tokens : CheckFresh(k, t)
  \/ \E v \in Verifies : VerifyCached(v) \/ VerifyAsk(v) \/ ApiTells(v) \/ CachePut(v)
                         \/ FetchFails(v) \/ VerifyReturns(v)

Spec == Init /\ [][Next]_vars

-----------------------------------------------------------------------------
(* Properties.                                                             *)

\* In strict mode a request is admitted only with a token that had not been
\* revoked for longer than max_staleness and one poll when it came in: a "not
\* modified" never refreshes a mirror that is behind.
StrictWindow ==
  \A k \in Checks :
    strict /\ polling /\ check[k].pc = "admitted" =>
      check[k].at - revoked[check[k].token.jti] <= MaxStaleness + PollTimeout

\* Stretching the polls does not make the mirror stale by itself: it is stale only
\* before the first success or after a failed poll.  The cap gives that if half of
\* max_staleness covers the polling interval and the timeout.
StaleOnlyAfterFailure ==
  polling /\ 2 * PollInterval <= MaxStaleness /\ 2 * PollTimeout <= MaxStaleness =>
    (~IsFresh => success = -1 \/ failed)

\* A tunnel token is accepted for less than the cache's time and one request after
\* it was revoked, whichever of two concurrent answers is cached last: the bound the
\* code keeps, which is longer than the one it states (WithinSla).
TunnelWindow ==
  \A v \in Verifies :
    verify[v].pc = "accepted" =>
      verify[v].at - revoked[verify[v].jti] < Ttl + FetchTimeout

\* What revocation.rs says of its cache: a revocation takes effect within the cache's
\* time.  An answer may be older than its entry by the time it was on its way.
WithinSla ==
  \A v \in Verifies :
    verify[v].pc = "accepted" => verify[v].at - revoked[verify[v].jti] <= Ttl
=============================================================================
