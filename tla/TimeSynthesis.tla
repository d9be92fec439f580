--------------------------- MODULE TimeSynthesis ----------------------------
(***************************************************************************)
(* TimeSynthesis of the SDK (src/time_synthesis.ts): concurrent calls of   *)
(* synthesize and generateProofOfTime fan out to all time sources, wait    *)
(* until every one has answered or failed (TimeSources has their timers),  *)
(* and take the median of the readings.  A proof of time (PoT) carries a   *)
(* fresh nonce and an expiry; verifyProofOfTime accepts a nonce once and   *)
(* remembers it in a bounded map with a time to live.                      *)
(*                                                                         *)
(* Callers are the tools of integrations/, which generate a PoT and verify *)
(* it again on the same instance, and applications that verify PoTs they   *)
(* were handed, their own or those of a peer whose clock may be off.       *)
(*                                                                         *)
(* Times are in one unit.  The uncertainty of the PoT itself is left out:  *)
(* nothing decides on it.                                                  *)
(***************************************************************************)
EXTENDS NonceCache, MedianOfSources

CONSTANTS
  NumSources,      \* the length of this.sources
  Readings,        \* what a source may return: [timestamp, uncertainty, stratum]
  Faulty,          \* the sources whose readings cannot be trusted
  FloorTolerance,  \* getToleranceForStratum: tolerance of stratum 1, 2 and 3+
  Tasks,           \* concurrent calls, each made once
  Expiry,          \* lifetime of a PoT (60 s)
  PeerReadings,    \* the readings (with their source) in a PoT of a peer
  Skews,           \* clock of a peer relative to ours
  MaxNonces,       \* bound on the PoTs of a behaviour
  MaxTime          \* bound on the clock

Sources == 1..NumSources
Nonces  == 1..MaxNonces
Stratum == 1..15

ASSUME ConstantsAssumption ==
  /\ NumSources \in Nat \ {0}
  /\ Readings \subseteq [timestamp : Nat, uncertainty : Nat, stratum : Stratum]
  /\ Faulty \subseteq Sources
  /\ FloorTolerance \in [1..3 -> Nat]
  /\ IsFiniteSet(Tasks)
  /\ MaxNonces \in Nat /\ MaxTime \in Nat
  /\ Expiry \in Nat
  /\ Skews \subseteq Int
  /\ \A R \in PeerReadings : IsFiniteSet(R)

\* "must exceed PoT expiresAt (60s) to prevent edge-case replay"
ASSUME TtlAssumption == \A k \in Skews \cup {0} : Expiry + k <= NonceTtl

VARIABLES
  now,          \* Date.now()
  tasks,        \* the calls under way and their results
  pots,         \* nonce -> PoT, for the PoTs that left an instance
  issued,       \* nonces drawn so far: 1..issued
  usedNonces,   \* nonce -> the time it was first verified
  accepted,     \* ghost: how often each nonce was accepted, at most 2
  lost          \* ghost: nonces dropped by close or to make room

vars == <<now, tasks, pots, issued, usedNonces, accepted, lost>>

pending == [state |-> "pending"]
failed  == [state |-> "failed"]

MakePoT(R, nonce, expiresAt) ==
  [nonce |-> nonce, expiresAt |-> expiresAt, sourceReadings |-> R,
   confidence |-> Cardinality(R),
   timestamp |-> Median(R).timestamp, stratum |-> Median(R).stratum]

getToleranceForStratum(stratum) ==
  FloorTolerance[IF stratum <= 1 THEN 1 ELSE IF stratum = 2 THEN 2 ELSE 3]

\* Every reading lies within the larger of its own uncertainty and the floor
\* that the most precise source sets.
WithinTolerance(pot) ==
  LET strata == {pot.stratum} \cup {r.stratum : r \in pot.sourceReadings}
      lowestStratum == CHOOSE s \in strata : \A u \in strata : s <= u
      floor == getToleranceForStratum(lowestStratum)
  IN  \A r \in pot.sourceReadings :
        LET diff == IF r.timestamp > pot.timestamp
                    THEN r.timestamp - pot.timestamp
                    ELSE pot.timestamp - r.timestamp
        IN  diff <= floor \/ diff <= r.uncertainty

\* verifyProofOfTime with result ok.  The nonce is remembered before the
\* readings are compared, so a PoT that fails there is spent as well.
verifyProofOfTime(pot, ok) ==
  \/ /\ \/ pot.sourceReadings = {}
        \/ pot.confidence <= 0
        \/ now > pot.expiresAt
     /\ ~ok
     /\ UNCHANGED <<usedNonces, accepted, lost>>
  \/ /\ pot.sourceReadings # {} /\ pot.confidence > 0 /\ now <= pot.expiresAt
     /\ pot.nonce \in DOMAIN Swept(usedNonces, now)
     /\ ~ok
     /\ usedNonces' = Swept(usedNonces, now)
     /\ UNCHANGED <<accepted, lost>>
  \/ /\ pot.sourceReadings # {} /\ pot.confidence > 0 /\ now <= pot.expiresAt
     /\ pot.nonce \notin DOMAIN Swept(usedNonces, now)
     /\ ok <=> WithinTolerance(pot)
     /\ LET kept == Swept(usedNonces, now)
        IN  \E gone \in Evictions(kept) :
              /\ usedNonces' = Remember(kept, gone, pot.nonce, now)
              /\ lost' = lost \cup gone
     /\ accepted' = IF ok /\ accepted[pot.nonce] < 2
                    THEN [accepted EXCEPT ![pot.nonce] = @ + 1] ELSE accepted

Idle == [call |-> "none", got |-> [s \in Sources |-> pending],
         state |-> "idle", timestamp |-> 0, nonce |-> 0, verified |-> FALSE]

Init ==
  /\ now = 0
  /\ tasks = [t \in Tasks |-> Idle]
  /\ pots = << >>
  /\ issued = 0
  /\ usedNonces = << >>
  /\ accepted = [n \in Nonces |-> 0]
  /\ lost = {}

\* synthesize() or generateProofOfTime(), up to Promise.allSettled
Call(t, call) ==
  /\ tasks[t].state = "idle"
  /\ tasks' = [tasks EXCEPT ![t].state = "waiting", ![t].call = call]
  /\ UNCHANGED <<now, pots, issued, usedNonces, accepted, lost>>

\* A source answers, or its error handler or its timer rejects.
Settle(t, s, answer) ==
  /\ tasks[t].state = "waiting"
  /\ tasks[t].got[s] = pending
  /\ tasks' = [tasks EXCEPT ![t].got[s] = answer]
  /\ UNCHANGED <<now, pots, issued, usedNonces, accepted, lost>>

AllSettled(t) ==
  tasks[t].state = "waiting" /\ \A s \in Sources : tasks[t].got[s] # pending

\* The readings of the sources that answered
Fulfilled(t) ==
  {[source |-> s, timestamp |-> tasks[t].got[s].reading.timestamp,
    uncertainty |-> tasks[t].got[s].reading.uncertainty,
    stratum |-> tasks[t].got[s].reading.stratum] :
      s \in {u \in Sources : tasks[t].got[u].state = "fulfilled"}}

\* All sources failed: both calls throw.
AllFailed(t) ==
  /\ AllSettled(t)
  /\ Fulfilled(t) = {}
  /\ tasks' = [tasks EXCEPT ![t].state = "threw"]
  /\ UNCHANGED <<now, pots, issued, usedNonces, accepted, lost>>

\* The rest of synthesize
Synthesize(t) ==
  /\ AllSettled(t)
  /\ tasks[t].call = "synthesize"
  /\ Fulfilled(t) # {}
  /\ tasks' = [tasks EXCEPT ![t].state = "returned",
                            ![t].timestamp = Median(Fulfilled(t)).timestamp]
  /\ UNCHANGED <<now, pots, issued, usedNonces, accepted, lost>>

\* The rest of generateProofOfTime: the PoT is built, verified on this
\* instance, and returned or thrown away.
Generate(t) ==
  LET nonce == issued + 1
      pot   == MakePoT(Fulfilled(t), nonce, now + Expiry)
  IN  /\ AllSettled(t)
      /\ tasks[t].call = "generate"
      /\ Fulfilled(t) # {}
      /\ issued < MaxNonces
      /\ issued' = nonce
      /\ \E ok \in BOOLEAN :
           /\ verifyProofOfTime(pot, ok)
           /\ pots' = IF ok
                      THEN [n \in DOMAIN pots \cup {nonce} |->
                              IF n = nonce THEN pot ELSE pots[n]]
                      ELSE pots
           /\ tasks' = [tasks EXCEPT
                          ![t].state = IF ok THEN "returned" ELSE "threw",
                          ![t].timestamp = pot.timestamp,
                          ![t].nonce = nonce]
      /\ UNCHANGED now

\* The tools of integrations/ verify the PoT they just generated.
ToolVerify(t) ==
  /\ tasks[t].state = "returned"
  /\ tasks[t].call = "generate"
  /\ \E ok \in BOOLEAN :
       /\ verifyProofOfTime(pots[tasks[t].nonce], ok)
       /\ tasks' = [tasks EXCEPT ![t].state = "verified", ![t].verified = ok]
  /\ UNCHANGED <<now, pots, issued>>

\* A PoT of a peer arrives.  The peer generated it some time before, with its
\* own clock; the nonces that the tasks may still need are left to them.
Receive(R, skew) ==
  /\ issued + Cardinality(Tasks) < MaxNonces
  /\ issued' = issued + 1
  /\ pots' = [n \in DOMAIN pots \cup {issued + 1} |->
                IF n = issued + 1
                THEN MakePoT(R, n, now + Expiry + skew) ELSE pots[n]]
  /\ UNCHANGED <<now, tasks, usedNonces, accepted, lost>>

\* The application verifies a PoT it was handed, as often as it likes.
Verify(n) ==
  /\ \E ok \in BOOLEAN : verifyProofOfTime(pots[n], ok)
  /\ UNCHANGED <<now, tasks, pots, issued>>

\* close() clears the nonces.  The requests it destroys settle as failed.
Close ==
  /\ usedNonces' = << >>
  /\ lost' = lost \cup DOMAIN usedNonces
  /\ UNCHANGED <<now, tasks, pots, issued, accepted>>

Tick ==
  /\ now < MaxTime
  /\ now' = now + 1
  /\ UNCHANGED <<tasks, pots, issued, usedNonces, accepted, lost>>

Answers == {failed} \cup [state : {"fulfilled"}, reading : Readings]

Next ==
  \/ \E t \in Tasks, call \in {"synthesize", "generate"} : Call(t, call)
  \/ \E t \in Tasks, s \in Sources, a \in Answers : Settle(t, s, a)
  \/ \E t \in Tasks : AllFailed(t)
  \/ \E t \in Tasks : Synthesize(t)
  \/ \E t \in Tasks : Generate(t)
  \/ \E t \in Tasks : ToolVerify(t)
  \/ \E R \in PeerReadings, skew \in Skews : Receive(R, skew)
  \/ \E n \in DOMAIN pots : Verify(n)
  \/ Close
  \/ Tick

Spec == Init /\ [][Next]_vars

-----------------------------------------------------------------------------
TypeOK ==
  /\ now \in 0..MaxTime
  /\ issued \in 0..MaxNonces
  /\ DOMAIN pots \subseteq 1..issued
  /\ \A n \in DOMAIN pots : pots[n].nonce = n /\ pots[n].expiresAt \in Int
  /\ DOMAIN usedNonces \subseteq 1..issued
  /\ \A n \in DOMAIN usedNonces : usedNonces[n] \in 0..now
  /\ accepted \in [Nonces -> 0..2]
  /\ lost \subseteq 1..issued

\* A PoT is accepted at most once, through any interleaving of calls, sweeps
\* and clock ticks, unless its nonce was dropped by close or because the cache
\* was full: the cleanup pass never opens a replay.
NoReplay == \A n \in Nonces : accepted[n] > 1 => n \in lost

\* The nonce cache never outgrows MAX_NONCE_CACHE.
CacheBounded == Cardinality(DOMAIN usedNonces) <= MaxNonceCache

\* The inductive invariant behind NoReplay.  A nonce that was accepted is
\* dropped from the cache only when its PoT has expired, since it entered the
\* cache at most NonceTtl before that; or else the drop is recorded in lost.
Spent(n) ==
  /\ n \in DOMAIN pots
  /\ n \in lost \/ n \in DOMAIN usedNonces \/ now > pots[n].expiresAt

NonceInv ==
  /\ TypeOK
  /\ \A n \in DOMAIN pots : pots[n].expiresAt <= now + NonceTtl
  /\ \A n \in DOMAIN usedNonces \cap DOMAIN pots :
       pots[n].expiresAt <= usedNonces[n] + NonceTtl
  /\ \A n \in Nonces : accepted[n] > 0 => Spent(n)
  /\ NoReplay

ReturnedPots ==
  /\ DOMAIN tasks = Tasks
  /\ \A t \in Tasks :
       /\ DOMAIN tasks[t] = DOMAIN Idle
       /\ tasks[t].state = "returned" /\ tasks[t].call = "generate" =>
            tasks[t].nonce \in DOMAIN pots

IInv == NonceInv /\ ReturnedPots

\* Faulty sources in the minority cannot move the synthesized time out of the
\* range of the honest readings, whichever sources failed to answer.
MedianRobust ==
  \A t \in Tasks : tasks[t].state \in {"returned", "verified"} =>
    LET R == Fulfilled(t)
        honest == {r \in R : r.source \notin Faulty}
    IN  2 * Cardinality(R \ honest) < Cardinality(R) =>
          /\ \E r \in honest : r.timestamp <= tasks[t].timestamp
          /\ \E r \in honest : r.timestamp >= tasks[t].timestamp

\* README: verifyProofOfTime(pot) verifies that "all readings are within
\* tolerance of the median"; the tools of integrations/ report its result as
\* the verification status of the PoT they just generated, whose readings are
\* within tolerance and which has not expired.
ToolReportsValid ==
  \A t \in Tasks : tasks[t].state = "verified" =>
    tasks[t].verified \/ now > pots[tasks[t].nonce].expiresAt
=============================================================================
