---------------------------- MODULE TimeSources -----------------------------
(***************************************************************************)
(* The network side of the SDK's time sources: NTPSource and               *)
(* HTTPSTimeSource (src/time_synthesis.ts), RoughtimeSource                *)
(* (src/roughtime_source.ts) and OsnmaTimeSource (src/osnma_source.ts),    *)
(* and the fan-out over them.  TimeSynthesis asks its HTTPS and Roughtime  *)
(* sources in that way; the other two classes are exported for             *)
(* applications to ask.  A query races its answer, its errors, its timer   *)
(* and close() of its source, and each callback must leave alone what      *)
(* another one has finished.                                               *)
(*                                                                         *)
(* What an answer holds is reduced to whether it passes the source's       *)
(* checks.  An exception in a callback that nothing catches ends the       *)
(* process, as Node does by default.                                       *)
(***************************************************************************)
EXTENDS Integers

CONSTANTS
  Sources,      \* the sources that are asked together
  KindOf,       \* source -> its class
  MaxRounds     \* bound on the fan-outs; each uses queries of its own

Kinds  == {"ntp", "https", "roughtime", "osnma"}
Rounds == 1..MaxRounds

ASSUME SourcesAssumption == KindOf \in [Sources -> Kinds] /\ MaxRounds \in Nat

VARIABLES
  handle,    \* query -> its socket or request: none, dns, open or closed
  timer,     \* query -> its timeout is set
  sending,   \* query -> the callback of send() is outstanding
  promise,   \* query -> what getTime() returned
  active,    \* activeRequests and activeSockets, of all sources
  verified,  \* OsnmaTimeSource.verificationResult is set
  rounds,    \* the fan-outs started
  running,   \* the process has not died of an uncaught exception
  threw      \* ghost: the Roughtime queries whose send() threw at once

vars == <<handle, timer, sending, promise, active, verified, rounds, running, threw>>

Queries == Sources \X Rounds
Kind(q) == KindOf[q[1]]
Tracks  == {"https", "roughtime"}      \* the classes with a close()

Init ==
  /\ handle = [q \in Queries |-> "none"]
  /\ timer = [q \in Queries |-> FALSE]
  /\ sending = [q \in Queries |-> FALSE]
  /\ promise = [q \in Queries |-> "none"]
  /\ active = {} /\ verified = FALSE /\ rounds = 0 /\ running = TRUE
  /\ threw = {}

-----------------------------------------------------------------------------
(* Starting *)

\* What OsnmaTimeSource.getTime goes by: the key was verified before, or passes
\* verifyOsnmaKeyMaterial now.
KeyVerified(keyValid) == verified \/ keyValid

\* getTime() of every source, up to its first await.  RoughtimeSource looks up
\* the host before it has a socket or a timer; OsnmaTimeSource needs neither,
\* and keeps the result of its first verification of the key.
generateProofOfTime(keyValid) ==
  /\ running /\ rounds < MaxRounds
  /\ rounds' = rounds + 1
  /\ LET started == Sources \X {rounds'}
         Of(kinds) == {q \in started : Kind(q) \in kinds}
         Updated(f, kinds, v) == [q \in Queries |-> IF q \in Of(kinds) THEN v ELSE f[q]]
     IN
       /\ handle' = [q \in Queries |->
                       IF q \in Of({"roughtime"}) THEN "dns"
                       ELSE IF q \in Of({"ntp", "https"}) THEN "open" ELSE handle[q]]
       /\ timer' = Updated(timer, {"ntp", "https"}, TRUE)
       /\ sending' = Updated(sending, {"ntp"}, TRUE)
       /\ promise' = [q \in Queries |->
                        IF q \in Of({"osnma"}) THEN IF KeyVerified(keyValid) THEN "resolved" ELSE "rejected"
                        ELSE IF q \in started THEN "pending" ELSE promise[q]]
       /\ active' = active \cup Of({"https"})
       /\ verified' = (verified \/ (Of({"osnma"}) # {} /\ keyValid))
  /\ UNCHANGED <<running, threw>>

\* dns.lookup answers: sendAndReceive opens a socket, whether or not the source
\* was closed meanwhile, or the query fails.  If send() throws at once, as for a
\* port that is none, that rejects the promise and leaves the rest to the timer.
LookupAnswers(q) ==
  /\ running /\ handle[q] = "dns"
  /\ \/ /\ handle' = [handle EXCEPT ![q] = "open"]
        /\ timer' = [timer EXCEPT ![q] = TRUE]
        /\ sending' = [sending EXCEPT ![q] = TRUE]
        /\ active' = active \cup {q}
        /\ UNCHANGED <<promise, threw>>
     \/ /\ handle' = [handle EXCEPT ![q] = "open"]
        /\ timer' = [timer EXCEPT ![q] = TRUE]
        /\ active' = active \cup {q}
        /\ promise' = [promise EXCEPT ![q] = "rejected"]
        /\ threw' = threw \cup {q}
        /\ UNCHANGED sending
     \/ /\ handle' = [handle EXCEPT ![q] = "none"]
        /\ promise' = [promise EXCEPT ![q] = "rejected"]
        /\ UNCHANGED <<timer, sending, active, threw>>
  /\ UNCHANGED <<verified, rounds, running>>

-----------------------------------------------------------------------------
(* Finishing *)

\* A promise keeps its first outcome.
Settle(q, outcome) ==
  promise' = [promise EXCEPT ![q] = IF @ = "pending" THEN outcome ELSE @]

\* Mutant of Cleanup that leaves the socket open
CleanupTimerOnly(q) ==
  /\ UNCHANGED handle
  /\ timer' = [timer EXCEPT ![q] = FALSE]
  /\ active' = active \ {q}

\* What a callback that finishes a query releases
Cleanup(q) ==
  /\ handle' = [handle EXCEPT ![q] = "closed"]
  /\ timer' = [timer EXCEPT ![q] = FALSE]
  /\ active' = active \ {q}

\* Mutant of Timeout that does not reject
TimeoutSilent(q) ==
  /\ running /\ timer[q]
  /\ Cleanup(q)
  /\ UNCHANGED <<promise, sending, verified, rounds, running, threw>>

\* setTimeout fires.  NTPSource and RoughtimeSource close their socket,
\* HTTPSTimeSource only rejects and leaves its request to answer or fail.
Timeout(q) ==
  /\ running /\ timer[q]
  /\ Settle(q, "rejected")
  /\ \/ Kind(q) # "https" /\ Cleanup(q)
     \/ /\ Kind(q) = "https"
        /\ timer' = [timer EXCEPT ![q] = FALSE]
        /\ UNCHANGED <<handle, active>>
  /\ UNCHANGED <<sending, verified, rounds, running, threw>>

\* A message or a response that passes the checks, or does not
Answer(q) ==
  /\ running /\ handle[q] = "open" /\ q \notin threw
  /\ \E outcome \in {"resolved", "rejected"} : Settle(q, outcome)
  /\ Cleanup(q)
  /\ UNCHANGED <<sending, verified, rounds, running, threw>>

\* The event error of the socket or the request
SocketError(q) ==
  /\ running /\ handle[q] = "open" /\ q \notin threw
  /\ Settle(q, "rejected")
  /\ Cleanup(q)
  /\ UNCHANGED <<sending, verified, rounds, running, threw>>

\* send() reports an error (in NTPSource also at once, which it catches),
\* possibly after the query was settled: then RoughtimeSource does nothing,
\* NTPSource closes its socket once more, which throws, with nobody to catch it.
SendFails(q) ==
  /\ running /\ sending[q]
  /\ sending' = [sending EXCEPT ![q] = FALSE]
  /\ \/ promise[q] = "pending" /\ Settle(q, "rejected") /\ Cleanup(q) /\ UNCHANGED running
     \/ /\ promise[q] # "pending"
        /\ running' = (Kind(q) # "ntp")
        /\ UNCHANGED <<handle, timer, promise, active>>
  /\ UNCHANGED <<verified, rounds, threw>>

SendSucceeds(q) ==
  /\ running /\ sending[q]
  /\ sending' = [sending EXCEPT ![q] = FALSE]
  /\ UNCHANGED <<handle, timer, promise, active, verified, rounds, running, threw>>

\* A Date header that is no date: BigInt(NaN) throws in the response callback,
\* after the timer was cleared and before the promise is settled.
InvalidDate(q) ==
  /\ running /\ Kind(q) = "https" /\ handle[q] = "open"
  /\ timer' = [timer EXCEPT ![q] = FALSE]
  /\ running' = FALSE
  /\ UNCHANGED <<handle, sending, promise, active, verified, rounds, threw>>

\* Mutant of close that only empties the sets
CloseForgets ==
  /\ running
  /\ active' = {}
  /\ UNCHANGED <<handle, timer, sending, promise, verified, rounds, running, threw>>

\* TimeSynthesis.close: the requests are destroyed and report an error, the
\* sockets are closed silently and leave the promise to the timer.
close ==
  /\ running
  /\ handle' = [q \in Queries |-> IF q \in active THEN "closed" ELSE handle[q]]
  /\ timer' = [q \in Queries |-> timer[q] /\ ~(q \in active /\ Kind(q) = "https")]
  /\ promise' = [q \in Queries |->
       IF q \in active /\ Kind(q) = "https" /\ promise[q] = "pending"
       THEN "rejected" ELSE promise[q]]
  /\ active' = {}
  /\ UNCHANGED <<sending, verified, rounds, running, threw>>

Next ==
  \/ \E keyValid \in BOOLEAN : generateProofOfTime(keyValid)
  \/ \E q \in Queries :
       \/ LookupAnswers(q) \/ Timeout(q) \/ Answer(q) \/ SocketError(q)
       \/ SendFails(q) \/ SendSucceeds(q) \/ InvalidDate(q)
  \/ close

\* Node runs a timer that is due and the resolver answers a lookup; no answer
\* of a server is assumed.
Spec == /\ Init /\ [][Next]_vars
        /\ \A q \in Queries : WF_vars(Timeout(q) \/ LookupAnswers(q))

-----------------------------------------------------------------------------
(* Properties *)

TypeOK ==
  /\ handle \in [Queries -> {"none", "dns", "open", "closed"}]
  /\ timer \in [Queries -> BOOLEAN] /\ sending \in [Queries -> BOOLEAN]
  /\ promise \in [Queries -> {"none", "pending", "resolved", "rejected"}]
  /\ active \subseteq Queries /\ verified \in BOOLEAN
  /\ rounds \in 0..MaxRounds /\ running \in BOOLEAN
  /\ threw \subseteq Queries

\* close() reaches everything that is open: a request or a socket of a source
\* with a close() is open only while it is in the set that close() walks, also
\* when it timed out, or was opened after an earlier close().
OpenIsTracked == \A q \in Queries :
  handle[q] = "open" /\ Kind(q) \in Tracks => q \in active

\* A UDP query that has its outcome has let go of its socket and its timer, in
\* whichever order the answer, the errors, the timer and close() came.  One whose
\* send() threw keeps its socket no longer than its timer runs.
SettledReleases == \A q \in Queries :
  promise[q] \in {"resolved", "rejected"} /\ Kind(q) \in {"ntp", "roughtime"}
    => \/ handle[q] # "open" /\ ~timer[q]
       \/ q \in threw /\ (handle[q] = "open" => timer[q])

\* generateProofOfTime and synthesize always come to an end: Promise.allSettled
\* gets an outcome from every source, although no server may ever answer and
\* close() may come at any time.
CallsSettle == \A r \in Rounds :
  rounds = r ~> (~running \/ \A s \in Sources : promise[<<s, r>>] # "pending")

\* What the fan-out relies on, "each still contributes/fails its OWN independent
\* reading, same as the named HTTPS sources": a source that fails rejects its
\* own promise and does nothing else.
FailsAlone == running
=============================================================================
