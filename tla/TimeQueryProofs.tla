-------------------------- MODULE TimeQueryProofs ---------------------------
(***************************************************************************)
(* Proofs about the two ways of asking for the time.                       *)
(*                                                                         *)
(* TimeSources, for any sources and any number of fan-outs.  Neither       *)
(* property is inductive alone: a lookup that answers must find its        *)
(* promise pending and no timer, which rests on what a query that has not  *)
(* been started, or has not got a socket yet, cannot have.                 *)
(*                                                                         *)
(* RoughtimeChain, for any servers, radii and delays.  The answers of a    *)
(* chain are linked and in the order of their times whichever servers      *)
(* fail; that and the truth of the honest ones carry all three properties. *)
(***************************************************************************)
EXTENDS TimeSources, RoughtimeChain, SharedLemmas

\* The inductive invariant, for one query
QueryInv(q) ==
  /\ handle[q] = "dns" => promise[q] = "pending"
  /\ handle[q] \in {"none", "dns"} => ~timer[q] /\ ~sending[q]
  /\ q[2] > rounds => handle[q] = "none"
  /\ q \in active => handle[q] = "open"
  /\ handle[q] = "open" /\ Kind(q) \in Tracks => q \in active
  /\ promise[q] \in {"resolved", "rejected"} /\ Kind(q) \in {"ntp", "roughtime"}
       => \/ handle[q] # "open" /\ ~timer[q]
          \/ q \in threw /\ (handle[q] = "open" => timer[q])
  /\ promise[q] = "pending" /\ running => timer[q] \/ handle[q] = "dns"

SourcesInv == TypeOK /\ \A q \in Queries : QueryInv(q)

LEMMA SourcesInvInit == Init => SourcesInv
<1> SUFFICES ASSUME Init PROVE SourcesInv
  OBVIOUS
<1>1. TypeOK
  <2>1. 0 \in 0..MaxRounds
    BY SourcesAssumption
  <2>2. QED
    BY <2>1 DEF Init, TypeOK
<1>2. ASSUME NEW q \in Queries PROVE QueryInv(q)
  BY <1>2 DEF Init, QueryInv
<1>3. QED
  BY <1>1, <1>2 DEF SourcesInv

\* A step that finishes a query, with its promise settled
LEMMA CleanupPreserves ==
  ASSUME SourcesInv, NEW q \in Queries, handle[q] \notin {"none", "dns"},
         Cleanup(q), UNCHANGED rounds,
         sending' \in [Queries -> BOOLEAN],
         \A p \in Queries : sending'[p] => sending[p],
         \E outcome \in {"resolved", "rejected"} : Settle(q, outcome),
         UNCHANGED verified, UNCHANGED running, UNCHANGED threw
  PROVE  SourcesInv'
<1>1. TypeOK'
  BY DEF SourcesInv, TypeOK, Cleanup, Settle
<1>2. ASSUME NEW p \in Queries PROVE QueryInv(p)'
  <2>1. QueryInv(p) /\ handle \in [Queries -> {"none", "dns", "open", "closed"}]
        /\ timer \in [Queries -> BOOLEAN]
        /\ promise \in [Queries -> {"none", "pending", "resolved", "rejected"}]
    BY <1>2 DEF SourcesInv, TypeOK
  <2>2. CASE p = q
    <3>1. handle'[p] = "closed" /\ ~timer'[p] /\ p \notin active' /\ rounds' = rounds
      BY <2>1, <2>2 DEF Cleanup
    <3>2. ~(p[2] > rounds)
      BY <2>1, <2>2 DEF QueryInv
    <3>3. promise'[p] # "pending"
      BY <2>1, <2>2 DEF Settle
    <3>4. QED
      BY <3>1, <3>2, <3>3 DEF QueryInv
  <2>3. CASE p # q
    <3>1. /\ handle'[p] = handle[p] /\ timer'[p] = timer[p]
          /\ promise'[p] = promise[p] /\ (p \in active' <=> p \in active)
      BY <2>1, <2>3, <1>2 DEF Cleanup, Settle
    <3>2. QED
      BY <2>1, <3>1, <1>2 DEF QueryInv, Kind
  <2>4. QED
    BY <2>2, <2>3
<1>3. QED
  BY <1>1, <1>2 DEF SourcesInv

LEMMA GeneratePreserves ==
  ASSUME SourcesInv, NEW keyValid \in BOOLEAN, generateProofOfTime(keyValid)
  PROVE  SourcesInv'
<1> DEFINE started == Sources \X {rounds'}
           Of(kinds) == {q \in started : Kind(q) \in kinds}
<1>0. TypeOK /\ rounds \in Nat /\ rounds' = rounds + 1 /\ rounds < MaxRounds /\ MaxRounds \in Nat
  BY SourcesAssumption DEF SourcesInv, TypeOK, generateProofOfTime
<1>1. Of({"https"}) \subseteq Queries
  BY <1>0 DEF Queries, Rounds
<1>2. TypeOK'
  <2>1. /\ handle' \in [Queries -> {"none", "dns", "open", "closed"}]
        /\ timer' \in [Queries -> BOOLEAN] /\ sending' \in [Queries -> BOOLEAN]
    BY <1>0 DEF generateProofOfTime, TypeOK
  <2>2. promise' \in [Queries -> {"none", "pending", "resolved", "rejected"}]
    BY <1>0 DEF generateProofOfTime, TypeOK
  <2>3. active' \subseteq Queries
    BY <1>0, <1>1 DEF generateProofOfTime, TypeOK
  <2>4. verified' \in BOOLEAN /\ rounds' \in 0..MaxRounds /\ running' \in BOOLEAN
        /\ threw' \subseteq Queries
    BY <1>0 DEF generateProofOfTime, TypeOK
  <2>5. QED
    BY <2>1, <2>2, <2>3, <2>4 DEF TypeOK
<1>3. ASSUME NEW p \in Queries PROVE QueryInv(p)'
  <2>1. QueryInv(p) /\ p = <<p[1], p[2]>> /\ p[1] \in Sources /\ p[2] \in Nat
        /\ Kind(p) \in Kinds
    BY <1>3, SourcesAssumption DEF SourcesInv, Queries, Rounds, Kind
  <2>2. CASE p[2] = rounds'
    <3>1. handle[p] = "none" /\ ~timer[p] /\ ~sending[p]
      BY <1>0, <2>1, <2>2 DEF QueryInv
    <3>2. p \in started /\ p \notin active
      BY <2>1, <2>2, <3>1 DEF QueryInv
    <3>3. CASE Kind(p) = "ntp"
      BY <1>0, <1>3, <2>2, <3>1, <3>2, <3>3 DEF generateProofOfTime, QueryInv, Kind, Tracks
    <3>4. CASE Kind(p) = "https"
      BY <1>0, <1>3, <2>2, <3>1, <3>2, <3>4 DEF generateProofOfTime, QueryInv, Kind, Tracks
    <3>5. CASE Kind(p) = "roughtime"
      BY <1>0, <1>3, <2>2, <3>1, <3>2, <3>5 DEF generateProofOfTime, QueryInv, Kind, Tracks
    <3>6. CASE Kind(p) = "osnma"
      BY <1>0, <1>3, <2>2, <3>1, <3>2, <3>6 DEF generateProofOfTime, QueryInv, Kind, Tracks
    <3>7. QED
      BY <2>1, <3>3, <3>4, <3>5, <3>6 DEF Kinds
  <2>3. CASE p[2] # rounds'
    <3>1. p \notin started
      BY <2>1, <2>3
    <3>2. /\ handle'[p] = handle[p] /\ timer'[p] = timer[p] /\ sending'[p] = sending[p]
          /\ promise'[p] = promise[p] /\ (p \in active' <=> p \in active)
          /\ running' = running /\ threw' = threw
      BY <1>3, <3>1 DEF generateProofOfTime
    <3>3. QED
      BY <1>0, <2>1, <3>2 DEF QueryInv, Kind
  <2>4. QED
    BY <2>2, <2>3
<1>4. QED
  BY <1>2, <1>3 DEF SourcesInv

LEMMA LookupPreserves ==
  ASSUME SourcesInv, NEW q \in Queries, LookupAnswers(q)
  PROVE  SourcesInv'
<1>1. TypeOK'
  BY DEF SourcesInv, TypeOK, LookupAnswers
<1>2. ASSUME NEW p \in Queries PROVE QueryInv(p)'
  <2>1. QueryInv(p) /\ QueryInv(q) /\ TypeOK
    BY <1>2 DEF SourcesInv
  <2>2. handle[q] = "dns" /\ promise[q] = "pending" /\ ~timer[q] /\ ~sending[q]
        /\ q \notin active /\ ~(q[2] > rounds) /\ rounds' = rounds /\ running' = running
    BY <2>1 DEF QueryInv, LookupAnswers
  <2>3. CASE p # q
    <3>1. /\ handle'[p] = handle[p] /\ timer'[p] = timer[p] /\ sending'[p] = sending[p]
          /\ promise'[p] = promise[p] /\ (p \in active' <=> p \in active)
          /\ (p \in threw' <=> p \in threw)
      BY <1>2, <2>1, <2>3 DEF LookupAnswers, TypeOK
    <3>2. QED
      BY <2>1, <2>2, <3>1 DEF QueryInv, Kind
  <2>4. CASE p = q
    <3>1. CASE /\ handle' = [handle EXCEPT ![q] = "open"]
               /\ timer' = [timer EXCEPT ![q] = TRUE]
               /\ active' = active \cup {q} /\ UNCHANGED promise
      BY <2>1, <2>2, <2>4, <3>1 DEF QueryInv, Kind, TypeOK
    <3>2. CASE /\ handle' = [handle EXCEPT ![q] = "open"]
               /\ timer' = [timer EXCEPT ![q] = TRUE]
               /\ active' = active \cup {q}
               /\ promise' = [promise EXCEPT ![q] = "rejected"]
               /\ threw' = threw \cup {q}
      BY <2>1, <2>2, <2>4, <3>2 DEF QueryInv, Kind, TypeOK
    <3>3. CASE /\ handle' = [handle EXCEPT ![q] = "none"]
               /\ promise' = [promise EXCEPT ![q] = "rejected"]
               /\ UNCHANGED <<timer, sending, active>>
      BY <2>1, <2>2, <2>4, <3>3 DEF QueryInv, Kind, TypeOK
    <3>4. QED
      BY <3>1, <3>2, <3>3 DEF LookupAnswers
  <2>5. QED
    BY <2>3, <2>4
<1>3. QED
  BY <1>1, <1>2 DEF SourcesInv

\* A step that at most stops timers and sends, and rejects HTTPS queries
LEMMA QuietPreserves ==
  ASSUME SourcesInv, TypeOK', UNCHANGED <<handle, active, rounds, threw>>,
         \A p \in Queries : (timer'[p] => timer[p]) /\ (sending'[p] => sending[p]),
         \A p \in Queries : promise'[p] = promise[p] \/
                            (Kind(p) = "https" /\ handle[p] # "dns"),
         \A p \in Queries : (timer[p] => timer'[p]) \/ Kind(p) = "https",
         \A p \in Queries : running' /\ promise'[p] = "pending" =>
                            running /\ promise[p] = "pending" /\ (timer[p] => timer'[p])
  PROVE  SourcesInv'
<1>1. ASSUME NEW p \in Queries PROVE QueryInv(p)'
  <2>1. QueryInv(p)
    BY <1>1 DEF SourcesInv
  <2>2. QED
    BY <1>1, <2>1 DEF QueryInv, Kind
<1>2. QED
  BY <1>1 DEF SourcesInv

LEMMA TimeoutPreserves ==
  ASSUME SourcesInv, NEW q \in Queries, Timeout(q)
  PROVE  SourcesInv'
<1>1. TypeOK /\ QueryInv(q) /\ timer[q] /\ handle[q] \notin {"none", "dns"}
  BY DEF SourcesInv, QueryInv, Timeout
<1>2. CASE Kind(q) # "https" /\ Cleanup(q)
  BY <1>1, <1>2, CleanupPreserves DEF Timeout, TypeOK
<1>3. CASE /\ Kind(q) = "https" /\ timer' = [timer EXCEPT ![q] = FALSE]
           /\ UNCHANGED <<handle, active>>
  <2>1. TypeOK'
    BY <1>1, <1>3 DEF Timeout, Settle, TypeOK
  <2>2. \A p \in Queries : (timer'[p] => timer[p]) /\ (sending'[p] => sending[p])
    BY <1>1, <1>3 DEF Timeout, TypeOK
  <2>3. \A p \in Queries : promise'[p] = promise[p] \/
                           (Kind(p) = "https" /\ handle[p] # "dns")
    BY <1>1, <1>3 DEF Timeout, Settle, TypeOK
  <2>4. \A p \in Queries : running' /\ promise'[p] = "pending" =>
                           running /\ promise[p] = "pending" /\ (timer[p] => timer'[p])
    BY <1>1, <1>3 DEF Timeout, Settle, TypeOK
  <2>5. \A p \in Queries : (timer[p] => timer'[p]) \/ Kind(p) = "https"
    BY <1>1, <1>3 DEF TypeOK
  <2>6. QED
    BY <1>1, <1>3, <2>1, <2>2, <2>3, <2>4, <2>5, QuietPreserves DEF Timeout
<1>4. QED
  BY <1>2, <1>3 DEF Timeout

LEMMA SendFailsPreserves ==
  ASSUME SourcesInv, NEW q \in Queries, SendFails(q)
  PROVE  SourcesInv'
<1>1. TypeOK /\ QueryInv(q) /\ handle[q] \notin {"none", "dns"}
  BY DEF SourcesInv, QueryInv, SendFails
<1>2. sending' \in [Queries -> BOOLEAN] /\ \A p \in Queries : sending'[p] => sending[p]
  BY <1>1 DEF SendFails, TypeOK
<1>3. CASE promise[q] = "pending" /\ Settle(q, "rejected") /\ Cleanup(q) /\ UNCHANGED running
  BY <1>1, <1>2, <1>3, CleanupPreserves DEF SendFails
<1>4. CASE running' = (Kind(q) # "ntp") /\ UNCHANGED <<handle, timer, promise, active>>
  <2>1. running' \in BOOLEAN
    BY <1>4
  <2>2. TypeOK'
    BY <1>1, <1>2, <1>4, <2>1 DEF SendFails, TypeOK
  <2>3. QED
    BY <1>2, <1>4, <2>2, QuietPreserves DEF SendFails
<1>5. QED
  BY <1>3, <1>4 DEF SendFails

LEMMA ClosePreserves ==
  ASSUME SourcesInv, close
  PROVE  SourcesInv'
<1>1. TypeOK
  BY DEF SourcesInv
<1>2. TypeOK'
  <2>1. handle' \in [Queries -> {"none", "dns", "open", "closed"}]
    BY <1>1 DEF close, TypeOK
  <2>2. timer' \in [Queries -> BOOLEAN]
    BY DEF close
  <2>3. promise' \in [Queries -> {"none", "pending", "resolved", "rejected"}]
    BY <1>1 DEF close, TypeOK
  <2>4. QED
    BY <1>1, <2>1, <2>2, <2>3 DEF close, TypeOK
<1>3. ASSUME NEW p \in Queries PROVE QueryInv(p)'
  <2>1. QueryInv(p) /\ active' = {} /\ rounds' = rounds /\ sending' = sending
        /\ running' = running /\ threw' = threw
    BY <1>3 DEF SourcesInv, close
  <2>2. CASE p \in active
    <3>1. handle[p] = "open" /\ handle'[p] = "closed" /\ (timer'[p] => timer[p])
          /\ (promise'[p] = promise[p] \/ Kind(p) = "https")
          /\ (promise'[p] = "pending" => promise[p] = "pending" /\ (timer[p] => timer'[p]))
      BY <1>3, <2>1, <2>2 DEF close, QueryInv
    <3>2. QED
      BY <2>1, <3>1 DEF QueryInv, Kind
  <2>3. CASE p \notin active
    <3>1. handle'[p] = handle[p] /\ (timer'[p] <=> timer[p]) /\ promise'[p] = promise[p]
      BY <1>1, <1>3, <2>3 DEF close, TypeOK
    <3>2. QED
      BY <2>1, <2>3, <3>1 DEF QueryInv, Kind
  <2>4. QED
    BY <2>2, <2>3
<1>4. QED
  BY <1>2, <1>3 DEF SourcesInv

LEMMA SourcesInvStep == SourcesInv /\ [Next]_vars => SourcesInv'
<1> SUFFICES ASSUME SourcesInv, [Next]_vars PROVE SourcesInv'
  OBVIOUS
<1>1. ASSUME NEW keyValid \in BOOLEAN, generateProofOfTime(keyValid) PROVE SourcesInv'
  BY <1>1, GeneratePreserves
<1>2. ASSUME NEW q \in Queries, LookupAnswers(q) PROVE SourcesInv'
  BY <1>2, LookupPreserves
<1>3. ASSUME NEW q \in Queries, Timeout(q) PROVE SourcesInv'
  BY <1>3, TimeoutPreserves
<1>4. ASSUME NEW q \in Queries, Answer(q) \/ SocketError(q) PROVE SourcesInv'
  <2>1. handle[q] \notin {"none", "dns"} /\ Cleanup(q)
        /\ (\E outcome \in {"resolved", "rejected"} : Settle(q, outcome))
        /\ UNCHANGED <<sending, verified, rounds, running, threw>>
    BY <1>4 DEF Answer, SocketError
  <2>2. QED
    BY <2>1, CleanupPreserves DEF SourcesInv, TypeOK
<1>5. ASSUME NEW q \in Queries, SendFails(q) PROVE SourcesInv'
  BY <1>5, SendFailsPreserves
<1>6. ASSUME NEW q \in Queries, SendSucceeds(q) PROVE SourcesInv'
  <2>1. TypeOK' /\ \A p \in Queries : sending'[p] => sending[p]
    BY <1>6 DEF SendSucceeds, SourcesInv, TypeOK
  <2>2. QED
    BY <1>6, <2>1, QuietPreserves DEF SendSucceeds
<1>7. ASSUME NEW q \in Queries, InvalidDate(q) PROVE SourcesInv'
  <2>1. /\ TypeOK' /\ \A p \in Queries : timer'[p] => timer[p]
        /\ \A p \in Queries : (timer[p] => timer'[p]) \/ Kind(p) = "https"
    BY <1>7 DEF InvalidDate, SourcesInv, TypeOK
  <2>2. QED
    BY <1>7, <2>1, QuietPreserves DEF InvalidDate
<1>8. CASE close
  BY <1>8, ClosePreserves
<1>9. CASE UNCHANGED vars
  <2>1. TypeOK'
    BY <1>9 DEF vars, SourcesInv, TypeOK
  <2>2. QED
    BY <1>9, <2>1, QuietPreserves DEF vars
<1>10. QED
  BY <1>1, <1>2, <1>3, <1>4, <1>5, <1>6, <1>7, <1>8, <1>9 DEF Next

\* close() reaches every open request and socket of the sources that have one,
\* for any sources and any number of fan-outs.
THEOREM OpenIsAlwaysTracked == Spec => []OpenIsTracked
<1>1. SourcesInv => OpenIsTracked
  BY DEF SourcesInv, QueryInv, OpenIsTracked
<1>2. QED
  BY <1>1, SourcesInvInit, SourcesInvStep, PTL DEF Spec

\* A settled UDP query holds neither its socket nor its timer, whatever order
\* its answer, its errors, its timer and close() come in; only one whose send()
\* threw holds its socket, until its timer fires.
THEOREM SettledAlwaysReleases == Spec => []SettledReleases
<1>1. SourcesInv => SettledReleases
  BY DEF SourcesInv, QueryInv, SettledReleases
<1>2. QED
  BY <1>1, SourcesInvInit, SourcesInvStep, PTL DEF Spec

(* The safety part of CallsSettle: what the fairness of Spec is applied to. *)

\* While the process runs, a query without an outcome has a timer that will
\* fire or a lookup that will answer.
PendingIsDue == \A q \in Queries :
  running /\ promise[q] = "pending" => timer[q] \/ handle[q] = "dns"

\* How many of the steps that Spec is fair to a query is away from its outcome
StepsLeft(q) == CASE promise[q] # "pending" -> 0
                  [] promise[q] = "pending" /\ handle[q] # "dns" -> 1
                  [] promise[q] = "pending" /\ handle[q] = "dns" -> 2

\* No step takes a started query further from its outcome, and its timer or its
\* lookup brings it nearer.
NearsOutcome == \A q \in Queries : q[2] <= rounds =>
  /\ StepsLeft(q)' <= StepsLeft(q)
  /\ (Timeout(q) \/ LookupAnswers(q)) /\ promise[q] = "pending"
       => StepsLeft(q)' < StepsLeft(q)

\* No query is left without a timer or a lookup: close() stops the timer of a
\* request only together with rejecting it, and leaves those of the sockets.
THEOREM PendingIsAlwaysDue == Spec => []PendingIsDue
<1>1. SourcesInv => PendingIsDue
  BY DEF SourcesInv, QueryInv, PendingIsDue
<1>2. QED
  BY <1>1, SourcesInvInit, SourcesInvStep, PTL DEF Spec

\* No step takes a started query further from its outcome.
LEMMA NeverFurther ==
  ASSUME SourcesInv, Next, NEW p \in Queries, p[2] <= rounds
  PROVE  StepsLeft(p)' <= StepsLeft(p)
<1>1. /\ QueryInv(p) /\ handle \in [Queries -> {"none", "dns", "open", "closed"}]
      /\ promise \in [Queries -> {"none", "pending", "resolved", "rejected"}]
      /\ rounds \in Nat /\ p \in Sources \X Nat
  BY SourcesAssumption DEF SourcesInv, TypeOK, Queries, Rounds
<1>2. SUFFICES /\ promise'[p] = "pending" => promise[p] = "pending"
               /\ promise'[p] = "pending" /\ handle'[p] = "dns" => handle[p] = "dns"
  BY <1>1 DEF StepsLeft
<1>3. ASSUME NEW keyValid \in BOOLEAN, generateProofOfTime(keyValid)
      PROVE  promise'[p] = promise[p] /\ handle'[p] = handle[p]
  <2>1. p \notin Sources \X {rounds'}
    BY <1>1, <1>3 DEF generateProofOfTime
  <2>2. QED
    BY <2>1, <1>3 DEF generateProofOfTime
<1>4. ASSUME NEW q \in Queries,
             \/ LookupAnswers(q) \/ Timeout(q) \/ Answer(q) \/ SocketError(q)
             \/ SendFails(q) \/ SendSucceeds(q) \/ InvalidDate(q)
      PROVE  /\ promise'[p] = "pending" => promise[p] = "pending"
             /\ handle'[p] = "dns" => handle[p] = "dns"
  BY <1>1, <1>4 DEF LookupAnswers, Timeout, Answer, SocketError, SendFails,
                    SendSucceeds, InvalidDate, Settle, Cleanup
<1>5. ASSUME close
      PROVE  /\ promise'[p] = "pending" => promise[p] = "pending"
             /\ handle'[p] = "dns" => handle[p] = "dns"
  BY <1>1, <1>5 DEF close
<1>6. QED
  BY <1>3, <1>4, <1>5 DEF Next

\* Every started query only comes nearer to its outcome, for any sources, in
\* whichever order answers, errors, timers, further fan-outs and close() come.
THEOREM CallsNearTheirEnd == Spec => [][NearsOutcome]_vars
<1>1. ASSUME SourcesInv, Next PROVE NearsOutcome
  <2>1. ASSUME NEW q \in Queries, q[2] <= rounds,
               Timeout(q) \/ LookupAnswers(q), promise[q] = "pending"
        PROVE  StepsLeft(q)' < StepsLeft(q)
    <3>1. /\ QueryInv(q) /\ handle \in [Queries -> {"none", "dns", "open", "closed"}]
          /\ promise \in [Queries -> {"none", "pending", "resolved", "rejected"}]
      BY <1>1, <2>1 DEF SourcesInv, TypeOK
    <3>2. CASE Timeout(q)
      <4>1. promise'[q] = "rejected"
        BY <2>1, <3>1, <3>2 DEF Timeout, Settle
      <4>2. QED
        BY <2>1, <4>1 DEF StepsLeft
    <3>3. CASE LookupAnswers(q)
      <4>1. handle[q] = "dns" /\ handle'[q] # "dns"
        BY <2>1, <3>1, <3>3 DEF LookupAnswers
      <4>2. QED
        BY <2>1, <4>1 DEF StepsLeft
    <3>4. QED
      BY <2>1, <3>2, <3>3
  <2>2. QED
    BY <1>1, <2>1, NeverFurther DEF NearsOutcome
<1>2. SourcesInv /\ [Next]_vars => [NearsOutcome]_vars
  BY <1>1
<1>3. QED
  BY <1>2, SourcesInvInit, SourcesInvStep, PTL DEF Spec

-----------------------------------------------------------------------------
(***************************************************************************)
(* RoughtimeChain.                                                         *)
(***************************************************************************)

Attestation ==
  [server : Servers, midp : 0..MaxTime, radi : Radii,
   nonce : {<<"csprng">>} \cup {<<"sha512", s>> : s \in Servers},
   at : 0..MaxTime]

ChainTypes ==
  /\ now \in 0..MaxTime /\ asked \in 0..now
  /\ client \in Clients
  /\ server \in 1..(NumServers + 1)
  /\ result = "pending" => server \in Servers
  /\ nonce \in {<<"csprng">>} \cup {<<"sha512", s>> : s \in Servers}
  /\ attestations \in Seq(Attestation)

\* Every answer is linked to the one before it, and the next query will be.
Linked ==
  /\ verify_nonce_chain(attestations)
  /\ attestations # << >> => nonce = next_nonce(attestations[Len(attestations)])

\* The answers were given one after the other, in the past, and the honest ones
\* are true.
Truthful ==
  /\ \A i \in Indices : attestations[i].at <= now
  /\ \A i, j \in Indices : i <= j => attestations[i].at <= attestations[j].at
  /\ \A i \in Honest :
       /\ attestations[i].at - attestations[i].radi <= attestations[i].midp
       /\ attestations[i].midp <= attestations[i].at + attestations[i].radi

\* The result is the verdict of the checks.
Judged ==
  /\ result # "NonceMismatch"
  /\ result = "OrderingViolated" => ~verify_causal_ordering(attestations)
  /\ result = "SpreadExceeded" => ~verify_spread(attestations)
  /\ result = "chain" => /\ Len(attestations) >= MinChainLen
                         /\ verify_causal_ordering(attestations)
                         /\ verify_spread(attestations)

ChainInv == ChainTypes /\ Linked /\ Truthful /\ Judged

\* Only Continue decides, and it decides by the checks; the links of a linked
\* chain are not found broken.
LEMMA ContinueJudges ==
  ASSUME NEW atts \in Seq(Attestation), Continue(atts), verify_nonce_chain(atts)
  PROVE  Judged'
<1>1. attestations' = atts
  BY DEF Continue
<1>2. \/ result' \in {"pending", "InsufficientServers"}
      \/ \E checked \in BOOLEAN : result' = build_chain(atts, checked)
  BY DEF Continue
<1>3. CASE result' \in {"pending", "InsufficientServers"}
  BY <1>3 DEF Judged
<1>4. ASSUME NEW checked \in BOOLEAN, result' = build_chain(atts, checked)
      PROVE  Judged'
  <2>1. /\ build_chain(atts, checked) # "NonceMismatch"
        /\ build_chain(atts, checked) = "OrderingViolated" =>
             ~verify_causal_ordering(atts)
        /\ build_chain(atts, checked) = "SpreadExceeded" => ~verify_spread(atts)
        /\ build_chain(atts, checked) = "chain" =>
             /\ Len(atts) >= MinChainLen
             /\ verify_causal_ordering(atts)
             /\ verify_spread(atts)
    BY ChainAssumption DEF build_chain
  <2> QED
    BY <1>1, <1>4, <2>1 DEF Judged
<1> QED
  BY <1>2, <1>3, <1>4

\* A server's answer is linked, true if the server is honest, and the latest.
LEMMA AnswerKeeps ==
  ASSUME ChainInv, NEW midp \in 0..MaxTime, NEW radi \in Radii,
         Answers(midp, radi)
  PROVE  ChainInv'
<1> DEFINE a    == [server |-> server, midp |-> midp, radi |-> radi,
                    nonce |-> nonce, at |-> now]
           n    == Len(attestations)
           atts == Append(attestations, a)
<1>1. /\ result = "pending"
      /\ server \notin Faulty => now \in (midp - radi)..(midp + radi)
      /\ nonce' = next_nonce(a)
      /\ Continue(atts)
  BY DEF Answers
<1>2. /\ attestations' = atts /\ server' = server + 1 /\ asked' = now
      /\ UNCHANGED <<now, client>>
      /\ result' = "pending" => server < NumServers
  <2>1. /\ attestations' = atts /\ server' = server + 1 /\ asked' = now
        /\ UNCHANGED <<now, client>>
    BY <1>1 DEF Continue
  <2>2. \A checked \in BOOLEAN : build_chain(atts, checked) # "pending"
    BY DEF build_chain
  <2>3. result' = "pending" => server < NumServers
    BY <1>1, <2>2 DEF Continue
  <2> QED
    BY <2>1, <2>3
<1>3. ChainTypes
  BY DEF ChainInv
<1>4. /\ now \in Nat /\ server \in Servers /\ NumServers \in Nat /\ MaxTime \in Nat
      /\ radi \in Nat /\ midp \in Nat
  BY <1>1, <1>3, ChainAssumption DEF ChainTypes, Servers
<1>5. a \in Attestation
  BY <1>3, <1>4 DEF Attestation, ChainTypes
<1>6. /\ n \in Nat /\ atts \in Seq(Attestation) /\ Len(atts) = n + 1
      /\ \A i \in 1..n : atts[i] = attestations[i] /\ atts[i] \in Attestation
      /\ atts[n + 1] = a
  BY <1>3, <1>5, AppendProperties DEF ChainTypes
<1>7. next_nonce(a) = <<"sha512", server>>
  BY DEF next_nonce
<1>8. a.at = now /\ a.server = server /\ a.midp = midp /\ a.radi = radi
      /\ a.nonce = nonce
  OBVIOUS
<1> HIDE DEF a, atts
<1>9. ChainTypes'
  <2>1. /\ now' \in 0..MaxTime /\ asked' \in 0..now' /\ client' \in Clients
        /\ server' \in 1..(NumServers + 1)
        /\ result' = "pending" => server' \in Servers
    BY <1>2, <1>3, <1>4 DEF ChainTypes, Servers
  <2>2. nonce' \in {<<"csprng">>} \cup {<<"sha512", s>> : s \in Servers}
    BY <1>1, <1>4, <1>7
  <2> QED
    BY <1>2, <1>6, <2>1, <2>2 DEF ChainTypes
<1>10. verify_nonce_chain(atts)
  <2> SUFFICES ASSUME NEW i \in 2..(n + 1)
               PROVE  atts[i].nonce = next_nonce(atts[i - 1])
    BY <1>6 DEF verify_nonce_chain
  <2>1. CASE i \in 2..n
    <3>1. i \in 1..n /\ i - 1 \in 1..n
      BY <1>6, <2>1
    <3> QED
      BY <1>6, <2>1, <3>1 DEF ChainInv, Linked, verify_nonce_chain
  <2>2. CASE i = n + 1
    <3>1. n \in 1..n /\ n # 0
      BY <1>6, <2>2
    <3>2. attestations # << >>
      BY <3>1
    <3>3. nonce = next_nonce(attestations[n])
      BY <3>2 DEF ChainInv, Linked
    <3>4. i - 1 = n
      BY <1>6, <2>2
    <3> QED
      BY <1>6, <1>8, <2>2, <3>1, <3>3, <3>4
  <2> QED
    BY <1>6, <2>1, <2>2
<1>11. Linked'
  BY <1>1, <1>2, <1>6, <1>10 DEF Linked
<1>12. Truthful'
  <2>1. Indices' = 1..(n + 1)
    BY <1>2, <1>6 DEF Indices
  <2>2. \A i \in 1..n : attestations'[i] = attestations[i] /\ i \in Indices
    BY <1>2, <1>6 DEF Indices
  <2>3. attestations'[n + 1] = a
    BY <1>2, <1>6
  <2>4. \A i \in 1..n : attestations'[i].at \in Nat /\ attestations'[i].at <= now
    <3>1. \A i \in 1..n : atts[i].at \in 0..MaxTime
      BY <1>6 DEF Attestation
    <3>2. \A i \in 1..n : attestations[i].at <= now
      BY <2>2 DEF ChainInv, Truthful
    <3> QED
      BY <1>2, <1>4, <1>6, <3>1, <3>2
  <2>5. \A i \in Indices' : attestations'[i].at <= now'
    BY <1>2, <1>4, <1>6, <1>8, <2>1, <2>3, <2>4
  <2>6. ASSUME NEW i \in Indices', NEW j \in Indices', i <= j
        PROVE  attestations'[i].at <= attestations'[j].at
    <3>1. CASE j \in 1..n
      <4>1. i \in 1..n
        BY <1>6, <2>1, <2>6, <3>1
      <4> QED
        BY <2>2, <2>6, <3>1, <4>1 DEF ChainInv, Truthful
    <3>2. CASE j = n + 1
      BY <1>2, <1>8, <2>3, <2>5, <3>2
    <3> QED
      BY <1>6, <2>1, <3>1, <3>2
  <2>7. ASSUME NEW i \in Honest'
        PROVE  /\ attestations'[i].at - attestations'[i].radi
                    <= attestations'[i].midp
               /\ attestations'[i].midp
                    <= attestations'[i].at + attestations'[i].radi
    <3>1. i \in 1..(n + 1) /\ attestations'[i].server \notin Faulty
      BY <2>1 DEF Honest
    <3>2. CASE i \in 1..n
      BY <2>2, <3>1, <3>2 DEF ChainInv, Truthful, Honest
    <3>3. CASE i = n + 1
      BY <1>1, <1>4, <1>8, <2>3, <3>1, <3>3
    <3> QED
      BY <1>6, <3>1, <3>2, <3>3
  <2> QED
    BY <2>5, <2>6, <2>7 DEF Truthful
<1>13. Judged'
  BY <1>1, <1>6, <1>10, ContinueJudges
<1> QED
  BY <1>9, <1>11, <1>12, <1>13 DEF ChainInv

\* A server that fails leaves the chain and the nonce as they were.
LEMMA FailureKeeps ==
  ASSUME ChainInv, Fails
  PROVE  ChainInv'
<1>1. /\ result = "pending" /\ nonce' = nonce
      /\ Continue(attestations)
  BY DEF Fails, NonceAfterFailure
<1>2. /\ attestations' = attestations /\ server' = server + 1 /\ asked' = now
      /\ UNCHANGED <<now, client>>
  BY <1>1 DEF Continue
<1>3. result' = "pending" => server < NumServers
  <2>1. \A checked \in BOOLEAN : build_chain(attestations, checked) # "pending"
    BY DEF build_chain
  <2> QED
    BY <1>1, <2>1 DEF Continue
<1>4. ChainTypes'
  <2>1. /\ now \in Nat /\ server \in Servers /\ NumServers \in Nat
    BY <1>1, ChainAssumption DEF ChainInv, ChainTypes
  <2> QED
    BY <1>1, <1>2, <1>3, <2>1 DEF ChainInv, ChainTypes, Servers
<1>5. Linked' /\ Truthful'
  BY <1>1, <1>2 DEF ChainInv, Linked, Truthful, Indices, Honest
<1>6. Judged'
  BY <1>1, ContinueJudges DEF ChainInv, ChainTypes, Linked
<1> QED
  BY <1>4, <1>5, <1>6 DEF ChainInv

\* The inductive invariant holds in every reachable state.
THEOREM ChainInductive == ChainSpec => []ChainInv
<1>1. ChainInit => ChainInv
  <2> SUFFICES ASSUME ChainInit PROVE ChainInv
    OBVIOUS
  <2>1. /\ attestations = << >> /\ Len(attestations) = 0 /\ result = "pending"
        /\ server = 1 /\ asked = now /\ now \in 0..MaxTime /\ client \in Clients
        /\ nonce = <<"csprng">>
    BY DEF ChainInit
  <2>2. Indices = {} /\ Honest = {}
    BY <2>1 DEF Indices, Honest
  <2>3. ChainTypes
    BY <2>1, ChainAssumption DEF ChainTypes, Servers
  <2>4. Linked /\ Truthful /\ Judged
    BY <2>1, <2>2 DEF Linked, Truthful, Judged, verify_nonce_chain
  <2> QED
    BY <2>3, <2>4 DEF ChainInv
<1>2. ChainInv /\ [ChainNext]_chainVars => ChainInv'
  <2> SUFFICES ASSUME ChainInv, [ChainNext]_chainVars PROVE ChainInv'
    OBVIOUS
  <2>1. ASSUME NEW midp \in 0..MaxTime, NEW radi \in Radii, Answers(midp, radi)
        PROVE  ChainInv'
    BY <2>1, AnswerKeeps
  <2>2. CASE Fails
    BY <2>2, FailureKeeps
  <2>3. CASE Tick
    <3>1. /\ now < MaxTime /\ now' = now + 1 /\ result = "pending"
          /\ UNCHANGED <<client, server, asked, nonce, attestations, result>>
      BY <2>3 DEF Tick
    <3>2. now \in Nat /\ MaxTime \in Nat
      BY ChainAssumption DEF ChainInv, ChainTypes
    <3>3. ChainTypes'
      BY <3>1, <3>2 DEF ChainInv, ChainTypes
    <3>4. \A i \in Indices : attestations[i].at \in Nat
      <4>1. \A i \in Indices : attestations[i] \in Attestation
        BY DEF ChainInv, ChainTypes, Indices
      <4> QED
        BY <3>2, <4>1 DEF Attestation
    <3>5. Linked' /\ Judged'
      BY <3>1 DEF ChainInv, Linked, Judged
    <3>6. Indices' = Indices /\ Honest' = Honest
      BY <3>1 DEF Indices, Honest
    <3>7. Truthful'
      BY <3>1, <3>2, <3>4, <3>6 DEF ChainInv, Truthful
    <3> QED
      BY <3>3, <3>5, <3>7 DEF ChainInv
  <2>4. CASE UNCHANGED chainVars
    BY <2>4 DEF chainVars, ChainInv, ChainTypes, Linked, Truthful, Judged,
                Indices, Honest
  <2> QED
    BY <2>1, <2>2, <2>3, <2>4 DEF ChainNext
<1> QED
  BY <1>1, <1>2, PTL DEF ChainSpec

-----------------------------------------------------------------------------
(* The median of the midpoints *)

Below(atts, m)  == {i \in 1..Len(atts) : atts[i].midp < m}
UpTo(atts, m)   == {i \in 1..Len(atts) : atts[i].midp <= m}
HasRank(atts, m, k) ==
  Cardinality(Below(atts, m)) < k /\ Cardinality(UpTo(atts, m)) >= k

\* The midpoint that synthesise_timestamp finds at the k-th place
MidpAt(atts, k) ==
  CHOOSE m \in {atts[i].midp : i \in 1..Len(atts)} : HasRank(atts, m, k)

\* What synthesise_timestamp computes, in these terms.
LEMMA SynthesisedMidp ==
  ASSUME NEW atts
  PROVE  synthesise_timestamp(atts) =
           IF Len(atts) % 2 = 0
           THEN (MidpAt(atts, Len(atts) \div 2)
                   + MidpAt(atts, Len(atts) \div 2 + 1)) \div 2
           ELSE MidpAt(atts, Len(atts) \div 2 + 1)
  BY DEF synthesise_timestamp, MidpAt, HasRank, Below, UpTo

\* There is a midpoint at every place: that of the attestation which the order
\* by midpoint and position puts there.
LEMMA MidpTaken ==
  ASSUME NEW atts \in Seq(Attestation), NEW k \in 1..Len(atts)
  PROVE  MidpAt(atts, k) \in Nat /\ HasRank(atts, MidpAt(atts, k), k)
<1> DEFINE n == Len(atts)
           f == [i \in 1..n |-> [source |-> i, timestamp |-> atts[i].midp]]
           R == {f[i] : i \in 1..n}
<1>1. n \in Nat /\ \A i \in 1..n : atts[i].midp \in Nat
  <2>1. n \in Nat /\ \A i \in 1..n : atts[i] \in Attestation
    OBVIOUS
  <2>2. \A i \in 1..n : atts[i].midp \in 0..MaxTime
    BY <2>1 DEF Attestation
  <2> QED
    BY <2>1, <2>2, ChainAssumption
<1>2. \A i \in 1..n : f[i].source = i /\ f[i].timestamp = atts[i].midp
  OBVIOUS
<1>3. f \in [1..n -> R]
  OBVIOUS
<1> HIDE DEF f
<1>4. f \in Bijection(1..n, R)
  <2>1. \A i, j \in 1..n : f[i] = f[j] => i = j
    BY <1>2
  <2>2. \A q \in R : \E i \in 1..n : f[i] = q
    OBVIOUS
  <2> HIDE DEF R
  <2> QED
    BY <1>3, <2>1, <2>2 DEF Bijection, Injection, Surjection, IsInjective
<1>5. IsFiniteSet(1..n) /\ Cardinality(1..n) = n
  BY <1>1, UpToSize
<1>6. IsFiniteSet(R) /\ Cardinality(R) = n
  BY <1>4, <1>5, FS_Bijection DEF ExistsBijection
<1>7. Readable(R)
  <2>1. \A q \in R : q.timestamp \in Int /\ q.source \in Int
    BY <1>1, <1>2
  <2>2. \A p, q \in R : p.source = q.source => p = q
    BY <1>2
  <2> QED
    BY <1>6, <2>1, <2>2 DEF Readable
<1> DEFINE r == AtRank(R, k - 1)
           E == Earlier(R, r)
           m == r.timestamp
<1>8. r \in R /\ Cardinality(E) = k - 1
  <2>1. k - 1 \in Nat /\ k - 1 < Cardinality(R)
    BY <1>1, <1>6
  <2> QED
    BY <1>7, <2>1, RankTaken
<1> HIDE DEF r
<1>9. m \in {atts[i].midp : i \in 1..n}
  BY <1>2, <1>8
<1>10. E \subseteq R /\ r \notin E /\ IsFiniteSet(E)
  BY <1>6, <1>7, <1>8, FS_Subset DEF Earlier, Before, Readable
<1>11. Cardinality(Below(atts, m)) < k
  <2> DEFINE g == [i \in Below(atts, m) |-> f[i]]
  <2>1. \A i \in Below(atts, m) : i \in 1..n /\ f[i] \in E
    BY <1>2, <1>3 DEF Below, Earlier, Before
  <2>2. g \in Injection(Below(atts, m), E)
    BY <1>2, <2>1 DEF Injection, IsInjective
  <2>3. IsFiniteSet(Below(atts, m)) /\ Cardinality(Below(atts, m)) <= k - 1
    BY <1>8, <1>10, <2>2, FS_Injection
  <2>4. Cardinality(Below(atts, m)) \in Nat
    BY <2>3, FS_CardinalityType
  <2> QED
    BY <1>1, <2>3, <2>4
<1>12. Cardinality(UpTo(atts, m)) >= k
  <2> DEFINE S == E \cup {r}
             g == [q \in S |-> q.source]
  <2>1. IsFiniteSet(S) /\ Cardinality(S) = k
    <3> HIDE DEF E
    <3>1. IsFiniteSet(E \cup {r})
      BY <1>10, FS_AddElement
    <3>2. Cardinality(E \cup {r}) = Cardinality(E) + 1
      BY <1>10, FS_AddElement
    <3>3. k - 1 + 1 = k
      BY <1>1
    <3> QED
      BY <1>8, <3>1, <3>2, <3>3
  <2>2. \A q \in S : q \in R /\ q.timestamp <= m
    <3>1. \A q \in R : q.timestamp \in Int
      BY <1>7 DEF Readable
    <3>2. \A q \in E : q.timestamp <= m
      BY <1>8, <1>10, <3>1 DEF Earlier, Before
    <3> QED
      BY <1>8, <1>10, <3>1, <3>2
  <2>3. \A q \in S : q.source \in UpTo(atts, m)
    <3> SUFFICES ASSUME NEW q \in S PROVE q.source \in UpTo(atts, m)
      OBVIOUS
    <3>1. PICK i \in 1..n : q = f[i]
      BY <2>2
    <3> QED
      BY <1>2, <2>2, <3>1 DEF UpTo
  <2>4. \A p, q \in S : p.source = q.source => p = q
    BY <1>7, <2>2 DEF Readable
  <2> HIDE DEF S
  <2>5. g \in Injection(S, UpTo(atts, m))
    BY <2>3, <2>4 DEF Injection, IsInjective
  <2>6. IsFiniteSet(UpTo(atts, m))
    BY <1>5, FS_Subset DEF UpTo
  <2>7. k <= Cardinality(UpTo(atts, m))
    BY <2>1, <2>5, <2>6, FS_Injection
  <2>8. Cardinality(UpTo(atts, m)) \in Nat
    BY <2>6, FS_CardinalityType
  <2> QED
    BY <1>1, <2>7, <2>8
<1>13. \E v \in {atts[i].midp : i \in 1..n} : HasRank(atts, v, k)
  BY <1>9, <1>11, <1>12 DEF HasRank
<1>14. /\ MidpAt(atts, k) \in {atts[i].midp : i \in 1..n}
       /\ HasRank(atts, MidpAt(atts, k), k)
  BY <1>13 DEF MidpAt
<1> QED
  BY <1>1, <1>14

\* Sets that are large enough reach to either side of the k-th midpoint.
LEMMA RankMeets ==
  ASSUME NEW atts \in Seq(Attestation), NEW H \in SUBSET (1..Len(atts)),
         NEW m \in Nat, NEW k \in 1..Len(atts), HasRank(atts, m, k)
  PROVE  /\ Cardinality(H) + k > Len(atts) => \E i \in H : atts[i].midp <= m
         /\ Cardinality(H) >= k => \E i \in H : atts[i].midp >= m
<1> DEFINE n == Len(atts)
<1>1. /\ n \in Nat /\ IsFiniteSet(1..n) /\ Cardinality(1..n) = n
      /\ IsFiniteSet(H) /\ Cardinality(H) \in Nat
  <2>1. n \in Nat
    OBVIOUS
  <2>2. IsFiniteSet(1..n) /\ Cardinality(1..n) = n
    BY <2>1, UpToSize
  <2>3. IsFiniteSet(H)
    BY <2>2, FS_Subset
  <2> QED
    BY <2>1, <2>2, <2>3, FS_CardinalityType
<1>2. \A i \in 1..n : atts[i].midp \in Nat
  <2>1. \A i \in 1..n : atts[i] \in Attestation
    OBVIOUS
  <2>2. \A i \in 1..n : atts[i].midp \in 0..MaxTime
    BY <2>1 DEF Attestation
  <2> QED
    BY <2>2, ChainAssumption
<1>3. /\ Below(atts, m) \subseteq 1..n /\ UpTo(atts, m) \subseteq 1..n
      /\ IsFiniteSet(Below(atts, m)) /\ IsFiniteSet(UpTo(atts, m))
      /\ Cardinality(Below(atts, m)) \in Nat /\ Cardinality(UpTo(atts, m)) \in Nat
  <2>1. Below(atts, m) \subseteq 1..n /\ UpTo(atts, m) \subseteq 1..n
    BY DEF Below, UpTo
  <2>2. IsFiniteSet(Below(atts, m)) /\ IsFiniteSet(UpTo(atts, m))
    BY <1>1, <2>1, FS_Subset
  <2> QED
    BY <2>1, <2>2, FS_CardinalityType
<1>4. ASSUME Cardinality(H) + k > n PROVE \E i \in H : atts[i].midp <= m
  <2>1. Cardinality(H) + Cardinality(UpTo(atts, m)) > Cardinality(1..n)
    BY <1>1, <1>3, <1>4 DEF HasRank
  <2>2. H \cap UpTo(atts, m) # {}
    BY <1>1, <1>3, <2>1, FS_MajoritiesIntersect
  <2> QED
    BY <2>2 DEF UpTo
<1>5. ASSUME Cardinality(H) >= k PROVE \E i \in H : atts[i].midp >= m
  <2>1. ASSUME \A i \in H : ~(atts[i].midp >= m) PROVE FALSE
    <3>1. H \in SUBSET Below(atts, m)
      BY <1>2, <2>1 DEF Below
    <3>2. Cardinality(H) <= Cardinality(Below(atts, m))
      BY <1>3, <3>1, FS_Subset
    <3> QED
      BY <1>1, <1>3, <1>5, <3>2 DEF HasRank
  <2> QED
    BY <2>1
<1> QED
  BY <1>4, <1>5

\* Midpoints come in their order.
LEMMA RanksSorted ==
  ASSUME NEW atts \in Seq(Attestation), NEW k \in Nat, NEW m1 \in Nat,
         NEW m2 \in Nat, HasRank(atts, m1, k), HasRank(atts, m2, k + 1)
  PROVE  m1 <= m2
<1>1. ASSUME m2 < m1 PROVE FALSE
  <2>1. Len(atts) \in Nat /\ IsFiniteSet(1..Len(atts))
    BY UpToSize
  <2>2. \A i \in 1..Len(atts) : atts[i].midp \in Nat
    <3>1. \A i \in 1..Len(atts) : atts[i] \in Attestation
      OBVIOUS
    <3>2. \A i \in 1..Len(atts) : atts[i].midp \in 0..MaxTime
      BY <3>1 DEF Attestation
    <3> QED
      BY <3>2, ChainAssumption
  <2>3. UpTo(atts, m2) \in SUBSET Below(atts, m1)
    BY <1>1, <2>2 DEF UpTo, Below
  <2>4. IsFiniteSet(Below(atts, m1))
    BY <2>1, FS_Subset DEF Below
  <2>5. IsFiniteSet(UpTo(atts, m2))
        /\ Cardinality(UpTo(atts, m2)) <= Cardinality(Below(atts, m1))
    BY <2>3, <2>4, FS_Subset
  <2>6. Cardinality(UpTo(atts, m2)) \in Nat /\ Cardinality(Below(atts, m1)) \in Nat
    BY <2>4, <2>5, FS_CardinalityType
  <2> QED
    BY <2>5, <2>6 DEF HasRank
<1> QED
  BY <1>1

\* With fewer than half of the attestations outside H, the synthesised time is
\* bracketed by midpoints of H.
LEMMA SynthesisBracketed ==
  ASSUME NEW atts \in Seq(Attestation), NEW H \in SUBSET (1..Len(atts)),
         2 * Cardinality((1..Len(atts)) \ H) < Len(atts)
  PROVE  /\ synthesise_timestamp(atts) \in Nat
         /\ \E i \in H : atts[i].midp <= synthesise_timestamp(atts)
         /\ \E i \in H : atts[i].midp >= synthesise_timestamp(atts)
<1> DEFINE n    == Len(atts)
           h    == n \div 2
           lies == Cardinality((1..n) \ H)
           c    == Cardinality(H)
           t    == synthesise_timestamp(atts)
<1>1. n \in Nat /\ IsFiniteSet(1..n) /\ Cardinality(1..n) = n
  <2>1. n \in Nat
    OBVIOUS
  <2> QED
    BY <2>1, UpToSize
<1>2. lies \in Nat /\ c \in Nat /\ n = c + lies
  <2>1. IsFiniteSet(H) /\ IsFiniteSet((1..n) \ H)
    BY <1>1, FS_Subset
  <2>2. H \cup ((1..n) \ H) = 1..n /\ H \cap ((1..n) \ H) = {}
    OBVIOUS
  <2>3. Cardinality(1..n) = c + lies - Cardinality({})
    BY <2>1, <2>2, FS_Union
  <2>4. lies \in Nat /\ c \in Nat
    BY <2>1, FS_CardinalityType
  <2> QED
    BY <1>1, <2>3, <2>4, FS_EmptySet
<1>3. 2 * lies < n
  OBVIOUS
<1>4. \A i \in H : atts[i].midp \in Nat
  <2>1. \A i \in 1..n : atts[i] \in Attestation
    OBVIOUS
  <2>2. \A i \in 1..n : atts[i].midp \in 0..MaxTime
    BY <2>1 DEF Attestation
  <2> QED
    BY <2>2, ChainAssumption
<1> HIDE DEF lies, c, n
<1>5. CASE n % 2 = 0
  <2> DEFINE m1 == MidpAt(atts, h)
             m2 == MidpAt(atts, h + 1)
  <2>1. h \in Nat /\ n = 2 * h
    BY <1>1, <1>5
  <2>2. t = (m1 + m2) \div 2
    BY <1>5, SynthesisedMidp DEF n
  <2> HIDE DEF h, t
  <2>3. h \in 1..n /\ h + 1 \in 1..n /\ c + h > n /\ c >= h + 1
    BY <1>2, <1>3, <2>1
  <2>4. /\ m1 \in Nat /\ HasRank(atts, m1, h)
        /\ m2 \in Nat /\ HasRank(atts, m2, h + 1)
    BY <2>3, MidpTaken DEF n
  <2> HIDE DEF m1, m2
  <2>5. m1 <= m2
    BY <2>1, <2>4, RanksSorted
  <2>6. t \in Nat /\ m1 <= t /\ t <= m2
    BY <2>2, <2>4, <2>5
  <2>7. \E i \in H : atts[i].midp <= m1
    BY <2>3, <2>4, RankMeets DEF n, c
  <2>8. \E i \in H : atts[i].midp >= m2
    BY <2>3, <2>4, RankMeets DEF n, c
  <2>9. \E i \in H : atts[i].midp <= t
    BY <1>4, <2>4, <2>6, <2>7
  <2>10. \E i \in H : atts[i].midp >= t
    BY <1>4, <2>4, <2>6, <2>8
  <2> QED
    BY <2>6, <2>9, <2>10 DEF t
<1>6. CASE n % 2 # 0
  <2>1. h \in Nat /\ n = 2 * h + 1
    BY <1>1, <1>6
  <2>2. t = MidpAt(atts, h + 1)
    BY <1>6, SynthesisedMidp DEF n
  <2> HIDE DEF h, t
  <2>3. h + 1 \in 1..n /\ c + (h + 1) > n /\ c >= h + 1
    BY <1>2, <1>3, <2>1
  <2>4. t \in Nat /\ HasRank(atts, t, h + 1)
    BY <2>2, <2>3, MidpTaken DEF n
  <2> QED
    BY <2>3, <2>4, RankMeets DEF n, c, t
<1> QED
  BY <1>5, <1>6

-----------------------------------------------------------------------------
\* The type of what the checks read
LEMMA AttestationTypes ==
  ASSUME ChainInv, NEW i \in Indices
  PROVE  /\ attestations[i].midp \in Nat /\ attestations[i].radi \in Nat
         /\ attestations[i].at \in Nat
<1>1. attestations[i] \in Attestation
  BY DEF ChainInv, ChainTypes, Indices
<1>2. /\ attestations[i].midp \in 0..MaxTime /\ attestations[i].radi \in Radii
      /\ attestations[i].at \in 0..MaxTime
  BY <1>1 DEF Attestation
<1>3. MaxTime \in Nat /\ Radii \subseteq Nat
  BY ChainAssumption
<1>4. 0..MaxTime \subseteq Nat
  BY <1>3
<1> QED
  BY <1>2, <1>3, <1>4

\* A chain that a client returns stands for the true time as long as fewer than
\* half of the servers that answered lie: synthesise_timestamp lies between what
\* two honest servers could have said, for any number of servers, any radii and
\* any delays, and whichever servers failed.
THEOREM ChainTracksTruth == ChainSpec => []TimeTracksTruth
<1>1. ChainInv => TimeTracksTruth
  <2> SUFFICES ASSUME ChainInv, result = "chain",
                      2 * Cardinality(Lies) < Len(attestations)
               PROVE  LET t == synthesise_timestamp(attestations) IN
                      /\ \E i \in Honest :
                           t >= attestations[i].at - attestations[i].radi
                      /\ \E i \in Honest :
                           t <= attestations[i].at + attestations[i].radi
    BY DEF TimeTracksTruth
  <2> DEFINE t == synthesise_timestamp(attestations)
  <2>1. /\ attestations \in Seq(Attestation)
        /\ Honest \in SUBSET (1..Len(attestations))
        /\ Lies = (1..Len(attestations)) \ Honest
    BY DEF ChainInv, ChainTypes, Honest, Lies, Indices
  <2>2. /\ t \in Nat
        /\ \E i \in Honest : attestations[i].midp <= t
        /\ \E i \in Honest : attestations[i].midp >= t
    BY <2>1, SynthesisBracketed
  <2> HIDE DEF t
  <2>3. \A i \in Honest :
          /\ attestations[i].midp \in Nat /\ attestations[i].radi \in Nat
          /\ attestations[i].at \in Nat
          /\ attestations[i].at - attestations[i].radi <= attestations[i].midp
          /\ attestations[i].midp <= attestations[i].at + attestations[i].radi
    BY AttestationTypes DEF ChainInv, Truthful, Honest
  <2>4. \E i \in Honest : t >= attestations[i].at - attestations[i].radi
    <3>1. PICK i \in Honest : attestations[i].midp <= t
      BY <2>2
    <3>2. t >= attestations[i].at - attestations[i].radi
      BY <2>2, <2>3, <3>1
    <3> QED
      BY <3>2
  <2>5. \E i \in Honest : t <= attestations[i].at + attestations[i].radi
    <3>1. PICK i \in Honest : attestations[i].midp >= t
      BY <2>2
    <3>2. t <= attestations[i].at + attestations[i].radi
      BY <2>2, <2>3, <3>1
    <3> QED
      BY <3>2
  <2> QED
    BY <2>4, <2>5 DEF t
<1> QED
  BY <1>1, ChainInductive, PTL

\* The arithmetic of it: an answer at time a, within r of m and within 1 of t
LEMMA NearArithmetic ==
  ASSUME NEW a \in Int, NEW r \in Int, NEW t \in Int, NEW m \in Int,
         t - 1 <= a, a <= t + 1
  PROVE  /\ m >= a - r => t - m <= r + 1
         /\ m <= a + r => m - t <= r + 1
  OBVIOUS

\* The time of a chain with the liars in the minority is within a radius of the
\* time of an honest answer, from below and from above.
LEMMA NearHonest ==
  ASSUME ChainInv, TimeTracksTruth, result = "chain",
         2 * Cardinality(Lies) < Len(attestations),
         NEW t \in Nat,
         \A i \in Honest : attestations[i].at \in (t - 1)..(t + 1),
         NEW m, m = synthesise_timestamp(attestations), m \in Nat
  PROVE  \E i \in Indices :
           (IF t >= m THEN t - m ELSE m - t) <= attestations[i].radi + 1
<1>1. /\ \E i \in Honest : m >= attestations[i].at - attestations[i].radi
      /\ \E i \in Honest : m <= attestations[i].at + attestations[i].radi
  BY DEF TimeTracksTruth
<1>2. Honest \subseteq Indices
  BY DEF Honest
<1>3. CASE t >= m
  <2>1. PICK i \in Honest : m >= attestations[i].at - attestations[i].radi
    BY <1>1
  <2> DEFINE a == attestations[i].at
             r == attestations[i].radi
  <2>2. a \in Int /\ r \in Int /\ t \in Int /\ m \in Int
    BY <1>2, AttestationTypes
  <2>3. a \in (t - 1)..(t + 1)
    OBVIOUS
  <2>4. m >= a - r
    BY <2>1
  <2> HIDE DEF a, r
  <2>5. t - 1 <= a /\ a <= t + 1
    BY <2>2, <2>3
  <2>6. t - m <= r + 1
    BY <2>2, <2>4, <2>5, NearArithmetic
  <2> QED
    BY <1>2, <1>3, <2>6 DEF r
<1>4. CASE ~(t >= m)
  <2>1. PICK i \in Honest : m <= attestations[i].at + attestations[i].radi
    BY <1>1
  <2> DEFINE a == attestations[i].at
             r == attestations[i].radi
  <2>2. a \in Int /\ r \in Int /\ t \in Int /\ m \in Int
    BY <1>2, AttestationTypes
  <2>3. a \in (t - 1)..(t + 1)
    OBVIOUS
  <2>4. m <= a + r
    BY <2>1
  <2> HIDE DEF a, r
  <2>5. t - 1 <= a /\ a <= t + 1
    BY <2>2, <2>3
  <2>6. m - t <= r + 1
    BY <2>2, <2>4, <2>5, NearArithmetic
  <2> QED
    BY <1>2, <1>4, <2>6 DEF r
<1> QED
  BY <1>3, <1>4

\* Every chain that either client returns is linked, and with the liars in the
\* minority the verifier accepts it for every time within a second of all honest
\* answers, for any number of servers, any radii and any delays.
THEOREM ChainsAreAccepted == ChainSpec => []ChainsAccepted
<1>1. ChainInv /\ TimeTracksTruth => ChainsAccepted
  <2> SUFFICES ASSUME ChainInv, TimeTracksTruth, result = "chain"
               PROVE  ChainsAccepted
    BY DEF ChainsAccepted
  <2>1. verify_nonce_chain(attestations)
    BY DEF ChainInv, Linked
  <2>2. verify_causal_ordering(attestations) /\ verify_spread(attestations)
    BY DEF ChainInv, Judged
  <2>3. ASSUME 2 * Cardinality(Lies) < Len(attestations), NEW t \in 0..MaxTime,
               \A i \in Honest : attestations[i].at \in (t - 1)..(t + 1)
        PROVE  verify_chain_against_pot(attestations, t)
    <3> DEFINE m == synthesise_timestamp(attestations)
    <3>1. m \in Nat
      <4>1. /\ attestations \in Seq(Attestation)
            /\ Honest \in SUBSET (1..Len(attestations))
            /\ Lies = (1..Len(attestations)) \ Honest
        BY DEF ChainInv, ChainTypes, Honest, Lies, Indices
      <4> QED
        BY <2>3, <4>1, SynthesisBracketed
    <3>2. t \in Nat
      BY ChainAssumption
    <3>3. \E i \in Indices :
            (IF t >= m THEN t - m ELSE m - t) <= attestations[i].radi + 1
      <4> HIDE DEF m
      <4>1. m = synthesise_timestamp(attestations)
        BY DEF m
      <4> QED
        BY <2>3, <3>1, <3>2, <4>1, NearHonest
    <3> QED
      BY <2>2, <3>3 DEF verify_chain_against_pot, Indices
  <2> QED
    BY <2>1, <2>3 DEF ChainsAccepted
<1> QED
  BY <1>1, ChainInductive, ChainTracksTruth, PTL

\* A chain is rejected for cause: never for its links, for its order only when
\* a server lied, and for its spread only when a server lied or the elapsed
\* time and the radii explain it.
THEOREM RejectionsHaveCause == ChainSpec => []RejectedForCause
<1>1. ChainInv => RejectedForCause
  <2> SUFFICES ASSUME ChainInv PROVE RejectedForCause
    OBVIOUS
  <2>1. ASSUME Lies = {}, NEW i \in Indices
        PROVE  /\ attestations[i].midp \in Nat /\ attestations[i].radi \in Nat
               /\ attestations[i].at \in Nat
               /\ attestations[i].at - attestations[i].radi <= attestations[i].midp
               /\ attestations[i].midp <= attestations[i].at + attestations[i].radi
    <3>1. i \in Honest
      BY <2>1 DEF Lies
    <3> QED
      BY <3>1, AttestationTypes DEF ChainInv, Truthful
  <2>2. ASSUME result = "OrderingViolated", Lies = {} PROVE FALSE
    <3>1. ASSUME NEW i \in 1..(Len(attestations) - 1)
          PROVE  Minus(attestations[i].midp, attestations[i].radi)
                   <= attestations[i + 1].midp + attestations[i + 1].radi
      <4> DEFINE j  == i + 1
                 lo == attestations[i].midp - attestations[i].radi
                 hi == attestations[j].midp + attestations[j].radi
      <4>1. i \in Indices /\ j \in Indices /\ i <= j
        BY DEF ChainInv, ChainTypes, Indices
      <4> HIDE DEF j
      <4>2. attestations[i].at <= attestations[j].at
        BY <4>1 DEF ChainInv, Truthful
      <4>3. /\ attestations[i].midp \in Nat /\ attestations[i].radi \in Nat
            /\ attestations[i].at \in Nat
            /\ attestations[i].midp <= attestations[i].at + attestations[i].radi
        BY <2>1, <2>2, <4>1
      <4>4. /\ attestations[j].midp \in Nat /\ attestations[j].radi \in Nat
            /\ attestations[j].at \in Nat
            /\ attestations[j].at - attestations[j].radi <= attestations[j].midp
        BY <2>1, <2>2, <4>1
      <4>5. lo <= hi /\ 0 <= hi
        <5> DEFINE m1 == attestations[i].midp
                   r1 == attestations[i].radi
                   a1 == attestations[i].at
                   m2 == attestations[j].midp
                   r2 == attestations[j].radi
                   a2 == attestations[j].at
        <5>1. /\ m1 \in Nat /\ r1 \in Nat /\ a1 \in Nat
              /\ m2 \in Nat /\ r2 \in Nat /\ a2 \in Nat
          BY <4>3, <4>4
        <5>2. a1 <= a2 /\ m1 <= a1 + r1 /\ a2 - r2 <= m2
          BY <4>2, <4>3, <4>4
        <5> HIDE DEF m1, r1, a1, m2, r2, a2
        <5>3. m1 - r1 <= m2 + r2 /\ 0 <= m2 + r2
          BY <5>1, <5>2
        <5> QED
          BY <5>3 DEF m1, r1, m2, r2
      <4>6. Minus(attestations[i].midp, attestations[i].radi) \in {lo, 0}
        BY DEF Minus
      <4> HIDE DEF lo, hi
      <4>7. Minus(attestations[i].midp, attestations[i].radi) <= hi
        BY <4>5, <4>6
      <4> QED
        BY <4>7 DEF hi, j
    <3> QED
      BY <2>2, <3>1 DEF ChainInv, Judged, verify_causal_ordering
  <2>3. ASSUME result = "SpreadExceeded", Lies = {}
        PROVE  \E i, j \in Indices :
                 (attestations[j].at - attestations[i].at) + attestations[i].radi
                   + attestations[j].radi > SpreadTolerance
    <3>1. PICK i \in Indices, j \in Indices :
            ~(attestations[i].midp - attestations[j].midp <= SpreadTolerance)
      BY <2>3 DEF ChainInv, Judged, verify_spread, Indices
    <3>2. /\ attestations[i].midp \in Nat /\ attestations[i].radi \in Nat
          /\ attestations[i].at \in Nat
          /\ attestations[i].midp <= attestations[i].at + attestations[i].radi
      BY <2>1, <2>3
    <3>3. /\ attestations[j].midp \in Nat /\ attestations[j].radi \in Nat
          /\ attestations[j].at \in Nat
          /\ attestations[j].at - attestations[j].radi <= attestations[j].midp
      BY <2>1, <2>3
    <3>4. (attestations[i].at - attestations[j].at) + attestations[j].radi
            + attestations[i].radi > SpreadTolerance
      BY <3>1, <3>2, <3>3, ChainAssumption
    <3> QED
      BY <3>4
  <2>4. result # "NonceMismatch"
    BY DEF ChainInv, Judged
  <2> QED
    BY <2>2, <2>3, <2>4 DEF RejectedForCause
<1> QED
  BY <1>1, ChainInductive, PTL
=============================================================================
