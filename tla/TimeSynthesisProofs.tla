------------------------ MODULE TimeSynthesisProofs -------------------------
(***************************************************************************)
(* A PoT is accepted at most once unless its nonce was pushed out by close *)
(* or for want of room: for every size of the cache, every lifetime that   *)
(* the time to live covers, any number of sources, calls and peers.  And   *)
(* the time that a call returns is bracketed by honest readings, as long   *)
(* as fewer than half of the readings are faulty.                          *)
(***************************************************************************)
EXTENDS TimeSynthesis, SharedLemmas

\* What one verification may do to the nonces: it adds at most the nonce of
\* the PoT, drops only what is recorded as lost or older than the time to
\* live, and accepts only a nonce the cache did not hold.
NonceStep(pot, ok) ==
  /\ \A n \in DOMAIN usedNonces' :
       \/ n \in DOMAIN usedNonces /\ usedNonces'[n] = usedNonces[n]
       \/ n = pot.nonce /\ usedNonces'[n] = now
  /\ \A n \in DOMAIN usedNonces \ DOMAIN usedNonces' :
       n \in lost' \/ now - usedNonces[n] > NonceTtl
  /\ lost \subseteq lost' /\ lost' \subseteq lost \cup DOMAIN usedNonces
  /\ accepted' \in [Nonces -> 0..2]
  /\ \A n \in Nonces : n # pot.nonce => accepted'[n] = accepted[n]
  /\ accepted'[pot.nonce] # accepted[pot.nonce] =>
       /\ ok
       /\ now <= pot.expiresAt
       /\ accepted'[pot.nonce] = accepted[pot.nonce] + 1
       /\ pot.nonce \in DOMAIN usedNonces'
       /\ pot.nonce \notin DOMAIN Swept(usedNonces, now)

\* The effect of verifyProofOfTime on the nonces, whatever the PoT.
LEMMA VerifyFacts ==
  ASSUME TypeOK, NEW pot, pot.nonce \in Nonces, NEW ok \in BOOLEAN,
         verifyProofOfTime(pot, ok)
  PROVE  NonceStep(pot, ok)
<1> USE DEF NonceStep
<1>0. now \in Int /\ \A n \in DOMAIN usedNonces : usedNonces[n] \in Int
  BY ConstantsAssumption DEF TypeOK
<1>1. CASE UNCHANGED <<usedNonces, accepted, lost>>
  BY <1>1 DEF TypeOK
<1>2. CASE usedNonces' = Swept(usedNonces, now) /\ UNCHANGED <<accepted, lost>>
  BY <1>0, <1>2, SweptFacts DEF TypeOK
<1>3. ASSUME /\ now <= pot.expiresAt
             /\ pot.nonce \notin DOMAIN Swept(usedNonces, now)
             /\ accepted' = IF ok /\ accepted[pot.nonce] < 2
                            THEN [accepted EXCEPT ![pot.nonce] = @ + 1]
                            ELSE accepted,
             NEW gone \in Evictions(Swept(usedNonces, now)),
             usedNonces' = Remember(Swept(usedNonces, now), gone, pot.nonce, now),
             lost' = lost \cup gone
      PROVE  NonceStep(pot, ok)
  <2>1. /\ pot.nonce \in DOMAIN usedNonces'
        /\ gone \subseteq DOMAIN usedNonces
        /\ \A n \in DOMAIN usedNonces' :
             \/ n = pot.nonce /\ usedNonces'[n] = now
             \/ n \in DOMAIN usedNonces /\ usedNonces'[n] = usedNonces[n]
        /\ \A n \in DOMAIN usedNonces \ DOMAIN usedNonces' :
             n \in gone \/ now - usedNonces[n] > NonceTtl
    BY <1>0, <1>3, RememberFacts
  <2>2. accepted \in [Nonces -> 0..2]
    BY DEF TypeOK
  <2>3. /\ accepted' \in [Nonces -> 0..2]
        /\ \A n \in Nonces : n # pot.nonce => accepted'[n] = accepted[n]
    BY <1>3, <2>2
  <2>4. accepted'[pot.nonce] # accepted[pot.nonce] =>
          ok /\ accepted'[pot.nonce] = accepted[pot.nonce] + 1
    BY <1>3, <2>2
  <2> QED
    BY <1>3, <2>1, <2>3, <2>4
<1> QED
  BY <1>1, <1>2, <1>3 DEF verifyProofOfTime

\* Verifying a PoT that was handed out keeps the invariant of the nonces.
LEMMA VerifyKeeps ==
  ASSUME NonceInv, NEW k \in DOMAIN pots, NEW ok \in BOOLEAN,
         verifyProofOfTime(pots[k], ok), UNCHANGED <<now, pots, issued>>
  PROVE  NonceInv'
<1>0. TypeOK
  BY DEF NonceInv
<1>1. pots[k].nonce = k /\ k \in Nonces /\ pots[k].expiresAt \in Int
  BY <1>0, ConstantsAssumption DEF TypeOK, Nonces
<1>2. NonceStep(pots[k], ok)
  BY <1>0, <1>1, VerifyFacts
<1>3. /\ now \in Int /\ NonceTtl \in Int /\ accepted \in [Nonces -> 0..2]
      /\ \A n \in DOMAIN usedNonces : usedNonces[n] \in Int
      /\ \A n \in DOMAIN pots : pots[n].expiresAt \in Int
  BY <1>0, ConstantsAssumption, CacheAssumption DEF TypeOK
<1>4. TypeOK'
  BY <1>0, <1>1, <1>2, ConstantsAssumption DEF TypeOK, NonceStep
<1>5. \A n \in DOMAIN usedNonces' \cap DOMAIN pots' :
        pots'[n].expiresAt <= usedNonces'[n] + NonceTtl
  BY <1>1, <1>2 DEF NonceInv, NonceStep
<1>6. ASSUME NEW n \in Nonces, accepted'[n] > 0
      PROVE  Spent(n)'
  <2>1. CASE accepted'[n] = accepted[n]
    <3>1. Spent(n)
      BY <1>6, <2>1 DEF NonceInv
    <3>2. n \in DOMAIN usedNonces \ DOMAIN usedNonces' =>
            n \in lost' \/ now > pots[n].expiresAt
      BY <1>2, <1>3, <3>1 DEF NonceInv, NonceStep, Spent
    <3> QED
      BY <1>2, <3>1, <3>2 DEF Spent, NonceStep
  <2>2. CASE accepted'[n] # accepted[n]
    BY <1>1, <1>2, <2>2 DEF Spent, NonceStep
  <2> QED
    BY <2>1, <2>2
<1>7. ASSUME NEW n \in Nonces, accepted'[n] > 1
      PROVE  n \in lost'
  <2>1. CASE accepted'[n] = accepted[n]
    BY <1>2, <1>7, <2>1 DEF NonceInv, NoReplay, NonceStep
  <2>2. CASE accepted'[n] # accepted[n]
    <3>1. n = k /\ accepted[k] > 0 /\ now <= pots[k].expiresAt
          /\ k \notin DOMAIN Swept(usedNonces, now)
      BY <1>1, <1>2, <1>3, <1>7, <2>2 DEF NonceStep
    <3>2. Spent(k)
      BY <1>1, <3>1 DEF NonceInv
    <3>3. k \notin DOMAIN usedNonces
      <4>1. ASSUME k \in DOMAIN usedNonces PROVE FALSE
        <5>1. now - usedNonces[k] > NonceTtl
          BY <1>3, <3>1, <4>1, SweptFacts
        <5>2. pots[k].expiresAt <= usedNonces[k] + NonceTtl
          BY <4>1 DEF NonceInv
        <5> QED
          BY <1>3, <3>1, <4>1, <5>1, <5>2
      <4> QED
        BY <4>1
    <3>4. k \in lost
      BY <1>3, <3>1, <3>2, <3>3 DEF Spent
    <3> QED
      BY <1>2, <3>1, <3>4 DEF NonceStep
  <2> QED
    BY <2>1, <2>2
<1> QED
  BY <1>4, <1>5, <1>6, <1>7 DEF NonceInv, NoReplay

\* Generating a PoT draws a fresh nonce and spends it at once.
LEMMA GenerateKeeps ==
  ASSUME NonceInv, NEW t \in Tasks, Generate(t)
  PROVE  NonceInv'
<1> DEFINE nonce == issued + 1
           pot   == MakePoT(Fulfilled(t), nonce, now + Expiry)
<1>1. PICK ok \in BOOLEAN :
        /\ verifyProofOfTime(pot, ok)
        /\ pots' = IF ok
                   THEN [n \in DOMAIN pots \cup {nonce} |->
                           IF n = nonce THEN pot ELSE pots[n]]
                   ELSE pots
  BY DEF Generate
<1>2. issued < MaxNonces /\ issued' = nonce /\ now' = now
  BY DEF Generate
<1>3. pot.nonce = nonce /\ pot.expiresAt = now + Expiry
  BY DEF MakePoT
<1> HIDE DEF pot
<1>4. TypeOK
  BY DEF NonceInv
<1>5. /\ now \in Nat /\ NonceTtl \in Nat /\ Expiry \in Nat /\ issued \in Nat
      /\ MaxNonces \in Nat /\ Expiry <= NonceTtl
      /\ accepted \in [Nonces -> 0..2]
      /\ \A n \in DOMAIN usedNonces : usedNonces[n] \in Int
      /\ \A n \in DOMAIN pots : pots[n].expiresAt \in Int
      /\ nonce \notin DOMAIN pots
  <2>1. /\ NonceTtl \in Nat /\ Expiry \in Nat /\ MaxNonces \in Nat
        /\ MaxTime \in Nat
    BY ConstantsAssumption, CacheAssumption
  <2>2. Expiry <= NonceTtl
    BY <2>1, TtlAssumption
  <2>3. now \in Nat /\ issued \in Nat
    BY <1>4, <2>1 DEF TypeOK
  <2>4. /\ accepted \in [Nonces -> 0..2]
        /\ \A n \in DOMAIN usedNonces : usedNonces[n] \in Int
        /\ \A n \in DOMAIN pots : pots[n].expiresAt \in Int
    BY <1>4, <2>3 DEF TypeOK
  <2>5. nonce \notin DOMAIN pots
    BY <1>4, <2>3 DEF TypeOK
  <2> QED
    BY <2>1, <2>2, <2>3, <2>4, <2>5
<1>6. nonce \in Nonces
  BY <1>2, <1>5 DEF Nonces
<1>7. NonceStep(pot, ok)
  BY <1>1, <1>3, <1>4, <1>6, VerifyFacts
<1>8. accepted[nonce] = 0
  BY <1>5, <1>6 DEF NonceInv, Spent
<1>9. TypeOK'
  <2>1. /\ now' \in 0..MaxTime /\ issued' \in 0..MaxNonces
        /\ accepted' \in [Nonces -> 0..2]
    BY <1>2, <1>4, <1>5, <1>7 DEF TypeOK, NonceStep
  <2>2. /\ DOMAIN pots' \subseteq 1..issued'
        /\ \A n \in DOMAIN pots' :
             pots'[n].nonce = n /\ pots'[n].expiresAt \in Int
    BY <1>1, <1>2, <1>3, <1>4, <1>5 DEF TypeOK
  <2>3. /\ DOMAIN usedNonces' \subseteq 1..issued'
        /\ \A n \in DOMAIN usedNonces' : usedNonces'[n] \in 0..now'
    BY <1>2, <1>3, <1>4, <1>5, <1>7 DEF TypeOK, NonceStep
  <2>4. lost' \subseteq 1..issued'
    BY <1>2, <1>4, <1>5, <1>7 DEF TypeOK, NonceStep
  <2> QED
    BY <2>1, <2>2, <2>3, <2>4 DEF TypeOK
<1>10. \A n \in DOMAIN pots' : pots'[n].expiresAt <= now' + NonceTtl
  BY <1>1, <1>2, <1>3, <1>5 DEF NonceInv
<1>11. ASSUME NEW n \in DOMAIN usedNonces' \cap DOMAIN pots'
       PROVE  pots'[n].expiresAt <= usedNonces'[n] + NonceTtl
  <2>1. CASE n = nonce
    <3>1. n \notin DOMAIN usedNonces
      BY <1>4, <1>5, <2>1 DEF TypeOK
    <3>2. usedNonces'[n] = now /\ pots'[n] = pot
      BY <1>1, <1>5, <1>7, <1>11, <2>1, <3>1 DEF NonceStep
    <3> QED
      BY <1>3, <1>5, <3>2
  <2>2. CASE n # nonce
    <3>1. n \in DOMAIN pots /\ pots'[n] = pots[n]
      BY <1>1, <1>11, <2>2
    <3>2. n \in DOMAIN usedNonces /\ usedNonces'[n] = usedNonces[n]
      BY <1>3, <1>7, <1>11, <2>2 DEF NonceStep
    <3> QED
      BY <3>1, <3>2 DEF NonceInv
  <2> QED
    BY <2>1, <2>2
<1>12. ASSUME NEW n \in Nonces, accepted'[n] > 0
       PROVE  Spent(n)' /\ (accepted'[n] > 1 => n \in lost')
  <2>1. CASE n = nonce
    <3>1. accepted'[n] # accepted[n]
      BY <1>8, <1>12, <2>1
    <3>2. ok /\ accepted'[n] = 1 /\ n \in DOMAIN usedNonces'
      BY <1>3, <1>7, <1>8, <2>1, <3>1 DEF NonceStep
    <3> QED
      BY <1>1, <2>1, <3>2 DEF Spent
  <2>2. CASE n # nonce
    <3>1. accepted'[n] = accepted[n]
      BY <1>3, <1>7, <2>2 DEF NonceStep
    <3>2. Spent(n) /\ (accepted[n] > 1 => n \in lost)
      BY <1>12, <3>1 DEF NonceInv, NoReplay
    <3>3. n \in DOMAIN pots' /\ pots'[n] = pots[n]
      BY <1>1, <2>2, <3>2 DEF Spent
    <3>4. n \in DOMAIN usedNonces \ DOMAIN usedNonces' =>
            n \in lost' \/ now > pots[n].expiresAt
      BY <1>5, <1>7, <3>2 DEF NonceInv, NonceStep, Spent
    <3> QED
      BY <1>2, <1>7, <3>1, <3>2, <3>3, <3>4 DEF Spent, NonceStep
  <2> QED
    BY <2>1, <2>2
<1> QED
  <2>1. NoReplay'
    BY <1>7, <1>12 DEF NoReplay, NonceStep
  <2> QED
    BY <1>2, <1>9, <1>10, <1>11, <1>12, <2>1 DEF NonceInv

\* A PoT of a peer is new here and expires before its nonce may be forgotten.
LEMMA ReceiveKeeps ==
  ASSUME NonceInv, NEW R, NEW skew \in Skews, Receive(R, skew)
  PROVE  NonceInv'
<1> DEFINE nonce == issued + 1
           pot   == MakePoT(R, nonce, now + Expiry + skew)
<1>1. /\ issued' = nonce
      /\ UNCHANGED <<now, usedNonces, accepted, lost>>
      /\ pots' = [n \in DOMAIN pots \cup {nonce} |->
                    IF n = nonce THEN MakePoT(R, n, now + Expiry + skew)
                    ELSE pots[n]]
  BY DEF Receive
<1>2. issued + Cardinality(Tasks) < MaxNonces
  BY DEF Receive
<1>3. pot.nonce = nonce /\ pot.expiresAt = now + Expiry + skew
  BY DEF MakePoT
<1>4. TypeOK
  BY DEF NonceInv
<1>5. /\ now \in Nat /\ NonceTtl \in Nat /\ Expiry \in Nat /\ skew \in Int
      /\ issued \in Nat /\ MaxNonces \in Nat /\ Expiry + skew <= NonceTtl
      /\ nonce \notin DOMAIN pots /\ nonce \notin DOMAIN usedNonces
  BY <1>4, ConstantsAssumption, CacheAssumption, TtlAssumption DEF TypeOK
<1>6. issued < MaxNonces
  <2>1. Cardinality(Tasks) \in Nat
    BY ConstantsAssumption, FS_CardinalityType
  <2> QED
    BY <1>2, <1>5, <2>1
<1>7. /\ DOMAIN pots' = DOMAIN pots \cup {nonce}
      /\ pots'[nonce] = pot
      /\ \A n \in DOMAIN pots : pots'[n] = pots[n]
  BY <1>1, <1>5
<1> HIDE DEF pot
<1>8. TypeOK'
  BY <1>1, <1>3, <1>4, <1>5, <1>6, <1>7 DEF TypeOK
<1>9. \A n \in DOMAIN pots' : pots'[n].expiresAt <= now' + NonceTtl
  BY <1>1, <1>3, <1>5, <1>7 DEF NonceInv
<1>10. \A n \in DOMAIN usedNonces' \cap DOMAIN pots' :
         pots'[n].expiresAt <= usedNonces'[n] + NonceTtl
  BY <1>1, <1>5, <1>7 DEF NonceInv
<1>11. \A n \in Nonces : accepted'[n] > 0 => Spent(n)'
  BY <1>1, <1>7 DEF NonceInv, Spent
<1> QED
  BY <1>1, <1>8, <1>9, <1>10, <1>11 DEF NonceInv, NoReplay

LEMMA InitIInv == Init => IInv
<1> SUFFICES ASSUME Init PROVE IInv
  OBVIOUS
<1>1. DOMAIN pots = {} /\ DOMAIN usedNonces = {}
  BY DEF Init
<1>2. TypeOK
  BY <1>1, ConstantsAssumption DEF Init, TypeOK
<1>3. \A n \in Nonces : accepted[n] = 0
  BY DEF Init
<1>4. NonceInv
  BY <1>1, <1>2, <1>3 DEF NonceInv, NoReplay
<1>5. ReturnedPots
  BY DEF Init, ReturnedPots, Idle
<1> QED
  BY <1>4, <1>5 DEF IInv

\* A step of one call leaves the others alone.  The call it advances keeps
\* its fields, and is not in the state "returned" after generate unless its
\* PoT is among those handed out.
LEMMA TaskStep ==
  ASSUME ReturnedPots, NEW t \in Tasks, NEW task,
         tasks' = [tasks EXCEPT ![t] = task],
         DOMAIN task = DOMAIN Idle,
         task.state = "returned" /\ task.call = "generate" =>
           task.nonce \in DOMAIN pots',
         DOMAIN pots \subseteq DOMAIN pots'
  PROVE  ReturnedPots'
<1>1. DOMAIN tasks' = Tasks
  BY DEF ReturnedPots
<1>2. \A u \in Tasks : tasks'[u] = IF u = t THEN task ELSE tasks[u]
  BY DEF ReturnedPots
<1> QED
  BY <1>1, <1>2 DEF ReturnedPots, Idle

LEMMA StepIInv == IInv /\ [Next]_vars => IInv'
<1> SUFFICES ASSUME IInv, [Next]_vars PROVE IInv'
  OBVIOUS
<1>0. NonceInv /\ ReturnedPots
  BY DEF IInv
<1>a. ASSUME UNCHANGED <<now, pots, issued, usedNonces, accepted, lost>>
      PROVE  NonceInv'
  BY <1>0, <1>a DEF NonceInv, TypeOK, NoReplay, Spent
<1>b. ASSUME UNCHANGED <<tasks, pots>>
      PROVE  ReturnedPots'
  BY <1>0, <1>b DEF ReturnedPots
<1>1. ASSUME NEW t \in Tasks, NEW call \in {"synthesize", "generate"},
             Call(t, call)
      PROVE  IInv'
  <2>1. ReturnedPots'
    <3> DEFINE task == [tasks[t] EXCEPT !.state = "waiting", !.call = call]
    <3>1. tasks' = [tasks EXCEPT ![t] = task] /\ pots' = pots
      BY <1>1 DEF Call
    <3>2. DOMAIN task = DOMAIN Idle /\ task.state = "waiting"
      BY <1>0 DEF ReturnedPots, Idle
    <3> QED
      BY <1>0, <3>1, <3>2, TaskStep
  <2> QED
    BY <1>1, <1>a, <2>1 DEF IInv, Call
<1>2. ASSUME NEW t \in Tasks, NEW s \in Sources, NEW a \in Answers,
             Settle(t, s, a)
      PROVE  IInv'
  <2>1. ReturnedPots'
    <3> DEFINE task == [tasks[t] EXCEPT !.got[s] = a]
    <3>1. tasks' = [tasks EXCEPT ![t] = task] /\ pots' = pots
      BY <1>2 DEF Settle
    <3>2. DOMAIN task = DOMAIN Idle /\ task.state = "waiting"
      BY <1>0, <1>2 DEF ReturnedPots, Idle, Settle
    <3> QED
      BY <1>0, <3>1, <3>2, TaskStep
  <2> QED
    BY <1>2, <1>a, <2>1 DEF IInv, Settle
<1>3. ASSUME NEW t \in Tasks, AllFailed(t)
      PROVE  IInv'
  <2>1. ReturnedPots'
    <3> DEFINE task == [tasks[t] EXCEPT !.state = "threw"]
    <3>1. tasks' = [tasks EXCEPT ![t] = task] /\ pots' = pots
      BY <1>3 DEF AllFailed
    <3>2. DOMAIN task = DOMAIN Idle /\ task.state = "threw"
      BY <1>0 DEF ReturnedPots, Idle
    <3> QED
      BY <1>0, <3>1, <3>2, TaskStep
  <2> QED
    BY <1>3, <1>a, <2>1 DEF IInv, AllFailed
<1>4. ASSUME NEW t \in Tasks, Synthesize(t)
      PROVE  IInv'
  <2>1. ReturnedPots'
    <3> DEFINE task == [tasks[t] EXCEPT !.state = "returned",
                          !.timestamp = Median(Fulfilled(t)).timestamp]
    <3>1. tasks' = [tasks EXCEPT ![t] = task] /\ pots' = pots
          /\ tasks[t].call = "synthesize"
      BY <1>4 DEF Synthesize
    <3>2. DOMAIN task = DOMAIN Idle /\ task.call = "synthesize"
      BY <1>0, <3>1 DEF ReturnedPots, Idle
    <3> QED
      BY <1>0, <3>1, <3>2, TaskStep
  <2> QED
    BY <1>4, <1>a, <2>1 DEF IInv, Synthesize
<1>5. ASSUME NEW t \in Tasks, Generate(t)
      PROVE  IInv'
  <2>1. NonceInv'
    BY <1>0, <1>5, GenerateKeeps
  <2>2. ReturnedPots'
    <3> DEFINE nonce == issued + 1
               pot   == MakePoT(Fulfilled(t), nonce, now + Expiry)
    <3>1. PICK ok \in BOOLEAN :
            /\ pots' = IF ok
                       THEN [n \in DOMAIN pots \cup {nonce} |->
                               IF n = nonce THEN pot ELSE pots[n]]
                       ELSE pots
            /\ tasks' = [tasks EXCEPT
                           ![t].state = IF ok THEN "returned" ELSE "threw",
                           ![t].timestamp = pot.timestamp,
                           ![t].nonce = nonce]
      BY <1>5 DEF Generate
    <3> DEFINE state == IF ok THEN "returned" ELSE "threw"
               task  == [tasks[t] EXCEPT !.state = state,
                           !.timestamp = pot.timestamp, !.nonce = nonce]
    <3> HIDE DEF pot, nonce, state
    <3>2. tasks' = [tasks EXCEPT ![t] = task]
      BY <3>1 DEF state
    <3>3. DOMAIN task = DOMAIN Idle /\ task.state = state /\ task.nonce = nonce
      BY <1>0 DEF ReturnedPots, Idle
    <3>4. state = "returned" => nonce \in DOMAIN pots'
      BY <3>1 DEF state
    <3>5. DOMAIN pots \subseteq DOMAIN pots'
      BY <3>1
    <3> HIDE DEF task
    <3> QED
      BY <1>0, <3>2, <3>3, <3>4, <3>5, TaskStep
  <2> QED
    BY <2>1, <2>2 DEF IInv
<1>6. ASSUME NEW t \in Tasks, ToolVerify(t)
      PROVE  IInv'
  <2>1. PICK ok \in BOOLEAN :
          /\ verifyProofOfTime(pots[tasks[t].nonce], ok)
          /\ tasks' = [tasks EXCEPT ![t].state = "verified", ![t].verified = ok]
    BY <1>6 DEF ToolVerify
  <2>2. tasks[t].nonce \in DOMAIN pots /\ UNCHANGED <<now, pots, issued>>
    BY <1>0, <1>6 DEF ToolVerify, ReturnedPots
  <2>3. NonceInv'
    BY <1>0, <2>1, <2>2, VerifyKeeps
  <2>4. ReturnedPots'
    <3> DEFINE task == [tasks[t] EXCEPT !.state = "verified", !.verified = ok]
    <3>1. tasks' = [tasks EXCEPT ![t] = task]
      BY <2>1
    <3>2. DOMAIN task = DOMAIN Idle /\ task.state = "verified"
      BY <1>0 DEF ReturnedPots, Idle
    <3> QED
      BY <1>0, <2>2, <3>1, <3>2, TaskStep
  <2> QED
    BY <2>3, <2>4 DEF IInv
<1>7. ASSUME NEW R \in PeerReadings, NEW skew \in Skews, Receive(R, skew)
      PROVE  IInv'
  <2>1. NonceInv'
    BY <1>0, <1>7, ReceiveKeeps
  <2>2. UNCHANGED tasks /\ DOMAIN pots \subseteq DOMAIN pots'
    BY <1>7 DEF Receive
  <2> QED
    BY <1>0, <2>1, <2>2 DEF IInv, ReturnedPots
<1>8. ASSUME NEW n \in DOMAIN pots, Verify(n)
      PROVE  IInv'
  BY <1>0, <1>8, <1>b, VerifyKeeps DEF IInv, Verify
<1>9. CASE Close
  <2>1. DOMAIN usedNonces' = {} /\ lost' = lost \cup DOMAIN usedNonces
        /\ UNCHANGED <<now, tasks, pots, issued, accepted>>
    BY <1>9 DEF Close
  <2>2. TypeOK'
    BY <1>0, <2>1 DEF NonceInv, TypeOK
  <2>3. NonceInv'
    BY <1>0, <2>1, <2>2 DEF NonceInv, NoReplay, Spent
  <2> QED
    BY <1>b, <2>1, <2>3 DEF IInv
<1>10. CASE Tick
  <2>1. now < MaxTime /\ now' = now + 1
        /\ UNCHANGED <<tasks, pots, issued, usedNonces, accepted, lost>>
    BY <1>10 DEF Tick
  <2>2. TypeOK'
    BY <1>0, <2>1, ConstantsAssumption DEF NonceInv, TypeOK
  <2>3. /\ now \in Int /\ NonceTtl \in Int
        /\ \A n \in DOMAIN pots : pots[n].expiresAt \in Int
    BY <1>0, ConstantsAssumption, CacheAssumption DEF NonceInv, TypeOK
  <2>4. NonceInv'
    BY <1>0, <2>1, <2>2, <2>3 DEF NonceInv, NoReplay, Spent
  <2> QED
    BY <1>b, <2>1, <2>4 DEF IInv
<1>11. CASE UNCHANGED vars
  BY <1>a, <1>b, <1>11 DEF vars, IInv
<1> QED
  BY <1>1, <1>2, <1>3, <1>4, <1>5, <1>6, <1>7, <1>8, <1>9, <1>10, <1>11 DEF Next

\* The inductive invariant holds in every reachable state.
THEOREM Inductive == Spec => []IInv
<1> QED
  BY InitIInv, StepIInv, PTL DEF Spec

\* The state of the nonce cache keeps its type: in particular every time in it
\* lies in the past and every nonce in it was drawn.
THEOREM TypeCorrect == Spec => []TypeOK
<1>1. IInv => TypeOK
  BY DEF IInv, NonceInv
<1> QED
  BY <1>1, Inductive, PTL

\* verifyProofOfTime accepts a PoT at most once unless its nonce was dropped by
\* close or because the cache was full.
THEOREM NeverReplayed == Spec => []NoReplay
<1>1. IInv => NoReplay
  BY DEF IInv, NonceInv
<1> QED
  BY <1>1, Inductive, PTL

\* A verification makes room before it adds a nonce.
LEMMA VerifyBounded ==
  ASSUME TypeOK, CacheBounded, NEW pot, NEW ok \in BOOLEAN,
         verifyProofOfTime(pot, ok)
  PROVE  CacheBounded'
<1>1. /\ now \in Int /\ IsFiniteSet(DOMAIN usedNonces)
      /\ \A n \in DOMAIN usedNonces : usedNonces[n] \in Int
  <2>0. issued \in Int /\ 1 \in Int
    BY ConstantsAssumption DEF TypeOK
  <2>1. IsFiniteSet(1..issued)
    BY <2>0, FS_Interval
  <2>2. IsFiniteSet(DOMAIN usedNonces)
    BY <2>1, FS_Subset DEF TypeOK
  <2> QED
    BY <2>2, ConstantsAssumption DEF TypeOK
<1>2. CASE UNCHANGED usedNonces
  BY <1>2 DEF CacheBounded
<1>3. CASE usedNonces' = Swept(usedNonces, now)
  BY <1>1, <1>3, SweptBounded DEF CacheBounded
<1>4. ASSUME NEW gone \in Evictions(Swept(usedNonces, now)),
             usedNonces' = Remember(Swept(usedNonces, now), gone, pot.nonce, now)
      PROVE  CacheBounded'
  BY <1>1, <1>4, RememberBounded DEF CacheBounded
<1> QED
  BY <1>2, <1>3, <1>4 DEF verifyProofOfTime

\* The nonce cache never outgrows MAX_NONCE_CACHE.
THEOREM CacheIsBounded == Spec => []CacheBounded
<1>1. Init => CacheBounded
  <2> SUFFICES ASSUME Init PROVE CacheBounded
    OBVIOUS
  <2>1. DOMAIN usedNonces = {}
    BY DEF Init
  <2> QED
    BY <2>1, FS_EmptySet, CacheAssumption DEF CacheBounded
<1>2. TypeOK /\ CacheBounded /\ [Next]_vars => CacheBounded'
  <2> SUFFICES ASSUME TypeOK, CacheBounded, [Next]_vars PROVE CacheBounded'
    OBVIOUS
  <2>1. CASE UNCHANGED usedNonces
    BY <2>1 DEF CacheBounded
  <2>2. CASE Close
    <3>1. DOMAIN usedNonces' = {}
      BY <2>2 DEF Close
    <3> QED
      BY <3>1, FS_EmptySet, CacheAssumption DEF CacheBounded
  <2>3. ASSUME NEW t \in Tasks, Generate(t) PROVE CacheBounded'
    BY <2>3, VerifyBounded DEF Generate
  <2>4. ASSUME NEW t \in Tasks, ToolVerify(t) PROVE CacheBounded'
    BY <2>4, VerifyBounded DEF ToolVerify
  <2>5. ASSUME NEW n \in DOMAIN pots, Verify(n) PROVE CacheBounded'
    BY <2>5, VerifyBounded DEF Verify
  <2>6. ASSUME Next, ~Close,
               ~\E t \in Tasks : Generate(t) \/ ToolVerify(t),
               ~\E n \in DOMAIN pots : Verify(n)
        PROVE  UNCHANGED usedNonces
    BY <2>6 DEF Next, Call, Settle, AllFailed, Synthesize, Receive, Tick
  <2> QED
    BY <2>1, <2>2, <2>3, <2>4, <2>5, <2>6 DEF vars
<1> QED
  BY <1>1, <1>2, TypeCorrect, PTL DEF Spec

-----------------------------------------------------------------------------
(* The median *)

\* A call that returned has the median of the readings that were collected,
\* and the readings are fixed once it does.
TimesAreMedians ==
  \A t \in Tasks :
    /\ tasks[t].got \in [Sources -> {pending} \cup Answers]
    /\ tasks[t].state \in {"returned", "verified"} =>
         /\ Fulfilled(t) # {}
         /\ tasks[t].timestamp = Median(Fulfilled(t)).timestamp

ReadingsOf(got) ==
  {[source |-> s, timestamp |-> got[s].reading.timestamp,
    uncertainty |-> got[s].reading.uncertainty,
    stratum |-> got[s].reading.stratum] :
      s \in {u \in Sources : got[u].state = "fulfilled"}}

\* The readings of a call come from different sources.
LEMMA CollectedReadable ==
  ASSUME NEW got \in [Sources -> {pending} \cup Answers]
  PROVE  Readable(ReadingsOf(got))
<1> DEFINE R == ReadingsOf(got)
           place == [r \in R |-> r.source]
<1>1. ASSUME NEW s \in Sources, got[s].state = "fulfilled"
      PROVE  got[s].reading.timestamp \in Int
  <2>1. got[s] \in [state : {"fulfilled"}, reading : Readings]
    BY <1>1 DEF Answers, pending, failed
  <2>2. got[s].reading \in [timestamp : Nat, uncertainty : Nat, stratum : Stratum]
    BY <2>1, ConstantsAssumption
  <2> QED
    BY <2>2
<1>2. Sources \subseteq Int
  BY ConstantsAssumption DEF Sources
<1>3. \A r \in R : r.timestamp \in Int /\ r.source \in Sources
  BY <1>1 DEF ReadingsOf
<1>4. \A q, r \in R : q.source = r.source => q = r
  BY DEF ReadingsOf
<1> HIDE DEF R
<1>5. IsFiniteSet(R)
  <2>1. place \in Injection(R, Sources)
    BY <1>3, <1>4 DEF Injection, IsInjective
  <2>2. NumSources \in Int /\ 1 \in Int
    BY ConstantsAssumption
  <2>3. IsFiniteSet(Sources)
    BY <2>2, FS_Interval DEF Sources
  <2> QED
    BY <2>1, <2>3, FS_Injection
<1>6. Readable(R)
  BY <1>2, <1>3, <1>4, <1>5 DEF Readable
<1> QED
  BY <1>6 DEF R

\* A step of one call keeps TimesAreMedians when that call does.
LEMMA MedianStep ==
  ASSUME ReturnedPots, TimesAreMedians, NEW t \in Tasks, NEW task,
         tasks' = [tasks EXCEPT ![t] = task],
         task.got \in [Sources -> {pending} \cup Answers],
         task.state \in {"returned", "verified"} =>
           /\ ReadingsOf(task.got) # {}
           /\ task.timestamp = Median(ReadingsOf(task.got)).timestamp
  PROVE  TimesAreMedians'
<1>1. \A u \in Tasks : tasks'[u] = IF u = t THEN task ELSE tasks[u]
  BY DEF ReturnedPots
<1>2. \A u \in Tasks : /\ Fulfilled(u) = ReadingsOf(tasks[u].got)
                       /\ Fulfilled(u)' = ReadingsOf(tasks'[u].got)
  BY DEF Fulfilled, ReadingsOf
<1> QED
  BY <1>1, <1>2 DEF TimesAreMedians

LEMMA StepMedians == IInv /\ TimesAreMedians /\ [Next]_vars => TimesAreMedians'
<1> SUFFICES ASSUME IInv, TimesAreMedians, [Next]_vars
             PROVE  TimesAreMedians'
  OBVIOUS
<1>0. ReturnedPots
  BY DEF IInv
<1>a. ASSUME UNCHANGED tasks PROVE TimesAreMedians'
  BY <1>a DEF TimesAreMedians, Fulfilled
<1>b. ASSUME NEW t \in Tasks
      PROVE  /\ tasks[t].got \in [Sources -> {pending} \cup Answers]
             /\ Fulfilled(t) = ReadingsOf(tasks[t].got)
             /\ DOMAIN tasks[t] = DOMAIN Idle
  BY <1>0 DEF TimesAreMedians, Fulfilled, ReadingsOf, ReturnedPots
<1>1. ASSUME NEW t \in Tasks, NEW call, Call(t, call)
      PROVE  TimesAreMedians'
  <2> DEFINE task == [tasks[t] EXCEPT !.state = "waiting", !.call = call]
  <2>1. tasks' = [tasks EXCEPT ![t] = task]
    BY <1>1 DEF Call
  <2>2. task.state = "waiting" /\ task.got = tasks[t].got
    BY <1>b DEF Idle
  <2> QED
    BY <1>0, <1>b, <2>1, <2>2, MedianStep
<1>2. ASSUME NEW t \in Tasks, NEW s \in Sources, NEW a \in Answers,
             Settle(t, s, a)
      PROVE  TimesAreMedians'
  <2> DEFINE task == [tasks[t] EXCEPT !.got[s] = a]
  <2>1. tasks' = [tasks EXCEPT ![t] = task] /\ tasks[t].state = "waiting"
    BY <1>2 DEF Settle
  <2>2. task.state = "waiting" /\ task.got = [tasks[t].got EXCEPT ![s] = a]
    BY <1>b, <2>1 DEF Idle
  <2>3. task.got \in [Sources -> {pending} \cup Answers]
    BY <1>b, <2>2
  <2> HIDE DEF task
  <2> QED
    BY <1>0, <2>1, <2>2, <2>3, MedianStep
<1>3. ASSUME NEW t \in Tasks, AllFailed(t)
      PROVE  TimesAreMedians'
  <2> DEFINE task == [tasks[t] EXCEPT !.state = "threw"]
  <2>1. tasks' = [tasks EXCEPT ![t] = task]
    BY <1>3 DEF AllFailed
  <2>2. task.state = "threw" /\ task.got = tasks[t].got
    BY <1>b DEF Idle
  <2> QED
    BY <1>0, <1>b, <2>1, <2>2, MedianStep
<1>4. ASSUME NEW t \in Tasks, Synthesize(t)
      PROVE  TimesAreMedians'
  <2> DEFINE time == Median(Fulfilled(t)).timestamp
             task == [tasks[t] EXCEPT !.state = "returned", !.timestamp = time]
  <2>1. tasks' = [tasks EXCEPT ![t] = task] /\ Fulfilled(t) # {}
    BY <1>4 DEF Synthesize
  <2> HIDE DEF time
  <2>2. task.timestamp = time /\ task.got = tasks[t].got
    BY <1>b DEF Idle
  <2> HIDE DEF task
  <2> QED
    BY <1>0, <1>b, <2>1, <2>2, MedianStep DEF time
<1>5. ASSUME NEW t \in Tasks, Generate(t)
      PROVE  TimesAreMedians'
  <2> DEFINE nonce == issued + 1
             pot   == MakePoT(Fulfilled(t), nonce, now + Expiry)
  <2>1. PICK ok \in BOOLEAN :
          tasks' = [tasks EXCEPT
                      ![t].state = IF ok THEN "returned" ELSE "threw",
                      ![t].timestamp = pot.timestamp,
                      ![t].nonce = nonce]
    BY <1>5 DEF Generate
  <2>2. Fulfilled(t) # {}
    BY <1>5 DEF Generate
  <2>3. pot.timestamp = Median(Fulfilled(t)).timestamp
    BY DEF MakePoT
  <2> DEFINE state == IF ok THEN "returned" ELSE "threw"
             task  == [tasks[t] EXCEPT !.state = state,
                         !.timestamp = pot.timestamp, !.nonce = nonce]
  <2> HIDE DEF pot, nonce, state
  <2>4. tasks' = [tasks EXCEPT ![t] = task]
    BY <2>1 DEF state
  <2>5. task.timestamp = pot.timestamp /\ task.got = tasks[t].got
    BY <1>b DEF Idle
  <2> HIDE DEF task
  <2> QED
    BY <1>0, <1>b, <2>2, <2>3, <2>4, <2>5, MedianStep
<1>6. ASSUME NEW t \in Tasks, ToolVerify(t)
      PROVE  TimesAreMedians'
  <2>1. PICK ok \in BOOLEAN :
          tasks' = [tasks EXCEPT ![t].state = "verified", ![t].verified = ok]
    BY <1>6 DEF ToolVerify
  <2> DEFINE task == [tasks[t] EXCEPT !.state = "verified", !.verified = ok]
  <2>2. tasks' = [tasks EXCEPT ![t] = task]
    BY <2>1
  <2>3. task.got = tasks[t].got /\ task.timestamp = tasks[t].timestamp
    BY <1>b DEF Idle
  <2>4. /\ Fulfilled(t) # {}
        /\ tasks[t].timestamp = Median(Fulfilled(t)).timestamp
    BY <1>6 DEF ToolVerify, TimesAreMedians
  <2> HIDE DEF task
  <2> QED
    BY <1>0, <1>b, <2>2, <2>3, <2>4, MedianStep
<1> QED
  BY <1>a, <1>1, <1>2, <1>3, <1>4, <1>5, <1>6
     DEF Next, vars, Receive, Verify, Close, Tick

\* synthesize and generateProofOfTime return a time within the range of the
\* honest readings as long as fewer than half of the readings are of faulty
\* sources: for any number of sources and of calls, any readings, and whichever
\* sources failed to answer.
THEOREM MedianIsRobust == Spec => []MedianRobust
<1>1. Init => TimesAreMedians
  <2> SUFFICES ASSUME Init, NEW t \in Tasks
               PROVE  /\ tasks[t].got \in [Sources -> {pending} \cup Answers]
                      /\ tasks[t].state = "idle"
    BY DEF TimesAreMedians
  <2>1. tasks[t] = Idle
    BY DEF Init
  <2> QED
    BY <2>1 DEF Idle
<1>2. TimesAreMedians => MedianRobust
  <2> SUFFICES ASSUME TimesAreMedians, NEW t \in Tasks,
                      tasks[t].state \in {"returned", "verified"},
                      NEW H \in SUBSET Fulfilled(t),
                      2 * Cardinality(Fulfilled(t) \ H) < Cardinality(Fulfilled(t))
               PROVE  /\ \E r \in H : r.timestamp <= tasks[t].timestamp
                      /\ \E r \in H : r.timestamp >= tasks[t].timestamp
    BY DEF MedianRobust
  <2>1. Readable(Fulfilled(t))
    BY CollectedReadable DEF TimesAreMedians, Fulfilled, ReadingsOf
  <2>2. /\ Fulfilled(t) # {}
        /\ tasks[t].timestamp = Median(Fulfilled(t)).timestamp
    BY DEF TimesAreMedians
  <2> QED
    BY <2>1, <2>2, MedianBracketed
<1> QED
  BY <1>1, <1>2, StepMedians, Inductive, PTL DEF Spec
=============================================================================
