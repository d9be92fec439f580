-------------------------- MODULE PotVerifierProofs -------------------------
(***************************************************************************)
(* PotVerifier accepts a record at most once, for any sessions, any tiers  *)
(* and tolerances, any skew of the issuer's clock that the time to live    *)
(* covers, and any size at which the cache is swept.                       *)
(***************************************************************************)
EXTENDS PotVerifier, FiniteSetTheorems, TLAPS

\* The n-th record is as the issuer signed it at some time in the past.
Signed(n) ==
  \E tier \in Tiers, skew \in Skews, t \in 0..now :
    records[n] = [version |-> 1, tier |-> tier, nonce |-> n,
                  timestamp |-> t + skew]

\* The last moment at which the n-th record is recent enough
Deadline(n) == records[n].timestamp + Tolerance(records[n].tier)

\* The inductive invariant: an entry of the cache outlives the moment from
\* which its record is refused for its age, and a record that was accepted has
\* an entry or is past that moment.
IInv ==
  /\ TypeOK
  /\ \A n \in DOMAIN records : Signed(n)
  /\ \A n \in DOMAIN cache : Deadline(n) <= cache[n]
  /\ \A n \in Nonces : accepted[n] > 0 =>
       n \in DOMAIN records /\ (n \in DOMAIN cache \/ now > Deadline(n))
  /\ NoReplay

\* What the verification of a frame of the n-th record may do: nothing, or
\* accept it while no live entry holds its nonce.
VerifyStep(n) ==
  \/ UNCHANGED <<cache, accepted>>
  \/ /\ now <= Deadline(n)
     /\ ~has(n)
     /\ cache' = add(WithoutExpired(n), n)
     /\ accepted' = IF accepted[n] < 2
                    THEN [accepted EXCEPT ![n] = @ + 1] ELSE accepted

LEMMA DeadlineFacts ==
  ASSUME now \in Nat, NEW n, Signed(n)
  PROVE  Deadline(n) \in Int /\ Deadline(n) <= now + Ttl
         /\ records[n].timestamp \in Int /\ Tolerance(records[n].tier) \in Nat
<1>1. PICK tier \in Tiers, skew \in Skews, t \in 0..now :
        records[n] = [version |-> 1, tier |-> tier, nonce |-> n,
                      timestamp |-> t + skew]
  BY DEF Signed
<1>2. ToleranceOf[tier] \in Nat /\ skew \in Int /\ Ttl \in Nat
  BY ConstantsAssumption
<1>3. ToleranceOf[tier] + skew <= Ttl
  BY TtlAssumption
<1>4. Tolerance(records[n].tier) = ToleranceOf[tier]
      /\ records[n].timestamp = t + skew
  BY <1>1 DEF Tolerance
<1> QED
  BY <1>2, <1>3, <1>4 DEF Deadline

\* The signature pins down the record: a frame that verifies carries the record
\* it stems from.
LEMMA ArrivalFacts ==
  ASSUME NEW record, NEW frame \in Arrivals(record), verifyEd25519(frame)
  PROVE  frame.record = record
<1>1. \E s, r :
        \/ frame = Frame(s, record)
        \/ frame = [Frame(s, record) EXCEPT !.record = r]
        \/ frame = [Frame(s, r) EXCEPT !.ed25519Sig = Signature("issuer", record)]
        \/ frame = [Frame(s, r) EXCEPT !.ed25519Sig = Signature("other", r)]
  BY DEF Arrivals
<1>2. PICK s, r :
        \/ frame = Frame(s, record)
        \/ frame = [Frame(s, record) EXCEPT !.record = r]
        \/ frame = [Frame(s, r) EXCEPT !.ed25519Sig = Signature("issuer", record)]
        \/ frame = [Frame(s, r) EXCEPT !.ed25519Sig = Signature("other", r)]
  BY <1>1
<1>3. frame.ed25519Sig = <<"issuer", frame.record>>
  BY DEF verifyEd25519, Signature
<1>4. CASE frame = Frame(s, record)
  BY <1>4 DEF Frame
<1>5. CASE frame = [Frame(s, record) EXCEPT !.record = r]
  BY <1>3, <1>5 DEF Frame, Signature
<1>6. CASE frame = [Frame(s, r) EXCEPT !.ed25519Sig = Signature("issuer", record)]
  BY <1>3, <1>6 DEF Frame, Signature
<1>7. CASE frame = [Frame(s, r) EXCEPT !.ed25519Sig = Signature("other", r)]
  <2>1. frame.ed25519Sig = <<"other", r>>
    BY <1>7 DEF Frame, Signature
  <2> QED
    BY <1>3, <2>1
<1> QED
  BY <1>2, <1>4, <1>5, <1>6, <1>7

\* The effect of verify on whatever arrives of the n-th record.
LEMMA VerifyFacts ==
  ASSUME IInv, NEW session, NEW n \in DOMAIN records, Verify(session, n)
  PROVE  VerifyStep(n)
<1>1. PICK frame \in Arrivals(records[n]) : verify(session, n, frame)
  BY DEF Verify
<1>2. CASE UNCHANGED <<cache, accepted>>
  BY <1>2 DEF VerifyStep
<1>3. CASE /\ Passes(session, frame)
           /\ ~has(frame.record.nonce)
           /\ cache' = add(WithoutExpired(frame.record.nonce), frame.record.nonce)
           /\ accepted' = IF accepted[n] < 2
                          THEN [accepted EXCEPT ![n] = @ + 1] ELSE accepted
  <2>1. frame.record = records[n]
    BY <1>3, ArrivalFacts DEF Passes
  <2>2. frame.record.nonce = n
    BY <2>1 DEF IInv, TypeOK
  <2>3. now \in Nat /\ Signed(n)
    BY ConstantsAssumption DEF IInv, TypeOK
  <2>4. now <= Deadline(n)
    <3>1. now - records[n].timestamp <= Tolerance(records[n].tier)
      BY <1>3, <2>1 DEF Passes
    <3>2. records[n].timestamp \in Int /\ Tolerance(records[n].tier) \in Nat
      BY <2>3, DeadlineFacts
    <3> QED
      BY <2>3, <3>1, <3>2 DEF Deadline
  <2> QED
    BY <1>3, <2>2, <2>4 DEF VerifyStep
<1> QED
  BY <1>1, <1>2, <1>3 DEF verify

\* The cache is finite and holds integers.
LEMMA CacheFacts ==
  ASSUME TypeOK, NEW n
  PROVE  /\ now \in Nat /\ Ttl \in Nat
         /\ DOMAIN records \subseteq Nonces
         /\ IsFiniteSet(DOMAIN cache)
         /\ \A m \in DOMAIN cache : cache[m] \in Int
         /\ DOMAIN WithoutExpired(n) = DOMAIN cache \ {n}
         /\ \A m \in DOMAIN cache \ {n} : WithoutExpired(n)[m] = cache[m]
         /\ IsFiniteSet(DOMAIN WithoutExpired(n))
<1>1. /\ MaxNonces \in Nat /\ MaxTime \in Nat /\ Ttl \in Nat
  BY ConstantsAssumption
<1>2. PICK k \in 0..MaxNonces : DOMAIN records = 1..k
  BY DEF TypeOK
<1>3. DOMAIN cache \subseteq 1..k /\ IsFiniteSet(1..k) /\ 1..k \subseteq Nonces
  <2>1. DOMAIN cache \subseteq 1..k
    BY <1>2 DEF TypeOK
  <2>2. k \in Int /\ 1 \in Int /\ 1..k \subseteq Nonces
    BY <1>1 DEF Nonces
  <2>3. IsFiniteSet(1..k)
    BY <2>2, FS_Interval
  <2> QED
    BY <2>1, <2>2, <2>3
<1>4. IsFiniteSet(DOMAIN cache) /\ IsFiniteSet(DOMAIN cache \ {n})
  BY <1>3, FS_Subset
<1>5. now \in Nat
  BY <1>1 DEF TypeOK
<1>6. \A m \in DOMAIN cache : cache[m] \in Int
  BY <1>1, <1>5 DEF TypeOK
<1> QED
  BY <1>1, <1>2, <1>3, <1>4, <1>5, <1>6 DEF WithoutExpired

\* What add leaves in the cache: the new entry and, of the others, those that
\* did not expire; the expired ones number at most SweepAbove.
LEMMA AddFacts ==
  ASSUME TypeOK, NEW n
  PROVE  LET next == add(WithoutExpired(n), n)
         IN  /\ n \in DOMAIN next /\ next[n] = now + Ttl
             /\ \A m \in DOMAIN next \ {n} : m \in DOMAIN cache /\ next[m] = cache[m]
             /\ \A m \in DOMAIN cache \ DOMAIN next : now > cache[m]
             /\ Cardinality({m \in DOMAIN next : now > next[m]}) <= SweepAbove
<1> DEFINE c     == WithoutExpired(n)
           swept == IF Cardinality(DOMAIN c) > SweepAbove THEN Unexpired(c) ELSE c
           next  == add(c, n)
           E     == {m \in DOMAIN next : now > next[m]}
<1>0. /\ now \in Nat
      /\ DOMAIN c = DOMAIN cache \ {n}
      /\ \A m \in DOMAIN cache \ {n} : c[m] = cache[m]
      /\ IsFiniteSet(DOMAIN c)
      /\ \A m \in DOMAIN c : c[m] \in Int
  BY CacheFacts
<1> HIDE DEF c
<1>1. Ttl \in Nat /\ SweepAbove \in Nat
  BY ConstantsAssumption
<1>2. next = [m \in DOMAIN swept \cup {n} |-> IF m = n THEN now + Ttl ELSE swept[m]]
  BY DEF add
<1>3. /\ DOMAIN swept \subseteq DOMAIN c
      /\ \A m \in DOMAIN swept : swept[m] = c[m]
      /\ \A m \in DOMAIN c \ DOMAIN swept : now > c[m]
  BY <1>0 DEF Unexpired
<1>4. CASE Cardinality(DOMAIN c) > SweepAbove
  <2>1. \A m \in DOMAIN swept : now <= swept[m]
    BY <1>4 DEF Unexpired
  <2> HIDE DEF swept, next
  <2>2. E = {}
    BY <1>0, <1>1, <1>2, <1>3, <2>1
  <2>3. Cardinality(E) = 0
    BY <2>2, FS_EmptySet
  <2> QED
    BY <1>0, <1>1, <1>2, <1>3, <2>3 DEF next, c
<1>5. CASE ~(Cardinality(DOMAIN c) > SweepAbove)
  <2> HIDE DEF swept, next
  <2>1. E \in SUBSET DOMAIN c
    BY <1>0, <1>1, <1>2, <1>3
  <2>2. Cardinality(E) <= Cardinality(DOMAIN c) /\ IsFiniteSet(E)
    BY <1>0, <2>1, FS_Subset
  <2>3. Cardinality(E) \in Nat /\ Cardinality(DOMAIN c) \in Nat
    BY <1>0, <2>2, FS_CardinalityType
  <2>4. Cardinality(E) <= SweepAbove
    BY <1>1, <1>5, <2>2, <2>3
  <2> QED
    BY <1>0, <1>1, <1>2, <1>3, <2>4 DEF next, c
<1> QED
  BY <1>4, <1>5

\* Verifying keeps the invariant: the record it accepts was not accepted before.
LEMMA VerifyKeeps ==
  ASSUME IInv, NEW n \in DOMAIN records, VerifyStep(n),
         UNCHANGED <<now, records>>
  PROVE  IInv'
<1>1. TypeOK /\ \A m \in DOMAIN records : Signed(m)
  BY DEF IInv
<1>2. /\ now \in Nat /\ Ttl \in Nat /\ DOMAIN records \subseteq Nonces
      /\ \A m \in DOMAIN cache : cache[m] \in Int
  BY <1>1, CacheFacts
<1>3. /\ accepted \in [Nonces -> 0..2] /\ n \in Nonces
      /\ DOMAIN cache \subseteq DOMAIN records
      /\ \A m \in DOMAIN cache : cache[m] \in Ttl..(now + Ttl)
  BY <1>1, <1>2 DEF TypeOK
<1>4. \A m \in DOMAIN records : Deadline(m) \in Int /\ Deadline(m) <= now + Ttl
  BY <1>1, <1>2, DeadlineFacts
<1>5. \A m \in DOMAIN records : Deadline(m)' = Deadline(m) /\ Signed(m)'
  BY <1>1 DEF Deadline, Signed, Tolerance
<1>6. CASE UNCHANGED <<cache, accepted>>
  BY <1>1, <1>3, <1>5, <1>6 DEF IInv, TypeOK, NoReplay
<1>7. ASSUME now <= Deadline(n), ~has(n),
             cache' = add(WithoutExpired(n), n),
             accepted' = (IF accepted[n] < 2
                          THEN [accepted EXCEPT ![n] = @ + 1] ELSE accepted)
      PROVE  IInv'
  <2>1. /\ n \in DOMAIN cache' /\ cache'[n] = now + Ttl
        /\ \A m \in DOMAIN cache' \ {n} : m \in DOMAIN cache /\ cache'[m] = cache[m]
        /\ \A m \in DOMAIN cache \ DOMAIN cache' : now > cache[m]
    BY <1>1, <1>7, AddFacts
  <2>2. accepted[n] = 0
    <3> SUFFICES ASSUME accepted[n] > 0 PROVE FALSE
      BY <1>3
    <3>1. n \in DOMAIN cache
      BY <1>2, <1>3, <1>4, <1>7 DEF IInv
    <3>2. Deadline(n) <= cache[n]
      BY <3>1 DEF IInv
    <3> QED
      BY <1>2, <1>4, <1>7, <3>1, <3>2 DEF has
  <2>3. /\ accepted' \in [Nonces -> 0..2] /\ accepted'[n] = 1
        /\ \A m \in Nonces \ {n} : accepted'[m] = accepted[m]
    BY <1>3, <1>7, <2>2
  <2>4. /\ DOMAIN cache' \subseteq DOMAIN records
        /\ \A m \in DOMAIN cache' : cache'[m] \in Ttl..(now + Ttl)
    BY <1>2, <1>3, <2>1
  <2>5. TypeOK'
    BY <1>1, <2>3, <2>4 DEF TypeOK
  <2>6. \A m \in DOMAIN cache' : Deadline(m) <= cache'[m]
    BY <1>4, <2>1, <2>4 DEF IInv
  <2>7. \A m \in Nonces : accepted'[m] > 0 =>
          m \in DOMAIN records /\ (m \in DOMAIN cache' \/ now > Deadline(m))
    <3> SUFFICES ASSUME NEW m \in Nonces \ {n}, accepted[m] > 0
                 PROVE  /\ m \in DOMAIN records
                        /\ m \in DOMAIN cache' \/ now > Deadline(m)
      BY <2>1, <2>3
    <3>1. m \in DOMAIN records /\ (m \in DOMAIN cache \/ now > Deadline(m))
      BY DEF IInv
    <3>2. m \in DOMAIN cache \ DOMAIN cache' => now > Deadline(m)
      BY <1>2, <1>4, <2>1, <3>1 DEF IInv
    <3> QED
      BY <3>1, <3>2
  <2>8. NoReplay'
    BY <2>3 DEF IInv, NoReplay
  <2> QED
    BY <1>5, <2>4, <2>5, <2>6, <2>7, <2>8 DEF IInv
<1> QED
  BY <1>6, <1>7 DEF VerifyStep

\* Issuing a record and the passing of time keep the invariant.
LEMMA OtherKeeps ==
  ASSUME IInv,
         \/ Tick
         \/ \E tier \in Tiers, skew \in Skews : Issue(tier, skew)
  PROVE  IInv'
<1>1. TypeOK /\ MaxNonces \in Nat /\ MaxTime \in Nat /\ Ttl \in Nat
  BY ConstantsAssumption DEF IInv
<1>2. now \in Nat /\ now <= MaxTime
  BY <1>1 DEF TypeOK
<1>3. UNCHANGED <<cache, accepted>>
  BY DEF Tick, Issue
<1>4. now' \in 0..MaxTime /\ now <= now'
  BY <1>1, <1>2 DEF Tick, Issue
<1>5. /\ DOMAIN records' \in {1..k : k \in 0..MaxNonces}
      /\ DOMAIN records \subseteq DOMAIN records'
      /\ \A n \in DOMAIN records : records'[n] = records[n]
      /\ \A n \in DOMAIN records' \ DOMAIN records : Signed(n)'
  <2>1. CASE Tick
    BY <1>1, <2>1 DEF TypeOK, Tick
  <2>2. ASSUME NEW tier \in Tiers, NEW skew \in Skews, Issue(tier, skew)
        PROVE  <1>5!:
    <3>1. PICK k \in 0..MaxNonces : DOMAIN records = 1..k
      BY <1>1 DEF TypeOK
    <3>2. Cardinality(DOMAIN records) = k
      BY <1>1, <3>1, FS_Interval
    <3>3. /\ k + 1 <= MaxNonces
          /\ records' = [n \in 1..k \cup {k + 1} |->
                           IF n = k + 1
                           THEN [version |-> 1, tier |-> tier, nonce |-> k + 1,
                                 timestamp |-> now + skew]
                           ELSE records[n]]
      BY <2>2, <3>1, <3>2 DEF Issue
    <3>4. 1..k \cup {k + 1} = 1..(k + 1)
      BY <1>1
    <3>5. /\ DOMAIN records' = 1..(k + 1)
          /\ \A n \in 1..k : records'[n] = records[n]
          /\ records'[k + 1] = [version |-> 1, tier |-> tier, nonce |-> k + 1,
                                timestamp |-> now + skew]
      BY <1>1, <3>3, <3>4
    <3>6. now' = now /\ now \in 0..now'
      BY <1>2, <2>2 DEF Issue
    <3>7. Signed(k + 1)'
      BY <3>5, <3>6 DEF Signed
    <3>8. DOMAIN records' \ DOMAIN records = {k + 1} /\ k + 1 \in 0..MaxNonces
      BY <1>1, <3>1, <3>3, <3>5
    <3> QED
      BY <1>1, <3>1, <3>5, <3>7, <3>8
  <2> QED
    BY <2>1, <2>2
<1>6. \A n \in DOMAIN records' : Signed(n)'
  <2> SUFFICES ASSUME NEW n \in DOMAIN records PROVE Signed(n)'
    BY <1>5
  <2>1. records'[n] = records[n] /\ Signed(n)
    BY <1>5 DEF IInv
  <2>2. 0..now \subseteq 0..now'
    BY <1>2, <1>4
  <2> QED
    BY <2>1, <2>2 DEF Signed
<1>7. \A n \in DOMAIN records' : records'[n].nonce = n
  BY <1>6 DEF Signed
<1>8. /\ DOMAIN cache \subseteq DOMAIN records'
      /\ \A n \in DOMAIN cache : cache[n] \in Ttl..(now' + Ttl)
  BY <1>1, <1>2, <1>4, <1>5 DEF TypeOK
<1>9. TypeOK'
  BY <1>1, <1>3, <1>4, <1>5, <1>7, <1>8 DEF TypeOK
<1>10. \A n \in DOMAIN records : Deadline(n)' = Deadline(n) /\ Deadline(n) \in Int
  BY <1>2, <1>5, DeadlineFacts DEF IInv, Deadline, Tolerance
<1>11. (\A n \in DOMAIN cache : Deadline(n) <= cache[n])'
  BY <1>1, <1>3, <1>10 DEF IInv, TypeOK
<1>12. (\A n \in Nonces : accepted[n] > 0 =>
          n \in DOMAIN records /\ (n \in DOMAIN cache \/ now > Deadline(n)))'
  BY <1>2, <1>3, <1>4, <1>5, <1>10 DEF IInv
<1>13. NoReplay'
  BY <1>3 DEF IInv, NoReplay
<1> QED
  BY <1>6, <1>9, <1>11, <1>12, <1>13 DEF IInv

LEMMA InitIInv == Init => IInv
<1> SUFFICES ASSUME Init PROVE IInv
  OBVIOUS
<1>1. MaxNonces \in Nat /\ MaxTime \in Nat
  BY ConstantsAssumption
<1>2. /\ DOMAIN records = 1..0 /\ DOMAIN records = {} /\ DOMAIN cache = {}
  BY DEF Init
<1>3. 0 \in 0..MaxNonces /\ 0 \in 0..MaxTime
  BY <1>1
<1>4. TypeOK
  BY <1>2, <1>3 DEF Init, TypeOK
<1>5. \A n \in Nonces : accepted[n] = 0
  BY DEF Init
<1> QED
  BY <1>2, <1>4, <1>5 DEF IInv, NoReplay

\* The inductive invariant holds in every reachable state.
THEOREM Inductive == Spec => []IInv
<1>1. IInv /\ [Next]_vars => IInv'
  <2> SUFFICES ASSUME IInv, [Next]_vars PROVE IInv'
    OBVIOUS
  <2>1. ASSUME NEW session \in Sessions, NEW n \in DOMAIN records,
               Verify(session, n)
        PROVE  IInv'
    <3>1. UNCHANGED <<now, records>>
      BY <2>1 DEF Verify
    <3> QED
      BY <2>1, <3>1, VerifyFacts, VerifyKeeps
  <2>2. CASE UNCHANGED vars
    BY <2>2 DEF vars, IInv, TypeOK, Signed, Deadline, Tolerance, NoReplay
  <2> QED
    BY <2>1, <2>2, OtherKeeps DEF Next
<1> QED
  BY <1>1, InitIInv, PTL DEF Spec

\* Type correctness: the cache holds only nonces of signed records, none for
\* longer than the time to live.
THEOREM TypeCorrect == Spec => []TypeOK
<1>1. IInv => TypeOK
  BY DEF IInv
<1> QED
  BY <1>1, Inductive, PTL

\* verify accepts a record at most once, in whichever sessions, however often
\* and however altered it arrives: MemoryNonceCache gives an entry up only when
\* the record is refused for its age.
THEOREM NeverReplayed == Spec => []NoReplay
<1>1. IInv => NoReplay
  BY DEF IInv
<1> QED
  BY <1>1, Inductive, PTL

\* Whenever add puts an entry into MemoryNonceCache, at most SweepAbove expired
\* ones stay behind.
THEOREM GarbageIsBounded == Spec => GarbageBounded
<1> DEFINE Bounded == \A n \in DOMAIN cache' :
             n \notin DOMAIN cache \/ cache'[n] # cache[n] =>
               Cardinality({m \in DOMAIN cache' : now > cache'[m]}) <= SweepAbove
<1>1. IInv /\ [Next]_vars => [Bounded]_vars
  <2> SUFFICES ASSUME IInv, Next, cache' # cache PROVE Bounded
    <3>1. cache' = cache => Bounded
      OBVIOUS
    <3> HIDE DEF Bounded
    <3> QED
      BY <3>1
  <2>1. PICK n \in DOMAIN records : VerifyStep(n)
    <3>1. PICK session \in Sessions, n \in DOMAIN records : Verify(session, n)
      BY DEF Next, Tick, Issue
    <3> QED
      BY <3>1, VerifyFacts
  <2>2. cache' = add(WithoutExpired(n), n)
    BY <2>1 DEF VerifyStep
  <2>3. TypeOK
    BY DEF IInv
  <2>4. Cardinality({m \in DOMAIN cache' : now > cache'[m]}) <= SweepAbove
    BY <2>2, <2>3, AddFacts
  <2> QED
    BY <2>4
<1> QED
  BY <1>1, Inductive, PTL DEF Spec, GarbageBounded
=============================================================================
