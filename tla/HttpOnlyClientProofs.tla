------------------------ MODULE HttpOnlyClientProofs ------------------------
(***************************************************************************)
(* A client accepts a PoT at most once unless its nonce was evicted, and   *)
(* what it accepts is what a client with its secret generated: for any     *)
(* clients, secrets, readings, lifetimes and sizes of the nonce cache.     *)
(***************************************************************************)
EXTENDS HttpOnlyClient, SharedLemmas

\* The time to live of a nonce covers the lifetime of a PoT, as the defaults
\* of 300 s and 60 s do.  Only the absence of replays rests on it: the run
\* HttpOnlyClient_expiry shows that a PoT that outlives its nonce is replayed.
ExpiryCovered == \A c \in Clients : Expiry[c] <= NonceTtl

\* The n-th PoT is as some client made it at some time in the past.
Generated(n) ==
  \E c \in Clients, R \in Fetches, t \in 0..now :
    pots[n] = [timestamp |-> Median(R).timestamp, sources |-> Cardinality(R),
               sourceReadings |-> R, nonce |-> n, expiresAt |-> t + Expiry[c],
               hmac |-> computeHmac(Median(R).timestamp, n, t + Expiry[c],
                                    Cardinality(R), Secret[c])]

\* The inductive part of the invariant that needs no assumption on lifetimes.
PotInv ==
  /\ TypeOK
  /\ \A n \in DOMAIN pots : Generated(n)
  /\ \A b \in believed : b.from \in DOMAIN pots
  /\ AcceptedAsGenerated
  /\ CacheBounded

\* A PoT that was accepted is remembered, evicted or expired.
Spent(c, n) ==
  /\ n \in DOMAIN pots
  /\ \/ n \in DOMAIN usedNonces[c]
     \/ n \in lost[c]
     \/ now > pots[n].expiresAt

\* The inductive invariant behind NoReplay: an entry is swept only after its
\* PoT has expired.
NonceInv ==
  /\ PotInv
  /\ \A c \in Clients : \A n \in DOMAIN usedNonces[c] :
       pots[n].expiresAt <= usedNonces[c][n] + NonceTtl
  /\ \A c \in Clients, n \in Nonces : accepted[c][n] > 0 => Spent(c, n)
  /\ NoReplay

\* What one verification of the n-th PoT may do to the state of the clients:
\* client c remembers at most its nonce, forgets only what is recorded as lost
\* or older than the time to live, accepts only a nonce that its swept cache
\* does not hold, and believes only what the PoT said when it was made.
VerifyStep(c, n) ==
  /\ DOMAIN usedNonces' = Clients
  /\ \A d \in Clients \ {c} : usedNonces'[d] = usedNonces[d]
  /\ \A m \in DOMAIN usedNonces'[c] :
       \/ m \in DOMAIN usedNonces[c] /\ usedNonces'[c][m] = usedNonces[c][m]
       \/ m = n /\ usedNonces'[c][m] = now
  /\ \A m \in DOMAIN usedNonces[c] \ DOMAIN usedNonces'[c] :
       m \in lost'[c] \/ now - usedNonces[c][m] > NonceTtl
  /\ Cardinality(DOMAIN usedNonces'[c]) <= MaxNonceCache
  /\ lost' \in [Clients -> SUBSET Nonces]
  /\ \A d \in Clients : lost[d] \subseteq lost'[d]
  /\ accepted' \in [Clients -> [Nonces -> 0..2]]
  /\ \A d \in Clients, m \in Nonces :
       accepted'[d][m] # accepted[d][m] =>
         /\ d = c /\ m = n
         /\ accepted'[d][m] = accepted[d][m] + 1
         /\ now <= pots[n].expiresAt
         /\ n \in DOMAIN usedNonces'[c]
         /\ n \notin DOMAIN Swept(usedNonces[c], now)
  /\ \A b \in believed' :
       \/ b \in believed
       \/ /\ b.by = c /\ b.from = n
          /\ b.timestamp = pots[n].timestamp
          /\ b.expiresAt = pots[n].expiresAt
          /\ HmacMatches(c, pots[n])

\* The HMAC pins down the nonce, the time and the expiry: an arrival whose
\* HMAC matches differs from the PoT it stems from in its readings at most.
LEMMA ArrivalFacts ==
  ASSUME NEW n, Generated(n), NEW c \in Clients, NEW sent \in Arrivals(pots[n]),
         NEW pot, pot = sent \/ pot = Reconstructed(sent), HmacMatches(c, pot)
  PROVE  /\ pot.nonce = n
         /\ pot.timestamp = pots[n].timestamp
         /\ pot.expiresAt = pots[n].expiresAt
         /\ HmacMatches(c, pots[n])
<1>1. PICK g \in Clients, R \in Fetches, t \in 0..now :
        pots[n] = [timestamp |-> Median(R).timestamp, sources |-> Cardinality(R),
                   sourceReadings |-> R, nonce |-> n, expiresAt |-> t + Expiry[g],
                   hmac |-> computeHmac(Median(R).timestamp, n, t + Expiry[g],
                                        Cardinality(R), Secret[g])]
  BY DEF Generated
<1> DEFINE p == pots[n]
           median == Median(R).timestamp
           expiry == t + Expiry[g]
           size == Cardinality(R)
<1> HIDE DEF median, expiry, size
<1>2. p = [timestamp |-> median, sources |-> size, sourceReadings |-> R,
           nonce |-> n, expiresAt |-> expiry,
           hmac |-> <<median, n, expiry, size, Secret[g]>>]
  BY <1>1 DEF median, expiry, size, computeHmac
<1> HIDE DEF p
<1>3. \/ sent = p \/ sent = [p EXCEPT !.hmac = << >>]
      \/ \E m : sent = [p EXCEPT !.nonce = m]
      \/ \E e : sent = [p EXCEPT !.expiresAt = e]
      \/ \E s : sent = [p EXCEPT !.timestamp = s]
      \/ \E Q : sent = [p EXCEPT !.sourceReadings = Q]
  BY DEF Arrivals, p
<1>4. \E ts, m, e, Q, x :
        sent = [timestamp |-> ts, sources |-> size, sourceReadings |-> Q,
                nonce |-> m, expiresAt |-> e, hmac |-> x]
  BY <1>2, <1>3
<1>5. /\ pot.hmac = sent.hmac /\ pot.nonce = sent.nonce
      /\ pot.timestamp = sent.timestamp /\ pot.expiresAt = sent.expiresAt
      /\ pot.sources = sent.sources
  BY <1>4 DEF Reconstructed
<1>6. sent.hmac = <<sent.timestamp, sent.nonce, sent.expiresAt, sent.sources,
                    Secret[c]>>
  BY <1>5 DEF HmacMatches, computeHmac
<1>7. /\ sent.nonce = n /\ sent.timestamp = median
      /\ sent.expiresAt = expiry /\ sent.sources = size /\ Secret[c] = Secret[g]
  <2>1. CASE sent = p
    BY <1>2, <1>6, <2>1
  <2>2. CASE sent = [p EXCEPT !.hmac = << >>]
    <3>1. sent.hmac = << >>
      BY <1>2, <2>2
    <3> QED
      BY <1>6, <3>1
  <2>3. CASE \E m : sent = [p EXCEPT !.nonce = m]
    BY <1>2, <1>6, <2>3
  <2>4. CASE \E e : sent = [p EXCEPT !.expiresAt = e]
    BY <1>2, <1>6, <2>4
  <2>5. CASE \E s : sent = [p EXCEPT !.timestamp = s]
    BY <1>2, <1>6, <2>5
  <2>6. CASE \E Q : sent = [p EXCEPT !.sourceReadings = Q]
    BY <1>2, <1>6, <2>6
  <2> QED
    BY <1>3, <2>1, <2>2, <2>3, <2>4, <2>5, <2>6
<1> QED
  BY <1>2, <1>5, <1>7 DEF p, HmacMatches, computeHmac

\* The effect of verifyPoT, by itself or within verifyPaymentPoT, on whatever
\* arrives of the n-th PoT.
LEMMA VerifyFacts ==
  ASSUME PotInv, NEW c \in Clients, NEW n \in DOMAIN pots,
         NEW sent \in Arrivals(pots[n]),
         NEW pot, pot = sent \/ pot = Reconstructed(sent),
         verifyPoT(c, n, pot), UNCHANGED <<now, pots>>
  PROVE  VerifyStep(c, n)
<1> DEFINE cache == usedNonces[c]
           kept  == Swept(cache, now)
<1>1. /\ TypeOK /\ CacheBounded
      /\ MaxNonces \in Nat /\ MaxTime \in Nat
  BY ConstantsAssumption DEF PotInv
<1>2. /\ now \in Int /\ DOMAIN usedNonces = Clients
      /\ \A d \in Clients : \A m \in DOMAIN usedNonces[d] : usedNonces[d][m] \in Int
  BY <1>1 DEF TypeOK
<1>3. /\ accepted \in [Clients -> [Nonces -> 0..2]]
      /\ lost \in [Clients -> SUBSET Nonces]
  BY <1>1 DEF TypeOK
<1>4. DOMAIN pots \subseteq Nonces /\ IsFiniteSet(DOMAIN pots)
  <2>1. PICK k \in 0..MaxNonces : DOMAIN pots = 1..k
    BY <1>1 DEF TypeOK
  <2> QED
    BY <1>1, <2>1, FS_Interval DEF Nonces
<1>5. /\ IsFiniteSet(DOMAIN cache) /\ DOMAIN cache \subseteq DOMAIN pots
      /\ Cardinality(DOMAIN cache) <= MaxNonceCache
  <2>1. DOMAIN cache \subseteq DOMAIN pots
    BY <1>1 DEF TypeOK
  <2> QED
    BY <1>1, <1>4, <2>1, FS_Subset DEF CacheBounded
<1>6. /\ DOMAIN kept \subseteq DOMAIN cache
      /\ \A m \in DOMAIN kept : kept[m] = cache[m]
      /\ \A m \in DOMAIN cache \ DOMAIN kept : now - cache[m] > NonceTtl
      /\ Cardinality(DOMAIN kept) <= MaxNonceCache
  BY <1>2, <1>5, SweptFacts, SweptBounded
<1>7. HmacMatches(c, pot) =>
        /\ pot.nonce = n
        /\ pot.timestamp = pots[n].timestamp
        /\ pot.expiresAt = pots[n].expiresAt
        /\ HmacMatches(c, pots[n])
  BY ArrivalFacts DEF PotInv
<1> HIDE DEF kept
<1>8. CASE UNCHANGED <<usedNonces, accepted, believed, lost>>
  BY <1>2, <1>3, <1>5, <1>8 DEF VerifyStep
<1>9. CASE /\ usedNonces' = [usedNonces EXCEPT ![c] = kept]
           /\ UNCHANGED <<accepted, believed, lost>>
  <2>1. /\ DOMAIN usedNonces' = Clients /\ usedNonces'[c] = kept
        /\ \A d \in Clients \ {c} : usedNonces'[d] = usedNonces[d]
    BY <1>2, <1>9
  <2> QED
    BY <1>3, <1>6, <1>9, <2>1 DEF VerifyStep
<1>10. ASSUME now <= pot.expiresAt, HmacMatches(c, pot),
              pot.nonce \notin DOMAIN kept,
              NEW gone \in Evictions(kept),
              usedNonces' =
                [usedNonces EXCEPT ![c] = Remember(kept, gone, pot.nonce, now)],
              lost' = [lost EXCEPT ![c] = @ \cup gone],
              accepted' = (IF WithinTolerance(pot) /\ accepted[c][n] < 2
                           THEN [accepted EXCEPT ![c][n] = @ + 1] ELSE accepted),
              believed' = (IF WithinTolerance(pot)
                           THEN believed \cup {[by |-> c, from |-> n,
                                                timestamp |-> pot.timestamp,
                                                expiresAt |-> pot.expiresAt]}
                           ELSE believed)
       PROVE  VerifyStep(c, n)
  <2> DEFINE next == Remember(kept, gone, n, now)
             ok   == WithinTolerance(pot)
  <2>1. /\ pot.nonce = n
        /\ pot.timestamp = pots[n].timestamp
        /\ pot.expiresAt = pots[n].expiresAt
        /\ HmacMatches(c, pots[n])
    BY <1>7, <1>10
  <2>2. /\ DOMAIN usedNonces' = Clients /\ usedNonces'[c] = next
        /\ \A d \in Clients \ {c} : usedNonces'[d] = usedNonces[d]
    BY <1>2, <1>10, <2>1
  <2>3. /\ n \in DOMAIN next
        /\ gone \subseteq DOMAIN cache
        /\ \A m \in DOMAIN next :
             \/ m = n /\ next[m] = now
             \/ m \in DOMAIN cache /\ next[m] = cache[m]
        /\ \A m \in DOMAIN cache \ DOMAIN next :
             m \in gone \/ now - cache[m] > NonceTtl
    BY <1>2, <1>10, RememberFacts DEF kept
  <2>4. Cardinality(DOMAIN next) <= MaxNonceCache
    BY <1>2, <1>5, <1>10, RememberBounded DEF kept
  <2>5. /\ lost' \in [Clients -> SUBSET Nonces]
        /\ \A d \in Clients : lost[d] \subseteq lost'[d]
        /\ gone \subseteq lost'[c]
    BY <1>3, <1>4, <1>5, <1>10, <2>3
  <2>6. n \in Nonces
    BY <1>4
  <2> HIDE DEF ok, next
  <2>7. accepted' = IF ok /\ accepted[c][n] < 2
                    THEN [accepted EXCEPT ![c][n] = @ + 1] ELSE accepted
    BY <1>10 DEF ok
  <2>8. /\ accepted' \in [Clients -> [Nonces -> 0..2]]
        /\ \A d \in Clients, m \in Nonces :
             accepted'[d][m] # accepted[d][m] =>
               d = c /\ m = n /\ accepted'[d][m] = accepted[d][m] + 1
    <3>1. CASE ok /\ accepted[c][n] < 2
      BY <1>3, <2>6, <2>7, <3>1
    <3>2. CASE ~(ok /\ accepted[c][n] < 2)
      BY <1>3, <2>7, <3>2
    <3> QED
      BY <3>1, <3>2
  <2>9. \A b \in believed' :
          \/ b \in believed
          \/ /\ b.by = c /\ b.from = n
             /\ b.timestamp = pots[n].timestamp
             /\ b.expiresAt = pots[n].expiresAt
             /\ HmacMatches(c, pots[n])
    <3>1. \A b \in believed' :
            \/ b \in believed
            \/ b = [by |-> c, from |-> n, timestamp |-> pots[n].timestamp,
                    expiresAt |-> pots[n].expiresAt]
      BY <1>10, <2>1
    <3> QED
      BY <2>1, <3>1
  <2>10. now <= pots[n].expiresAt /\ n \notin DOMAIN Swept(usedNonces[c], now)
    BY <1>10, <2>1 DEF kept
  <2> QED
    BY <2>2, <2>3, <2>4, <2>5, <2>8, <2>9, <2>10 DEF VerifyStep
<1> QED
  BY <1>8, <1>9, <1>10 DEF verifyPoT, kept

\* A verification keeps the types, the origin of the PoTs, what was believed
\* of them and the bound of the cache.
LEMMA VerifyKeepsPotInv ==
  ASSUME PotInv, NEW c \in Clients, NEW n \in DOMAIN pots,
         VerifyStep(c, n), UNCHANGED <<now, pots>>
  PROVE  PotInv'
<1>1. TypeOK /\ MaxNonces \in Nat /\ MaxTime \in Nat
  BY ConstantsAssumption DEF PotInv
<1>2. now \in Nat
  BY <1>1 DEF TypeOK
<1>3. \A d \in Clients :
        /\ DOMAIN usedNonces'[d] \subseteq DOMAIN pots
        /\ \A m \in DOMAIN usedNonces'[d] : usedNonces'[d][m] \in 0..now
  <2> SUFFICES ASSUME NEW d \in Clients, NEW m \in DOMAIN usedNonces'[d]
               PROVE  m \in DOMAIN pots /\ usedNonces'[d][m] \in 0..now
    OBVIOUS
  <2>1. CASE d = c
    BY <1>1, <1>2, <2>1 DEF TypeOK, VerifyStep
  <2>2. CASE d # c
    BY <1>1, <2>2 DEF TypeOK, VerifyStep
  <2> QED
    BY <2>1, <2>2
<1>4. TypeOK'
  BY <1>1, <1>3 DEF TypeOK, VerifyStep
<1>5. \A m \in DOMAIN pots' : Generated(m)'
  BY DEF PotInv, Generated
<1>6. (\A b \in believed : b.from \in DOMAIN pots)' /\ AcceptedAsGenerated'
  <2> SUFFICES ASSUME NEW b \in believed'
               PROVE  /\ b.from \in DOMAIN pots'
                      /\ b.timestamp = pots'[b.from].timestamp
                      /\ b.expiresAt = pots'[b.from].expiresAt
                      /\ HmacMatches(b.by, pots'[b.from])
    BY DEF AcceptedAsGenerated, HmacMatches
  <2>1. CASE b \in believed
    BY <2>1 DEF PotInv, AcceptedAsGenerated
  <2>2. CASE b \notin believed
    BY <2>2 DEF VerifyStep
  <2> QED
    BY <2>1, <2>2
<1>7. CacheBounded'
  BY DEF PotInv, CacheBounded, VerifyStep
<1> QED
  BY <1>4, <1>5, <1>6, <1>7 DEF PotInv

\* A verification keeps the invariant of the nonces: what it accepts was not
\* accepted before, or had been evicted.
LEMMA VerifyKeepsNonceInv ==
  ASSUME ExpiryCovered, NonceInv, NEW c \in Clients, NEW n \in DOMAIN pots,
         VerifyStep(c, n), UNCHANGED <<now, pots>>
  PROVE  NonceInv'
<1>1. PotInv /\ TypeOK /\ PotInv'
  BY VerifyKeepsPotInv DEF NonceInv, PotInv
<1>2. /\ now \in Int /\ NonceTtl \in Int
      /\ accepted \in [Clients -> [Nonces -> 0..2]]
      /\ \A d \in Clients : \A m \in DOMAIN usedNonces[d] :
           m \in DOMAIN pots /\ usedNonces[d][m] \in Int
  BY <1>1, ConstantsAssumption, CacheAssumption DEF TypeOK
<1>3. \A m \in DOMAIN pots :
        pots[m].expiresAt \in Int /\ pots[m].expiresAt <= now + NonceTtl
  <2> SUFFICES ASSUME NEW m \in DOMAIN pots
               PROVE  /\ pots[m].expiresAt \in Int
                      /\ pots[m].expiresAt <= now + NonceTtl
    OBVIOUS
  <2>1. PICK g \in Clients, t \in 0..now : pots[m].expiresAt = t + Expiry[g]
    BY <1>1 DEF PotInv, Generated
  <2>2. Expiry[g] \in Nat /\ Expiry[g] <= NonceTtl
    BY ConstantsAssumption DEF ExpiryCovered
  <2> QED
    BY <1>2, <2>1, <2>2
<1>4. ASSUME NEW d \in Clients, NEW m \in DOMAIN usedNonces'[d]
      PROVE  pots'[m].expiresAt <= usedNonces'[d][m] + NonceTtl
  <2>1. CASE m \in DOMAIN usedNonces[d] /\ usedNonces'[d][m] = usedNonces[d][m]
    BY <2>1 DEF NonceInv
  <2>2. CASE d = c /\ m = n /\ usedNonces'[d][m] = now
    BY <1>3, <2>2
  <2> QED
    BY <1>4, <2>1, <2>2 DEF VerifyStep
<1>5. ASSUME NEW d \in Clients, NEW m \in Nonces, accepted'[d][m] > 0
      PROVE  Spent(d, m)'
  <2>1. CASE accepted'[d][m] # accepted[d][m]
    BY <2>1 DEF VerifyStep, Spent
  <2>2. CASE accepted'[d][m] = accepted[d][m]
    <3>1. Spent(d, m)
      BY <1>5, <2>2 DEF NonceInv
    <3>2. CASE m \in lost[d] \/ now > pots[m].expiresAt
      BY <3>1, <3>2 DEF Spent, VerifyStep
    <3>3. CASE m \in DOMAIN usedNonces[d] /\ m \in DOMAIN usedNonces'[d]
      BY <3>1, <3>3 DEF Spent
    <3>4. CASE m \in DOMAIN usedNonces[d] /\ m \notin DOMAIN usedNonces'[d]
      <4>1. m \in lost'[d] \/ now - usedNonces[d][m] > NonceTtl
        BY <3>4 DEF VerifyStep
      <4>2. pots[m].expiresAt <= usedNonces[d][m] + NonceTtl
        BY <3>4 DEF NonceInv
      <4>3. m \in lost'[d] \/ now > pots[m].expiresAt
        BY <1>2, <1>3, <3>4, <4>1, <4>2
      <4> QED
        BY <3>1, <4>3 DEF Spent
    <3> QED
      BY <3>1, <3>2, <3>3, <3>4 DEF Spent
  <2> QED
    BY <2>1, <2>2
<1>6. ASSUME NEW d \in Clients, NEW m \in Nonces, accepted'[d][m] > 1
      PROVE  m \in lost'[d]
  <2>1. CASE accepted'[d][m] = accepted[d][m]
    BY <1>6, <2>1 DEF NonceInv, NoReplay, VerifyStep
  <2>2. CASE accepted'[d][m] # accepted[d][m]
    <3>1. /\ d = c /\ m = n /\ accepted'[d][m] = accepted[d][m] + 1
          /\ now <= pots[n].expiresAt
          /\ n \notin DOMAIN Swept(usedNonces[c], now)
      BY <2>2 DEF VerifyStep
    <3>2. accepted[c][n] > 0
      BY <1>2, <1>6, <3>1
    <3>3. Spent(c, n)
      BY <3>1, <3>2 DEF NonceInv
    <3>4. n \notin DOMAIN usedNonces[c]
      <4> SUFFICES ASSUME n \in DOMAIN usedNonces[c] PROVE FALSE
        OBVIOUS
      <4>1. now - usedNonces[c][n] > NonceTtl
        BY <1>2, <3>1, SweptFacts
      <4>2. pots[n].expiresAt <= usedNonces[c][n] + NonceTtl
        BY DEF NonceInv
      <4> QED
        BY <1>2, <1>3, <3>1, <4>1, <4>2
    <3>5. n \in lost[c]
      BY <1>2, <1>3, <3>1, <3>3, <3>4 DEF Spent
    <3> QED
      BY <3>1, <3>5 DEF VerifyStep
  <2> QED
    BY <2>1, <2>2
<1> QED
  BY <1>1, <1>4, <1>5, <1>6 DEF NonceInv, NoReplay

\* Generation appends a PoT whose nonce was not used before.
LEMMA GenerateFacts ==
  ASSUME PotInv, NEW c \in Clients, NEW R \in Fetches, generatePoT(c, R)
  PROVE  \E k \in 0..MaxNonces :
           /\ k < MaxNonces
           /\ DOMAIN pots = 1..k /\ DOMAIN pots' = 1..(k + 1)
           /\ \A n \in 1..k : pots'[n] = pots[n]
           /\ pots'[k + 1] = MakePoT(c, R, k + 1)
<1>1. PICK k \in 0..MaxNonces : DOMAIN pots = 1..k
  BY DEF PotInv, TypeOK
<1>2. MaxNonces \in Nat
  BY ConstantsAssumption
<1>3. Cardinality(DOMAIN pots) = k
  BY <1>1, <1>2, FS_Interval
<1>4. /\ k + 1 <= MaxNonces
      /\ pots' = [n \in 1..k \cup {k + 1} |->
                    IF n = k + 1 THEN MakePoT(c, R, k + 1) ELSE pots[n]]
  BY <1>1, <1>3 DEF generatePoT
<1>5. 1..k \cup {k + 1} = 1..(k + 1)
  BY <1>2
<1> QED
  BY <1>1, <1>2, <1>4, <1>5

\* A step that leaves the clients alone keeps the invariants when it only lets
\* time pass or adds a PoT.
LEMMA OtherSteps ==
  ASSUME PotInv,
         \/ Tick
         \/ \E c \in Clients, R \in Fetches : generatePoT(c, R)
  PROVE  /\ PotInv'
         /\ now \in Int /\ now' \in Int /\ now <= now'
         /\ DOMAIN pots \subseteq DOMAIN pots'
         /\ \A n \in DOMAIN pots : pots'[n] = pots[n]
         /\ UNCHANGED <<usedNonces, accepted, believed, lost>>
<1>1. TypeOK /\ MaxNonces \in Nat /\ MaxTime \in Nat
  BY ConstantsAssumption DEF PotInv
<1>2. now \in Nat /\ now <= MaxTime
  BY <1>1 DEF TypeOK
<1>3. UNCHANGED <<usedNonces, accepted, believed, lost>>
  BY DEF Tick, generatePoT
<1>4. now' \in 0..MaxTime /\ now <= now'
  BY <1>1, <1>2 DEF Tick, generatePoT
<1>5. /\ DOMAIN pots' \in {1..k : k \in 0..MaxNonces}
      /\ DOMAIN pots \subseteq DOMAIN pots'
      /\ \A n \in DOMAIN pots : pots'[n] = pots[n]
      /\ \A n \in DOMAIN pots' \ DOMAIN pots : Generated(n)'
  <2>1. CASE Tick
    BY <1>1, <2>1 DEF TypeOK, Tick
  <2>2. ASSUME NEW c \in Clients, NEW R \in Fetches, generatePoT(c, R)
        PROVE  <1>5!:
    <3>1. PICK k \in 0..MaxNonces :
            /\ k < MaxNonces
            /\ DOMAIN pots = 1..k /\ DOMAIN pots' = 1..(k + 1)
            /\ \A n \in 1..k : pots'[n] = pots[n]
            /\ pots'[k + 1] = MakePoT(c, R, k + 1)
      BY <2>2, GenerateFacts
    <3>2. now' = now /\ now \in 0..now'
      BY <1>2, <2>2 DEF generatePoT
    <3>3. Generated(k + 1)'
      BY <3>1, <3>2 DEF Generated, MakePoT
    <3>4. DOMAIN pots' \ DOMAIN pots = {k + 1}
      BY <1>1, <3>1
    <3> QED
      BY <1>1, <3>1, <3>3, <3>4
  <2> QED
    BY <2>1, <2>2
<1>6. \A n \in DOMAIN pots' : Generated(n)'
  <2> SUFFICES ASSUME NEW n \in DOMAIN pots PROVE Generated(n)'
    BY <1>5
  <2>1. pots'[n] = pots[n] /\ Generated(n)
    BY <1>5 DEF PotInv
  <2>2. 0..now \subseteq 0..now'
    BY <1>2, <1>4
  <2> QED
    BY <2>1, <2>2 DEF Generated
<1>7. \A n \in DOMAIN pots' : pots'[n].nonce = n
  BY <1>6 DEF Generated
<1>8. \A c \in Clients : /\ DOMAIN usedNonces[c] \subseteq DOMAIN pots'
                         /\ \A n \in DOMAIN usedNonces[c] :
                              usedNonces[c][n] \in 0..now'
  BY <1>1, <1>2, <1>4, <1>5 DEF TypeOK
<1>9. TypeOK'
  BY <1>1, <1>3, <1>4, <1>5, <1>7, <1>8 DEF TypeOK
<1>10. (\A b \in believed : b.from \in DOMAIN pots)' /\ AcceptedAsGenerated'
  BY <1>3, <1>5 DEF PotInv, AcceptedAsGenerated, HmacMatches
<1>11. CacheBounded'
  BY <1>3 DEF PotInv, CacheBounded
<1> QED
  BY <1>2, <1>3, <1>4, <1>5, <1>6, <1>9, <1>10, <1>11 DEF PotInv

LEMMA InitPotInv == Init => PotInv
<1> SUFFICES ASSUME Init PROVE PotInv
  OBVIOUS
<1>1. MaxNonces \in Nat /\ MaxTime \in Nat /\ MaxNonceCache \in Nat
  BY ConstantsAssumption, CacheAssumption
<1>2. DOMAIN pots = 1..0 /\ DOMAIN pots = {}
  BY DEF Init
<1>3. \A c \in Clients : DOMAIN usedNonces[c] = {}
  BY DEF Init
<1>4. 0 \in 0..MaxNonces /\ 0 \in 0..MaxTime
  BY <1>1
<1>5. TypeOK
  BY <1>2, <1>3, <1>4 DEF Init, TypeOK
<1>6. CacheBounded
  BY <1>1, <1>3, FS_EmptySet DEF CacheBounded
<1> QED
  BY <1>2, <1>5, <1>6 DEF Init, PotInv, AcceptedAsGenerated

\* The four kinds of steps, the verifications by what they do.
LEMMA StepKinds ==
  ASSUME PotInv, [Next]_vars
  PROVE  \/ Tick
         \/ \E c \in Clients, R \in Fetches : generatePoT(c, R)
         \/ \E c \in Clients, n \in DOMAIN pots :
              VerifyStep(c, n) /\ UNCHANGED <<now, pots>>
         \/ UNCHANGED vars
<1>1. ASSUME NEW c \in Clients, NEW n \in DOMAIN pots, VerifyPoT(c, n)
      PROVE  VerifyStep(c, n) /\ UNCHANGED <<now, pots>>
  BY <1>1, VerifyFacts DEF VerifyPoT
<1>2. ASSUME NEW c \in Clients, NEW n \in DOMAIN pots, verifyPaymentPoT(c, n)
      PROVE  VerifyStep(c, n) /\ UNCHANGED <<now, pots>>
  BY <1>2, VerifyFacts DEF verifyPaymentPoT
<1> QED
  BY <1>1, <1>2 DEF Next

\* The invariant of the PoTs holds in every reachable state, whatever the
\* lifetimes.
THEOREM PotsInductive == Spec => []PotInv
<1>1. PotInv /\ [Next]_vars => PotInv'
  <2> SUFFICES ASSUME PotInv, [Next]_vars PROVE PotInv'
    OBVIOUS
  <2>1. CASE UNCHANGED vars
    BY <2>1 DEF vars, PotInv, TypeOK, Generated, AcceptedAsGenerated,
                HmacMatches, CacheBounded
  <2> QED
    BY <2>1, StepKinds, OtherSteps, VerifyKeepsPotInv
<1> QED
  BY <1>1, InitPotInv, PTL DEF Spec

\* Type correctness: every PoT carries its own nonce, and a cache holds only
\* nonces of PoTs, at times in the past.
THEOREM TypeCorrect == Spec => []TypeOK
<1>1. PotInv => TypeOK
  BY DEF PotInv
<1> QED
  BY <1>1, PotsInductive, PTL

\* Whatever verifyPoT accepts, by itself or in a payment, has the time and the
\* expiry with which a client that holds the same secret generated it.  Of the
\* source readings it says nothing: computeHmac does not cover them, and a PoT
\* with other readings may pass.
THEOREM AcceptedTimesAreGenerated == Spec => []AcceptedAsGenerated
<1>1. PotInv => AcceptedAsGenerated
  BY DEF PotInv
<1> QED
  BY <1>1, PotsInductive, PTL

\* The nonce cache of a client stays within MAX_NONCE_CACHE, whatever that is.
THEOREM CachesAreBounded == Spec => []CacheBounded
<1>1. PotInv => CacheBounded
  BY DEF PotInv
<1> QED
  BY <1>1, PotsInductive, PTL

\* When the lifetime of a PoT is within the time to live of a nonce, a client
\* accepts a PoT at most once, however often, late or altered it arrives and
\* by whichever way, unless its nonce was evicted from a full cache.
THEOREM NeverReplayed ==
  ASSUME ExpiryCovered
  PROVE  Spec => []NoReplay
<1>1. Init => NonceInv
  <2> SUFFICES ASSUME Init PROVE NonceInv
    OBVIOUS
  <2>1. \A c \in Clients : DOMAIN usedNonces[c] = {}
    BY DEF Init
  <2>2. \A c \in Clients, n \in Nonces : accepted[c][n] = 0
    BY DEF Init
  <2> QED
    BY <2>1, <2>2, InitPotInv DEF NonceInv, NoReplay
<1>2. NonceInv /\ [Next]_vars => NonceInv'
  <2> SUFFICES ASSUME NonceInv, [Next]_vars PROVE NonceInv'
    OBVIOUS
  <2>1. PotInv
    BY DEF NonceInv
  <2>2. CASE UNCHANGED vars
    BY <2>2 DEF vars, NonceInv, PotInv, TypeOK, Generated, AcceptedAsGenerated,
                HmacMatches, CacheBounded, Spent, NoReplay
  <2>3. CASE \/ Tick
             \/ \E c \in Clients, R \in Fetches : generatePoT(c, R)
    <3>1. /\ PotInv'
          /\ now \in Int /\ now' \in Int /\ now <= now'
          /\ DOMAIN pots \subseteq DOMAIN pots'
          /\ \A n \in DOMAIN pots : pots'[n] = pots[n]
          /\ UNCHANGED <<usedNonces, accepted, believed, lost>>
      BY <2>1, <2>3, OtherSteps
    <3>2. \A n \in DOMAIN pots : pots[n].expiresAt \in Int
      BY <2>1, ConstantsAssumption DEF PotInv, Generated
    <3>3. \A c \in Clients : DOMAIN usedNonces[c] \subseteq DOMAIN pots
      BY <2>1 DEF PotInv, TypeOK
    <3>4. \A c \in Clients : \A n \in DOMAIN usedNonces'[c] :
            pots'[n].expiresAt <= usedNonces'[c][n] + NonceTtl
      BY <3>1, <3>3 DEF NonceInv
    <3>5. \A c \in Clients, n \in Nonces : accepted'[c][n] > 0 => Spent(c, n)'
      <4> SUFFICES ASSUME NEW c \in Clients, NEW n \in Nonces,
                          accepted'[c][n] > 0
                   PROVE  Spent(c, n)'
        OBVIOUS
      <4>1. Spent(c, n)
        BY <3>1 DEF NonceInv
      <4> QED
        BY <3>1, <3>2, <4>1 DEF Spent
    <3> QED
      BY <3>1, <3>4, <3>5 DEF NonceInv, NoReplay
  <2> QED
    BY <2>1, <2>2, <2>3, StepKinds, VerifyKeepsNonceInv
<1>3. NonceInv => NoReplay
  BY DEF NonceInv
<1> QED
  BY <1>1, <1>2, <1>3, PTL DEF Spec
=============================================================================
