--------------------------- MODULE SharedLemmas -----------------------------
(***************************************************************************)
(* Lemmas about the operator modules that several components share:        *)
(* SlidingWindow, for windows of any size, NonceCache, for every cache, and*)
(* MedianOfSources, for every set of readings; and about SumFunctionOnSet, *)
(* for every finite set.  They are cited by the proofs about the two       *)
(* adaptive switches, TimeSynthesis, HttpOnlyClient, RoughtimeChain and the*)
(* chain.                                                                  *)
(***************************************************************************)
EXTENDS SlidingWindow, NonceCache, MedianOfSources, Functions, FiniteSetTheorems,
        SequenceTheorems, WellFoundedInduction, TLAPS

\* The first n positive numbers are n.
LEMMA UpToSize ==
  ASSUME NEW n \in Nat
  PROVE  IsFiniteSet(1..n) /\ Cardinality(1..n) = n
<1>1. 1 \in Int /\ n \in Int
  OBVIOUS
<1>2. IsFiniteSet(1..n) /\ Cardinality(1..n) = IF 1 > n THEN 0 ELSE n - 1 + 1
  BY <1>1, FS_Interval
<1> QED
  BY <1>2

-----------------------------------------------------------------------------
(* SlidingWindow *)

\* The number of matches in a history is a natural number.
LEMMA MatchesType ==
  ASSUME NEW h \in Seq(BOOLEAN)
  PROVE  Matches(h) \in Nat
<1>1. IsFiniteSet(1..Len(h))
  BY FS_Interval
<1>2. {i \in DOMAIN h : h[i]} \subseteq 1..Len(h)
  OBVIOUS
<1>3. IsFiniteSet({i \in DOMAIN h : h[i]})
  BY <1>1, <1>2, FS_Subset
<1> QED
  BY <1>3, FS_CardinalityType DEF Matches

\* No block of an empty window matches.
LEMMA NoMatchesInEmpty == Matches(<< >>) = 0
<1>1. {i \in DOMAIN << >> : << >>[i]} = {}
  OBVIOUS
<1> QED
  BY <1>1, FS_EmptySet DEF Matches

\* The matches of a history are among its blocks.
LEMMA MatchesBound ==
  ASSUME NEW h \in Seq(BOOLEAN)
  PROVE  Matches(h) \in Nat /\ Matches(h) <= Len(h)
<1> DEFINE S == {i \in DOMAIN h : h[i]}
<1>1. Len(h) \in Nat /\ DOMAIN h = 1..Len(h)
  OBVIOUS
<1>2. IsFiniteSet(1..Len(h)) /\ Cardinality(1..Len(h)) = Len(h)
  BY <1>1, FS_Interval
<1>3. S \in SUBSET (1..Len(h))
  BY <1>1
<1> HIDE DEF S
<1>4. Cardinality(S) <= Len(h)
  BY <1>2, <1>3, FS_Subset
<1> QED
  BY <1>4, MatchesType DEF Matches, S

\* A block appended to a history adds itself to the matches, or nothing.
LEMMA MatchesAppend ==
  ASSUME NEW h \in Seq(BOOLEAN), NEW b \in BOOLEAN
  PROVE  Matches(Append(h, b)) = Matches(h) + (IF b THEN 1 ELSE 0)
<1> DEFINE a == Append(h, b)
           n == Len(h) + 1
           S == {i \in DOMAIN h : h[i]}
           T == {i \in DOMAIN a : a[i]}
<1>1. /\ Len(h) \in Nat /\ DOMAIN h = 1..Len(h)
      /\ DOMAIN a = 1..n
      /\ \A i \in 1..Len(h) : a[i] = h[i]
      /\ a[n] = b
  BY AppendProperties
<1>2. IsFiniteSet(S) /\ Cardinality(S) \in Nat
  <2>1. IsFiniteSet(1..Len(h)) /\ S \in SUBSET (1..Len(h))
    BY <1>1, FS_Interval
  <2> QED
    BY <2>1, FS_Subset, FS_CardinalityType
<1>3. n \notin S
  BY <1>1
<1>4. T = IF b THEN S \cup {n} ELSE S
  <2> HIDE DEF a
  <2> QED
    BY <1>1
<1> HIDE DEF a, n, S, T
<1>5. Cardinality(T) = Cardinality(S) + (IF b THEN 1 ELSE 0)
  <2>1. Cardinality(S \cup {n}) = Cardinality(S) + 1
    BY <1>2, <1>3, FS_AddElement
  <2>2. CASE b
    BY <1>4, <2>1, <2>2
  <2>3. CASE ~b
    BY <1>2, <1>4, <2>3
  <2> QED
    BY <2>2, <2>3
<1> QED
  BY <1>5 DEF Matches, a, S, T

\* The oldest block takes itself out of the matches when it is dropped.
LEMMA MatchesTail ==
  ASSUME NEW h \in Seq(BOOLEAN), h # << >>
  PROVE  Matches(Tail(h)) = Matches(h) - (IF h[1] THEN 1 ELSE 0)
<1> DEFINE t == Tail(h)
           S == {i \in DOMAIN h : h[i]}
           T == {i \in DOMAIN t : t[i]}
           f == [i \in S \ {1} |-> i - 1]
<1>1. /\ Len(h) \in Nat \ {0} /\ DOMAIN h = 1..Len(h)
      /\ DOMAIN t = 1..(Len(h) - 1)
      /\ \A i \in 1..(Len(h) - 1) : t[i] = h[i + 1]
  BY HeadTailProperties
<1>2. IsFiniteSet(S) /\ Cardinality(S) \in Nat
  <2>1. IsFiniteSet(1..Len(h)) /\ S \in SUBSET (1..Len(h))
    BY <1>1, FS_Interval
  <2> QED
    BY <2>1, FS_Subset, FS_CardinalityType
<1>3. 1 \in S <=> h[1]
  BY <1>1
<1>4. f \in Bijection(S \ {1}, T)
  <2> HIDE DEF t
  <2>1. f \in [S \ {1} -> T]
    BY <1>1
  <2>2. \A i, j \in S \ {1} : f[i] = f[j] => i = j
    BY <1>1
  <2>3. \A k \in T : \E i \in S \ {1} : f[i] = k
    <3> SUFFICES ASSUME NEW k \in T PROVE \E i \in S \ {1} : f[i] = k
      OBVIOUS
    <3>1. k + 1 \in S \ {1}
      BY <1>1
    <3>2. f[k + 1] = k
      BY <1>1, <3>1
    <3> QED
      BY <3>1, <3>2
  <2> HIDE DEF f, S, T
  <2> QED
    BY <2>1, <2>2, <2>3 DEF Bijection, Injection, Surjection, IsInjective
<1> HIDE DEF t, S, T, f
<1>5. IsFiniteSet(S \ {1})
      /\ Cardinality(S \ {1}) = IF 1 \in S THEN Cardinality(S) - 1 ELSE Cardinality(S)
  BY <1>2, FS_RemoveElement
<1>6. Cardinality(T) = Cardinality(S \ {1})
  BY <1>4, <1>5, FS_Bijection DEF ExistsBijection
<1>7. Matches(h) = Cardinality(S) /\ Matches(Tail(h)) = Cardinality(T)
  BY DEF Matches, t, S, T
<1>8. CASE h[1]
  BY <1>2, <1>3, <1>5, <1>6, <1>7, <1>8
<1>9. CASE ~h[1]
  BY <1>2, <1>3, <1>5, <1>6, <1>7, <1>9
<1> QED
  BY <1>8, <1>9

\* How a window of w blocks moves, in either implementation of the switch: it
\* grows by the new block, or the oldest one makes way for it.
LEMMA WindowMoves ==
  ASSUME NEW w \in Nat \ {0}, NEW h \in Seq(BOOLEAN), Len(h) <= w,
         NEW b \in BOOLEAN, NEW next,
         next = IF Len(Append(h, b)) > w THEN Tail(Append(h, b))
                ELSE Append(h, b)
  PROVE  LET gain == IF b THEN 1 ELSE 0
         IN  /\ next \in Seq(BOOLEAN)
             /\ Matches(next) \in Nat /\ Matches(next) <= Len(next)
             /\ Len(next) = IF Len(h) < w THEN Len(h) + 1 ELSE w
             /\ Len(h) < w => Matches(next) = Matches(h) + gain
             /\ ~(Len(h) < w) => Matches(next) \in {Matches(h) + gain,
                                                    Matches(h) + gain - 1}
<1> DEFINE a    == Append(h, b)
           gain == IF b THEN 1 ELSE 0
<1>1. /\ a \in Seq(BOOLEAN) /\ a # << >>
      /\ Len(a) = Len(h) + 1 /\ Len(h) \in Nat
  BY AppendProperties
<1>2. Matches(a) = Matches(h) + gain
  BY MatchesAppend
<1>3. Matches(h) \in Nat /\ gain \in {0, 1}
  BY MatchesBound
<1> HIDE DEF a, gain
<1>4. /\ Tail(a) \in Seq(BOOLEAN) /\ Len(Tail(a)) = Len(h)
      /\ Matches(Tail(a)) \in {Matches(a), Matches(a) - 1}
  <2>1. Matches(Tail(a)) = Matches(a) - (IF a[1] THEN 1 ELSE 0)
    BY <1>1, MatchesTail
  <2>2. Matches(a) \in Nat
    BY <1>1, MatchesBound
  <2>3. Tail(a) \in Seq(BOOLEAN) /\ Len(Tail(a)) = Len(a) - 1
    BY <1>1, HeadTailProperties
  <2> QED
    BY <1>1, <2>1, <2>2, <2>3
<1>5. next = IF Len(a) > w THEN Tail(a) ELSE a
  BY DEF a
<1>6. next \in Seq(BOOLEAN)
  BY <1>1, <1>4, <1>5
<1>7. Matches(next) \in Nat /\ Matches(next) <= Len(next)
  BY <1>6, MatchesBound
<1>8. CASE Len(h) < w
  <2>1. next = a
    BY <1>1, <1>5, <1>8
  <2> QED
    BY <1>1, <1>2, <1>7, <1>8, <2>1 DEF gain
<1>9. CASE ~(Len(h) < w)
  <2>1. next = Tail(a) /\ Len(h) = w
    BY <1>1, <1>5, <1>9
  <2>2. Matches(next) = Matches(Tail(a))
    BY <2>1
  <2>3. Matches(next) \in {Matches(h) + gain, Matches(h) + gain - 1}
    BY <1>2, <1>3, <1>4, <2>2
  <2> QED
    BY <1>4, <1>7, <1>9, <2>1, <2>3 DEF gain
<1> QED
  BY <1>8, <1>9

\* The last k blocks of a history all matched.
EndsGood(h, k) == k <= Len(h) /\ \A i \in (Len(h) - k + 1)..Len(h) : h[i]

LEMMA GoodEndAppend ==
  ASSUME NEW h \in Seq(BOOLEAN), NEW k \in Nat, EndsGood(h, k),
         NEW b \in BOOLEAN, b
  PROVE  EndsGood(Append(h, b), k + 1)
<1> DEFINE n == Len(h)
           a == Append(h, b)
<1>1. Len(a) = n + 1 /\ n \in Nat
  BY AppendProperties
<1>2. a[n + 1] /\ \A i \in 1..n : a[i] = h[i]
  BY AppendProperties
<1>3. k <= n /\ \A i \in (n - k + 1)..n : h[i]
  BY DEF EndsGood
<1> HIDE DEF n, a
<1>4. ASSUME NEW i \in (n - k + 1)..(n + 1) PROVE a[i]
  <2>1. CASE i = n + 1
    BY <1>2, <2>1
  <2>2. CASE i # n + 1
    <3>1. i \in 1..n /\ i \in (n - k + 1)..n
      BY <1>1, <1>3, <1>4, <2>2
    <3>2. QED
      BY <1>2, <1>3, <3>1
  <2>3. QED
    BY <2>1, <2>2
<1>5. k + 1 <= Len(a) /\ Len(a) - (k + 1) + 1 = n - k + 1
  BY <1>1, <1>3
<1>6. QED
  BY <1>1, <1>4, <1>5 DEF EndsGood, a

LEMMA GoodEndTail ==
  ASSUME NEW a \in Seq(BOOLEAN), NEW k \in Nat, k < Len(a), EndsGood(a, k)
  PROVE  EndsGood(Tail(a), k)
<1> DEFINE n == Len(a)
           t == Tail(a)
<1>1. n \in Nat /\ a # << >>
  OBVIOUS
<1>2. Len(t) = n - 1 /\ \A i \in 1..(n - 1) : t[i] = a[i + 1]
  BY <1>1, HeadTailProperties
<1>3. k < n /\ \A i \in (n - k + 1)..n : a[i]
  BY DEF EndsGood
<1> HIDE DEF n, t
<1>4. ASSUME NEW i \in (n - 1 - k + 1)..(n - 1) PROVE t[i]
  <2>1. i \in 1..(n - 1) /\ i + 1 \in (n - k + 1)..n
    BY <1>1, <1>3, <1>4
  <2>2. QED
    BY <1>2, <1>3, <2>1
<1>5. k <= n - 1
  BY <1>1, <1>3
<1>6. QED
  BY <1>2, <1>4, <1>5 DEF EndsGood, t

\* A matching block prolongs the good end of a window of w blocks, up to its
\* size.
LEMMA GoodEndGrows ==
  ASSUME NEW w \in Nat \ {0}, NEW h \in Seq(BOOLEAN), Len(h) <= w,
         NEW k \in 0..(w - 1), EndsGood(h, k), NEW b \in BOOLEAN, b, NEW next,
         next = IF Len(Append(h, b)) > w THEN Tail(Append(h, b))
                ELSE Append(h, b)
  PROVE  EndsGood(next, k + 1)
<1> DEFINE a == Append(h, b)
<1>1. k \in Nat /\ k + 1 <= w
  OBVIOUS
<1>2. a \in Seq(BOOLEAN)
  OBVIOUS
<1>3. EndsGood(a, k + 1)
  BY <1>1, GoodEndAppend
<1>4. next = IF Len(a) > w THEN Tail(a) ELSE a
  OBVIOUS
<1> HIDE DEF a
<1>5. CASE Len(a) > w
  <2>1. Len(a) \in Nat /\ k + 1 < Len(a) /\ k + 1 \in Nat
    BY <1>1, <1>2, <1>5
  <2>2. QED
    BY <1>2, <1>3, <1>4, <1>5, <2>1, GoodEndTail
<1>6. CASE ~(Len(a) > w)
  BY <1>3, <1>4, <1>6
<1>7. QED
  BY <1>5, <1>6

\* A history that is good from end to end is all matches.
LEMMA AllGoodMatch ==
  ASSUME NEW h \in Seq(BOOLEAN), EndsGood(h, Len(h))
  PROVE  Matches(h) = Len(h)
<1>1. Len(h) \in Nat /\ DOMAIN h = 1..Len(h)
  OBVIOUS
<1>2. {i \in DOMAIN h : h[i]} = 1..Len(h)
  BY <1>1 DEF EndsGood
<1>3. QED
  BY <1>1, <1>2, UpToSize DEF Matches

-----------------------------------------------------------------------------
(* NonceCache *)

\* The cleanup pass only drops entries older than the time to live.
LEMMA SweptFacts ==
  ASSUME NEW cache, NEW now \in Int, \A n \in DOMAIN cache : cache[n] \in Int
  PROVE  /\ DOMAIN Swept(cache, now) \subseteq DOMAIN cache
         /\ \A n \in DOMAIN Swept(cache, now) : Swept(cache, now)[n] = cache[n]
         /\ \A n \in DOMAIN cache \ DOMAIN Swept(cache, now) :
              now - cache[n] > NonceTtl
<1> DEFINE full == 2 * Cardinality(DOMAIN cache) > MaxNonceCache
<1>1. Swept(cache, now) =
        [n \in {m \in DOMAIN cache : full => now - cache[m] <= NonceTtl}
           |-> cache[n]]
  BY DEF Swept
<1> HIDE DEF full
<1> QED
  BY <1>1, CacheAssumption

\* After a nonce was remembered, the cache holds it at this instant, and what
\* is gone was evicted or older than the time to live.
LEMMA RememberFacts ==
  ASSUME NEW cache, NEW now \in Int, \A n \in DOMAIN cache : cache[n] \in Int,
         NEW nonce, NEW gone \in Evictions(Swept(cache, now)), NEW next,
         next = Remember(Swept(cache, now), gone, nonce, now)
  PROVE  /\ nonce \in DOMAIN next
         /\ gone \subseteq DOMAIN cache
         /\ \A n \in DOMAIN next :
              \/ n = nonce /\ next[n] = now
              \/ n \in DOMAIN cache /\ next[n] = cache[n]
         /\ \A n \in DOMAIN cache \ DOMAIN next :
              n \in gone \/ now - cache[n] > NonceTtl
<1> DEFINE kept == Swept(cache, now)
<1>1. gone \subseteq DOMAIN kept
  BY DEF Evictions, OldestIn
<1>2. /\ DOMAIN next = (DOMAIN kept \ gone) \cup {nonce}
      /\ \A n \in DOMAIN next : next[n] = IF n = nonce THEN now ELSE kept[n]
  BY DEF Remember
<1> QED
  BY <1>1, <1>2, SweptFacts

\* Remembering a nonce does not take the cache past its limit.
LEMMA RememberBounded ==
  ASSUME NEW cache, NEW now \in Int, \A n \in DOMAIN cache : cache[n] \in Int,
         IsFiniteSet(DOMAIN cache), Cardinality(DOMAIN cache) <= MaxNonceCache,
         NEW nonce, NEW gone \in Evictions(Swept(cache, now)), NEW next,
         next = Remember(Swept(cache, now), gone, nonce, now)
  PROVE  Cardinality(DOMAIN next) <= MaxNonceCache
<1> DEFINE E    == DOMAIN Swept(cache, now)
           rest == E \ gone
<1>1. MaxNonceCache \in Nat \ {0}
  BY CacheAssumption
<1>2. IsFiniteSet(E) /\ Cardinality(E) \in Nat /\ Cardinality(E) <= MaxNonceCache
  <2>1. E \in SUBSET DOMAIN cache
    BY SweptFacts
  <2>2. IsFiniteSet(E) /\ Cardinality(E) <= Cardinality(DOMAIN cache)
    BY <2>1, FS_Subset
  <2>3. Cardinality(E) \in Nat /\ Cardinality(DOMAIN cache) \in Nat
    BY <2>2, FS_CardinalityType
  <2> QED
    BY <1>1, <2>2, <2>3
<1>3. DOMAIN next = rest \cup {nonce}
  BY DEF Remember
<1>4. IsFiniteSet(rest) /\ Cardinality(rest) \in Nat
      /\ Cardinality(rest) < MaxNonceCache
  <2>1. CASE Cardinality(E) >= MaxNonceCache
    <3>1. PICK n \in E : gone = {n}
      BY <2>1 DEF Evictions, OldestIn
    <3>2. IsFiniteSet(rest) /\ Cardinality(rest) = Cardinality(E) - 1
      BY <1>2, <3>1, FS_RemoveElement
    <3>3. Cardinality(rest) \in Nat
      BY <3>2, FS_CardinalityType
    <3> QED
      BY <1>1, <1>2, <3>2, <3>3
  <2>2. CASE ~(Cardinality(E) >= MaxNonceCache)
    <3>1. gone = {}
      BY <2>2 DEF Evictions
    <3>2. rest = E
      BY <3>1
    <3> QED
      BY <1>1, <1>2, <2>2, <3>2
  <2> QED
    BY <2>1, <2>2
<1> HIDE DEF rest
<1>5. Cardinality(rest \cup {nonce}) =
        IF nonce \in rest THEN Cardinality(rest) ELSE Cardinality(rest) + 1
  BY <1>4, FS_AddElement
<1> QED
  BY <1>1, <1>3, <1>4, <1>5

\* The cleanup pass does not enlarge the cache.
LEMMA SweptBounded ==
  ASSUME NEW cache, NEW now \in Int, \A n \in DOMAIN cache : cache[n] \in Int,
         IsFiniteSet(DOMAIN cache), Cardinality(DOMAIN cache) <= MaxNonceCache
  PROVE  Cardinality(DOMAIN Swept(cache, now)) <= MaxNonceCache
<1> DEFINE E == DOMAIN Swept(cache, now)
<1>1. E \in SUBSET DOMAIN cache
  BY SweptFacts
<1> HIDE DEF E
<1>2. IsFiniteSet(E) /\ Cardinality(E) <= Cardinality(DOMAIN cache)
  BY <1>1, FS_Subset
<1>3. /\ Cardinality(E) \in Nat /\ Cardinality(DOMAIN cache) \in Nat
      /\ MaxNonceCache \in Nat
  BY <1>2, FS_CardinalityType, CacheAssumption
<1> QED
  BY <1>2, <1>3 DEF E

-----------------------------------------------------------------------------
(***************************************************************************)
(* The median.  Sorting by timestamp and source is a strict total order on *)
(* readings of different sources, so that the number of readings before a  *)
(* reading is an injection of n readings into 0..n-1, hence onto: there is *)
(* a reading at every rank, and no induction over the set is needed.       *)
(***************************************************************************)

\* Readings of different sources, as Fulfilled collects them
Readable(R) ==
  /\ IsFiniteSet(R)
  /\ \A r \in R : r.timestamp \in Int /\ r.source \in Int
  /\ \A q, r \in R : q.source = r.source => q = r

Earlier(R, r) == {q \in R : Before(q, r)}

\* A reading that sorts before another has fewer readings before it.
LEMMA EarlierGrows ==
  ASSUME NEW R, Readable(R), NEW q \in R, NEW r \in R, Before(q, r)
  PROVE  Cardinality(Earlier(R, q)) # Cardinality(Earlier(R, r))
<1>1. Earlier(R, q) \in SUBSET Earlier(R, r)
  BY DEF Earlier, Before, Readable
<1>2. q \in Earlier(R, r) /\ q \notin Earlier(R, q)
  BY DEF Earlier, Before, Readable
<1>3. IsFiniteSet(Earlier(R, r))
  BY FS_Subset DEF Earlier, Readable
<1> QED
  BY <1>1, <1>2, <1>3, FS_Subset

\* Every rank below the number of readings is taken.
LEMMA RankTaken ==
  ASSUME NEW R, Readable(R), NEW k \in Nat, k < Cardinality(R)
  PROVE  /\ AtRank(R, k) \in R
         /\ Cardinality(Earlier(R, AtRank(R, k))) = k
<1> DEFINE n    == Cardinality(R)
           rank == [r \in R |-> Cardinality(Earlier(R, r))]
<1>1. n \in Nat
  BY FS_CardinalityType DEF Readable
<1>2. ASSUME NEW r \in R
      PROVE  Cardinality(Earlier(R, r)) \in 0..(n-1)
  <2>1. Earlier(R, r) \in SUBSET R /\ r \notin Earlier(R, r)
    BY DEF Earlier, Before, Readable
  <2>2. /\ IsFiniteSet(Earlier(R, r))
        /\ Cardinality(Earlier(R, r)) <= n
        /\ Cardinality(Earlier(R, r)) # n
    BY <2>1, FS_Subset DEF Readable
  <2>3. Cardinality(Earlier(R, r)) \in Nat
    BY <2>2, FS_CardinalityType
  <2> QED
    BY <1>1, <2>2, <2>3
<1>3. ASSUME NEW q \in R, NEW r \in R, q # r
      PROVE  Cardinality(Earlier(R, q)) # Cardinality(Earlier(R, r))
  <2>1. Before(q, r) \/ Before(r, q)
    BY <1>3 DEF Before, Readable
  <2> QED
    BY <2>1, EarlierGrows
<1>4. rank \in Injection(R, 0..(n-1))
  BY <1>2, <1>3 DEF Injection, IsInjective
<1>5. IsFiniteSet(0..(n-1)) /\ Cardinality(0..(n-1)) = n
  <2>1. 0 \in Int /\ n - 1 \in Int
    BY <1>1
  <2>2. Cardinality(0..(n-1)) = IF 0 > n - 1 THEN 0 ELSE n - 1 - 0 + 1
    BY <2>1, FS_Interval
  <2> QED
    BY <1>1, <2>1, <2>2, FS_Interval
<1>6. rank \in Surjection(R, 0..(n-1))
  BY <1>4, <1>5, FS_Injection
<1>7. k \in 0..(n-1)
  BY <1>1
<1>8. \E r \in R : rank[r] = k
  BY <1>6, <1>7 DEF Surjection
<1>9. \E r \in R : Cardinality(Earlier(R, r)) = k
  BY <1>8
<1> QED
  BY <1>9 DEF AtRank, Earlier

\* With fewer than half of the readings outside H, the median is bracketed by
\* readings in H.
LEMMA MedianBracketed ==
  ASSUME NEW R, Readable(R), R # {}, NEW H \in SUBSET R,
         2 * Cardinality(R \ H) < Cardinality(R)
  PROVE  /\ \E r \in H : r.timestamp <= Median(R).timestamp
         /\ \E r \in H : r.timestamp >= Median(R).timestamp
<1> DEFINE n    == Cardinality(R)
           liar == Cardinality(R \ H)
<1>1. /\ IsFiniteSet(R) /\ n \in Nat /\ n > 0
      /\ IsFiniteSet(H) /\ IsFiniteSet(R \ H)
      /\ liar \in Nat /\ Cardinality(H) = n - liar
  <2>1. IsFiniteSet(R) /\ n \in Nat /\ n # 0
    BY FS_CardinalityType, FS_EmptySet DEF Readable
  <2>2. IsFiniteSet(H) /\ IsFiniteSet(R \ H)
    BY <2>1, FS_Subset
  <2>3. liar \in Nat /\ Cardinality(H) \in Nat
    BY <2>2, FS_CardinalityType
  <2>4. H \cup (R \ H) = R /\ H \cap (R \ H) = {}
    OBVIOUS
  <2>5. n = Cardinality(H) + liar - Cardinality({})
    BY <2>2, <2>4, FS_Union
  <2>6. n = Cardinality(H) + liar
    BY <2>3, <2>5, FS_EmptySet
  <2> QED
    BY <2>1, <2>2, <2>3, <2>6
<1> HIDE DEF n, liar
<1>a. 2 * liar < n
  BY DEF n, liar
<1>2. CASE n = 2
  <2> DEFINE a == AtRank(R, 0)
             b == AtRank(R, 1)
  <2>1. /\ a \in R /\ Cardinality(Earlier(R, a)) = 0 /\ b \in R
    BY <1>2, RankTaken DEF n
  <2>2. Earlier(R, a) = {}
    BY <1>1, <2>1, FS_Subset, FS_EmptySet DEF Earlier
  <2>3. /\ a.timestamp \in Int /\ b.timestamp \in Int
        /\ a.timestamp <= b.timestamp
    BY <2>1, <2>2 DEF Earlier, Before, Readable
  <2>4. H = R
    <3>1. liar = 0
      BY <1>1, <1>2, <1>a
    <3> QED
      BY <1>1, <3>1, FS_EmptySet DEF liar
  <2>5. Median(R).timestamp = (a.timestamp + b.timestamp) \div 2
    BY <1>2 DEF Median, n
  <2> HIDE DEF a, b
  <2>6. /\ a.timestamp <= (a.timestamp + b.timestamp) \div 2
        /\ b.timestamp >= (a.timestamp + b.timestamp) \div 2
    BY <2>3
  <2> QED
    BY <2>1, <2>4, <2>5, <2>6
<1>3. CASE n # 2
  <2> DEFINE half == n \div 2
             m    == AtRank(R, half)
             P    == Earlier(R, m)
  <2>1. half \in Nat /\ half < n /\ 2 * half <= n /\ n <= 2 * half + 1
    BY <1>1
  <2>2. Median(R).timestamp = m.timestamp
    BY <1>3 DEF Median, n
  <2> HIDE DEF half
  <2>3. m \in R /\ Cardinality(P) = half
    BY <2>1, RankTaken DEF n
  <2> HIDE DEF m
  <2>4. P \in SUBSET R /\ m \notin P
    BY <2>3 DEF Earlier, Before, Readable
  <2>5. IsFiniteSet(P)
    BY <1>1, <2>4, FS_Subset
  <2>6. /\ \A r \in P \cup {m} : r.timestamp <= m.timestamp
        /\ \A r \in R \ P : r.timestamp >= m.timestamp
    BY <2>3 DEF Earlier, Before, Readable
  <2> HIDE DEF P
  <2>7. P \cup {m} \subseteq R /\ Cardinality(P \cup {m}) = half + 1
    BY <2>3, <2>4, <2>5, FS_AddElement
  <2>8. Cardinality(R \ P) = n - half
    <3>1. IsFiniteSet(R \ P)
      BY <1>1, FS_Subset
    <3>2. P \cup (R \ P) = R /\ P \cap (R \ P) = {}
      BY <2>4
    <3>3. n = Cardinality(P) + Cardinality(R \ P) - Cardinality({})
      BY <2>5, <3>1, <3>2, FS_Union DEF n
    <3>4. Cardinality(R \ P) \in Nat /\ Cardinality({}) = 0
      BY <3>1, FS_CardinalityType, FS_EmptySet
    <3> QED
      BY <1>1, <2>1, <2>3, <3>3, <3>4
  <2>9. (P \cup {m}) \cap H # {}
    <3>1. Cardinality(P \cup {m}) + Cardinality(H) > n
      BY <1>1, <1>a, <2>1, <2>7
    <3> QED
      BY <1>1, <2>7, <3>1, FS_MajoritiesIntersect DEF n
  <2>10. (R \ P) \cap H # {}
    <3>1. Cardinality(R \ P) + Cardinality(H) > n
      BY <1>1, <1>a, <2>1, <2>8
    <3> QED
      BY <1>1, <3>1, FS_MajoritiesIntersect DEF n
  <2> QED
    BY <2>2, <2>6, <2>9, <2>10
<1> QED
  BY <1>2, <1>3

-----------------------------------------------------------------------------
(* Sums *)

\* Induction over a finite set, as a least counterexample: a family of its
\* subsets that is not empty has a member that contains no other.
LEMMA MinimalSubset ==
  ASSUME NEW S, IsFiniteSet(S), NEW B \in SUBSET (SUBSET S), B # {}
  PROVE  \E T \in B : \A U \in B : U \subseteq T => U = T
<1>1. IsWellFoundedOn(StrictSubsetOrdering(S), SUBSET S)
  BY FS_StrictSubsetOrderingWellFounded, FS_FiniteSubsetsOfFinite
<1>2. \E x \in B : \A y \in B : ~ (<<y, x>> \in StrictSubsetOrdering(S))
  BY <1>1, WFMin
<1> QED
  BY <1>2 DEF StrictSubsetOrdering

\* The element by which a fold takes a set apart, and the functions from the
\* subsets of S to the sums of f over them
Chosen(s) == CHOOSE x \in s : TRUE
SumsOver(g, f, S) ==
  g = [s \in SUBSET S |-> IF s = {} THEN 0 ELSE f[Chosen(s)] + g[s \ {Chosen(s)}]]

\* The sum of the Functions module is such a function at the whole set, once there
\* is one.
LEMMA SumIsIter ==
  ASSUME NEW f, NEW S, \E g : SumsOver(g, f, S)
  PROVE  \E g : SumsOver(g, f, S) /\ SumFunctionOnSet(f, S) = g[S]
<1> DEFINE it == CHOOSE g : SumsOver(g, f, S)
<1>1. SumsOver(it, f, S)
  OBVIOUS
<1>2. SumFunctionOnSet(f, S) = it[S]
  BY Zenon DEF SumFunctionOnSet, FoldFunctionOnSet, MapThenFoldSet, SumsOver, Chosen
<1> QED
  BY <1>1, <1>2

\* Two such functions agree where both are defined.
LEMMA SumUnique ==
  ASSUME NEW f, NEW S, NEW T, NEW g, NEW h, SumsOver(g, f, S), SumsOver(h, f, T),
         NEW U \in SUBSET S, U \in SUBSET T, IsFiniteSet(U)
  PROVE  g[U] = h[U]
<1> DEFINE B == {s \in SUBSET U : g[s] # h[s]}
<1> SUFFICES B = {}
  OBVIOUS
<1> SUFFICES ASSUME B # {} PROVE FALSE
  OBVIOUS
<1>0. B \in SUBSET (SUBSET U) /\ B # {}
  OBVIOUS
<1>1. PICK s \in B : \A u \in B : u \subseteq s => u = s
  <2> HIDE DEF B
  <2> QED
    BY <1>0, MinimalSubset
<1>2. /\ g[s] = IF s = {} THEN 0 ELSE f[Chosen(s)] + g[s \ {Chosen(s)}]
      /\ h[s] = IF s = {} THEN 0 ELSE f[Chosen(s)] + h[s \ {Chosen(s)}]
  BY DEF SumsOver
<1>3. s # {} => Chosen(s) \in s
  BY DEF Chosen
<1>4. s # {} => s \ {Chosen(s)} \notin B
  BY <1>1, <1>3
<1> QED
  BY <1>2, <1>4

\* There is one for every finite set.
LEMMA SumExists ==
  ASSUME NEW f, NEW S, IsFiniteSet(S)
  PROVE  \E g : SumsOver(g, f, S)
<1> DEFINE B == {s \in SUBSET S : ~ \E g : SumsOver(g, f, s)}
<1> SUFFICES ASSUME B # {} PROVE FALSE
  OBVIOUS
<1>0. B \in SUBSET (SUBSET S) /\ B # {}
  OBVIOUS
<1>1. PICK T \in B : \A u \in B : u \subseteq T => u = T
  <2> HIDE DEF B
  <2> QED
    BY <1>0, MinimalSubset
<1> DEFINE G(u) == CHOOSE g : SumsOver(g, f, u)
           Rest(s) == s \ {Chosen(s)}
           w == [s \in SUBSET T |-> IF s = {} THEN 0 ELSE f[Chosen(s)] + G(Rest(s))[Rest(s)]]
<1>2. ASSUME NEW u \in SUBSET T, u # T
      PROVE  SumsOver(G(u), f, u)
  BY <1>1, <1>2
<1>3. ASSUME NEW s \in SUBSET T, s # {}
      PROVE  Chosen(s) \in s /\ Rest(s) \in SUBSET T /\ Rest(s) # T /\ Rest(s) \subseteq s
  <2>1. Chosen(s) \in s
    BY <1>3 DEF Chosen
  <2> QED
    BY <2>1
<1>4. ASSUME NEW s \in SUBSET T, s # {}
      PROVE  w[Rest(s)] = G(Rest(s))[Rest(s)]
  <2> DEFINE u == Rest(s)
  <2>1. u \in SUBSET T /\ u # T
    BY <1>3, <1>4
  <2> HIDE DEF u
  <2>2. SumsOver(G(u), f, u)
    BY <1>2, <2>1
  <2>3. G(u)[u] = IF u = {} THEN 0 ELSE f[Chosen(u)] + G(u)[Rest(u)]
    BY <2>2 DEF SumsOver
  <2>4. w[u] = IF u = {} THEN 0 ELSE f[Chosen(u)] + G(Rest(u))[Rest(u)]
    BY <2>1
  <2>5. ASSUME u # {} PROVE G(u)[Rest(u)] = G(Rest(u))[Rest(u)]
    <3>1. Rest(u) \in SUBSET T /\ Rest(u) # T /\ Rest(u) \in SUBSET u
      BY <1>3, <2>1, <2>5
    <3>2. SumsOver(G(Rest(u)), f, Rest(u)) /\ IsFiniteSet(Rest(u))
      BY <1>2, <3>1, FS_Subset
    <3> QED
      BY <2>2, <3>1, <3>2, SumUnique
  <2> QED
    BY <2>3, <2>4, <2>5 DEF u
<1>5. SumsOver(w, f, T)
  <2>1. \A s \in SUBSET T :
          w[s] = IF s = {} THEN 0 ELSE f[Chosen(s)] + w[Rest(s)]
    <3> TAKE s \in SUBSET T
    <3>1. CASE s = {}
      BY <3>1
    <3>2. CASE s # {}
      <4>1. w[s] = f[Chosen(s)] + G(Rest(s))[Rest(s)]
        BY <3>2
      <4>2. w[Rest(s)] = G(Rest(s))[Rest(s)]
        BY <1>4, <3>2
      <4> HIDE DEF w, G, Rest
      <4> QED
        BY <3>2, <4>1, <4>2
    <3> QED
      BY <3>1, <3>2
  <2> HIDE DEF G
  <2> QED
    BY <2>1 DEF SumsOver
<1> QED
  BY <1>1, <1>5

\* What the sum's recursive definition computes.
LEMMA SumRec ==
  ASSUME NEW f, NEW S, IsFiniteSet(S)
  PROVE  SumFunctionOnSet(f, S) =
           IF S = {} THEN 0
           ELSE f[Chosen(S)] + SumFunctionOnSet(f, S \ {Chosen(S)})
<1>1. PICK g : SumsOver(g, f, S) /\ SumFunctionOnSet(f, S) = g[S]
  BY SumExists, SumIsIter
<1>2. IsFiniteSet(S \ {Chosen(S)})
  BY FS_Subset
<1>3. PICK h : SumsOver(h, f, S \ {Chosen(S)})
               /\ SumFunctionOnSet(f, S \ {Chosen(S)}) = h[S \ {Chosen(S)}]
  BY <1>2, SumExists, SumIsIter
<1>4. g[S \ {Chosen(S)}] = h[S \ {Chosen(S)}]
  BY <1>1, <1>2, <1>3, SumUnique
<1>5. g[S] = IF S = {} THEN 0 ELSE f[Chosen(S)] + g[S \ {Chosen(S)}]
  BY <1>1 DEF SumsOver
<1> QED
  BY <1>1, <1>3, <1>4, <1>5

\* A sum of natural numbers is one.
LEMMA SumType ==
  ASSUME NEW f, NEW S, IsFiniteSet(S), \A x \in S : f[x] \in Nat
  PROVE  SumFunctionOnSet(f, S) \in Nat
<1> DEFINE B == {s \in SUBSET S : SumFunctionOnSet(f, s) \notin Nat}
<1> SUFFICES ASSUME B # {} PROVE FALSE
  OBVIOUS
<1>0. B \in SUBSET (SUBSET S) /\ B # {}
  OBVIOUS
<1>1. PICK s \in B : \A u \in B : u \subseteq s => u = s
  <2> HIDE DEF B
  <2> QED
    BY <1>0, MinimalSubset
<1>2. IsFiniteSet(s)
  BY FS_Subset
<1>3. s # {} /\ SumFunctionOnSet(f, s) = f[Chosen(s)] + SumFunctionOnSet(f, s \ {Chosen(s)})
  <2>1. s = {} => SumFunctionOnSet(f, s) = 0
    BY <1>2, SumRec
  <2>2. s # {}
    BY <2>1
  <2> QED
    BY <1>2, <2>2, SumRec
<1>4. Chosen(s) \in s
  BY <1>3 DEF Chosen
<1>5. s \ {Chosen(s)} \notin B
  BY <1>1, <1>4
<1>6. SumFunctionOnSet(f, s \ {Chosen(s)}) \in Nat /\ f[Chosen(s)] \in Nat
  BY <1>4, <1>5
<1> QED
  BY <1>3, <1>6

\* Any element may be the one that is taken out of a sum, not only the chosen one.
LEMMA SumRemove ==
  ASSUME NEW f, NEW S, IsFiniteSet(S), \A x \in S : f[x] \in Nat, NEW x \in S
  PROVE  SumFunctionOnSet(f, S) = f[x] + SumFunctionOnSet(f, S \ {x})
<1> DEFINE Bad(s) == \E y \in s : SumFunctionOnSet(f, s) # f[y] + SumFunctionOnSet(f, s \ {y})
           B == {s \in SUBSET S : Bad(s)}
<1> SUFFICES ASSUME B # {} PROVE FALSE
  OBVIOUS
<1>0. B \in SUBSET (SUBSET S) /\ B # {}
  OBVIOUS
<1>1. PICK s \in B : \A u \in B : u \subseteq s => u = s
  <2> HIDE DEF B
  <2> QED
    BY <1>0, MinimalSubset
<1>2. PICK y \in s : SumFunctionOnSet(f, s) # f[y] + SumFunctionOnSet(f, s \ {y})
  OBVIOUS
<1> DEFINE c == Chosen(s)
           t == (s \ {c}) \ {y}
<1>3. IsFiniteSet(s) /\ IsFiniteSet(s \ {y}) /\ IsFiniteSet(s \ {c}) /\ IsFiniteSet(t)
  BY FS_Subset
<1>4. c \in s
  BY DEF Chosen
<1>5. SumFunctionOnSet(f, s) = f[c] + SumFunctionOnSet(f, s \ {c})
  BY <1>3, SumRec
<1> HIDE DEF c
<1>6. c # y
  BY <1>2, <1>5
<1>7. s \ {c} \notin B /\ s \ {y} \notin B
  BY <1>1, <1>4
<1>8. SumFunctionOnSet(f, s \ {c}) = f[y] + SumFunctionOnSet(f, t)
  BY <1>6, <1>7
<1>9. SumFunctionOnSet(f, s \ {y}) = f[c] + SumFunctionOnSet(f, (s \ {y}) \ {c})
  BY <1>4, <1>6, <1>7
<1>10. (s \ {y}) \ {c} = t
  OBVIOUS
<1>11. SumFunctionOnSet(f, t) \in Nat /\ f[c] \in Nat /\ f[y] \in Nat
  BY <1>3, <1>4, SumType
<1> HIDE DEF t
<1>12. SumFunctionOnSet(f, s) = f[c] + (f[y] + SumFunctionOnSet(f, t))
  BY <1>5, <1>8
<1>13. SumFunctionOnSet(f, s \ {y}) = f[c] + SumFunctionOnSet(f, t)
  BY <1>9, <1>10
<1>14. SumFunctionOnSet(f, s) = f[y] + SumFunctionOnSet(f, s \ {y})
  BY <1>11, <1>12, <1>13
<1> QED
  BY <1>2, <1>14

\* A sum depends on the values over its set alone.
LEMMA SumAgree ==
  ASSUME NEW f, NEW g, NEW S, IsFiniteSet(S), \A x \in S : f[x] = g[x]
  PROVE  SumFunctionOnSet(f, S) = SumFunctionOnSet(g, S)
<1> DEFINE B == {s \in SUBSET S : SumFunctionOnSet(f, s) # SumFunctionOnSet(g, s)}
<1> SUFFICES ASSUME B # {} PROVE FALSE
  OBVIOUS
<1>0. B \in SUBSET (SUBSET S) /\ B # {}
  OBVIOUS
<1>1. PICK s \in B : \A u \in B : u \subseteq s => u = s
  <2> HIDE DEF B
  <2> QED
    BY <1>0, MinimalSubset
<1>2. IsFiniteSet(s)
  BY FS_Subset
<1>3. s # {}
  BY <1>2, SumRec
<1>4. Chosen(s) \in s
  BY <1>3 DEF Chosen
<1>5. s \ {Chosen(s)} \notin B
  BY <1>1, <1>4
<1> QED
  BY <1>2, <1>3, <1>4, <1>5, SumRec

LEMMA SumEmpty ==
  ASSUME NEW f
  PROVE  SumFunctionOnSet(f, {}) = 0
  BY SumRec, FS_EmptySet

\* A sum over one element more
LEMMA SumAdd ==
  ASSUME NEW f, NEW S, IsFiniteSet(S), NEW x, x \notin S,
         f[x] \in Nat, \A y \in S : f[y] \in Nat
  PROVE  SumFunctionOnSet(f, S \cup {x}) = SumFunctionOnSet(f, S) + f[x]
<1> DEFINE T == S \cup {x}
<1>1. IsFiniteSet(T) /\ x \in T /\ T \ {x} = S /\ \A y \in T : f[y] \in Nat
  BY FS_AddElement
<1> HIDE DEF T
<1>2. SumFunctionOnSet(f, T) = f[x] + SumFunctionOnSet(f, S)
  BY <1>1, SumRemove
<1> QED
  BY <1>2, SumType DEF T

\* A sum of which one summand grows
LEMMA SumGrows ==
  ASSUME NEW f, NEW g, NEW S, IsFiniteSet(S), NEW x \in S, NEW n \in Nat,
         \A y \in S : f[y] \in Nat, g[x] = f[x] + n,
         \A y \in S \ {x} : g[y] = f[y]
  PROVE  SumFunctionOnSet(g, S) = SumFunctionOnSet(f, S) + n
<1>1. IsFiniteSet(S \ {x}) /\ \A y \in S : g[y] \in Nat
  BY FS_Subset
<1>2. SumFunctionOnSet(g, S \ {x}) = SumFunctionOnSet(f, S \ {x})
  BY <1>1, SumAgree
<1>3. /\ SumFunctionOnSet(f, S) = f[x] + SumFunctionOnSet(f, S \ {x})
      /\ SumFunctionOnSet(g, S) = g[x] + SumFunctionOnSet(g, S \ {x})
  BY <1>1, SumRemove
<1>4. SumFunctionOnSet(f, S \ {x}) \in Nat /\ f[x] \in Nat
  BY <1>1, SumType
<1> QED
  BY <1>2, <1>3, <1>4

\* Nothing adds up to nothing.
LEMMA SumZero ==
  ASSUME NEW f, NEW S, IsFiniteSet(S), \A x \in S : f[x] = 0
  PROVE  SumFunctionOnSet(f, S) = 0
<1> DEFINE B == {s \in SUBSET S : SumFunctionOnSet(f, s) # 0}
<1> SUFFICES ASSUME B # {} PROVE FALSE
  OBVIOUS
<1>0. B \in SUBSET (SUBSET S) /\ B # {}
  OBVIOUS
<1>1. PICK s \in B : \A u \in B : u \subseteq s => u = s
  <2> HIDE DEF B
  <2> QED
    BY <1>0, MinimalSubset
<1>2. IsFiniteSet(s) /\ \A x \in s : f[x] \in Nat
  BY FS_Subset
<1>3. PICK x \in s : TRUE
  BY SumEmpty
<1>4. SumFunctionOnSet(f, s \ {x}) = 0
  BY <1>1
<1>5. SumFunctionOnSet(f, s) = f[x] + SumFunctionOnSet(f, s \ {x})
  BY <1>2, SumRemove
<1> QED
  BY <1>4, <1>5
=============================================================================
