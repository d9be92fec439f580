---------------------- MODULE AdaptiveSwitchSdkProofs -----------------------
(***************************************************************************)
(* Theorems about the AdaptiveSwitch of the SDK, for every window, every   *)
(* minimum of blocks, every pair of thresholds and every tolerance, and    *)
(* through any sequence of saves, restores, resets and restarts.           *)
(***************************************************************************)
EXTENDS AdaptiveSwitchSdk, SharedLemmas

\* How the window moves with one block: it grows or keeps its size, and gains
\* at most one mismatch, none with a matching block.
LEMMA SlideMoves ==
  ASSUME NEW h \in Seq(BOOLEAN), Len(h) <= windowSize, NEW ok \in BOOLEAN
  PROVE  LET next == Slide(h, ok)
             gain == IF ok THEN 1 ELSE 0
         IN  /\ next \in Seq(BOOLEAN)
             /\ Matches(next) \in Nat /\ Matches(next) <= Len(next)
             /\ Len(next) = IF Len(h) < windowSize THEN Len(h) + 1 ELSE windowSize
             /\ Len(h) < windowSize => Matches(next) = Matches(h) + gain
             /\ ~(Len(h) < windowSize) => Matches(next) \in {Matches(h) + gain,
                                                             Matches(h) + gain - 1}
<1>1. windowSize \in Nat \ {0}
  BY SizesAssumption
<1>2. Slide(h, ok) = IF Len(Append(h, ok)) > windowSize THEN Tail(Append(h, ok))
                     ELSE Append(h, ok)
  BY DEF Slide
<1> DEFINE next == Slide(h, ok)
<1> HIDE DEF next
<1> QED
  BY <1>1, <1>2, WindowMoves DEF next

\* What verifyBlock does to each field of an instance.
LEMMA VerifyBlockFacts ==
  ASSUME NEW in \in Instance, Len(in.history) <= windowSize, NEW ok \in BOOLEAN
  PROVE  LET next == verifyBlock(in, ok)
             h    == Slide(in.history, ok)
         IN  /\ next \in Instance
             /\ next.history = h
             /\ next.penaltyCooldown = Decremented(in.penaltyCooldown)
             /\ next.currentMode = "TURBO" <=>
                  /\ Len(h) >= minBlocks
                  /\ 100 * Matches(h) >= EffectiveThreshold(in.currentMode) * Len(h)
                  /\ Decremented(in.penaltyCooldown) = 0
<1> DEFINE h     == Slide(in.history, ok)
           cool  == Decremented(in.penaltyCooldown)
           turbo == /\ Len(h) >= minBlocks
                    /\ 100 * Matches(h) >= EffectiveThreshold(in.currentMode) * Len(h)
                    /\ cool = 0
           mode  == IF turbo THEN "TURBO" ELSE "FULL"
           fails == IF turbo THEN 0 ELSE in.consecutiveFailures
<1>1. verifyBlock(in, ok) = [in EXCEPT !.history = h, !.penaltyCooldown = cool,
                                       !.currentMode = mode,
                                       !.consecutiveFailures = fails]
  BY DEF verifyBlock
<1>2. h \in Seq(BOOLEAN)
  BY SlideMoves DEF Instance
<1>3. cool \in Nat
  BY DEF Decremented, Instance
<1>4. mode \in {"TURBO", "FULL"} /\ fails \in Nat /\ (mode = "TURBO" <=> turbo)
  BY DEF Instance
<1> HIDE DEF h, cool, mode, fails, turbo
<1>5. /\ verifyBlock(in, ok) \in Instance
      /\ verifyBlock(in, ok).history = h
      /\ verifyBlock(in, ok).penaltyCooldown = cool
      /\ verifyBlock(in, ok).currentMode = mode
  BY <1>1, <1>2, <1>3, <1>4 DEF Instance
<1> QED
  BY <1>4, <1>5 DEF h, cool, turbo

\* A fresh instance is sound.
LEMMA ConstructorSound ==
  ASSUME NEW tol \in Nat
  PROVE  Sound(constructor(tol), 0)
<1>1. << >> \in Seq(BOOLEAN) /\ Len(<< >>) = 0
  OBVIOUS
<1> QED
  BY <1>1, SizesAssumption DEF Sound, constructor, Instance

\* Rates and products: a history above a rate is above every smaller one.
LEMMA Products ==
  ASSUME NEW n \in Nat, NEW p \in Nat, NEW q \in Nat, q <= p
  PROVE  q * n <= p * n
OBVIOUS

LEMMA Complement ==
  ASSUME NEW n \in Nat, NEW p \in 0..100
  PROVE  (100 - p) * n \in Nat /\ (100 - p) * n = 100 * n - p * n
OBVIOUS

\* verifyBlock keeps an instance sound, with the mismatches counted as the
\* ghost does, and gives up TURBO only past the gap of the two thresholds.
LEMMA VerifyBlockSound ==
  ASSUME NEW in, NEW k, Sound(in, k), NEW ok \in BOOLEAN, NEW next, NEW kk,
         next = verifyBlock(in, ok),
         kk = IF in.currentMode = "FULL" \/ next.currentMode = "FULL" THEN 0
              ELSE IF ok \/ k = windowSize THEN k ELSE k + 1
  PROVE  /\ Sound(next, kk)
         /\ in.currentMode = "TURBO" /\ next.currentMode = "FULL" =>
              100 * (k + 1) > (EntryPct - MaintainPct) * minBlocks
<1> DEFINE n  == Len(in.history)
           m  == Matches(in.history)
           nn == Len(next.history)
           mm == Matches(next.history)
           e  == IF ok THEN 0 ELSE 1
<1>1. /\ in \in Instance /\ n <= windowSize /\ in.history \in Seq(BOOLEAN)
      /\ k \in 0..windowSize
      /\ windowSize \in Nat \ {0} /\ minBlocks \in 1..windowSize
  BY SizesAssumption DEF Sound, Instance
<1>2. /\ next \in Instance /\ next.history = Slide(in.history, ok)
      /\ next.penaltyCooldown = Decremented(in.penaltyCooldown)
      /\ next.currentMode = "TURBO" <=>
           /\ nn >= minBlocks
           /\ 100 * mm >= EffectiveThreshold(in.currentMode) * nn
           /\ next.penaltyCooldown = 0
  BY <1>1, VerifyBlockFacts
<1>3. /\ n \in Nat /\ m \in Nat /\ m <= n
      /\ nn \in 1..windowSize /\ mm \in Nat /\ mm <= nn
      /\ nn = IF n < windowSize THEN n + 1 ELSE windowSize
      /\ nn - mm <= n - m + e
  <2>1. m \in Nat /\ m <= n /\ n \in Nat
    BY <1>1, MatchesBound
  <2> DEFINE gain == IF ok THEN 1 ELSE 0
  <2>2. gain \in {0, 1} /\ gain = 1 - e /\ e \in {0, 1}
    OBVIOUS
  <2> HIDE DEF n, m, nn, mm
  <2>3. /\ mm \in Nat /\ mm <= nn
        /\ nn = IF n < windowSize THEN n + 1 ELSE windowSize
        /\ n < windowSize => mm = m + gain
        /\ ~(n < windowSize) => mm \in {m + gain, m + gain - 1}
    BY <1>1, <1>2, SlideMoves DEF n, m, nn, mm
  <2> HIDE DEF gain, e
  <2> QED
    BY <1>1, <2>1, <2>2, <2>3 DEF n
<1>4. in.currentMode \in {"TURBO", "FULL"} /\ next.currentMode \in {"TURBO", "FULL"}
  BY <1>1, <1>2 DEF Instance
<1>5. /\ EntryPct \in 1..100 /\ MaintainPct \in 1..EntryPct
      /\ EntryPct \in Nat /\ MaintainPct \in Nat /\ 100 - EntryPct \in Nat
      /\ EntryPct - MaintainPct \in Nat
  BY SizesAssumption
<1>6. in.currentMode = "TURBO" =>
        /\ in.penaltyCooldown = 0 /\ n >= minBlocks
        /\ 100 * (n - m) <= (100 - EntryPct) * n + 100 * k
  BY DEF Sound
<1>7. e \in {0, 1} /\ (ok <=> e = 0)
  OBVIOUS
<1>8. in.currentMode = "TURBO" =>
        /\ next.penaltyCooldown = 0 /\ nn >= minBlocks
        /\ 100 * (nn - mm) <= (100 - EntryPct) * nn + 100 * (k + e)
  <2> SUFFICES ASSUME in.currentMode = "TURBO"
               PROVE  /\ next.penaltyCooldown = 0 /\ nn >= minBlocks
                      /\ 100 * (nn - mm) <= (100 - EntryPct) * nn + 100 * (k + e)
    OBVIOUS
  <2>1. next.penaltyCooldown = 0
    BY <1>2, <1>6 DEF Decremented
  <2> DEFINE d == 100 - EntryPct
  <2>2. d \in Nat
    BY <1>5
  <2> HIDE DEF n, m, nn, mm, e, d
  <2>3. n <= nn /\ nn >= minBlocks
    BY <1>1, <1>3, <1>6
  <2>4. d * n <= d * nn
    BY <1>3, <2>2, <2>3
  <2>5. 100 * (nn - mm) <= 100 * (n - m) + 100 * e
    BY <1>3, <1>7
  <2>6. 100 * (n - m) <= d * n + 100 * k
    BY <1>6 DEF d
  <2>7. d * n \in Nat /\ d * nn \in Nat
    BY <1>3, <2>2
  <2>8. 100 * (nn - mm) <= d * nn + 100 * (k + e)
    <3> DEFINE x == d * n
               y == d * nn
    <3>1. x \in Nat /\ y \in Nat /\ x <= y /\ 100 * (n - m) <= x + 100 * k
      BY <2>4, <2>6, <2>7
    <3> HIDE DEF x, y
    <3>2. 100 * (nn - mm) <= y + 100 * (k + e)
      BY <1>1, <1>3, <1>7, <2>5, <3>1
    <3> QED
      BY <3>2 DEF y
  <2> QED
    BY <2>1, <2>3, <2>8 DEF d
<1> HIDE DEF n, m, nn, mm, e
<1>9. next.currentMode = "TURBO" => 100 * mm >= MaintainPct * nn
  <2> SUFFICES ASSUME next.currentMode = "TURBO" PROVE 100 * mm >= MaintainPct * nn
    OBVIOUS
  <2> DEFINE t == EffectiveThreshold(in.currentMode)
  <2>1. t \in Nat /\ MaintainPct <= t
    BY <1>5 DEF EffectiveThreshold
  <2>2. 100 * mm >= t * nn
    BY <1>2
  <2> HIDE DEF t
  <2>3. MaintainPct * nn <= t * nn /\ MaintainPct * nn \in Nat /\ t * nn \in Nat
    BY <1>3, <1>5, <2>1, Products
  <2> QED
    BY <1>3, <2>2, <2>3
<1>10. next.currentMode = "TURBO" =>
         100 * (nn - mm) <= (100 - EntryPct) * nn + 100 * kk
  <2> SUFFICES ASSUME next.currentMode = "TURBO"
               PROVE  100 * (nn - mm) <= (100 - EntryPct) * nn + 100 * kk
    OBVIOUS
  <2> DEFINE y == (100 - EntryPct) * nn
  <2>1. y \in Nat /\ y = 100 * nn - EntryPct * nn
    <3>1. nn \in Nat /\ EntryPct \in 0..100
      BY <1>1, <1>3, <1>5
    <3> QED
      BY <3>1, Complement
  <2>2. CASE in.currentMode = "FULL"
    <3>1. kk = 0 /\ 100 * mm >= EntryPct * nn
      BY <1>2, <2>2 DEF EffectiveThreshold
    <3> DEFINE z == EntryPct * nn
    <3>2. z \in Nat
      BY <1>3, <1>5
    <3>3. y = 100 * nn - z /\ 100 * mm >= z
      BY <2>1, <3>1
    <3> HIDE DEF y, z
    <3>4. 100 * (nn - mm) <= y + 100 * kk
      BY <1>3, <2>1, <3>1, <3>2, <3>3
    <3> QED
      BY <3>4 DEF y
  <2>3. CASE in.currentMode = "TURBO" /\ ~ok /\ k = windowSize
    <3>1. kk = k
      BY <2>3
    <3> HIDE DEF y
    <3>2. 100 * (nn - mm) <= y + 100 * kk
      BY <1>1, <1>3, <2>1, <2>3, <3>1
    <3> QED
      BY <3>2 DEF y
  <2>4. CASE in.currentMode = "TURBO" /\ ~(~ok /\ k = windowSize)
    <3>1. kk = k + e
      BY <1>1, <1>7, <2>4
    <3> QED
      BY <1>8, <2>4, <3>1
  <2> QED
    BY <1>4, <2>2, <2>3, <2>4
<1>11. kk \in 0..windowSize
  BY <1>1
<1>12. next.currentMode = "TURBO" => next.penaltyCooldown = 0 /\ nn >= minBlocks
  BY <1>2
<1>13. Sound(next, kk)
  BY <1>2, <1>3, <1>9, <1>10, <1>11, <1>12 DEF Sound, nn, mm
<1>14. ASSUME in.currentMode = "TURBO", next.currentMode = "FULL"
       PROVE  100 * (k + 1) > (EntryPct - MaintainPct) * minBlocks
  <2>1. ~(100 * mm >= MaintainPct * nn) /\ nn >= minBlocks
    BY <1>2, <1>8, <1>14 DEF EffectiveThreshold
  <2> DEFINE x == MaintainPct * nn
             y == EntryPct * nn
             g == (EntryPct - MaintainPct) * nn
             r == (EntryPct - MaintainPct) * minBlocks
  <2>2. /\ x \in Nat /\ y \in Nat /\ g = y - x /\ r \in Nat
        /\ (100 - EntryPct) * nn = 100 * nn - y
    BY <1>1, <1>3, <1>5
  <2>3. r <= g
    <3> DEFINE d == EntryPct - MaintainPct
    <3>1. d \in Nat
      BY <1>5
    <3> HIDE DEF d
    <3>2. d * minBlocks <= d * nn
      BY <1>1, <1>3, <2>1, <3>1
    <3> QED
      BY <3>2 DEF d
  <2>4. 100 * (nn - mm) <= 100 * nn - y + 100 * (k + e) /\ 100 * mm < x
    BY <1>3, <1>8, <1>14, <2>1, <2>2
  <2> HIDE DEF x, y, g, r
  <2>5. 100 * (k + 1) > r
    BY <1>1, <1>3, <1>7, <2>2, <2>3, <2>4
  <2> QED
    BY <2>5 DEF r
<1> QED
  BY <1>13, <1>14

\* The action VerifyBlock is verifyBlock with one verdict for the block.
LEMMA VerifyBlockVerdict ==
  ASSUME NEW block \in Blocks, NEW record \in Records, NEW tier \in Tiers \cup {NoTier},
         VerifyBlock(block, record, tier)
  PROVE  \E ok \in BOOLEAN :
           /\ inst' = verifyBlock(inst, ok)
           /\ bad' = IF inst.currentMode = "FULL" \/ inst'.currentMode = "FULL"
                     THEN 0 ELSE IF ok \/ bad = windowSize THEN bad ELSE bad + 1
<1> DEFINE ok == /\ compareTransactionOrder(block.txs, record.txOrder)
                 /\ TimeMatch(inst, block, record, tier)
<1>1. ok \in BOOLEAN
  OBVIOUS
<1>2. /\ inst' = verifyBlock(inst, ok)
      /\ bad' = IF inst.currentMode = "FULL" \/ inst'.currentMode = "FULL"
                THEN 0 ELSE IF ok \/ bad = windowSize THEN bad ELSE bad + 1
  BY DEF VerifyBlock
<1> HIDE DEF ok
<1> QED
  BY <1>1, <1>2

LEMMA StepIInv == IInv /\ [Next]_vars => IInv'
<1> SUFFICES ASSUME IInv, [Next]_vars PROVE IInv'
  OBVIOUS
<1>0. Sound(inst, bad) /\ (saved # NoSave => Sound(saved.json, saved.bad))
  BY DEF IInv
<1>1. ASSUME NEW block \in Blocks, NEW record \in Records, NEW tier \in Tiers \cup {NoTier},
             VerifyBlock(block, record, tier)
      PROVE  IInv'
  <2>1. PICK ok \in BOOLEAN :
          /\ inst' = verifyBlock(inst, ok)
          /\ bad' = IF inst.currentMode = "FULL" \/ inst'.currentMode = "FULL"
                    THEN 0 ELSE IF ok \/ bad = windowSize THEN bad ELSE bad + 1
    BY <1>1, VerifyBlockVerdict
  <2>2. Sound(inst', bad')
    BY <1>0, <2>1, VerifyBlockSound
  <2>3. saved' = saved
    BY <1>1 DEF VerifyBlock
  <2> QED
    BY <1>0, <2>2, <2>3 DEF IInv
<1>2. CASE Reset
  <2>1. inst.tolerance \in Nat
    BY <1>0 DEF Sound, Instance
  <2> QED
    BY <1>0, <1>2, <2>1, ConstructorSound DEF Reset, reset, IInv
<1>3. CASE Serialize
  <2>1. saved'.json = inst /\ saved'.bad = bad /\ inst' = inst /\ bad' = bad
    BY <1>3 DEF Serialize
  <2> QED
    BY <1>0, <2>1 DEF IInv
<1>4. CASE Deserialize
  BY <1>0, <1>4 DEF Deserialize, IInv
<1>5. CASE Restart
  BY <1>0, <1>5, ConstructorSound, SizesAssumption DEF Restart, IInv
<1>6. CASE UNCHANGED vars
  BY <1>0, <1>6 DEF vars, IInv
<1> QED
  BY <1>1, <1>2, <1>3, <1>4, <1>5, <1>6 DEF Next

\* The inductive invariant holds in every reachable state.
THEOREM Inductive == Spec => []IInv
<1>1. Init => IInv
  BY ConstructorSound, SizesAssumption DEF Init, IInv
<1> QED
  BY <1>1, StepIInv, PTL DEF Spec

\* Type correctness of the switch and of what is saved of it.
THEOREM TypeCorrect == Spec => []TypeOK
<1>1. IInv => TypeOK
  BY DEF IInv, Sound, TypeOK
<1> QED
  BY <1>1, Inductive, PTL

\* TURBO stands on at least minBlocks blocks at the maintenance rate, through
\* any saves, restores, resets and restarts.
THEOREM TurboIsBacked == Spec => []TurboBacked
<1>1. IInv => TurboBacked
  <2> SUFFICES ASSUME IInv PROVE TurboBacked
    OBVIOUS
  <2>1. Len(inst.history) \in Nat /\ Len(inst.history) <= windowSize
    BY DEF IInv, Sound, Instance
  <2> QED
    BY <2>1, SizesAssumption DEF IInv, Sound, TurboBacked
<1> QED
  BY <1>1, Inductive, PTL

\* In every behaviour a builder in TURBO loses it to a block only after more
\* mismatches than the gap of the two thresholds holds, whatever was restored.
THEOREM NeverFlaps == Spec => NoFlapping
<1>1. IInv /\ [Next]_vars =>
        [(\E block \in Blocks, record \in Records, tier \in Tiers \cup {NoTier} :
            VerifyBlock(block, record, tier))
         /\ inst.currentMode = "TURBO" /\ inst'.currentMode = "FULL"
           => 100 * (bad + 1) > (EntryPct - MaintainPct) * minBlocks]_vars
  <2> SUFFICES ASSUME IInv,
                      NEW block \in Blocks, NEW record \in Records,
                      NEW tier \in Tiers \cup {NoTier},
                      VerifyBlock(block, record, tier),
                      inst.currentMode = "TURBO", inst'.currentMode = "FULL"
               PROVE  100 * (bad + 1) > (EntryPct - MaintainPct) * minBlocks
    OBVIOUS
  <2>1. PICK ok \in BOOLEAN :
          /\ inst' = verifyBlock(inst, ok)
          /\ bad' = IF inst.currentMode = "FULL" \/ inst'.currentMode = "FULL"
                    THEN 0 ELSE IF ok \/ bad = windowSize THEN bad ELSE bad + 1
    BY VerifyBlockVerdict
  <2>2. Sound(inst, bad)
    BY DEF IInv
  <2> QED
    BY <2>1, <2>2, VerifyBlockSound
<1> QED
  BY <1>1, Inductive, PTL DEF Spec, NoFlapping

-----------------------------------------------------------------------------
(* The safety part of EventualTurbo: what the fairness of FairSpec is       *)
(* applied to.                                                              *)

\* A good block works off the cooldown, prolongs the good end of the window
\* and, once that end is the whole window and no cooldown is left, leaves the
\* switch in TURBO, whatever failures it counted before.
GoodBlockCounts == GoodBlock =>
  /\ inst.penaltyCooldown > 0 => inst'.penaltyCooldown < inst.penaltyCooldown
  /\ inst.penaltyCooldown = 0 => inst'.penaltyCooldown = 0
  /\ \A k \in 0..(windowSize - 1) :
       EndsGood(inst.history, k) => EndsGood(inst'.history, k + 1)
  /\ EndsGood(inst'.history, windowSize) /\ inst'.penaltyCooldown = 0
       => inst'.currentMode = "TURBO"

\* A window of good blocks is all that a switch without a cooldown needs for
\* TURBO, whatever it was restored from: for every window, every minimum of
\* blocks and all thresholds.
THEOREM GoodBlocksLeadToTurbo == Spec => [][GoodBlockCounts]_vars
<1>1. ASSUME IInv, GoodBlock PROVE GoodBlockCounts
  <2>1. PICK block \in Blocks, record \in Records, tier \in Tiers \cup {NoTier} :
          /\ compareTransactionOrder(block.txs, record.txOrder)
          /\ TimeMatch(inst, block, record, tier)
          /\ VerifyBlock(block, record, tier)
    BY <1>1 DEF GoodBlock
  <2>2. inst' = verifyBlock(inst, TRUE)
    BY <2>1 DEF VerifyBlock
  <2>3. /\ inst \in Instance /\ Len(inst.history) <= windowSize
        /\ inst.history \in Seq(BOOLEAN) /\ inst.penaltyCooldown \in Nat
    BY <1>1 DEF IInv, Sound, Instance
  <2> DEFINE h    == Slide(inst.history, TRUE)
             rate == EffectiveThreshold(inst.currentMode)
  <2>4. /\ inst'.history = h
        /\ inst'.penaltyCooldown = Decremented(inst.penaltyCooldown)
        /\ inst'.currentMode = "TURBO" <=>
             /\ Len(h) >= minBlocks
             /\ 100 * Matches(h) >= rate * Len(h)
             /\ Decremented(inst.penaltyCooldown) = 0
    BY <2>2, <2>3, VerifyBlockFacts
  <2>5. ASSUME NEW k \in 0..(windowSize - 1), EndsGood(inst.history, k)
        PROVE  EndsGood(h, k + 1)
    BY <2>3, <2>5, GoodEndGrows, SizesAssumption DEF Slide
  <2>6. /\ h \in Seq(BOOLEAN)
        /\ Len(h) = IF Len(inst.history) < windowSize
                    THEN Len(inst.history) + 1 ELSE windowSize
    BY <2>3, SlideMoves
  <2>7. rate \in Nat /\ rate <= 100
    BY SizesAssumption DEF EffectiveThreshold
  <2> HIDE DEF h, rate
  <2>8. ASSUME EndsGood(h, windowSize), inst'.penaltyCooldown = 0
        PROVE  inst'.currentMode = "TURBO"
    <3>1. windowSize <= Len(h)
      BY <2>8 DEF EndsGood
    <3>2. Len(h) = windowSize /\ windowSize \in Nat /\ windowSize >= minBlocks
      BY <2>3, <2>6, <3>1, SizesAssumption
    <3>3. Matches(h) = windowSize
      BY <2>6, <2>8, <3>2, AllGoodMatch
    <3>4. 100 * windowSize >= rate * windowSize
      BY <2>7, <3>2, Products
    <3>5. QED
      BY <2>4, <2>8, <3>2, <3>3, <3>4
  <2>9. QED
    BY <2>3, <2>4, <2>5, <2>8 DEF GoodBlockCounts, Decremented
<1>2. IInv /\ [Next]_vars => [GoodBlockCounts]_vars
  BY <1>1 DEF GoodBlockCounts
<1>3. QED
  BY <1>2, Inductive, PTL DEF Spec

-----------------------------------------------------------------------------
(***************************************************************************)
(* The switch implements the contract of ModeHysteresis where, as in the   *)
(* code, TURBO takes a whole window (minBlocks = windowSize): a verified   *)
(* block is ObserveBlock, a reset or a restart Forget, serialize Save and  *)
(* deserialize Restore.                                                    *)
(***************************************************************************)

\* What serialize leaves is not NoSave.
LEMMA SaveIsSaved ==
  ASSUME IInv
  PROVE  [json |-> inst, bad |-> bad] # NoSave
BY NoSaveAssumption DEF IInv, Sound

\* A verified block is an observed block of the contract.
LEMMA VerifyBlockMaps ==
  ASSUME IInv, minBlocks = windowSize, NEW block \in Blocks, NEW record \in Records,
         NEW tier \in Tiers \cup {NoTier}, VerifyBlock(block, record, tier)
  PROVE  Contract!ObserveBlock
<1> DEFINE h    == inst.history
           next == inst'.history
<1>1. PICK ok \in BOOLEAN : inst' = verifyBlock(inst, ok)
  BY VerifyBlockVerdict
<1>2. /\ inst \in Instance /\ h \in Seq(BOOLEAN) /\ Len(h) <= windowSize
      /\ windowSize \in Nat \ {0}
  BY SizesAssumption DEF IInv, Sound, Instance
<1>3. /\ inst' \in Instance /\ next = Slide(h, ok)
      /\ inst'.currentMode = "TURBO" =>
           /\ Len(next) >= minBlocks
           /\ 100 * Matches(next) >= EffectiveThreshold(inst.currentMode) * Len(next)
  BY <1>1, <1>2, VerifyBlockFacts
<1> DEFINE gain == IF ok THEN 1 ELSE 0
<1>4. gain \in {0, 1} /\ Matches(h) \in Nat /\ Len(h) \in Nat
  BY <1>2, MatchesBound
<1>5. inst.currentMode \in {"TURBO", "FULL"} /\ inst'.currentMode \in {"TURBO", "FULL"}
  BY <1>2, <1>3 DEF Instance
<1> HIDE DEF h, next
<1>6. /\ Matches(next) \in Nat /\ Matches(next) <= Len(next)
      /\ Len(next) = IF Len(h) < windowSize THEN Len(h) + 1 ELSE windowSize
      /\ Len(h) < windowSize => Matches(next) = Matches(h) + gain
      /\ ~(Len(h) < windowSize) => Matches(next) \in {Matches(h) + gain,
                                                      Matches(h) + gain - 1}
  BY <1>2, <1>3, SlideMoves
<1> HIDE DEF gain
<1>7. /\ Len(next) = IF Len(h) < windowSize THEN Len(h) + 1 ELSE windowSize
      /\ IF Len(h) < windowSize
         THEN Matches(next) \in {Matches(h), Matches(h) + 1}
         ELSE Matches(next) \in
                {Matches(h) - 1, Matches(h), Matches(h) + 1} \cap 0..windowSize
  BY <1>2, <1>4, <1>6
<1>8. inst'.currentMode = "TURBO" => Len(next) = windowSize
  BY <1>2, <1>3, <1>4, <1>7
<1>9. /\ ModeName(inst)' \in {"Turbo", "Full"}
      /\ ModeName(inst)' = "Turbo" <=> inst'.currentMode = "TURBO"
      /\ ModeName(inst) = "Turbo" <=> inst.currentMode = "TURBO"
  BY DEF ModeName
<1>10. ModeName(inst)' = "Turbo" =>
         Contract!TurboAllowed(ModeName(inst), Len(next), Matches(next))
  BY <1>3, <1>8, <1>9 DEF EffectiveThreshold, Contract!TurboAllowed
<1>11. saved' = saved
  BY DEF VerifyBlock
<1> QED
  BY <1>7, <1>9, <1>10, <1>11 DEF Contract!ObserveBlock, h, next

\* A fresh instance is the forgotten state of the contract.
LEMMA ConstructorMaps ==
  ASSUME NEW tol
  PROVE  /\ ModeName(constructor(tol)) = "Full"
         /\ Len(constructor(tol).history) = 0
         /\ Matches(constructor(tol).history) = 0
<1>1. constructor(tol).history = << >> /\ constructor(tol).currentMode = "FULL"
  BY DEF constructor
<1> QED
  BY <1>1, NoMatchesInEmpty DEF ModeName

\* Every step of the switch is a step of the contract or leaves it unchanged.
LEMMA StepMaps ==
  ASSUME minBlocks = windowSize
  PROVE  IInv /\ [Next]_vars => [Contract!Next]_(Contract!vars)
<1> SUFFICES ASSUME IInv, [Next]_vars
             PROVE  Contract!Next \/ UNCHANGED Contract!vars
  OBVIOUS
<1>1. ASSUME NEW block \in Blocks, NEW record \in Records, NEW tier \in Tiers \cup {NoTier},
             VerifyBlock(block, record, tier)
      PROVE  Contract!Next
  BY <1>1, VerifyBlockMaps DEF Contract!Next
<1>2. ASSUME NEW tol, inst' = constructor(tol), saved' = saved
      PROVE  Contract!Next
  <2>1. /\ ModeName(inst)' = "Full" /\ Len(inst.history)' = 0
        /\ Matches(inst.history)' = 0
    BY <1>2, ConstructorMaps
  <2> QED
    BY <1>2, <2>1 DEF Contract!Next, Contract!Forget
<1>3. CASE Serialize
  <2>1. /\ saved' # NoSave
        /\ saved'.json = inst /\ inst' = inst
    BY <1>3, SaveIsSaved DEF Serialize
  <2> QED
    BY <2>1 DEF Contract!Next, Contract!Save, Contract!State, ModeName
<1>4. CASE Deserialize
  <2>1. saved # NoSave /\ inst' = saved.json /\ saved' = saved
    BY <1>4 DEF Deserialize
  <2> QED
    BY <2>1 DEF Contract!Next, Contract!Restore, Contract!State, ModeName
<1>5. CASE Reset
  BY <1>2, <1>5 DEF Reset, reset
<1>6. CASE Restart
  BY <1>2, <1>6 DEF Restart
<1>7. CASE UNCHANGED vars
  BY <1>7 DEF vars, Contract!vars, ModeName
<1> QED
  BY <1>1, <1>3, <1>4, <1>5, <1>6, <1>7 DEF Next

\* The SDK switch keeps the hysteresis contract of ModeHysteresis, for every
\* window of which TURBO takes the whole, as in the code, and every pair of
\* thresholds, through saves, restores, resets and restarts.
THEOREM RefinesHysteresis ==
  ASSUME minBlocks = windowSize
  PROVE  Spec => KeepsHysteresis
<1>1. Init => Contract!Init
  BY ConstructorMaps DEF Init, Contract!Init
<1>2. IInv /\ [Next]_vars => [Contract!Next]_(Contract!vars)
  BY StepMaps
<1> QED
  BY <1>1, <1>2, Inductive, PTL DEF Spec, KeepsHysteresis, Contract!Spec
=============================================================================
