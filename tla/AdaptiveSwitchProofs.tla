------------------------ MODULE AdaptiveSwitchProofs ------------------------
(***************************************************************************)
(* Theorems about the AdaptiveSwitch of the Rust crate, for every window,  *)
(* every pair of thresholds, every tolerance and every backoff schedule,   *)
(* and about AdaptiveSwitchStore, for every set of contexts, through       *)
(* crashes and restarts.                                                   *)
(***************************************************************************)
EXTENDS AdaptiveSwitch, AdaptiveStore, SharedLemmas

-----------------------------------------------------------------------------
(* The operations of AdaptiveSwitchCore *)

\* Sliding keeps a history within the window and never leaves it empty.
LEMMA SlideFacts ==
  ASSUME NEW h \in Seq(BOOLEAN), Len(h) <= Window, NEW b \in BOOLEAN
  PROVE  /\ Slide(h, b) \in Seq(BOOLEAN)
         /\ Len(Slide(h, b)) <= Window
         /\ Len(Slide(h, b)) <= Len(h) + 1
         /\ Slide(h, b) # << >>
<1> DEFINE longer == Append(h, b)
<1>1. /\ longer \in Seq(BOOLEAN)
      /\ longer # << >>
      /\ Len(longer) = Len(h) + 1
  BY AppendProperties
<1>2. /\ Tail(longer) \in Seq(BOOLEAN)
      /\ Len(Tail(longer)) = Len(h)
  BY <1>1, HeadTailProperties
<1> HIDE DEF longer
<1>3. CASE Len(longer) > Window
  <2>1. Len(Tail(longer)) # 0
    BY <1>1, <1>2, <1>3, WindowAssumption
  <2> QED
    BY <1>1, <1>2, <1>3, <2>1, WindowAssumption DEF Slide, longer
<1>4. CASE ~(Len(longer) > Window)
  BY <1>1, <1>4, WindowAssumption DEF Slide, longer
<1> QED
  BY <1>3, <1>4

\* A history at a rate is at every smaller rate: what qualifies for entry
\* qualifies for maintenance.
LEMMA RateMonotone ==
  ASSUME NEW h \in Seq(BOOLEAN), NEW p \in Nat, NEW q \in Nat, q <= p,
         RateAtLeast(h, p)
  PROVE  RateAtLeast(h, q)
<1> DEFINE n == Len(h)
           m == Matches(h)
<1>1. n \in Nat /\ m \in Nat
  BY MatchesType
<1>2. \A k \in Nat : q * k <= p * k
  OBVIOUS
<1> QED
  BY <1>1, <1>2 DEF RateAtLeast

\* Every exponent the backoff uses is within the cap.
LEMMA BackoffFacts ==
  ASSUME NEW f \in Nat
  PROVE  \E e \in 0..MaxExponent : Backoff(f) = BackoffBase ^ e
BY BackoffAssumption DEF Backoff

\* A penalised switch is in FULL mode, with its history untouched.
LEMMA PenaliseFacts ==
  ASSUME NEW s \in Switch
  PROVE  /\ Penalise(s) \in Switch
         /\ Penalise(s).history = s.history
         /\ Penalise(s).mode = "Full"
         /\ Penalise(s).fail_count = s.fail_count + 1
         /\ Penalise(s).penalty_cooldown = Backoff(s.fail_count + 1)
         /\ Penalise(s).tier_tolerance_ms = s.tier_tolerance_ms
<1>1. Backoff(s.fail_count + 1) \in Nat
  <2>1. s.fail_count + 1 \in Nat
    BY DEF Switch
  <2>2. PICK e \in 0..MaxExponent :
               Backoff(s.fail_count + 1) = BackoffBase ^ e
    BY <2>1, BackoffFacts
  <2> QED
    BY <2>2, BackoffAssumption
<1> QED
  BY <1>1 DEF Penalise, Switch, AdaptiveMode

\* What an observed block does to each field of the switch.
LEMMA ObserveFacts ==
  ASSUME NEW s \in Switch, Len(s.history) <= Window, NEW b \in BOOLEAN
  PROVE  /\ Observe(s, b) \in Switch
         /\ Observe(s, b).history = Slide(s.history, b)
         /\ Observe(s, b).fail_count = s.fail_count
         /\ Observe(s, b).penalty_cooldown =
              IF s.penalty_cooldown > 0 THEN s.penalty_cooldown - 1 ELSE 0
         /\ Observe(s, b).tier_tolerance_ms = s.tier_tolerance_ms
<1>1. Slide(s.history, b) \in Seq(BOOLEAN)
  BY SlideFacts DEF Switch
<1> QED
  BY <1>1 DEF Observe, Decremented, Switch, AdaptiveMode

\* An observed block keeps a healthy switch healthy: TURBO is entered with the
\* entry rate, kept with the maintenance rate, and given up otherwise.
LEMMA ObserveHealthy ==
  ASSUME NEW s \in Switch, Len(s.history) <= Window, Healthy(s),
         NEW b \in BOOLEAN
  PROVE  Healthy(Observe(s, b))
<1> DEFINE o    == Observe(s, b)
           h    == Slide(s.history, b)
           cool == IF s.penalty_cooldown > 0
                   THEN s.penalty_cooldown - 1 ELSE 0
           rate == RateAtLeast(h, Threshold(s.mode))
<1>1. /\ h \in Seq(BOOLEAN)
      /\ Len(h) <= Window
  BY SlideFacts DEF Switch
<1>2. /\ o.history = h
      /\ o.fail_count = s.fail_count
      /\ o.penalty_cooldown = cool
  BY ObserveFacts
<1>3. o.mode = IF Len(h) >= Window /\ rate /\ cool = 0 /\ s.fail_count = 0
               THEN "Turbo"
               ELSE IF ~rate \/ cool > 0 THEN "Full" ELSE s.mode
  BY DEF Observe, Decremented, Switch
<1>4. Threshold(s.mode) \in Nat /\ MaintainPct \in Nat
      /\ MaintainPct <= Threshold(s.mode)
  BY PctAssumption DEF Threshold
<1>5. rate => RateAtLeast(h, MaintainPct)
  BY <1>1, <1>4, RateMonotone
<1>6. cool \in Nat /\ Len(h) \in Nat /\ s.fail_count \in Nat
  BY <1>1 DEF Switch
<1>7. s.mode = "Turbo" => /\ Len(s.history) = Window
                          /\ s.fail_count = 0
                          /\ s.penalty_cooldown = 0
  BY DEF Healthy
<1>8. Len(s.history) = Window => Len(h) = Window
  <2> SUFFICES ASSUME Len(s.history) = Window
               PROVE  Len(h) = Window
    OBVIOUS
  <2>1. /\ Append(s.history, b) \in Seq(BOOLEAN)
        /\ Append(s.history, b) # << >>
        /\ Len(Append(s.history, b)) = Window + 1
    BY AppendProperties DEF Switch
  <2>2. Len(Tail(Append(s.history, b))) = Window
    BY <2>1, HeadTailProperties, WindowAssumption
  <2> QED
    BY <2>1, <2>2, WindowAssumption DEF Slide
<1> HIDE DEF o, h, cool, rate
<1>9. ASSUME o.mode = "Turbo"
      PROVE  Len(h) = Window /\ rate /\ s.fail_count = 0 /\ cool = 0
  <2>1. CASE Len(h) >= Window /\ rate /\ cool = 0 /\ s.fail_count = 0
    BY <1>1, <1>6, <2>1, WindowAssumption
  <2>2. CASE ~(Len(h) >= Window /\ rate /\ cool = 0 /\ s.fail_count = 0)
    <3>1. rate /\ ~(cool > 0) /\ s.mode = "Turbo"
      BY <1>3, <1>9, <2>2
    <3>2. Len(h) = Window /\ s.fail_count = 0
      BY <3>1, <1>7, <1>8
    <3> QED
      BY <3>1, <3>2, <1>6
  <2> QED
    BY <2>1, <2>2
<1> QED
  BY <1>2, <1>5, <1>9 DEF Healthy, o

\* verify_block, whatever the verdicts of the gates, keeps a switch well
\* typed, within its window and healthy.
LEMMA VerifyBlockHealthy ==
  ASSUME NEW s \in Switch, Len(s.history) <= Window, Healthy(s),
         NEW order_ok \in BOOLEAN, NEW time_ok \in BOOLEAN,
         NEW integrity_ok \in BOOLEAN
  PROVE  LET t == verify_block(s, order_ok, time_ok, integrity_ok)
         IN  t \in Switch /\ Len(t.history) <= Window /\ Healthy(t)
<1>1. CASE ~integrity_ok \/ ~time_ok
  BY <1>1, PenaliseFacts DEF verify_block, Healthy
<1>2. CASE ~(~integrity_ok \/ ~time_ok)
  <2>1. verify_block(s, order_ok, time_ok, integrity_ok)
          = Observe(s, order_ok /\ time_ok)
    BY <1>2 DEF verify_block
  <2>2. (order_ok /\ time_ok) \in BOOLEAN
    OBVIOUS
  <2>3. s.history \in Seq(BOOLEAN)
    BY DEF Switch
  <2>4. Len(Slide(s.history, order_ok /\ time_ok)) <= Window
    BY <2>2, <2>3, SlideFacts
  <2> QED
    BY <2>1, <2>2, <2>4, ObserveFacts, ObserveHealthy
<1> QED
  BY <1>1, <1>2

\* A fresh switch is well typed and healthy.
LEMMA NewHealthy ==
  ASSUME NEW tol \in Nat
  PROVE  /\ new(tol) \in Switch
         /\ Len(new(tol).history) = 0
         /\ Healthy(new(tol))
BY DEF new, Switch, AdaptiveMode, Healthy

-----------------------------------------------------------------------------
(* One switch *)

\* A due penalty is positive and within the range of the ghost counter.
LEMMA DueRange ==
  ASSUME NEW f \in Nat
  PROVE  Backoff(f) \in Nat \ {0} /\ Backoff(f) <= CleanCap
<1>1. PICK e \in 0..MaxExponent : Backoff(f) = BackoffBase ^ e
  BY BackoffFacts
<1> QED
  BY <1>1, BackoffAssumption, BoundsAssumption

LEMMA InitIInv == Init => IInv
<1> SUFFICES ASSUME Init PROVE IInv
  OBVIOUS
<1>1. Tolerance \in Nat /\ CleanCap \in Nat
  BY BoundsAssumption
<1>2. sw \in Switch /\ Len(sw.history) = 0 /\ Healthy(sw)
  BY <1>1, NewHealthy DEF Init
<1>3. sw.fail_count = 0 /\ sw.penalty_cooldown = 0 /\ clean = 0
  BY DEF Init, new
<1> QED
  BY <1>1, <1>2, <1>3, WindowAssumption
     DEF IInv, TypeOK, WindowIsClean, NoForcedTurbo, PenaltyServed

\* A submission that a gate rejects.
LEMMA RejectedStep ==
  ASSUME IInv, sw' = Penalise(sw), clean' = 0
  PROVE  IInv'
<1>1. sw \in Switch /\ Len(sw.history) <= Window
  BY DEF IInv, TypeOK, WindowIsClean
<1>2. /\ sw' \in Switch
      /\ sw'.history = sw.history
      /\ sw'.mode = "Full"
      /\ sw'.fail_count = sw.fail_count + 1
      /\ sw'.penalty_cooldown = Backoff(sw.fail_count + 1)
  BY <1>1, PenaliseFacts
<1>3. sw.fail_count \in Nat /\ sw'.fail_count # 0
  BY <1>1, <1>2 DEF Switch
<1>4. Backoff(sw'.fail_count) \in Nat \ {0}
  BY <1>2, <1>3, DueRange
<1>5. TypeOK'
  BY <1>2, BoundsAssumption DEF TypeOK
<1>6. WindowIsClean'
  BY <1>1, <1>2, <1>3 DEF WindowIsClean
<1>7. NoForcedTurbo'
  BY <1>2 DEF NoForcedTurbo, Healthy
<1>8. PenaltyServed'
  BY <1>2, <1>3, <1>4 DEF PenaltyServed
<1> QED
  BY <1>5, <1>6, <1>7, <1>8 DEF IInv

\* A submission that both gates pass.
LEMMA ObservedStep ==
  ASSUME IInv, NEW b \in BOOLEAN, sw' = Observe(sw, b),
         clean' = IF clean < CleanCap THEN clean + 1 ELSE clean
  PROVE  IInv'
<1>1. /\ sw \in Switch
      /\ Len(sw.history) <= Window
      /\ Healthy(sw)
      /\ clean \in 0..CleanCap
      /\ CleanCap \in Nat /\ CleanCap >= Window
  BY BoundsAssumption DEF IInv, TypeOK, WindowIsClean, NoForcedTurbo
<1>2. /\ sw' \in Switch
      /\ sw'.history = Slide(sw.history, b)
      /\ sw'.fail_count = sw.fail_count
      /\ sw'.penalty_cooldown =
           IF sw.penalty_cooldown > 0 THEN sw.penalty_cooldown - 1 ELSE 0
  BY <1>1, ObserveFacts
<1>3. /\ Len(sw'.history) <= Window
      /\ Len(sw'.history) <= Len(sw.history) + 1
      /\ Len(sw'.history) \in Nat
      /\ Len(sw.history) \in Nat
  <2>1. sw.history \in Seq(BOOLEAN) /\ sw'.history \in Seq(BOOLEAN)
    BY <1>1, <1>2 DEF Switch
  <2>2. /\ Len(Slide(sw.history, b)) <= Window
        /\ Len(Slide(sw.history, b)) <= Len(sw.history) + 1
    BY <1>1, <2>1, SlideFacts
  <2> QED
    BY <1>2, <2>1, <2>2
<1>4. clean' \in 0..CleanCap
  BY <1>1
<1>5. TypeOK'
  BY <1>2, <1>4 DEF TypeOK
<1>6. WindowIsClean'
  <2>1. sw.fail_count = 0 => Len(sw.history) <= clean
    BY DEF IInv, WindowIsClean
  <2> QED
    BY <1>1, <1>2, <1>3, <2>1, WindowAssumption DEF WindowIsClean
<1>7. NoForcedTurbo'
  BY <1>1, ObserveHealthy DEF NoForcedTurbo
<1>8. PenaltyServed'
  <2>1. PenaltyServed
    BY DEF IInv
  <2>2. sw.fail_count \in Nat /\ sw.penalty_cooldown \in Nat
    BY <1>1 DEF Switch
  <2>3. Backoff(sw.fail_count) \in Nat /\ Backoff(sw.fail_count) <= CleanCap
    BY <2>2, DueRange
  <2> QED
    BY <1>1, <1>2, <2>1, <2>2, <2>3 DEF PenaltyServed
<1> QED
  BY <1>5, <1>6, <1>7, <1>8 DEF IInv

LEMMA ResetStep ==
  ASSUME IInv, Reset
  PROVE  IInv'
<1>1. sw.tier_tolerance_ms \in Nat
  BY DEF IInv, TypeOK, Switch
<1>2. sw' \in Switch /\ Len(sw'.history) = 0 /\ Healthy(sw')
  BY <1>1, NewHealthy DEF Reset, reset
<1>3. sw'.fail_count = 0 /\ sw'.penalty_cooldown = 0 /\ clean' = 0
  BY DEF Reset, reset, new
<1> QED
  BY <1>2, <1>3, WindowAssumption, BoundsAssumption
     DEF IInv, TypeOK, WindowIsClean, NoForcedTurbo, PenaltyServed

LEMMA StepIInv == IInv /\ [Next]_vars => IInv'
<1> SUFFICES ASSUME IInv, [Next]_vars
             PROVE  IInv'
  OBVIOUS
<1>1. ASSUME NEW p \in 0..MaxMs, NEW n \in 0..MaxMs,
             NEW o \in BOOLEAN, NEW i \in BOOLEAN, Submit(p, n, o, i)
      PROVE  IInv'
  <2> DEFINE t == check_recency(sw, p, n)
  <2>1. t \in BOOLEAN
    BY DEF check_recency
  <2>2. CASE t /\ i
    <3>1. sw' = Observe(sw, o /\ t)
      BY <1>1, <2>2 DEF Submit, verify_block
    <3>2. clean' = IF clean < CleanCap THEN clean + 1 ELSE clean
      BY <1>1, <2>2 DEF Submit
    <3>3. (o /\ t) \in BOOLEAN
      OBVIOUS
    <3> HIDE DEF t
    <3> QED
      BY <3>1, <3>2, <3>3, ObservedStep
  <2>3. CASE ~(t /\ i)
    <3>1. sw' = Penalise(sw) /\ clean' = 0
      BY <1>1, <2>3 DEF Submit, verify_block
    <3> QED
      BY <3>1, RejectedStep
  <2> QED
    BY <2>2, <2>3
<1>2. CASE Reset
  BY <1>2, ResetStep
<1>3. CASE UNCHANGED vars
  BY <1>3 DEF vars, IInv, TypeOK, WindowIsClean, NoForcedTurbo, PenaltyServed
<1> QED
  BY <1>1, <1>2, <1>3 DEF Next

\* The inductive invariant holds in every reachable state.
THEOREM Inductive == Spec => []IInv
<1> QED
  BY InitIInv, StepIInv, PTL DEF Spec

\* Type correctness of the switch.
THEOREM TypeCorrect == Spec => []TypeOK
<1>1. IInv => TypeOK
  BY DEF IInv
<1> QED
  BY <1>1, Inductive, PTL

\* NoForcedTurbo of the header of adaptive_switch.rs, for every window, every
\* pair of thresholds and every backoff: TURBO is never left standing without
\* a full healthy window, or with a failure or a cooldown on record.
THEOREM NeverForcedTurbo == Spec => []NoForcedTurbo
<1>1. IInv => NoForcedTurbo
  BY DEF IInv
<1> QED
  BY <1>1, Inductive, PTL

\* TURBO is only ever held by a builder of which at least a whole window of
\* blocks passed both gates since its last failure or reset.
THEOREM TurboIsEarned == Spec => []TurboEarned
<1>1. IInv => TurboEarned
  BY DEF IInv, TurboEarned, WindowIsClean, NoForcedTurbo, Healthy
<1> QED
  BY <1>1, Inductive, PTL

\* Every penalty is served in full, neither shortened nor prolonged.
THEOREM PenaltyIsServed == Spec => []PenaltyServed
<1>1. IInv => PenaltyServed
  BY DEF IInv
<1> QED
  BY <1>1, Inductive, PTL

-----------------------------------------------------------------------------
(* The safety part of CleanBuilderReachesTurbo and CooldownDrains: what the *)
(* fairness of FairSpec is applied to.                                      *)

\* A good block works off the cooldown, adds no failure, prolongs the good end
\* of the window and, once that end is the whole window and no failure is on
\* record, leaves the switch in TURBO.
GoodBlockCounts == GoodBlock =>
  /\ sw'.fail_count = sw.fail_count
  /\ sw.penalty_cooldown > 0 => sw'.penalty_cooldown < sw.penalty_cooldown
  /\ sw.penalty_cooldown = 0 => sw'.penalty_cooldown = 0
  /\ \A k \in 0..(Window - 1) :
       EndsGood(sw.history, k) => EndsGood(sw'.history, k + 1)
  /\ sw.fail_count = 0 /\ EndsGood(sw'.history, Window) => sw'.mode = "Turbo"

\* A window of matches is at every rate.
LEMMA AllGoodRate ==
  ASSUME NEW h \in Seq(BOOLEAN), Len(h) = Window, EndsGood(h, Window),
         NEW pct \in 1..100
  PROVE  RateAtLeast(h, pct)
<1>1. Matches(h) = Window /\ Window \in Nat \ {0}
  BY AllGoodMatch, WindowAssumption
<1>2. h # << >>
  BY <1>1
<1>3. ASSUME NEW n \in Nat PROVE 100 * n >= pct * n
  BY <1>3
<1>4. QED
  BY <1>1, <1>2, <1>3 DEF RateAtLeast

\* A window of good blocks is all that a switch without a failure on record
\* needs for TURBO, and every good block shortens a cooldown: for every window,
\* all thresholds and every backoff.
THEOREM GoodBlocksLeadToTurbo == Spec => [][GoodBlockCounts]_vars
<1>1. ASSUME IInv, GoodBlock PROVE GoodBlockCounts
  <2>1. PICK pot_ms \in 0..MaxMs, now_ms \in 0..MaxMs :
          check_recency(sw, pot_ms, now_ms) /\ Submit(pot_ms, now_ms, TRUE, TRUE)
    BY <1>1 DEF GoodBlock
  <2>2. sw' = Observe(sw, TRUE)
    BY <2>1 DEF Submit, verify_block
  <2>3. /\ sw \in Switch /\ Len(sw.history) <= Window /\ sw.history \in Seq(BOOLEAN)
        /\ sw.penalty_cooldown \in Nat /\ sw.fail_count \in Nat
        /\ (sw.fail_count = 0 => sw.penalty_cooldown = 0)
    BY <1>1 DEF IInv, TypeOK, WindowIsClean, PenaltyServed, Switch
  <2> DEFINE h == Slide(sw.history, TRUE)
  <2>4. /\ sw'.history = h /\ sw'.fail_count = sw.fail_count
        /\ sw'.penalty_cooldown =
             IF sw.penalty_cooldown > 0 THEN sw.penalty_cooldown - 1 ELSE 0
    BY <2>2, <2>3, ObserveFacts
  <2>5. ASSUME NEW k \in 0..(Window - 1), EndsGood(sw.history, k)
        PROVE  EndsGood(h, k + 1)
    BY <2>3, <2>5, GoodEndGrows, WindowAssumption DEF Slide
  <2>6. ASSUME sw.fail_count = 0, EndsGood(h, Window)
        PROVE  sw'.mode = "Turbo"
    <3>1. h \in Seq(BOOLEAN) /\ Len(h) <= Window
      BY <2>3, SlideFacts
    <3> DEFINE cool == IF sw.penalty_cooldown > 0 THEN sw.penalty_cooldown - 1 ELSE 0
               rate == RateAtLeast(h, Threshold(sw.mode))
    <3>0. sw'.mode = IF Len(h) >= Window /\ rate /\ cool = 0 /\ sw.fail_count = 0
                     THEN "Turbo"
                     ELSE IF ~rate \/ cool > 0 THEN "Full" ELSE sw.mode
      BY <2>2, <2>3 DEF Observe, Decremented, Switch
    <3> HIDE DEF h
    <3>2. Len(h) = Window
      <4>1. Window <= Len(h) /\ Len(h) \in Nat
        BY <2>6, <3>1 DEF EndsGood
      <4>2. QED
        BY <3>1, <4>1, WindowAssumption
    <3>3. RateAtLeast(h, Threshold(sw.mode))
      <4>1. Threshold(sw.mode) \in 1..100
        BY PctAssumption DEF Threshold
      <4>2. QED
        BY <2>6, <3>1, <3>2, <4>1, AllGoodRate
    <3>4. QED
      BY <2>3, <2>6, <3>0, <3>2, <3>3, WindowAssumption
  <2> HIDE DEF h
  <2>7. QED
    BY <2>3, <2>4, <2>5, <2>6 DEF GoodBlockCounts
<1>2. IInv /\ [Next]_vars => [GoodBlockCounts]_vars
  BY <1>1 DEF GoodBlockCounts
<1>3. QED
  BY <1>2, Inductive, PTL DEF Spec

-----------------------------------------------------------------------------
(***************************************************************************)
(* The switch implements the contract of ModeHysteresis: a rejected block  *)
(* is Demote, an observed one ObserveBlock, a reset Forget.                *)
(***************************************************************************)

\* A fresh switch is an initial state of the contract.
LEMMA InitMaps == Init => Contract!Init
BY NoMatchesInEmpty DEF Init, new, Contract!Init

\* An observed block moves the window of the contract by one block, and leaves
\* TURBO standing only where the contract allows it.
LEMMA ObservedMaps ==
  ASSUME IInv, NEW b \in BOOLEAN, sw' = Observe(sw, b)
  PROVE  Contract!ObserveBlock
<1> DEFINE h    == sw.history
           next == sw'.history
<1>1. /\ sw \in Switch /\ h \in Seq(BOOLEAN) /\ Len(h) <= Window
      /\ Window \in Nat \ {0} /\ Healthy(sw)
  BY WindowAssumption DEF IInv, TypeOK, WindowIsClean, NoForcedTurbo, Switch
<1>2. sw' \in Switch /\ next = Slide(h, b)
  BY <1>1, ObserveFacts
<1>3. /\ Len(h) \in Nat /\ Matches(h) \in Nat
      /\ Matches(next) \in Nat /\ Matches(next) <= Len(next)
      /\ Len(next) = IF Len(h) < Window THEN Len(h) + 1 ELSE Window
      /\ Len(h) < Window => Matches(next) \in {Matches(h), Matches(h) + 1}
      /\ ~(Len(h) < Window) =>
           Matches(next) \in {Matches(h) - 1, Matches(h), Matches(h) + 1}
  <2>1. next = IF Len(Append(h, b)) > Window THEN Tail(Append(h, b))
               ELSE Append(h, b)
    BY <1>2 DEF Slide
  <2>2. Len(h) \in Nat /\ Matches(h) \in Nat
    BY <1>1, MatchesBound
  <2> DEFINE gain == IF b THEN 1 ELSE 0
  <2>3. gain \in {0, 1}
    OBVIOUS
  <2> HIDE DEF h, next
  <2>4. /\ Matches(next) \in Nat /\ Matches(next) <= Len(next)
        /\ Len(next) = IF Len(h) < Window THEN Len(h) + 1 ELSE Window
        /\ Len(h) < Window => Matches(next) = Matches(h) + gain
        /\ ~(Len(h) < Window) => Matches(next) \in {Matches(h) + gain,
                                                    Matches(h) + gain - 1}
    BY <1>1, <2>1, WindowMoves
  <2> HIDE DEF gain
  <2> QED
    BY <2>2, <2>3, <2>4
<1>4. sw'.mode = "Turbo" =>
        Len(next) = Window /\ RateAtLeast(next, Threshold(sw.mode))
  <2>1. Healthy(sw')
    BY <1>1, ObserveHealthy
  <2>2. sw'.mode = "Turbo" => RateAtLeast(Slide(h, b), Threshold(sw.mode))
    <3> DEFINE cool == Decremented(sw.penalty_cooldown)
               rate == RateAtLeast(Slide(h, b), Threshold(sw.mode))
    <3>1. sw'.mode = IF /\ Len(Slide(h, b)) >= Window
                        /\ rate /\ cool = 0 /\ sw.fail_count = 0
                     THEN "Turbo"
                     ELSE IF ~rate \/ cool > 0 THEN "Full" ELSE sw.mode
      BY DEF Observe
    <3> HIDE DEF rate, cool
    <3>2. sw'.mode = "Turbo" => rate
      BY <3>1
    <3> QED
      BY <3>2 DEF rate
  <2> QED
    BY <1>2, <2>1, <2>2 DEF Healthy
<1>5. sw'.mode \in {"Turbo", "Full"}
  BY <1>2 DEF Switch, AdaptiveMode
<1> HIDE DEF h, next
<1>6. sw'.mode = "Turbo" =>
        Contract!TurboAllowed(sw.mode, Len(next), Matches(next))
  BY <1>4 DEF RateAtLeast, Threshold, Contract!TurboAllowed
<1>7. /\ Len(next) = IF Len(h) < Window THEN Len(h) + 1 ELSE Window
      /\ IF Len(h) < Window
         THEN Matches(next) \in {Matches(h), Matches(h) + 1}
         ELSE Matches(next) \in
                {Matches(h) - 1, Matches(h), Matches(h) + 1} \cap 0..Window
  BY <1>1, <1>3
<1> QED
  BY <1>5, <1>6, <1>7 DEF Contract!ObserveBlock, h, next

\* Every step of the switch is a step of the contract or leaves it unchanged.
LEMMA StepMaps == IInv /\ [Next]_vars => [Contract!Next]_(Contract!vars)
<1> SUFFICES ASSUME IInv, [Next]_vars
             PROVE  Contract!Next \/ UNCHANGED Contract!vars
  OBVIOUS
<1>1. ASSUME NEW p \in 0..MaxMs, NEW n \in 0..MaxMs,
             NEW o \in BOOLEAN, NEW i \in BOOLEAN, Submit(p, n, o, i)
      PROVE  Contract!Next
  <2> DEFINE t == check_recency(sw, p, n)
  <2>1. t \in BOOLEAN
    BY DEF check_recency
  <2>2. CASE t /\ i
    <3>1. sw' = Observe(sw, o /\ t)
      BY <1>1, <2>2 DEF Submit, verify_block
    <3>2. (o /\ t) \in BOOLEAN
      OBVIOUS
    <3> HIDE DEF t
    <3> QED
      BY <3>1, <3>2, ObservedMaps DEF Contract!Next
  <2>3. CASE ~(t /\ i)
    <3>1. sw' = Penalise(sw)
      BY <1>1, <2>3 DEF Submit, verify_block
    <3>2. sw \in Switch
      BY DEF IInv, TypeOK
    <3>3. sw'.history = sw.history /\ sw'.mode = "Full"
      BY <3>1, <3>2, PenaliseFacts
    <3> QED
      BY <3>3 DEF Contract!Next, Contract!Demote
  <2> QED
    BY <2>2, <2>3
<1>2. CASE Reset
  <2>1. sw'.history = << >> /\ sw'.mode = "Full"
    BY <1>2 DEF Reset, reset, new
  <2> QED
    BY <2>1, NoMatchesInEmpty DEF Contract!Next, Contract!Forget
<1>3. CASE UNCHANGED vars
  BY <1>3 DEF vars, Contract!vars
<1> QED
  BY <1>1, <1>2, <1>3 DEF Next

\* The Rust switch keeps the hysteresis contract, for every window and every
\* pair of thresholds: verify_block moves the window by one block at a time,
\* grants TURBO only over a full window at the rate its mode requires, and
\* falls back to FULL on a rejected block without touching the window.
THEOREM RefinesHysteresis == Spec => KeepsHysteresis
<1> QED
  BY InitMaps, StepMaps, Inductive, PTL DEF Spec, KeepsHysteresis, Contract!Spec

-----------------------------------------------------------------------------
(* The store *)

\* The switch a call finds or creates is well typed, within its window and
\* healthy.
LEMMA SwitchOfHealthy ==
  ASSUME StoreInv, NEW c \in Ctx, NEW tol \in Tolerances
  PROVE  /\ SwitchOf(c, tol) \in Switch
         /\ Len(SwitchOf(c, tol).history) <= Window
         /\ Healthy(SwitchOf(c, tol))
<1>1. CASE c \in DOMAIN switches
  BY <1>1 DEF StoreInv, StoreTypeOK, IsPartial, SwitchOf
<1>2. CASE c \notin DOMAIN switches
  <2>1. tol \in Nat
    BY StoreAssumption
  <2> QED
    BY <1>2, <2>1, NewHealthy, WindowAssumption DEF SwitchOf
<1> QED
  BY <1>1, <1>2

\* The empty map has no entries.
LEMMA NoMapFacts ==
  ASSUME NEW S
  PROVE  IsPartial(NoMap, S) /\ DOMAIN NoMap = {}
BY DEF NoMap, IsPartial

LEMMA StoreInitInv == StoreInit => StoreInv
<1> SUFFICES ASSUME StoreInit PROVE StoreInv
  OBVIOUS
<1>1. /\ switches = NoMap /\ snapshots = NoMap /\ loaded = NoMap
      /\ disk.map = NoMap /\ disk.state = "absent" /\ flushed = NoMap
      /\ running = TRUE /\ flushing = FALSE
  BY DEF StoreInit
<1>2. StoreTypeOK
  BY <1>1, NoMapFacts DEF StoreTypeOK
<1>3. NoForcedTurboSaved
  BY <1>1, NoMapFacts DEF NoForcedTurboSaved
<1> QED
  BY <1>1, <1>2, <1>3, NoMapFacts DEF StoreInv

\* A caller that was lent a switch gives it back healthy.
LEMMA LentHealthy ==
  ASSUME NEW w \in Switch, Len(w.history) <= Window, Healthy(w),
         NEW s \in Lent(w)
  PROVE  s \in Switch /\ Len(s.history) <= Window /\ Healthy(s)
<1>1. CASE s = w
  BY <1>1
<1>2. CASE s = reset(w)
  <2>1. w.tier_tolerance_ms \in Nat
    BY DEF Switch
  <2> QED
    BY <1>2, <2>1, NewHealthy, WindowAssumption DEF reset
<1>3. ASSUME NEW v \in Verdicts,
             s = verify_block(w, v.order_ok, v.time_ok, v.integrity_ok)
      PROVE  s \in Switch /\ Len(s.history) <= Window /\ Healthy(s)
  <2>1. v.order_ok \in BOOLEAN /\ v.time_ok \in BOOLEAN
        /\ v.integrity_ok \in BOOLEAN
    BY DEF Verdicts
  <2> QED
    BY <1>3, <2>1, VerifyBlockHealthy
<1> QED
  BY <1>1, <1>2, <1>3 DEF Lent

LEMMA GetOrCreateStep ==
  ASSUME StoreInv, NEW c \in Ctx, NEW tol \in Tolerances, get_or_create(c, tol)
  PROVE  StoreInv'
<1>1. PICK s \in Lent(SwitchOf(c, tol)) : switches' = Put(switches, c, s)
  BY DEF get_or_create
<1>2. s \in Switch /\ Len(s.history) <= Window /\ Healthy(s)
  BY SwitchOfHealthy, LentHealthy
<1>3. /\ IsPartial(switches', Switch)
      /\ DOMAIN switches' = DOMAIN switches \cup {c}
      /\ switches'[c] = s
      /\ \A d \in DOMAIN switches \ {c} : switches'[d] = switches[d]
  <2>1. IsPartial(switches, Switch) /\ s \in Switch
    BY <1>2 DEF StoreInv, StoreTypeOK
  <2>2. /\ IsPartial(Put(switches, c, s), Switch)
        /\ DOMAIN Put(switches, c, s) = DOMAIN switches \cup {c}
        /\ Put(switches, c, s)[c] = s
        /\ \A d \in DOMAIN switches \ {c} : Put(switches, c, s)[d] = switches[d]
    BY <2>1 DEF Put, IsPartial
  <2> QED
    BY <1>1, <2>2
<1>4. /\ UNCHANGED <<running, snapshots, disk, flushing, flushed>>
      /\ loaded' = NoMap
  BY DEF get_or_create
<1>5. StoreTypeOK'
  BY <1>3, <1>4, NoMapFacts DEF StoreInv, StoreTypeOK, IsPartial
<1>6. \A d \in DOMAIN switches' :
        Len(switches'[d].history) <= Window /\ Healthy(switches'[d])
  BY <1>2, <1>3 DEF StoreInv
<1>7. NoForcedTurboSaved'
  BY <1>4, NoMapFacts DEF StoreInv, NoForcedTurboSaved
<1> QED
  BY <1>4, <1>5, <1>6, <1>7 DEF StoreInv

LEMMA VerifyStep ==
  ASSUME StoreInv, NEW c \in Ctx, NEW tol \in Tolerances, NEW o \in BOOLEAN,
         NEW t \in BOOLEAN, NEW i \in BOOLEAN, verify_and_persist(c, o, t, i, tol)
  PROVE  StoreInv'
<1> DEFINE s   == verify_block(SwitchOf(c, tol), o, t, i)
           snap == [mode |-> s.mode, fail_count |-> s.fail_count,
                    penalty_cooldown |-> s.penalty_cooldown,
                    tier_tolerance_ms |-> tol]
<1>1. s \in Switch /\ Len(s.history) <= Window /\ Healthy(s)
  BY SwitchOfHealthy, VerifyBlockHealthy
<1>2. /\ switches' = Put(switches, c, s)
      /\ snapshots' = Put(snapshots, c, snap)
      /\ UNCHANGED <<running, disk, flushing, flushed>>
      /\ loaded' = NoMap
      /\ ~flushing
  BY DEF verify_and_persist
<1> HIDE DEF s
<1>3. snap \in Snapshot
  BY <1>1, StoreAssumption DEF Switch, Snapshot
<1>4. snap.mode = "Turbo" => snap.fail_count = 0 /\ snap.penalty_cooldown = 0
  BY <1>1 DEF Healthy
<1> HIDE DEF snap
<1>5. /\ IsPartial(switches', Switch)
      /\ DOMAIN switches' = DOMAIN switches \cup {c}
      /\ switches'[c] = s
      /\ \A d \in DOMAIN switches \ {c} : switches'[d] = switches[d]
  <2>1. IsPartial(switches, Switch) /\ s \in Switch
    BY <1>1 DEF StoreInv, StoreTypeOK
  <2>2. /\ IsPartial(Put(switches, c, s), Switch)
        /\ DOMAIN Put(switches, c, s) = DOMAIN switches \cup {c}
        /\ Put(switches, c, s)[c] = s
        /\ \A d \in DOMAIN switches \ {c} : Put(switches, c, s)[d] = switches[d]
    BY <2>1 DEF Put, IsPartial
  <2> QED
    BY <1>2, <2>2
<1>6. /\ IsPartial(snapshots', Snapshot)
      /\ DOMAIN snapshots' = DOMAIN snapshots \cup {c}
      /\ snapshots'[c] = snap
      /\ \A d \in DOMAIN snapshots \ {c} : snapshots'[d] = snapshots[d]
  <2>1. IsPartial(snapshots, Snapshot) /\ snap \in Snapshot
    BY <1>3 DEF StoreInv, StoreTypeOK
  <2>2. /\ IsPartial(Put(snapshots, c, snap), Snapshot)
        /\ DOMAIN Put(snapshots, c, snap) = DOMAIN snapshots \cup {c}
        /\ Put(snapshots, c, snap)[c] = snap
        /\ \A d \in DOMAIN snapshots \ {c} : Put(snapshots, c, snap)[d] = snapshots[d]
    BY <2>1 DEF Put, IsPartial
  <2> QED
    BY <1>2, <2>2
<1>7. StoreTypeOK'
  BY <1>2, <1>5, <1>6, NoMapFacts DEF StoreInv, StoreTypeOK, IsPartial
<1>8. \A d \in DOMAIN switches' :
        Len(switches'[d].history) <= Window /\ Healthy(switches'[d])
  BY <1>1, <1>5 DEF StoreInv
<1>9. NoForcedTurboSaved'
  <2>1. \A d \in DOMAIN snapshots' : snapshots'[d].mode = "Turbo" =>
          snapshots'[d].fail_count = 0 /\ snapshots'[d].penalty_cooldown = 0
    BY <1>4, <1>6 DEF StoreInv, NoForcedTurboSaved
  <2> QED
    BY <1>2, <2>1, NoMapFacts DEF StoreInv, NoForcedTurboSaved
<1> QED
  BY <1>2, <1>7, <1>8, <1>9 DEF StoreInv

\* A piece of a flush puts some of the snapshots into the file, and they claim
\* there what they claim in memory.
LEMMA FlushWritesStep ==
  ASSUME StoreInv, FlushWrites
  PROVE  StoreInv'
<1>1. PICK S \in SUBSET DOMAIN snapshots :
        disk' = [state |-> "torn", map |-> [c \in S |-> snapshots[c]]]
  BY DEF FlushWrites
<1>2. UNCHANGED <<running, switches, snapshots, flushing, loaded, flushed>>
  BY DEF FlushWrites
<1>3. /\ disk'.state = "torn" /\ DOMAIN disk'.map = S
      /\ \A c \in S : disk'.map[c] = snapshots[c]
      /\ disk'.map = [c \in S |-> snapshots[c]]
  BY <1>1
<1>4. IsPartial(disk'.map, Snapshot)
  BY <1>3 DEF StoreInv, StoreTypeOK, IsPartial
<1>5. StoreTypeOK'
  BY <1>2, <1>3, <1>4 DEF StoreInv, StoreTypeOK, IsPartial
<1>6. NoForcedTurboSaved'
  BY <1>2, <1>3 DEF StoreInv, NoForcedTurboSaved
<1> QED
  BY <1>2, <1>3, <1>5, <1>6 DEF StoreInv

\* A finished flush has put on disk all it set out to write.
LEMMA FlushEndStep ==
  ASSUME StoreInv, FlushEnd
  PROVE  StoreInv'
<1>1. /\ disk'.map = snapshots /\ disk'.state = "whole"
      /\ flushing /\ flushing' = FALSE
      /\ UNCHANGED <<running, switches, snapshots, loaded, flushed>>
  BY DEF FlushEnd
<1>2. StoreTypeOK'
  BY <1>1 DEF StoreInv, StoreTypeOK, IsPartial
<1>3. NoForcedTurboSaved'
  BY <1>1 DEF StoreInv, NoForcedTurboSaved
<1> QED
  BY <1>1, <1>2, <1>3 DEF StoreInv

LEMMA StoreStepInv == StoreInv /\ [StoreNext]_storeVars => StoreInv'
<1> SUFFICES ASSUME StoreInv, [StoreNext]_storeVars
             PROVE  StoreInv'
  OBVIOUS
<1>1. ASSUME NEW c \in Ctx, NEW tol \in Tolerances, get_or_create(c, tol)
      PROVE  StoreInv'
  BY <1>1, GetOrCreateStep
<1>2. ASSUME NEW c \in Ctx, NEW tol \in Tolerances, NEW v \in Verdicts,
             verify_and_persist(c, v.order_ok, v.time_ok, v.integrity_ok, tol)
      PROVE  StoreInv'
  <2>1. v.order_ok \in BOOLEAN /\ v.time_ok \in BOOLEAN
        /\ v.integrity_ok \in BOOLEAN
    BY DEF Verdicts
  <2> QED
    BY <1>2, <2>1, VerifyStep
<1>3. CASE FlushBegin
  <2>1. /\ disk'.map = NoMap /\ disk'.state = "torn"
        /\ flushing' = TRUE /\ flushed' = snapshots
        /\ UNCHANGED <<running, switches, snapshots, loaded>>
    BY <1>3 DEF FlushBegin
  <2>2. StoreTypeOK'
    BY <2>1, NoMapFacts DEF StoreInv, StoreTypeOK, IsPartial
  <2>3. NoForcedTurboSaved'
    BY <2>1, NoMapFacts DEF StoreInv, NoForcedTurboSaved
  <2> QED
    BY <2>1, <2>2, <2>3 DEF StoreInv
<1>4. CASE FlushWrites
  BY <1>4, FlushWritesStep
<1>5. CASE FlushEnd
  BY <1>5, FlushEndStep
<1>6. CASE Crash
  <2>1. /\ switches' = NoMap /\ snapshots' = NoMap /\ loaded' = NoMap
        /\ running' = FALSE /\ flushing' = FALSE
        /\ disk' = disk /\ flushed' = flushed
    BY <1>6 DEF Crash
  <2>2. StoreTypeOK'
    BY <2>1, NoMapFacts DEF StoreInv, StoreTypeOK, IsPartial
  <2>3. NoForcedTurboSaved'
    BY <2>1, NoMapFacts DEF StoreInv, NoForcedTurboSaved
  <2> QED
    BY <2>1, <2>2, <2>3, NoMapFacts DEF StoreInv
<1>7. CASE Start
  <2>1. /\ loaded' = disk.map \/ loaded' = NoMap
        /\ running' = TRUE
        /\ UNCHANGED <<switches, snapshots, disk, flushing, flushed>>
    BY <1>7 DEF Start, load_from_disk
  <2>2. StoreTypeOK'
    BY <2>1, NoMapFacts DEF StoreInv, StoreTypeOK, IsPartial
  <2>3. NoForcedTurboSaved'
    BY <2>1, NoMapFacts DEF StoreInv, NoForcedTurboSaved
  <2> QED
    BY <2>1, <2>2, <2>3 DEF StoreInv
<1>8. CASE FlushFail
  BY <1>8 DEF FlushFail, StoreInv, StoreTypeOK, IsPartial, NoForcedTurboSaved
<1>9. CASE UNCHANGED storeVars
  BY <1>9 DEF storeVars, StoreInv, StoreTypeOK, IsPartial, NoForcedTurboSaved
<1> QED
  BY <1>1, <1>2, <1>3, <1>4, <1>5, <1>6, <1>7, <1>8, <1>9 DEF StoreNext

\* The inductive invariant holds in every reachable state.
THEOREM StoreInductive == StoreSpec => []StoreInv
<1> QED
  BY StoreInitInv, StoreStepInv, PTL DEF StoreSpec

\* Type correctness of the store: its maps, what is on disk and what was loaded
\* from there keep their types through crashes and restarts.
THEOREM StoreTypeCorrect == StoreSpec => []StoreTypeOK
<1>1. StoreInv => StoreTypeOK
  BY DEF StoreInv
<1> QED
  BY <1>1, StoreInductive, PTL

\* No context is served in TURBO without a healthy switch behind it, with any
\* number of contexts, crashes and restarts.
THEOREM StoreNeverForcesTurbo == StoreSpec => []StoreNoForcedTurbo
<1>1. StoreInv => StoreNoForcedTurbo
  BY DEF StoreInv, StoreNoForcedTurbo, current_mode
<1> QED
  BY <1>1, StoreInductive, PTL

\* No snapshot, in memory, in the file or back from it, claims TURBO together
\* with a failure or a cooldown.
THEOREM SavedNeverForcesTurbo == StoreSpec => []NoForcedTurboSaved
<1>1. StoreInv => NoForcedTurboSaved
  BY DEF StoreInv
<1> QED
  BY <1>1, StoreInductive, PTL

\* A restart brings back all that the last flush set out to write or nothing,
\* with any number of contexts and wherever the process died.
THEOREM LoadsAllOrNothing == StoreSpec => LoadAllOrNothing
<1>1. StoreInv /\ [StoreNext]_storeVars =>
        [~running /\ running' => loaded' \in {NoMap, flushed}]_storeVars
  <2> SUFFICES ASSUME StoreInv, StoreNext, ~running, running'
               PROVE  loaded' \in {NoMap, flushed}
    OBVIOUS
  <2>1. Start
    BY DEF StoreNext, get_or_create, verify_and_persist, FlushBegin, FlushWrites,
           FlushEnd, FlushFail, Crash
  <2> QED
    BY <2>1 DEF Start, load_from_disk, StoreInv
<1> QED
  BY <1>1, StoreInductive, PTL DEF StoreSpec, LoadAllOrNothing
=============================================================================
