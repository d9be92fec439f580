------------------------- MODULE AdaptiveSwitchCore -------------------------
(***************************************************************************)
(* The AdaptiveSwitch of the Rust crate (src/roughtime/adaptive_switch.rs) *)
(* as operators on one switch record.  A switch decides, from the recent   *)
(* history of verified blocks, whether a builder is served in TURBO mode   *)
(* or in FULL mode.  The modules AdaptiveSwitch (one switch) and           *)
(* AdaptiveStore (one switch per context) take their steps from here.      *)
(*                                                                         *)
(* match_rate is a quotient of two small integers, and the thresholds 0.95 *)
(* and 0.85 are compared with it; here both sides are scaled by 100 and by *)
(* the length of the history, which decides the same comparisons.          *)
(***************************************************************************)
EXTENDS SlidingWindow

CONSTANTS
  Window,        \* window: length of the sliding history (20 in the code)
  EntryPct,      \* turbo_entry, in percent (95)
  MaintainPct,   \* turbo_maintain, in percent (85)
  BackoffBase,   \* backoff_base (2)
  MaxExponent    \* the exponent of the backoff is capped here (8)

ASSUME WindowAssumption == Window \in Nat \ {0}
ASSUME PctAssumption ==
  /\ EntryPct \in 1..100
  /\ MaintainPct \in 1..EntryPct
ASSUME BackoffAssumption ==
  /\ MaxExponent \in Nat
  /\ \A k \in 0..MaxExponent : BackoffBase ^ k \in Nat \ {0}

AdaptiveMode == {"Turbo", "Full"}

Switch == [history : Seq(BOOLEAN), mode : AdaptiveMode,
           penalty_cooldown : Nat, fail_count : Nat, tier_tolerance_ms : Nat]

\* AdaptiveSwitch::new
new(tier_tolerance_ms) ==
  [history |-> << >>, mode |-> "Full", penalty_cooldown |-> 0,
   fail_count |-> 0, tier_tolerance_ms |-> tier_tolerance_ms]

\* Mutant of reset that forgets to clear the history
ResetKeepsHistory(sw) ==
  [sw EXCEPT !.mode = "Full", !.penalty_cooldown = 0, !.fail_count = 0]

\* AdaptiveSwitch::reset
reset(sw) == new(sw.tier_tolerance_ms)

\* The subtraction saturates: a PoT dated in the future is recent.
check_recency(sw, pot_timestamp_ms, submission_ms) ==
  LET age == IF submission_ms > pot_timestamp_ms
             THEN submission_ms - pot_timestamp_ms ELSE 0
  IN  age <= sw.tier_tolerance_ms

\* match_rate() >= pct / 100; the rate of an empty history is 0.
RateAtLeast(history, pct) ==
  100 * Matches(history) >= pct * Len(history) /\ history # << >>

\* Mutant of Threshold without the hysteresis gap
MaintainAlways(mode) == MaintainPct

Threshold(mode) == IF mode = "Turbo" THEN MaintainPct ELSE EntryPct

Backoff(failures) ==
  BackoffBase ^ (IF failures < MaxExponent THEN failures ELSE MaxExponent)

\* Mutant of Slide that drops the oldest result one block too early
SlideTooEarly(history, seq_ok) ==
  LET longer == Append(history, seq_ok)
  IN  IF Len(longer) >= Window THEN Tail(longer) ELSE longer

\* The newest block result enters the window, the oldest leaves a full one.
Slide(history, seq_ok) ==
  LET longer == Append(history, seq_ok)
  IN  IF Len(longer) > Window THEN Tail(longer) ELSE longer

\* Mutants of Decremented: without its guard, and without any effect
DecrementedUnguarded(cooldown) == cooldown - 1
NotDecremented(cooldown) == cooldown

Decremented(cooldown) == IF cooldown > 0 THEN cooldown - 1 ELSE 0

\* Mutant of Penalise that forgets to fall back to FULL
PenaliseKeepsMode(sw) ==
  [sw EXCEPT !.penalty_cooldown = Backoff(sw.fail_count + 1),
             !.fail_count = @ + 1]

\* Mutant of Penalise that takes the backoff before it counts the failure
PenaliseBeforeCounting(sw) ==
  [sw EXCEPT !.mode = "Full",
             !.penalty_cooldown = Backoff(sw.fail_count),
             !.fail_count = @ + 1]

\* A failed gate: one more failure, a new cooldown, FULL mode.  The history
\* is left alone.
Penalise(sw) ==
  [history           |-> sw.history,
   mode              |-> "Full",
   penalty_cooldown  |-> Backoff(sw.fail_count + 1),
   fail_count        |-> sw.fail_count + 1,
   tier_tolerance_ms |-> sw.tier_tolerance_ms]

\* A block that passed both gates is recorded and the mode decided.
Observe(sw, seq_ok) ==
  LET cooldown == Decremented(sw.penalty_cooldown)
      history  == Slide(sw.history, seq_ok)
      rate_ok  == RateAtLeast(history, Threshold(sw.mode))
  IN  [history           |-> history,
       mode              |-> IF /\ Len(history) >= Window
                                /\ rate_ok
                                /\ cooldown = 0
                                /\ sw.fail_count = 0
                             THEN "Turbo"
                             ELSE IF ~rate_ok \/ cooldown > 0 THEN "Full"
                             ELSE sw.mode,
       penalty_cooldown  |-> cooldown,
       fail_count        |-> sw.fail_count,
       tier_tolerance_ms |-> sw.tier_tolerance_ms]

verify_block(sw, order_ok, time_ok, integrity_ok) ==
  IF ~integrity_ok \/ ~time_ok
  THEN Penalise(sw)
  ELSE Observe(sw, order_ok /\ time_ok)

(***************************************************************************)
(* NoForcedTurbo, the invariant adaptive_switch.rs claims in its header,   *)
(* for one switch: TURBO requires a full window with a healthy match rate  *)
(* and neither a failure nor a cooldown on record.                         *)
(***************************************************************************)
Healthy(sw) ==
  sw.mode = "Turbo" =>
    /\ Len(sw.history) = Window
    /\ RateAtLeast(sw.history, MaintainPct)
    /\ sw.fail_count = 0
    /\ sw.penalty_cooldown = 0
=============================================================================
