--------------------------- MODULE AdaptiveSwitch ---------------------------
(***************************************************************************)
(* One AdaptiveSwitch of the Rust crate over the blocks of one builder.    *)
(* The caller computes time_ok with check_recency and the integrity gate   *)
(* upstream and hands all three verdicts to verify_block.                  *)
(***************************************************************************)
EXTENDS AdaptiveSwitchCore

CONSTANTS
  Tolerance,   \* tier_tolerance_ms of the switch
  MaxMs,       \* timestamps are 0..MaxMs
  MaxFails,    \* bound on fail_count (a u32 in the code)
  CleanCap     \* the ghost counter clean saturates here

ASSUME BoundsAssumption ==
  /\ Tolerance \in Nat
  /\ MaxMs \in Nat
  /\ MaxFails \in Nat
  /\ CleanCap \in Nat
  /\ CleanCap >= Window
  /\ \A k \in 0..MaxExponent : BackoffBase ^ k <= CleanCap

VARIABLES
  sw,      \* the switch
  clean    \* ghost: blocks observed since the last failure or reset

vars == <<sw, clean>>

Init == sw = new(Tolerance) /\ clean = 0

\* One submission: a PoT generated at pot_ms, submitted at now_ms.
Submit(pot_ms, now_ms, order_ok, integrity_ok) ==
  LET time_ok == check_recency(sw, pot_ms, now_ms)
      passed  == time_ok /\ integrity_ok
  IN  /\ passed \/ sw.fail_count < MaxFails
      /\ sw' = verify_block(sw, order_ok, time_ok, integrity_ok)
      /\ clean' = IF ~passed THEN 0
                  ELSE IF clean < CleanCap THEN clean + 1 ELSE clean

Reset == sw' = reset(sw) /\ clean' = 0

GoodBlock == \E pot_ms, now_ms \in 0..MaxMs :
               /\ check_recency(sw, pot_ms, now_ms)
               /\ Submit(pot_ms, now_ms, TRUE, TRUE)

Next ==
  \/ \E pot_ms, now_ms \in 0..MaxMs, order_ok, integrity_ok \in BOOLEAN :
       Submit(pot_ms, now_ms, order_ok, integrity_ok)
  \/ Reset

Spec == Init /\ [][Next]_vars

(***************************************************************************)
(* Blocks keep coming: a builder that produces blocks in time and in order *)
(* is not stopped by the switch, which has no say in when it is called.    *)
(***************************************************************************)
FairSpec == Spec /\ WF_vars(GoodBlock)
-----------------------------------------------------------------------------
TypeOK == sw \in Switch /\ clean \in 0..CleanCap

\* NoForcedTurbo (header of adaptive_switch.rs): verify_block never leaves
\* TURBO standing over a partial window, below the maintenance rate, with a
\* failure on record or with a cooldown still running.
NoForcedTurbo == Healthy(sw)

\* TURBO is earned after the last failure: since the last late or corrupt
\* block, and since the last reset, at least Window blocks passed both gates.
\* The window itself is not cleared by a failure, so this rests on how
\* fail_count, history and reset work together in verify_block.
TurboEarned == sw.mode = "Turbo" => clean >= Window

\* The backoff is served in full: what remains of the cooldown is the backoff
\* of the current failure count less the blocks that passed since then, so no
\* sequence of verify_block calls shortens or prolongs a penalty.
PenaltyServed ==
  IF sw.fail_count = 0
  THEN sw.penalty_cooldown = 0
  ELSE LET due == Backoff(sw.fail_count)
       IN  sw.penalty_cooldown = IF clean < due THEN due - clean ELSE 0

\* The inductive invariant.  Beside the properties above it says that the
\* window never overflows and that, without a failure on record, every block
\* in the window was observed since the last failure or reset.
WindowIsClean ==
  /\ Len(sw.history) <= Window
  /\ sw.fail_count = 0 => Len(sw.history) <= clean

IInv == TypeOK /\ WindowIsClean /\ NoForcedTurbo /\ PenaltyServed

\* The switch keeps the hysteresis contract of ModeHysteresis.
Contract == INSTANCE ModeHysteresis WITH
  mode <- sw.mode, filled <- Len(sw.history), matched <- Matches(sw.history),
  kept <- {}

KeepsHysteresis == Contract!Spec

\* A builder without a failure on record reaches TURBO and keeps it once all
\* its blocks are good, whatever its history and however often it was reset.
CleanBuilderReachesTurbo ==
  (<>[](sw.fail_count = 0) /\ <>[][GoodBlock]_vars) => <>[](sw.mode = "Turbo")

\* Sustained good behaviour works off any cooldown.
CooldownDrains ==
  <>[][GoodBlock]_vars => <>[](sw.penalty_cooldown = 0)

\* EventualTurbo, as the header of adaptive_switch.rs claims it: sustained
\* good behaviour leads to TURBO.  (fail_count is only cleared by reset.)
EventualTurbo ==
  <>[][GoodBlock]_vars => <>(sw.mode = "Turbo")
=============================================================================
