--------------------------- MODULE ModeHysteresis ---------------------------
(***************************************************************************)
(* What the two implementations of the adaptive switch promise a caller,   *)
(* without their histories, counters and cooldowns.  The state is the mode *)
(* and a summary of the sliding window: how many blocks it holds and how   *)
(* many of them matched.  FULL may be chosen at any time; TURBO only over  *)
(* a full window, at the entry rate when coming from FULL and at the       *)
(* maintenance rate when already in TURBO.  The window itself moves by one *)
(* block per observation.  A saved state, where there is one, comes back   *)
(* exactly as it was saved.                                                *)
(***************************************************************************)
EXTENDS Integers

CONSTANTS Window, EntryPct, MaintainPct

VARIABLES
  mode,      \* "Turbo" or "Full"
  filled,    \* blocks in the window
  matched,   \* matching blocks among them
  kept       \* the saved states: at most one

vars == <<mode, filled, matched, kept>>

State(mo, n, m) == [mode |-> mo, filled |-> n, matched |-> m]

Init == mode = "Full" /\ filled = 0 /\ matched = 0 /\ kept = {}

TurboAllowed(from, n, m) ==
  /\ n = Window
  /\ 100 * m >= (IF from = "Turbo" THEN MaintainPct ELSE EntryPct) * n

\* One verified block: the window grows or slides by one.
ObserveBlock ==
  /\ filled' = IF filled < Window THEN filled + 1 ELSE Window
  /\ IF filled < Window
     THEN matched' \in {matched, matched + 1}
     ELSE matched' \in {matched - 1, matched, matched + 1} \cap 0..Window
  /\ mode' \in {"Turbo", "Full"}
  /\ mode' = "Turbo" => TurboAllowed(mode, filled', matched')
  /\ UNCHANGED kept

\* A rejected block costs TURBO and is not counted in the window.
Demote == mode' = "Full" /\ UNCHANGED <<filled, matched, kept>>

Forget == mode' = "Full" /\ filled' = 0 /\ matched' = 0 /\ UNCHANGED kept

Save == kept' = {State(mode, filled, matched)} /\ UNCHANGED <<mode, filled, matched>>

Restore ==
  /\ State(mode', filled', matched') \in kept
  /\ UNCHANGED kept

Next == ObserveBlock \/ Demote \/ Forget \/ Save \/ Restore

Spec == Init /\ [][Next]_vars
=============================================================================
