------------------------- MODULE AdaptiveSwitchSdk --------------------------
(***************************************************************************)
(* The AdaptiveSwitch of the TypeScript SDK (src/adaptive_switch.ts).      *)
(* Unlike the Rust one it folds lateness into the match result: a late     *)
(* block is one more mismatch in the window.  An application can save the  *)
(* switch with serialize and bring it back with deserialize, for example   *)
(* across a restart.                                                       *)
(*                                                                         *)
(* A block is its timestamp and its transaction order; so is a TTTRecord.  *)
(* Their payloads (block.data, grgPayload) and the unused parameters       *)
(* _chainId and _poolAddress are left out.                                 *)
(***************************************************************************)
EXTENDS SlidingWindow

CONSTANTS
  windowSize, minBlocks,   \* 20 and 20 in the code
  EntryPct, MaintainPct,   \* turboEntryThreshold, turboMaintainThreshold
  TierToleranceMs,         \* TIER_TOLERANCE_MS: tier name -> tolerance
  Tolerance,               \* the tolerance given to the constructor
  Tiers,                   \* what a caller passes as tier, or NoTier
  NoTier,                  \* the caller passes no tier
  Times,                   \* timestamps of blocks and records
  TxOrders,                \* transaction orders (sequences of hashes)
  NoSave                   \* nothing was serialized yet

ASSUME SizesAssumption ==
  /\ windowSize \in Nat \ {0}
  /\ minBlocks \in 1..windowSize
  /\ EntryPct \in 1..100
  /\ MaintainPct \in 1..EntryPct
  /\ Tolerance \in Nat

VARIABLES
  inst,    \* the live instance
  saved,   \* the last serialized instance, or NoSave
  bad      \* ghost: mismatching blocks since the instance entered TURBO

vars == <<inst, saved, bad>>

Instance ==
  [history : Seq(BOOLEAN), currentMode : {"TURBO", "FULL"},
   penaltyCooldown : Nat, consecutiveFailures : Nat, tolerance : Nat]

ASSUME NoSaveAssumption == NoSave \notin [json : Instance, bad : 0..windowSize]

constructor(tolerance) ==
  [history |-> << >>, currentMode |-> "FULL", penaltyCooldown |-> 0,
   consecutiveFailures |-> 0, tolerance |-> tolerance]

compareTransactionOrder(blockTxs, expectedOrder) ==
  /\ Len(blockTxs) = Len(expectedOrder)
  /\ \A i \in DOMAIN blockTxs : blockTxs[i] = expectedOrder[i]

\* An unknown tier falls back to the tolerance of the instance.
ToleranceFor(in, tier) ==
  IF tier # NoTier /\ tier \in DOMAIN TierToleranceMs
  THEN TierToleranceMs[tier] ELSE in.tolerance

TimeMatch(in, block, record, tier) ==
  LET delta == block.timestamp - record.time
  IN  (IF delta < 0 THEN -delta ELSE delta) < ToleranceFor(in, tier)

\* Mutant of Slide that shifts one block too early
SlideTooEarly(history, sequenceOk) ==
  LET longer == Append(history, sequenceOk)
  IN  IF Len(longer) >= windowSize THEN Tail(longer) ELSE longer

\* push, then shift when the window is exceeded
Slide(history, sequenceOk) ==
  LET longer == Append(history, sequenceOk)
  IN  IF Len(longer) > windowSize THEN Tail(longer) ELSE longer

\* Mutants of EffectiveThreshold: one threshold for both modes
MaintainAlways(mode) == MaintainPct
EntryAlways(mode) == EntryPct

EffectiveThreshold(mode) == IF mode = "TURBO" THEN MaintainPct ELSE EntryPct

\* Mutant of Decremented without its guard
DecrementedUnguarded(cooldown) == cooldown - 1

Decremented(cooldown) == IF cooldown > 0 THEN cooldown - 1 ELSE 0

\* The decision of verifyBlock: TURBO or FULL, never "as before".
verifyBlock(in, sequenceOk) ==
  LET history  == Slide(in.history, sequenceOk)
      cooldown == Decremented(in.penaltyCooldown)
      turbo    == /\ Len(history) >= minBlocks
                  /\ 100 * Matches(history)
                       >= EffectiveThreshold(in.currentMode) * Len(history)
                  /\ cooldown = 0
  IN  [in EXCEPT !.history = history,
                 !.penaltyCooldown = cooldown,
                 !.currentMode = IF turbo THEN "TURBO" ELSE "FULL",
                 !.consecutiveFailures = IF turbo THEN 0 ELSE @]

\* Mutant of reset that forgets the mode
ResetKeepsMode(in) == [constructor(in.tolerance) EXCEPT
                         !.currentMode = in.currentMode]

reset(in) == constructor(in.tolerance)

Init == inst = constructor(Tolerance) /\ saved = NoSave /\ bad = 0

Blocks  == [timestamp : Times, txs : TxOrders]
Records == [time : Times, txOrder : TxOrders]

VerifyBlock(block, record, tier) ==
  LET sequenceOk == /\ compareTransactionOrder(block.txs, record.txOrder)
                    /\ TimeMatch(inst, block, record, tier)
  IN  /\ inst' = verifyBlock(inst, sequenceOk)
      /\ bad' = IF inst.currentMode = "FULL" \/ inst'.currentMode = "FULL"
                THEN 0 ELSE IF sequenceOk \/ bad = windowSize
                            THEN bad ELSE bad + 1
      /\ UNCHANGED saved

Reset == inst' = reset(inst) /\ bad' = 0 /\ UNCHANGED saved

\* The saved string also carries the ghost, so that it survives a restore.
Serialize == saved' = [json |-> inst, bad |-> bad] /\ UNCHANGED <<inst, bad>>

Deserialize ==
  /\ saved # NoSave
  /\ inst' = saved.json
  /\ bad' = saved.bad
  /\ UNCHANGED saved

\* The application starts again without a saved state.
Restart == inst' = constructor(Tolerance) /\ bad' = 0 /\ UNCHANGED saved

GoodBlock ==
  \E block \in Blocks, record \in Records, tier \in Tiers \cup {NoTier} :
    /\ compareTransactionOrder(block.txs, record.txOrder)
    /\ TimeMatch(inst, block, record, tier)
    /\ VerifyBlock(block, record, tier)

Next ==
  \/ \E block \in Blocks, record \in Records, tier \in Tiers \cup {NoTier} :
       VerifyBlock(block, record, tier)
  \/ Reset
  \/ Serialize
  \/ Deserialize
  \/ Restart

Spec == Init /\ [][Next]_vars

\* Blocks keep coming; nothing else is assumed.
FairSpec == Spec /\ WF_vars(GoodBlock)
-----------------------------------------------------------------------------
TypeOK ==
  /\ inst \in Instance
  /\ saved # NoSave => saved.json \in Instance
  /\ bad \in 0..windowSize

\* Whatever was saved, restored, reset or restarted in between, TURBO stands
\* on at least minBlocks blocks that match at the maintenance rate.
TurboBacked ==
  inst.currentMode = "TURBO" =>
    /\ Len(inst.history) \in minBlocks..windowSize
    /\ 100 * Matches(inst.history) >= MaintainPct * Len(inst.history)

\* The hysteresis gap damps oscillation (YELLOW_PAPER 5.3): once in TURBO, a
\* builder loses it only after more mismatches than the gap between the entry
\* and the maintenance rate, never by good blocks alone.
NoFlapping ==
  [][(\E block \in Blocks, record \in Records, tier \in Tiers \cup {NoTier} :
        VerifyBlock(block, record, tier))
     /\ inst.currentMode = "TURBO" /\ inst'.currentMode = "FULL"
       => 100 * (bad + 1) > (EntryPct - MaintainPct) * minBlocks]_vars

\* The inductive invariant, of the live instance and of the saved one: beside
\* TurboBacked, the window never overflows, no cooldown runs in TURBO, and in
\* TURBO the mismatches of the window are those it may have been entered with
\* and those counted since.
Sound(in, mismatches) ==
  /\ in \in Instance /\ mismatches \in 0..windowSize
  /\ Len(in.history) <= windowSize
  /\ in.currentMode = "TURBO" =>
       /\ in.penaltyCooldown = 0
       /\ Len(in.history) >= minBlocks
       /\ 100 * Matches(in.history) >= MaintainPct * Len(in.history)
       /\ 100 * (Len(in.history) - Matches(in.history))
            <= (100 - EntryPct) * Len(in.history) + 100 * mismatches

IInv == Sound(inst, bad) /\ (saved # NoSave => Sound(saved.json, saved.bad))

ModeName(in) == IF in.currentMode = "TURBO" THEN "Turbo" ELSE "Full"

Contract == INSTANCE ModeHysteresis WITH
  Window <- windowSize,
  mode <- ModeName(inst),
  filled <- Len(inst.history),
  matched <- Matches(inst.history),
  kept <- IF saved = NoSave THEN {}
          ELSE {[mode |-> ModeName(saved.json),
                 filled |-> Len(saved.json.history),
                 matched |-> Matches(saved.json.history)]}

\* The SDK switch keeps the hysteresis contract of ModeHysteresis: every
\* verifyBlock moves the window by one and grants TURBO only at the threshold
\* of the mode it was in, and a restore brings back what was saved.
KeepsHysteresis == Contract!Spec

\* Sustained good behaviour leads to TURBO for good, from any history and any
\* restored state: the SDK switch has no failure it cannot recover from.
EventualTurbo ==
  <>[][GoodBlock]_vars => <>[](inst.currentMode = "TURBO")

\* pot_verifier.ts: a submission outside the tolerance "triggers FULL mode in
\* AdaptiveSwitch".
LateBlockTriggersFull ==
  [][\A block \in Blocks, record \in Records, tier \in Tiers \cup {NoTier} :
       VerifyBlock(block, record, tier) /\ ~TimeMatch(inst, block, record, tier)
         => inst'.currentMode = "FULL"]_vars
=============================================================================
