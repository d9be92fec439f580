--------------------------- MODULE AdaptiveStore ----------------------------
(***************************************************************************)
(* AdaptiveSwitchStore (src/roughtime/as_store.rs): one AdaptiveSwitch per *)
(* context, a snapshot of each after every block, and a JSON file the      *)
(* snapshots are flushed to and loaded from.  The process may die at any   *)
(* moment, in the middle of a write of the file too.                       *)
(*                                                                         *)
(* flush_to_disk borrows the store until its write has ended, so no block  *)
(* is verified meanwhile; fs::write truncates the file before it fills it, *)
(* in pieces.  get_or_create hands out the switch itself: what a caller    *)
(* does with it is seen by nobody until the next verify_and_persist.       *)
(* The store is the one built by with_path: the in_memory variant is the   *)
(* same store with flush_to_disk doing nothing.  The history field of a    *)
(* snapshot is always empty in the code and last_updated_ms is a clock     *)
(* reading nothing reads back; both are left out.                          *)
(***************************************************************************)
EXTENDS AdaptiveSwitchCore

CONSTANTS
  Ctx,          \* context identifiers
  Tolerances,   \* the tier tolerances callers pass
  MaxStoreFails \* bound on the fail_count of a switch

ASSUME StoreAssumption == Tolerances \subseteq Nat /\ MaxStoreFails \in Nat

VARIABLES
  running,     \* is the process up
  switches,    \* ctx_id -> AdaptiveSwitch, for the contexts seen
  snapshots,   \* ctx_id -> AdaptiveSwitchSnapshot
  disk,        \* the file: [state, map]; state is absent, torn or whole, and
               \* map holds the snapshots that are in it entirely
  flushing,    \* is a write of the file under way
  loaded,      \* what load_from_disk returned, until the store is used: no
               \* field of the store holds it
  flushed      \* the snapshots that the last flush set out to write (a ghost)

storeVars == <<running, switches, snapshots, disk, flushing, loaded, flushed>>

Snapshot == [mode : AdaptiveMode, fail_count : Nat, penalty_cooldown : Nat,
             tier_tolerance_ms : Nat]

NoMap == << >>
IsPartial(f, S) == DOMAIN f \subseteq Ctx /\ f \in [DOMAIN f -> S]

Put(f, c, v) == [d \in DOMAIN f \cup {c} |-> IF d = c THEN v ELSE f[d]]

\* get_or_create: the tolerance of the first call is kept.
SwitchOf(c, tol) == IF c \in DOMAIN switches THEN switches[c] ELSE new(tol)

current_mode(c) == IF c \in DOMAIN switches THEN switches[c].mode ELSE "Full"

StoreInit ==
  /\ running = TRUE
  /\ switches = NoMap
  /\ snapshots = NoMap
  /\ disk = [state |-> "absent", map |-> NoMap]
  /\ flushing = FALSE
  /\ loaded = NoMap
  /\ flushed = NoMap

Verdicts == [order_ok : BOOLEAN, time_ok : BOOLEAN, integrity_ok : BOOLEAN]

\* What the caller makes of the switch it is lent, one call at a time
Lent(sw) ==
  {sw, reset(sw)} \cup
  {verify_block(sw, v.order_ok, v.time_ok, v.integrity_ok) : v \in Verdicts}

get_or_create(c, tol) ==
  /\ running /\ ~flushing
  /\ \E sw \in Lent(SwitchOf(c, tol)) :
       /\ sw.fail_count <= MaxStoreFails
       /\ switches' = Put(switches, c, sw)
  /\ loaded' = NoMap
  /\ UNCHANGED <<running, snapshots, disk, flushing, flushed>>

\* Mutant of verify_and_persist that takes the mode before the block is verified
PersistModeBefore(c, order_ok, time_ok, integrity_ok, tol) ==
  LET sw == verify_block(SwitchOf(c, tol), order_ok, time_ok, integrity_ok)
  IN  /\ running /\ ~flushing
      /\ sw.fail_count <= MaxStoreFails
      /\ switches' = Put(switches, c, sw)
      /\ snapshots' = Put(snapshots, c,
           [mode |-> SwitchOf(c, tol).mode, fail_count |-> sw.fail_count,
            penalty_cooldown |-> sw.penalty_cooldown,
            tier_tolerance_ms |-> tol])
      /\ loaded' = NoMap
      /\ UNCHANGED <<running, disk, flushing, flushed>>

\* The snapshot records the tolerance of this call.
verify_and_persist(c, order_ok, time_ok, integrity_ok, tol) ==
  LET sw == verify_block(SwitchOf(c, tol), order_ok, time_ok, integrity_ok)
  IN  /\ running /\ ~flushing
      /\ sw.fail_count <= MaxStoreFails
      /\ switches' = Put(switches, c, sw)
      /\ snapshots' = Put(snapshots, c,
           [mode |-> sw.mode, fail_count |-> sw.fail_count,
            penalty_cooldown |-> sw.penalty_cooldown,
            tier_tolerance_ms |-> tol])
      /\ loaded' = NoMap
      /\ UNCHANGED <<running, disk, flushing, flushed>>

\* flush_to_disk: the text is made and the file truncated, ...
FlushBegin ==
  /\ running /\ ~flushing
  /\ flushing' = TRUE
  /\ disk' = [state |-> "torn", map |-> NoMap]
  /\ flushed' = snapshots
  /\ UNCHANGED <<running, switches, snapshots, loaded>>

\* ... more of the text reaches the file, which does not end as it should, ...
FlushWrites ==
  /\ running /\ flushing
  /\ \E S \in SUBSET DOMAIN snapshots :
       /\ DOMAIN disk.map \subseteq S
       /\ disk' = [state |-> "torn", map |-> [c \in S |-> snapshots[c]]]
  /\ UNCHANGED <<running, switches, snapshots, flushing, loaded, flushed>>

\* ... and the last of it has.
FlushEnd ==
  /\ running /\ flushing
  /\ flushing' = FALSE
  /\ disk' = [state |-> "whole", map |-> snapshots]
  /\ UNCHANGED <<running, switches, snapshots, loaded, flushed>>

\* A write fails, for want of space for instance, after the truncation.
FlushFail ==
  /\ running /\ flushing
  /\ flushing' = FALSE
  /\ UNCHANGED <<running, switches, snapshots, disk, loaded, flushed>>

Crash ==
  /\ running
  /\ running' = FALSE
  /\ switches' = NoMap
  /\ snapshots' = NoMap
  /\ flushing' = FALSE
  /\ loaded' = NoMap
  /\ UNCHANGED <<disk, flushed>>

\* Mutant of load_from_disk that keeps what it can read of a torn file
LoadTorn == disk.map

\* A missing file cannot be read and a torn one does not parse: no map.
load_from_disk == IF disk.state = "whole" THEN disk.map ELSE NoMap

\* A new store is built and, as the doc of load_from_disk says, the file is
\* loaded on startup.  Nothing hands the loaded snapshots to the switches.
Start ==
  /\ ~running
  /\ running' = TRUE
  /\ loaded' = load_from_disk
  /\ UNCHANGED <<switches, snapshots, disk, flushing, flushed>>

StoreNext ==
  \/ \E c \in Ctx, tol \in Tolerances : get_or_create(c, tol)
  \/ \E c \in Ctx, tol \in Tolerances, v \in Verdicts :
       verify_and_persist(c, v.order_ok, v.time_ok, v.integrity_ok, tol)
  \/ FlushBegin
  \/ FlushWrites
  \/ FlushEnd
  \/ FlushFail
  \/ Crash
  \/ Start

StoreSpec == StoreInit /\ [][StoreNext]_storeVars
-----------------------------------------------------------------------------
StoreTypeOK ==
  /\ running \in BOOLEAN /\ flushing \in BOOLEAN
  /\ IsPartial(switches, Switch)
  /\ IsPartial(snapshots, Snapshot)
  /\ disk.state \in {"absent", "torn", "whole"}
  /\ IsPartial(disk.map, Snapshot)
  /\ IsPartial(loaded, Snapshot)
  /\ IsPartial(flushed, Snapshot)

\* No context is ever served in TURBO without a healthy switch behind it, also
\* right after a restart and whatever another context does.
StoreNoForcedTurbo ==
  \A c \in Ctx : current_mode(c) = "Turbo" =>
    c \in DOMAIN switches /\ Healthy(switches[c])

\* A snapshot never claims TURBO together with a failure or a running cooldown:
\* not one that /metrics shows, not one that has reached the file, as part of an
\* unfinished flush too, and not one that comes back from it.
NoForcedTurboSaved ==
  \A m \in {snapshots, disk.map, loaded} : \A c \in DOMAIN m :
    m[c].mode = "Turbo" => m[c].fail_count = 0 /\ m[c].penalty_cooldown = 0

\* A restart brings back all that the last flush set out to write or nothing at
\* all, wherever in a flush the process died or a write failed: never some of
\* the contexts, and never what an earlier flush had written.
LoadAllOrNothing ==
  [][~running /\ running' => loaded' \in {NoMap, flushed}]_storeVars

\* The inductive invariant: of every switch that its window does not overflow
\* and that it is healthy, of every snapshot what it may claim, and of a whole
\* file what is in it.
StoreInv ==
  /\ StoreTypeOK
  /\ \A c \in DOMAIN switches :
       Len(switches[c].history) <= Window /\ Healthy(switches[c])
  /\ NoForcedTurboSaved
  /\ disk.state = "whole" => disk.map = flushed
  /\ flushing => flushed = snapshots

\* "State survives Issuer restarts -- critical for TURBO promotion
\* continuity" (header of as_store.rs): a context whose snapshot was loaded
\* and that has seen no block since is served in the mode that was saved.
StateSurvivesRestart ==
  running => \A c \in DOMAIN loaded :
    c \notin DOMAIN snapshots => current_mode(c) = loaded[c].mode
=============================================================================
