----------------------------- MODULE SwapStats ------------------------------
(***************************************************************************)
(* The contracts of the testnet deployment and what is counted from them:  *)
(* the TTT token (TTT.sol), the hook that chooses a fee by the TTT of the  *)
(* swapper (TTTHookSimple.sol), the pool helper (PoolHelper.sol) with      *)
(* swap_bot.ts and verify_swap_bot.ts that drive them, and the subgraph    *)
(* (subgraph/src/mapping.ts) that turns the events into daily and hourly   *)
(* statistics.                                                             *)
(*                                                                         *)
(* A transaction is one step.  What interleaves is the transactions of     *)
(* different callers, the two transactions of a cycle of the bot, either   *)
(* of which may fail, or be mined with its answer lost, and the indexer,   *)
(* which lags behind the chain.  Callers hold the roles their calls need;  *)
(* a call without them reverts and is a stuttering step.                   *)
(***************************************************************************)
EXTENDS Integers, Sequences, FiniteSets, Functions

CONSTANTS
  Users,        \* accounts that are not contracts, the deployer among them
  deployer,     \* the bots' account: it verifies swaps for itself
  Ids,          \* TTT token ids, 0 among them
  Configs,      \* fee configurations the operators set
  Liquidity,    \* what addLiquidity brings of each currency
  HoursPerDay,
  MaxMints,     \* bound on the TTT of an account under an id
  MaxEvents,    \* bound on the length of the log
  MaxSwaps,     \* MAX_SWAPS of the bot
  MaxHours      \* bound on the clock, in hours

ASSUME StatsAssumption ==
  /\ deployer \in Users /\ 0 \in Ids
  /\ HoursPerDay \in Nat \ {0} /\ Liquidity \in Nat
  /\ Configs \subseteq [minTTTBalance : Nat, turboFee : Nat, fullFee : Nat, tttTokenId : Ids]

VARIABLES
  balanceOf,    \* TTT: account -> token id -> amount
  paused,       \* TTT
  simple,       \* TTTHookSimple: configuration and counters
  reserves,     \* PoolManager: currency -> what the pool holds
  swapsMined,   \* ghost: swaps of the pool
  log,          \* the indexed events, in the order of the chain
  indexed,      \* how many of them the subgraph has handled
  entities,     \* subgraph: PoTAnchor and SwapVerification entities, by log index
  daily, hourly,\* subgraph: DailyStats and HourlyStats
  bot,          \* swap_bot: [pc, zeroForOne, swapCount]
  hour          \* block.timestamp, in hours

statsVars == <<balanceOf, paused, simple, reserves, swapsMined, log,
               indexed, entities, daily, hourly, bot, hour>>
graph == <<indexed, entities, daily, hourly>>
pool  == <<reserves, swapsMined>>

StatsInit ==
  /\ balanceOf = [a \in Users |-> [i \in Ids |-> 0]]
  /\ paused = FALSE
  /\ \E c \in Configs :
       simple = [config |-> c, totalSwaps |-> 0, turboSwaps |-> 0, fullSwaps |-> 0]
  /\ reserves = <<0, 0>> /\ swapsMined = 0
  /\ log = <<>> /\ indexed = 0 /\ entities = {}
  /\ daily = <<>> /\ hourly = <<>>
  /\ bot = [pc |-> "swap", zeroForOne |-> TRUE, swapCount |-> 0]
  /\ hour = 0

-----------------------------------------------------------------------------
(* TTT.sol *)

\* mint anchors its grgHash.
mint(to, id) ==
  /\ ~paused /\ balanceOf[to][id] < MaxMints /\ Len(log) < MaxEvents
  /\ balanceOf' = [balanceOf EXCEPT ![to][id] = @ + 1]
  /\ log' = Append(log, [name |-> "PoTAnchored", id |-> id, at |-> hour])
  /\ UNCHANGED <<paused, simple, pool, graph, bot, hour>>

burn(from, id) ==
  /\ ~paused /\ balanceOf[from][id] > 0
  /\ balanceOf' = [balanceOf EXCEPT ![from][id] = @ - 1]
  /\ UNCHANGED <<paused, simple, pool, log, graph, bot, hour>>

pause ==
  /\ paused' = ~paused
  /\ UNCHANGED <<balanceOf, simple, pool, log, graph, bot, hour>>

-----------------------------------------------------------------------------
(* TTTHookSimple.sol *)

IsTurbo(config, account) ==
  balanceOf[account][config.tttTokenId] >= config.minTTTBalance

Fee(config, turbo) == IF turbo THEN config.turboFee ELSE config.fullFee

Counted(c, turbo) ==
  [c EXCEPT !.totalSwaps = @ + 1,
            !.turboSwaps = @ + (IF turbo THEN 1 ELSE 0),
            !.fullSwaps  = @ + (IF turbo THEN 0 ELSE 1)]

verifySwap(sender, poolId) ==
  LET turbo == IsTurbo(simple.config, sender) IN
  /\ Len(log) < MaxEvents
  /\ simple' = Counted(simple, turbo)
  /\ log' = Append(log, [name |-> "SwapVerified", sender |-> sender, pool |-> poolId,
                         mode |-> IF turbo THEN "turbo" ELSE "full",
                         feeAmount |-> Fee(simple.config, turbo), at |-> hour])

setFeeConfig(c) ==
  /\ simple' = [simple EXCEPT !.config = c]
  /\ UNCHANGED <<balanceOf, paused, pool, log, graph, bot, hour>>

\* verify_swap_bot.ts: verifySwap without a swap, for a simulated pool
VerifySwapBot ==
  /\ verifySwap(deployer, "simulated")
  /\ UNCHANGED <<balanceOf, paused, pool, graph, bot, hour>>

-----------------------------------------------------------------------------
(* PoolHelper.sol, in a pool without a hook *)

\* What unlockCallback leaves in the pool: _settle pays the negative deltas
\* in, _take takes the positive ones out.
Unlocked(delta) == [c \in 1..2 |-> reserves[c] - delta[c]]

addLiquidity ==
  /\ reserves[1] + reserves[2] = 0
  /\ reserves' = Unlocked(<<-Liquidity, -Liquidity>>)
  /\ UNCHANGED <<balanceOf, paused, simple, swapsMined, log, graph, bot, hour>>

SwapDelta(zeroForOne) == IF zeroForOne THEN <<-1, 1>> ELSE <<1, -1>>

\* A swap that the pool can pay out
PoolSwap(zeroForOne) ==
  /\ \A c \in 1..2 : SwapDelta(zeroForOne)[c] <= reserves[c]
  /\ reserves' = Unlocked(SwapDelta(zeroForOne))
  /\ swapsMined' = swapsMined + 1

-----------------------------------------------------------------------------
(* swap_bot.ts *)

NextCycle == [bot EXCEPT !.pc = "swap", !.zeroForOne = ~@]

\* Mutant of AfterBotSwap that goes on when the swap failed
AfterBotSwapAlways(confirmed) == [bot EXCEPT !.pc = "verify", !.swapCount = @ + 1]

\* executeSwapCycle once the swap was awaited, or failed into its catch
AfterBotSwap(confirmed) ==
  IF confirmed THEN [bot EXCEPT !.pc = "verify", !.swapCount = @ + 1]
               ELSE [NextCycle EXCEPT !.swapCount = @ + 1]

BotSwap ==
  /\ bot.pc = "swap" /\ bot.swapCount < MaxSwaps
  /\ \/ /\ PoolSwap(bot.zeroForOne)
        /\ \E confirmed \in BOOLEAN : bot' = AfterBotSwap(confirmed)
     \/ /\ bot' = AfterBotSwap(FALSE)
        /\ UNCHANGED pool
  /\ UNCHANGED <<balanceOf, paused, simple, log, graph, hour>>

BotVerify ==
  /\ bot.pc = "verify"
  /\ \/ verifySwap(deployer, "v4")
     \/ UNCHANGED <<simple, log>>
  /\ bot' = NextCycle
  /\ UNCHANGED <<balanceOf, paused, pool, graph, hour>>

-----------------------------------------------------------------------------
(* subgraph/src/mapping.ts *)

NoHourly == [f \in {"totalSwaps", "turboCount", "fullCount"} |-> 0]
NoDaily  == [f \in {"totalSwaps", "turboCount", "fullCount", "totalFees"} |-> 0]

\* What an event adds to a field
Amount(e, field) ==
  CASE field = "totalSwaps" -> 1
    [] field = "turboCount" -> IF e.mode = "turbo" THEN 1 ELSE 0
    [] field = "fullCount"  -> IF e.mode = "turbo" THEN 0 ELSE 1
    [] field = "totalFees"  -> e.feeAmount

\* load-or-create, count, save
Bumped(stats, key, e, none) ==
  LET old == IF key \in DOMAIN stats THEN stats[key] ELSE none IN
  [k \in DOMAIN stats \cup {key} |->
     IF k = key THEN [f \in DOMAIN none |-> old[f] + Amount(e, f)] ELSE stats[k]]

\* Mutant of BumpedDaily that starts every day's record again
BumpedAfresh(e) == Bumped([k \in DOMAIN daily \ {e.at \div HoursPerDay} |-> daily[k]],
                          e.at \div HoursPerDay, e, NoDaily)

BumpedDaily(e) == Bumped(daily, e.at \div HoursPerDay, e, NoDaily)

handlePoTAnchored(e) == UNCHANGED <<daily, hourly>>

handleSwapVerified(e) ==
  /\ daily' = BumpedDaily(e)
  /\ hourly' = Bumped(hourly, e.at, e, NoHourly)

\* The indexer hands the next event to its handler, which saves an entity under
\* the transaction and the log index.
Index ==
  /\ indexed < Len(log)
  /\ indexed' = indexed + 1
  /\ LET e == log[indexed'] IN
       /\ entities' = entities \cup {[index |-> indexed', name |-> e.name]}
       /\ \/ e.name = "PoTAnchored" /\ handlePoTAnchored(e)
          \/ e.name = "SwapVerified" /\ handleSwapVerified(e)
  /\ UNCHANGED <<balanceOf, paused, simple, pool, log, bot, hour>>

HourPasses ==
  /\ hour < MaxHours
  /\ hour' = hour + 1
  /\ UNCHANGED <<balanceOf, paused, simple, pool, log, graph, bot>>

StatsNext ==
  \/ \E u \in Users, id \in Ids :
       mint(u, id) \/ burn(u, id)
  \/ pause \/ addLiquidity
  \/ \E c \in Configs : setFeeConfig(c)
  \/ VerifySwapBot \/ BotSwap \/ BotVerify
  \/ Index \/ HourPasses

StatsSpec == StatsInit /\ [][StatsNext]_statsVars

-----------------------------------------------------------------------------
(* Properties *)

\* The positions of a log, among some, that hold a verification
Verified(events, I) == {i \in I : events[i].name = "SwapVerified"}

\* What the verifications at some positions add to a field
Amounts(events, I, field) ==
  SumFunction([i \in Verified(events, I) |-> Amount(events[i], field)])

Total(stats, K, field) == SumFunction([k \in K |-> stats[k][field]])

\* What the days sum up to, plus the events not yet handled
Known(field) ==
  Total(daily, DOMAIN daily, field) + Amounts(log, (indexed + 1)..Len(log), field)

HoursOf(d) == {h \in DOMAIN hourly : h \div HoursPerDay = d}

\* The statistics of the subgraph, the counters of the hook and the log tell one
\* story at every moment: what the days sum up to, plus the events not yet
\* handled, is what getStats() returns, in total and per mode, and the fees of
\* all verifications; and every day is the sum of its hours - across
\* configuration changes, days without a swap and lag.
IndexAgrees ==
  /\ simple.totalSwaps = Known("totalSwaps")
  /\ simple.turboSwaps = Known("turboCount")
  /\ simple.fullSwaps  = Known("fullCount")
  /\ Known("totalFees") = Amounts(log, DOMAIN log, "totalFees")
  /\ \A d \in DOMAIN daily, f \in DOMAIN NoHourly : daily[d][f] = Total(hourly, HoursOf(d), f)

\* The verifications of a log that name the bot's pool
BotVerified(events) == {i \in Verified(events, DOMAIN events) : events[i].pool = "v4"}

\* swap_bot verifies only swaps it saw confirmed: however its transactions fail
\* or lose their answers, the pool has had at least as many swaps as it has
\* verifications for that pool.
VerifiedWereSwapped == Cardinality(BotVerified(log)) <= swapsMined

\* What TTTHookSimple says of verifySwap, "Calls TTT.anchorPoT for on-chain PoT
\* record": a verified swap has an anchor of its own on the chain.
SwapsAnchored ==
  LET verified == Cardinality(Verified(log, DOMAIN log)) IN verified <= Len(log) - verified
=============================================================================
