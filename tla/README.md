# OpenTTT in TLA+

A verification project for OpenTTT (TLS TimeToken): TLA+ modules translated from
the code, TLC runs on small instances and TLAPS proofs for every instance.

## The system and its parts

OpenTTT proves *when* something happened. Time sources are asked in parallel,
their readings are condensed into a Proof of Time (PoT) with a nonce and an
expiry, verifiers accept a PoT once, and an adaptive switch turns the record of
a block builder into a mode: TURBO (fast path, fee discount) or FULL.

| Part | Source | State | Operations | What is hard |
| --- | --- | --- | --- | --- |
| AdaptiveSwitch (Rust) | `src/roughtime/adaptive_switch.rs` | history, mode, cooldown, fail count | `verify_block`, `check_recency`, `reset` | long sequences of failures, good blocks and resets; backoff; recovery |
| AdaptiveSwitchStore | `src/roughtime/as_store.rs` | switch and snapshot per context, a file | `get_or_create`, `verify_and_persist`, `flush_to_disk`, `load_from_disk` | a crash in the middle of a flush; what a restart brings back |
| AdaptiveSwitch (SDK) | `src/adaptive_switch.ts` | history, mode, counters | `verifyBlock`, `reset`, `serialize`, `deserialize` | hysteresis; restoring an old state |
| TimeSynthesis | `src/time_synthesis.ts` | sources, used nonces | `synthesize`, `generateProofOfTime`, `verifyProofOfTime`, `close` | concurrent calls, failing sources, replay within a bounded cache |
| HttpOnlyClient, x402 | `src/http_client.ts`, `mcp/packages/x402-pot` | used nonces | `generatePoT`, `verifyPoT`, `createPaymentWithPoT`, `verifyPaymentPoT` | repeated, late and altered PoTs; a lifetime that outlasts the nonce |
| PotVerifier | `src/pot_verifier.ts`, `pot_frame.ts`, `tls_binding.ts` | nonce cache with expiry | `verify`, `has`, `add`, `sweep` | replay across sessions, an issuer whose clock is ahead, a cache without a limit |
| Time sources (SDK) | `src/time_synthesis.ts`, `roughtime_source.ts`, `osnma_source.ts` | sockets, requests, timers | `getTime`, `close` | answers, errors, timers and `close()` racing for one socket |
| EVMConnector | `src/evm_connector.ts` | provider, signer, contracts, listeners | `connect`, `reconnect`, `disconnect`, `attachContract`, `subscribeToEvents`, `burnTTT`, `mintTTT`, `submitTTTRecord`, `swap` | calls that overlap at an `await`, fallbacks, transactions mined after they were given up |
| UniswapV4Hook | `src/v4_hook.ts` | statistics, a cached contract | `beforeSwap`, `afterSwap` | burns that fail in silence |
| Contracts | `contracts/contracts/*.sol` | balances, nonces, counters | mint, burn, `collectFee`, `verifySwap`, swaps | reverts, resubmission, sequential nonces |
| Swap bots, subgraph | `contracts/scripts/*_bot.ts`, `subgraph/src/mapping.ts` | a cycle; entities, daily and hourly statistics | swap and verify; event handlers | one transaction of two failing, an indexer that lags |
| Roughtime client (Rust) | `src/roughtime/{client,async_client,chain,types}.rs` | a nonce, answers | query, chain building and checking | failing, slow and lying servers in the middle of a chain |
| PoolRegistry, IntegrityClient, PotSigner, signers, trust store, CT log, FILO queue, issuer, MCP server, plugins | see `PROJECT.json` | maps, keys, logs | lookups, adapters, tool calls | not modelled, see below |

`PROJECT.json` lists every component with what is modelled of it, the hazards at
their lines, and the map from definitions to code.

### How the parts interact

- An application (the MCP server, a plugin, a bot) asks `TimeSynthesis` for PoTs
  and `AdaptiveSwitch` for the mode; `EVMConnector` and `UniswapV4Hook` take the
  result on chain, where `TTT.sol`, the hooks and `ProtocolFee.sol` mint, burn
  and collect. The subgraph follows the events.
- `generateProofOfTime` verifies its own result and so spends the nonce on the
  instance that made it. The tools of `integrations/` then verify on the same
  instance.
- The Rust issuer keeps one `AdaptiveSwitch` per context in an
  `AdaptiveSwitchStore`; the caller computes the recency and integrity verdicts
  and hands them in. The store is owned by one task (`&mut self`).
- `PotVerifier` sits at the end of several TLS sessions and shares one
  `MemoryNonceCache` among them.

JavaScript runs one callback at a time, so concurrency in the SDK is the
interleaving of continuations at an `await`; in the Rust store it is the crash
of the process between two system calls.

### What makes each part correct

| Part | Properties |
| --- | --- |
| both switches | TURBO only over a full window at the right rate; earned anew after a failure or a reset; the penalty is served exactly; a mode does not oscillate within the hysteresis gap; sustained good behaviour leads to TURBO |
| store | no context in TURBO without a healthy switch; no snapshot, saved or loaded, that claims TURBO with a failure or a cooldown; a restart reads all of the last flush or nothing; state survives a restart |
| TimeSynthesis | a minority of faulty sources cannot move the time; every call ends; a PoT is accepted once; the nonce cache is bounded |
| HttpOnlyClient, x402 | a PoT is accepted once, on either path; the time and the expiry that are accepted were generated |
| PotVerifier | a record is accepted once over all sessions; the sweep keeps the garbage bounded |
| time sources | every query gets an outcome; a query with an outcome holds no socket and no timer, or is left to its timer; `close()` reaches whatever is open |
| EVMConnector | no listener is lost, no event has two; an attached contract is on a live provider |
| UniswapV4Hook, ProtocolFee | a fee authorization is charged once and only after its burn; a burn that is reported happened; counted fees were taken |
| contracts, bots, subgraph | counters, log, days and hours agree; a verification stands on a swap |
| Roughtime client | a chain is linked whoever failed and no PoT close to the honest answers is refused because of it; its time is vouched for by honest servers; it is rejected for cause only |

## Modules

| Module | Models | State | Actions |
| --- | --- | --- | --- |
| `SlidingWindow` | what both switches count in their history | none | none (`Matches`) |
| `AdaptiveSwitchCore` | the Rust switch as functions of a record | none | none (`new`, `reset`, `check_recency`, `verify_block` = `Penalise` or `Observe`) |
| `AdaptiveSwitch` | one switch and its builder | the switch; ghost `clean` | `Submit`, `Reset` |
| `AdaptiveStore` | many switches with their file | switches, snapshots, file, flush under way, what was loaded; ghost `flushed` | `get_or_create` (with what the caller does to the switch), `verify_and_persist`, `FlushBegin`, `FlushWrites`, `FlushEnd`, `FlushFail`, `Crash`, `Start` |
| `AdaptiveSwitchSdk` | the TypeScript switch | the instance, a saved JSON; ghost `bad` | `VerifyBlock`, `Reset`, `Serialize`, `Deserialize`, `Restart` |
| `ModeHysteresis` | **abstract**: what either switch promises | mode, window summary, saved state | `ObserveBlock`, `Demote`, `Forget`, `Save`, `Restore` |
| `NonceCache` | the replay protection shared by TimeSynthesis and HttpOnlyClient | none | none (`Swept`, `Evictions`, `Remember`) |
| `MedianOfSources` | the synthesis of readings that both share | none | none (`Median`) |
| `TimeSynthesis` | the SDK's core class and its callers | clock, calls under way, PoTs, nonce cache | `Call`, `Settle`, `AllFailed`, `Synthesize`, `Generate`, `ToolVerify`, `Receive`, `Verify`, `Close`, `Tick` |
| `HttpOnlyClient` | HTTPS-only PoTs and x402 payments | clock, PoTs, a nonce cache per client | `generatePoT`, `VerifyPoT`, `verifyPaymentPoT`, `Tick` |
| `TimeSources` | the four source classes and the fan-out over them | socket or request, timer, `send` callback and promise of every query, the sets that `close()` walks; ghost `threw` | `generateProofOfTime`, `LookupAnswers`, `Answer`, `SocketError`, `SendFails`, `SendSucceeds`, `Timeout`, `InvalidDate`, `close` |
| `RoughtimeChain` | both Rust clients and the chain | true time, the server being asked, nonce, attestations | `Answers`, `Fails`, `Tick` |
| `EVMConnector` | the connection life cycle | the fields of the class, live providers, Contract objects, listeners with their subscription and contract, calls under way | `connect`, `connectBadKey`, `reconnect`, `reconnectBadKey`, `NetworkAnswers`, `NetworkFails`, `disconnect`, `attachContract`, `attachProtocolFeeContract`, `subscribeToEvents`, `Unsubscribe` |
| `SwapClient` | UniswapV4Hook and the connector's transactions against token and `ProtocolFee` | statistics, calls with their transaction and authorization, balances, fee nonces, how far the connector is connected | `beforeSwap`, `BalanceRead`, `BalanceFails`, `afterSwap`, `StartOp`, `Send`, `Mine`, `Drop`, `Receipt`, `CallFails`, `collectFee`, `FeeSettles`, `ResubmitFee`, `setFeeRecipient`, `Disconnect`, `Connect`, `Attach`, `Tick` |
| `SwapStats` | TTT, TTTHookSimple, PoolHelper, the bots, the subgraph | balances, counters, reserves, the log, entities and statistics, the bot's cycle | `mint`, `burn`, `pause`, `setFeeConfig`, `addLiquidity`, `BotSwap`, `BotVerify`, `VerifySwapBot`, `Index`, `HourPasses` |
| `PotVerifier` | frame verification over TLS sessions | clock, records, nonce cache with expiry | `Issue`, `Verify`, `Tick` |

`MC...` modules define the instances that TLC checks; `...Proofs` modules hold
the theorems, and `SharedLemmas` what several of them cite. `AdaptiveStore` and
`AdaptiveSwitch` compose `AdaptiveSwitchCore`; `TimeSynthesis` and
`HttpOnlyClient` compose `NonceCache` and `MedianOfSources`; `SwapClient`
composes the SDK with the contracts it calls, `SwapStats` the contracts with
their callers and their indexer.

Four components are proved about beside another one that is also a state
machine: `AdaptiveStore` beside `AdaptiveSwitch`, `RoughtimeChain` beside
`TimeSources`, `SwapClient` and `SwapStats` beside `EVMConnector`. Their
specifications are therefore called `StoreSpec`, `ChainSpec`, `SwapSpec` and
`StatsSpec` (with `StoreInit`, `ChainNext`, `SwapTypeOK`, `statsVars` and so on), so
that one proof module can extend them all.

Names follow the code. A definition whose comment says "Mutant of X" is a
plausible mistake in X; substituting it for X must break the property that
`PROJECT.json` pairs it with.

### How the models abstract

- **Switch.** History is the sequence of verdicts, at most `Window` long; rates
  are compared by cross-multiplication (`100 * matches >= pct * length`), which
  is what `match_rate >= threshold` decides. `fail_count` saturates in the code
  at 2^32; the guard `MaxFails` cuts behaviours off far below. The exponent cap
  of the backoff is kept and is passed by `MaxFails`.
- **Store.** `get_or_create` lends the switch itself, on which the caller may call
  `verify_block` or `reset` (`Lent`) without a new snapshot: snapshots may be older
  than their switches, and no property says otherwise. `flush_to_disk` truncates
  the file and fills it in pieces: `FlushWrites` adds snapshots to a torn file, of
  which `disk.map` holds those that are in it entirely. A crash or an I/O error
  before the end leaves it torn, and `load_from_disk` parses whole files only. The
  future of a flush is awaited to its end, since it borrows the store. What
  `load_from_disk` returns is kept in `loaded` until the store is used; the code
  does nothing with it.
- **SDK switch.** Tiers select a tolerance, with the default for an unknown
  tier; the transaction order is compared element by element. `serialize` and
  `deserialize` keep exactly the fields of the code.
- **TimeSynthesis.** A time source is a fulfilled reading or a failure, in any
  order (what becomes of its socket and its timer is `TimeSources`). The
  verification step
  is atomic, as it is in JavaScript. The order of the checks is kept: the nonce
  is spent before the readings are compared.
- **HttpOnlyClient and PotVerifier.** HMAC, TLS exporter and Ed25519 are ideal:
  a tag is the tuple of what it is computed from, so it covers precisely the
  fields the code feeds in. `Arrivals` is the set of things that may reach a
  verifier: the original, or a copy with one field changed.
- **Time sources.** What runs between two turns of the event loop is one step.
  An answer passes the checks of its source or not. An exception that nothing
  catches ends the process (`running`), which is what Node does by default;
  two are in the code: `BigInt(NaN)` for a `Date` header that is no date, and
  NTPSource closing a closed socket in its `send` callback. A `send()` of
  RoughtimeSource that throws at once rejects the promise and leaves the socket
  to the timer or to `close()` (`threw`); NTPSource catches it.
- **Roughtime chain.** SHA-512 is ideal: a nonce is what it was computed from. An
  honest server's interval contains the time of its answer; a faulty one, or a
  network that replaces answers, says anything. Signatures are not part of it,
  since neither client checks them. `ROUGHTIME_SERVERS` lists three servers and a
  chain takes three answers, so as shipped a server that is skipped leaves no
  chain, and no chain has an even length. The number of servers is a constant of
  the module and the theorems hold for any; the run has a fourth, as a longer list
  (`types.rs:71`, or the override that `mod.rs:63` provides for) would.
- **Connector.** A provider is the number of its creation; a signer is the number of
  the provider it is on, or `Own` if it is a Signer object without `connect`. A
  Contract object has a number of its own beside its signer, and a listener is
  its event, its Contract and the subscription it belongs to, so that two handlers
  on one contract, or on two contracts of one signer, are two. `on()` and `off()`
  of ethers take effect at the call. Calls overlap at `getNetwork()`.
  A key of which no signer can be made fails without an await, on one url or on
  all of them, and stays stored.
- **Swap client.** One account; TTT in units of the swap fee. The connector is down,
  connected, or connected with a contract attached: `beforeSwap` needs the provider
  only, `swap` the signer, the burns and mints the contract. Either contract with
  the SDK's `burn` may be at the attached address. A transaction is estimated,
  sent, mined, reverted or dropped independently of its caller's patience.
- **Contracts and subgraph.** A transaction is one step, a reverting one a
  stuttering step; roles are held by those who need them. The pool is its
  reserves, a swap moves one unit. Time is in hours, a day has `HoursPerDay`.
- The clock of an instance is monotone. A peer's clock is off by a constant
  from `Skews`. Uncertainties of PoTs, JSON and binary layouts are left out.

## Runs

| Run | Bounds | Shows |
| --- | --- | --- |
| `switch` | window 5, entry 4/5, maintenance 3/5, backoff 2, 4, 8, 4 failures | `NoForcedTurbo`, `TurboEarned`, `PenaltyServed`; the switch implements `ModeHysteresis`; a builder without a failure ends in TURBO; any cooldown is worked off |
| `sdk` | window 4, entry 3/4, maintenance 2/4, three tiers, two orders | `TurboBacked`, `NoFlapping`; the switch implements `ModeHysteresis` with saves; `EventualTurbo` |
| `store_safety` | 2 contexts, window 2, 1 failure each with a cooldown of one block, crashes at any point | `StoreNoForcedTurbo`, `NoForcedTurboSaved`, `LoadAllOrNothing` |
| `pot` | 4 sources, 1 faulty, 2 possible readings; 2 nonces, room for 1, lifetime 1, skew 1, time to live 2, clock to 4 | `NoReplay`, `CacheBounded`, `MedianRobust` |
| `sources` | one source of each class, asked twice | `OpenIsTracked`, `SettledReleases`, `CallsSettle` |
| `http` | 2 clients with different secrets, 2 nonces, room for 1, lifetime 1, time to live 1, clock to 3 | `NoReplay` on both paths, `AcceptedAsGenerated` |
| `frame_verifier` | 2 sessions, 3 records, tolerances 0 and 1, skew 1, time to live 2, sweep above 1 | `NoReplay`, `GarbageBounded` |
| `roughtime_chain` | 4 servers, 1 faulty, radii 0 and 1, chains of 3, spread 2, timeout 2, clock to 4 | `TimeTracksTruth`, `ChainsAccepted`, `RejectedForCause` |
| `connector` | 2 overlapping calls, 1 fallback, 4 providers, 3 contracts, 2 subscriptions | `ListenersTracked`, `AttachedUsable` |
| `client` | 2 swaps, 1 other transaction, 2 recipients, 2 fees' worth of funds, lifetime 1, clock to 2 | `ChargedOnce`, `ReportedBurnsHappened` |
| `swap_fee` (violation) | as `client` | the fees that are counted are never taken |
| `onchain` | 3 events, 2 swaps of the bot, 2 fee configurations, 2 hours a day, 3 hours | `IndexAgrees`, `VerifiedWereSwapped` |

Further configurations end in a counterexample and are kept for the divergences
listed below: `AdaptiveSwitch_eventual`, `AdaptiveSwitchSdk_late`,
`AdaptiveStore_restart`, `TimeSynthesis_tool`, `HttpOnlyClient_expiry`,
`TimeSources_alone`, `RoughtimeChain_slow` and `SwapStats_anchor`, each with the
`MC` module of its name (`tlc -config AdaptiveStore_restart.cfg MCAdaptiveStore`).

**Why the bounds are enough.** In each cache run there are more nonces than room
and the clock passes the time to live of the first nonce while later ones are
fresh, so sweeping, evicting, expiring and replaying all happen, and the
equalities at the edges (expiry reached, lifetime plus skew equal to the time to
live) occur. The windows separate entry from maintenance: there is a rate that
keeps TURBO and does not enter it, and one below both. The exponent cap is
reached by fewer failures than the bound allows. In `pot` any subset of the
sources may fail, so medians of one, two, three and four readings all occur. Two
rounds in `sources` let a query of the first be under way when the second starts
and when `close()` comes between the lookup and the socket. Four providers in
`connector` are enough for a call to be overtaken by another one that goes
through all its urls; two subscriptions with three contracts allow for a second
one on the contract of the first, on a new contract of the same signer, and on
one of another connection. In `client` the two swaps may be signed for the same
nonce, and the clock passes the deadlines between signing and collecting; the
other transaction may be a burn, a mint or a swap. In `onchain` the clock passes
into a second day, with changes of configuration on either side. The chain of
`roughtime_chain` may be of three or four answers, with a server skipped or
none, with the liar in it or not, and slow enough to exceed the spread. All
safety results are proved without the bounds.

**Fairness.** `FairSpec` of the switches is weak fairness of a good block: the
switch is called by the flow of blocks and cannot stop it; the liveness
properties are conditional on behaviour staying good from some point on.
`Spec` of `TimeSources` has, for each query, weak fairness of its timer together
with its lookup: Node runs a timer that is due, and the resolver has a timeout of
its own, after which it reports an error. No server is assumed to answer and no
caller to close. `InvalidDate` and the double close end the process, which
`CallsSettle` allows for. The other modules state no fairness.

## Theorems

| Module | About | Theorems |
| --- | --- | --- |
| `AdaptiveSwitchProofs` | Rust switch | `TypeCorrect`, `NeverForcedTurbo`, `TurboIsEarned`, `PenaltyIsServed`, `GoodBlocksLeadToTurbo`, `RefinesHysteresis` |
| | store | `StoreTypeCorrect`, `StoreNeverForcesTurbo`, `SavedNeverForcesTurbo`, `LoadsAllOrNothing` |
| `AdaptiveSwitchSdkProofs` | SDK switch | `TypeCorrect`, `TurboIsBacked`, `NeverFlaps`, `GoodBlocksLeadToTurbo`, `RefinesHysteresis` |
| `TimeSynthesisProofs` | TimeSynthesis | `TypeCorrect`, `NeverReplayed`, `CacheIsBounded`, `MedianIsRobust` |
| `HttpOnlyClientProofs` | HttpOnlyClient, x402 | `TypeCorrect`, `NeverReplayed`, `AcceptedTimesAreGenerated`, `CachesAreBounded` |
| `PotVerifierProofs` | PotVerifier | `TypeCorrect`, `NeverReplayed`, `GarbageIsBounded` |
| `TimeQueryProofs` | time sources | `OpenIsAlwaysTracked`, `SettledAlwaysReleases`, `PendingIsAlwaysDue`, `CallsNearTheirEnd` |
| | Roughtime chain | `ChainTracksTruth`, `ChainsAreAccepted`, `RejectionsHaveCause` |
| `ChainProofs` | connector | `TypeCorrect`, `ListenersAreTracked`, `ContractsStayUsable` |
| | swap client | `SwapTypeCorrect`, `BurnsReportedHappened`, `NeverChargedTwice` |
| | contracts, bots, subgraph | `StatisticsAgree`, `BotVerifiesRealSwaps` |

`SharedLemmas` holds the lemmas about the operators they rest on: how the window
and its matches move (`WindowMoves`), what remembering a nonce keeps and bounds,
where a median lies (`MedianBracketed`), how far the good end of a window reaches
(`GoodEndGrows`), and what a sum over a finite set does when one summand is added,
dropped or changed (`SumAdd`, `SumRemove`, `SumAgree`). The last are inductions over
a finite set. The library's induction theorems take the statement as a
parameter, which no installed prover can instantiate; its well-founded orders
do not. `MinimalSubset` gives a least counterexample among the subsets of a finite
set, since strict inclusion is well-founded there, and each sum lemma derives a
contradiction from one. Every inductive invariant below was
model-checked on the instance of the component's run before it was proved.

- **Switch.** For every window of at least one block, all thresholds and every
  backoff schedule. `TurboEarned` is not inductive: a failure keeps the window,
  so the window may hold blocks older than the failure. `WindowIsClean` bounds
  the window by the clean blocks whenever no failure is on record; together with
  `NoForcedTurbo` (TURBO stands on a full window with `fail_count = 0`) it gives
  `TurboEarned`. `PenaltyServed` is inductive because each failure restarts both
  the cooldown and the count of clean blocks. The ghost counter's cap must reach
  the window and the largest backoff (`BoundsAssumption`).
  For `RefinesHysteresis` a rejected block is `Demote`, an observed one
  `ObserveBlock`, a reset `Forget`; `WindowMoves` gives the change of the
  summary, `NoForcedTurbo` that TURBO is left standing over a full window only.
- **SDK switch.** `IInv` says the same of the live instance and of the saved one
  (`Sound`), so that a restore is harmless. `NoFlapping` needs its last clause: in
  TURBO the mismatches of the window are at most those the entry rate allows and
  those counted since the entry. A verdict below the maintenance rate then means
  more mismatches since than the gap holds. The refinement is proved for
  `minBlocks = windowSize`, as in the code (20 and 20): with fewer blocks TURBO
  would not take a full window, which the contract asks for.
- **Store.** `StoreInv` carries the health of every switch, which every use of a
  lent one keeps (`LentHealthy`), what the snapshots in memory, in the file and
  those loaded from it may claim, and two clauses for `LoadsAllOrNothing`: while a
  flush is under way the snapshots are those it set out to write, and a whole file
  holds them.
- **TimeSynthesis.** `NonceInv` says that a nonce that was accepted is in the
  cache, recorded as lost (evicted or closed), or its PoT has expired (`Spent`),
  and that an entry of the cache is at most `NonceTtl` older than the expiry of
  its PoT. So when a sweep drops an entry, its PoT has expired. The hypothesis is
  `TtlAssumption`: lifetime plus the largest skew of a peer is within the time to
  live. `ReturnedPots` connects the calls with the PoTs they returned.
- **The median.** `MedianRobust` needs no induction over data: if no correct
  reading were at or below the median, the readings of ranks up to the median's
  would all be faulty. `RankTaken` maps ranks to readings injectively, so that they
  would be half of the readings or more (`MedianBracketed`). The invariant is
  that the time of a call is the median of what it collected (`TimesAreMedians`).
- **HttpOnlyClient.** The argument of TimeSynthesis for each client, with the
  HMAC as the link between an arriving PoT and a generated one: what passes the
  check has the nonce, time and expiry of a PoT that a client with the same
  secret generated. `AcceptedTimesAreGenerated` is no more than that: the HMAC
  does not cover the readings, and a PoT that arrives with others may be
  accepted. `NeverReplayed` has the hypothesis `ExpiryCovered` (every lifetime
  is within the time to live of a nonce), which the default of the code meets
  and its option does not enforce, see 5 below.
- **PotVerifier.** An entry of the cache stays at least until the deadline of its
  record, the last moment at which the checks of time let it pass; so a record
  that was accepted is in the cache or past its deadline, whatever the sweep and
  the lazy deletion drop. The hypothesis is `TtlAssumption`: tolerance plus skew
  is within the time to live. `GarbageBounded` is a property of the step that adds
  an entry, which sweeps when the cache is above its threshold.
- **Connector.** `ListenersTracked` is inductive, since a subscription first
  takes off what the one before it registered, on whichever contracts.
  `TypesKept` has the counters of providers, contracts and subscriptions only
  grow. `AttachedUsable` is not: a contract is attached on the signer, so
  `UsableInv` adds that the signer, if there is one, is on a live provider. It
  holds because only `disconnect` destroys a provider, it destroys the current
  one, and it drops signer and contracts with it, whichever calls are waiting.
- **Swap client.** `ClientInv` orders what a call has done by where it is
  (`CallOrder`: no transaction before it is sent, no fee before the burn is
  mined) and counts: the swaps not reported as failed are exactly those that
  ended with their burn mined. An authorization that was charged lies behind the
  nonce (`FeeInv`), which is why a second submission, or another swap's
  authorization for the same nonce, is refused. `FeeSums` is the account of the
  fees: what the recipients received and what the swaps were charged both add up
  to the payer's nonce, since the one step that charges adds one fee to one
  summand of each.
- **Contracts, bots, subgraph.** `StatsInv` is the type and three accounts:
  the hook's counters are the number and the modes of the verifications in the
  log (`CountersAgree`), the days and the events not yet handled add up to the log,
  for every field (`DaysAgree`), and every day is the sum of its hours
  (`HoursAgree`). The last needs the clause that an hour with a record has a day
  with one: the first event of a day makes a day from nothing, which is right only
  if none of its hours exists. `Index` moves one event from the rest of the log into
  one day and one hour and leaves both sums alone. `BotInv` counts the swap that
  the bot made and has not verified yet, between its two transactions.
  `StatsAssumption` types the fee configurations and asks for at least one hour a
  day. No bound on the log, the hours, the fees or the users is used.
- **Time sources.** `SourcesInv` is the type and, for each query, `QueryInv`: a
  query without a socket has no timer and no send under way, a lookup means a
  pending promise, a round that was not started has no handles, and the sets
  that `close()` walks hold open handles only; a settled query whose `send()` threw
  has its socket open only with its timer set. Without the clause on lookups a
  socket could be opened for a promise that has its outcome. No assumption but
  `SourcesAssumption` (every source has a class). The last clause, that a pending
  query of a running process has its timer or its lookup, is
  `PendingIsAlwaysDue`: it holds because `close()` stops the timer of a request
  only together with its promise, and leaves those of the sockets.
- **Roughtime chain.** `ChainInv` is the type, that each answer carries the nonce
  made of the one before it (`Linked`; a failure leaves the nonce alone), that an
  honest interval contains the time it was taken and the times do not decrease
  (`Truthful`), and what each result was decided from (`Judged`).
  `ChainTracksTruth` is then `MedianBracketed` over the midpoints, and so is
  `ChainsAreAccepted`: the median is within the radii and a second of the PoT,
  which is what `verify_chain_against_pot` tolerates (`NearHonest`).

Only model-checked: liveness under fairness (`EventualTurbo`,
`CleanBuilderReachesTurbo`, `CooldownDrains`, `CallsSettle`), whose last step, from a
fair action that is enabled until it is taken to its being taken, is out of the
prover's reach. Of each the argument up to that step is proved:

- `CallsSettle`: a pending query always has a step that `Spec` is fair to
  (`PendingIsAlwaysDue`), each such step brings it nearer to its outcome and no
  step takes it further away (`CallsNearTheirEnd`, with the measure `StepsLeft`).
- `CleanBuilderReachesTurbo`, `CooldownDrains` and the SDK's `EventualTurbo`: every
  good block shortens the cooldown, prolongs the good end of the window by one
  and, when that end is the window, gives TURBO (`GoodBlocksLeadToTurbo`; the Rust
  switch also needs `fail_count = 0`). So a window of good blocks suffices.

## Where the code and its documents part

The first is the run `swap_fee`; the others have the configuration in brackets.

0. **The swap fee** (`v4_hook.ts:63`, `:113`). `beforeSwap` adds the fee to
   `totalFeesCollected` and says it was deducted; `afterSwap` then burns under a
   token id made of the sender and the time, which nobody holds, so the burn
   reverts and is counted as a failed one. With TTTToken instead of TTT at the
   address `beforeSwap` cannot read a balance at all. No fee is ever taken. (Lines
   94 and 95 call the deduction in `beforeSwap` "Simulated record-keeping" and leave
   the real one to an on-chain burn; the burn in `afterSwap` is the only one there
   is.)
1. **`EventualTurbo` of the Rust switch** (`adaptive_switch.rs:9`). TURBO requires
   `fail_count == 0` and only `reset` clears it, so one late block bars TURBO for
   good. The SDK switch, without a failure count, has the property.
   [`AdaptiveSwitch_eventual`]
2. **A late block and FULL** (`pot_verifier.ts:128`). The comment says a delayed
   submission triggers FULL; the SDK switch counts one mismatch and may stay in
   TURBO. [`AdaptiveSwitchSdk_late`]
3. **State across restarts** (`as_store.rs:5`). Snapshots come back, switches do
   not; every context starts again in FULL. [`AdaptiveStore_restart`]
4. **Self-verification in the tools** (`ttt_pot_tool.ts:86`). The nonce is already
   spent by `generateProofOfTime` on that instance, so the tool reports false.
   [`TimeSynthesis_tool`]
5. **`expirySeconds` and the nonce** (`http_client.ts:182`). The option has no limit
   and the time to live of a nonce is fixed at 300 s; a longer-lived PoT is
   accepted again after a cleanup pass. [`HttpOnlyClient_expiry`]
6. **Independent sources** (`time_synthesis.ts:230`). "each still contributes/fails
   its OWN independent reading": a `Date` header that is no date, or a send error
   after the answer, throws in a callback and ends the process. [`TimeSources_alone`]
7. **Enough servers** (`async_client.rs:109`). "chain succeeds if >= MIN_CHAIN servers
   respond": honest servers that answer slowly, within their timeouts, are more
   than two seconds apart, and the chain is rejected. [`RoughtimeChain_slow`]
   "Failures are skipped" has no effect as long as the list holds `MIN_CHAIN`
   servers: any failure leaves too few.
8. **Anchored swaps** (`TTTHookSimple.sol:19`). "Calls TTT.anchorPoT for on-chain PoT
   record": `verifySwap` makes no such call, and TTT has no such function (the
   call of TTTHook, `TTTHook.sol:184`, fails into its empty `catch`).
   [`SwapStats_anchor`]

Also visible in the model and worth knowing: after a caller has used a switch that
`get_or_create` lent it, the snapshot of that context shows the state before it
until the next `verify_and_persist`. `verifyPoT` and
`verifyProofOfTime` spend the nonce before they compare the readings, and the
HMAC of an HttpPoT does not cover the readings, so a copy with damaged readings
uses up the nonce of the original; a payment replaces the readings by the
synthesized time, so the divergence check is void there. A provider that
`connect` or a failed attempt replaces is never destroyed, although `disconnect`
is to "release all resources" (`evm_connector.ts:130`), and a connect that fails
after an earlier one succeeded leaves `connected` true. The hook keeps the
contract it made on the first provider and goes on asking that one after a
reconnect; contracts stay detached until they are attached again. The causal
order of a Roughtime chain is checked between neighbours only
(`chain.rs:31`), so a contradiction between two answers that are not neighbours
passes if the spread allows it.

## Plan

1. Done: the switches and their contract, the store, TimeSynthesis, the nonce
   cache, HttpOnlyClient with x402, PotVerifier; the time sources, the Rust
   Roughtime chain, the connector, the hook with `ProtocolFee`, the contracts of
   the testnet with their bots and the subgraph; the theorems above.
2. Models: `TTTHook` with the callbacks of a pool manager, and several calls of
   TimeSynthesis over `TimeSources` as its environment.

## Not modelled

- **Generated code**: `contracts/typechain-types` and `subgraph/generated` are
  bindings generated from ABIs and schemas, about 31 000 of some 39 000 lines of
  implementation. They hold no logic of this program, so the share of lines the
  map covers stays small however much of the hand-written code is modelled.
- **Bytes and cryptography**: packet and frame layouts, JSON and binary encodings of
  a PoT, signatures, hashes, TLS; they are ideal or a verdict.
- **FILO queue, trust store, CT log**: exported and used by nothing else in the
  repository, so that there is no interaction to model. (The queue grows beyond
  its capacity: `filo_queue.rs:73` leaves the oldest entry in place.)
- **PoolRegistry, PotSigner, IntegrityClient, signers**: synchronous maps and key
  files, and adapters to services whose decisions are made elsewhere.
- **MCP server, ElizaOS plugin, examples, dashboard**: callers of what is modelled.
- **TTTHook, TestTTT, deployment scripts**: the fee decision of TTTHook is that of
  TTTHookSimple; the callbacks of a real pool manager are outside the repository.
- **Issuer transport**: QUIC and issuer client are stubs; the Golomb and
  Reed-Solomon code is on a private server.
- Logging, telemetry and the wording of errors.
