----------------------------- MODULE SwapClient -----------------------------
(***************************************************************************)
(* The SDK as a client of the chain: UniswapV4Hook (src/v4_hook.ts) and    *)
(* the transactions of EVMConnector, against the token contract they are   *)
(* attached to and ProtocolFee.sol.  Calls overlap at their awaits, a      *)
(* transaction may be mined after its caller was told that it failed, and  *)
(* the collector of the protocol fee may submit one authorization twice.   *)
(*                                                                         *)
(* Two contracts of the repository have the burn(amount, grgHash, tier)    *)
(* the SDK calls: TTT.sol (ERC-1155) and TTTToken.sol (ERC-20).  One       *)
(* account signs, swaps and pays.  Amounts of TTT are in units of          *)
(* swapFeeTTT, the protocol fee is one unit of its token.  The fee         *)
(* collector and the router are outside the repository.  Of the connection *)
(* (EVMConnector) this module keeps what a call meets: no connection, one  *)
(* without or with its contract, and an RPC that answers or fails.         *)
(***************************************************************************)
EXTENDS Integers, FiniteSets, Functions

CONSTANTS
  Swaps,          \* calls of beforeSwap and then afterSwap
  Ops,            \* calls of submitTTTRecord, mintTTT and swap
  Recipients,     \* fee recipients
  minTTTBalance,
  Funds,          \* what the account has of the fee token
  Lifetime,       \* deadline of an authorization, after its signing
  MaxTime         \* bound on the clock

ASSUME ClientAssumption ==
  /\ minTTTBalance \in Nat /\ Funds \in Nat /\ Lifetime \in Nat /\ MaxTime \in Nat
  /\ Recipients # {} /\ IsFiniteSet(Recipients)
  /\ Swaps \cap Ops = {} /\ IsFiniteSet(Swaps)

VARIABLES
  token,         \* the contract at the attached address
  balance,       \* token id -> the account's TTT; an ERC-20 has one balance
  connection,    \* of the connector: down, connected, or attached to its contract
  hookContract,  \* UniswapV4Hook.tttContract: made once, on a live provider
  stats,         \* UniswapV4Hook.stats, fees in units of swapFeeTTT
  call,          \* call -> where it is, its transaction, its fee authorization
  nonces, feeRecipient, received,   \* ProtocolFee
  now,           \* block.timestamp
  charged,       \* ghost: call -> how often its authorization was charged
  faults         \* ghost: an RPC call failed, a transaction was dropped or the SDK disconnected

swapVars == <<token, balance, connection, hookContract, stats, call, nonces, feeRecipient,
          received, now, charged, faults>>
fee  == <<nonces, feeRecipient, received, charged>>

\* The token ids: 0, that of the record the caller minted, and the hash of
\* "burn-sender-time", which is new in every afterSwap.
TokenIds == {"zero", "record", "fresh"}
Kinds    == {"record", "mint", "swap"}
Auths    == {"none", "payer", "other"}    \* who signed the fee authorization
NoCall   == [pc |-> "start", kind |-> "hook", tx |-> "none",
             auth |-> "none", nonce |-> 0, deadline |-> 0, feeTxs |-> 0]

SwapInit ==
  /\ token \in {"TTT", "TTTToken"}
  /\ \E b \in 0..minTTTBalance : balance = [i \in TokenIds |-> IF i = "zero" THEN b ELSE 0]
  /\ connection = "attached" /\ hookContract = "none"
  /\ stats = [totalSwaps |-> 0, totalFeesCollected |-> 0, failedBurns |-> 0]
  /\ call = [c \in Swaps \cup Ops |-> NoCall]
  /\ nonces = 0 /\ feeRecipient \in Recipients
  /\ received = [r \in Recipients |-> 0]
  /\ now = 0
  /\ charged = [c \in Swaps |-> 0]
  /\ faults = FALSE

-----------------------------------------------------------------------------
(* The contracts *)

\* The balance a burn takes from
BurnId(id) == IF token = "TTT" THEN id ELSE "zero"

\* Mutant of Succeeds that burns without looking at the balance
SucceedsUnchecked(kind, id) == kind # "mint" \/ token = "TTT"

\* TTT.mint has the SDK's three parameters, TTTToken.mint has five.
Succeeds(kind, id) ==
  CASE kind \in {"hook", "record"} -> balance[BurnId(id)] > 0
    [] kind = "mint"               -> token = "TTT"
    [] kind = "swap"               -> TRUE

Effect(kind, id) ==
  CASE kind \in {"hook", "record"} -> [balance EXCEPT ![BurnId(id)] = @ - 1]
    [] kind = "mint"               -> [balance EXCEPT ![id] = @ + 1]
    [] kind = "swap"               -> balance

\* The token id a call names
Id(c) == IF call[c].kind = "hook" THEN "fresh" ELSE "record"

\* Mutant of Accepts without the sequential nonce check
AcceptsAnyNonce(c) ==
  /\ now <= call[c].deadline
  /\ call[c].auth = "payer"
  /\ nonces < Funds

\* The checks of collectFee, and the transfer from the payer
Accepts(c) ==
  /\ now <= call[c].deadline
  /\ nonces = call[c].nonce
  /\ call[c].auth = "payer"
  /\ nonces < Funds

collectFee(c) ==
  /\ call[c].feeTxs > 0
  /\ call' = [call EXCEPT ![c].feeTxs = @ - 1]
  /\ \/ /\ Accepts(c)
        /\ nonces' = nonces + 1
        /\ received' = [received EXCEPT ![feeRecipient] = @ + 1]
        /\ charged' = [charged EXCEPT ![c] = @ + 1]
     \/ /\ ~Accepts(c)
        /\ UNCHANGED <<nonces, received, charged>>
  /\ UNCHANGED <<token, balance, connection, hookContract, stats, feeRecipient, now, faults>>

setFeeRecipient(r) ==
  /\ r # feeRecipient
  /\ feeRecipient' = r
  /\ UNCHANGED <<token, balance, connection, hookContract, stats, call, nonces, received, charged, now, faults>>

-----------------------------------------------------------------------------
(* UniswapV4Hook *)

beforeSwap(c) ==
  /\ call[c].pc = "start" /\ connection # "down"
  /\ hookContract' = IF hookContract = "none" THEN "live" ELSE hookContract
  /\ call' = [call EXCEPT ![c].pc = "balance"]
  /\ UNCHANGED <<token, balance, connection, stats, fee, now, faults>>

\* balanceOf(sender, 0) answers, which an ERC-20 does not have
BalanceRead(c) ==
  /\ call[c].pc = "balance"
  /\ token = "TTT" /\ hookContract = "live"
  /\ IF balance["zero"] >= minTTTBalance
     THEN /\ stats' = [stats EXCEPT !.totalFeesCollected = @ + 1]
          /\ call' = [call EXCEPT ![c].pc = "checked"]
     ELSE /\ call' = [call EXCEPT ![c].pc = "start"]
          /\ UNCHANGED stats
  /\ UNCHANGED <<token, balance, connection, hookContract, fee, now, faults>>

BalanceFails(c) ==
  /\ call[c].pc = "balance"
  /\ call' = [call EXCEPT ![c].pc = "start"]
  /\ faults' = TRUE
  /\ UNCHANGED <<token, balance, connection, hookContract, stats, fee, now>>

\* Mutant of SwapDone that does not count a failed burn
SwapDoneQuietly(failed) == [stats EXCEPT !.totalSwaps = @ + 1]

\* The end of afterSwap
SwapDone(failed) ==
  [stats EXCEPT !.totalSwaps = @ + 1, !.failedBurns = @ + (IF failed THEN 1 ELSE 0)]

\* afterSwap up to the await in burnTTT.  The caller passes an authorization
\* for the nonce the payer has now, or none.
afterSwap(c, auth) ==
  /\ call[c].pc \in {"start", "checked"}
  /\ \/ /\ connection = "attached"
        /\ call' = [call EXCEPT ![c].pc = "send",
                      ![c].auth = auth, ![c].nonce = nonces,
                      ![c].deadline = now + Lifetime]
        /\ UNCHANGED stats
     \/ /\ connection # "attached"
        /\ stats' = SwapDone(TRUE)
        /\ call' = [call EXCEPT ![c].pc = "done"]
  /\ UNCHANGED <<token, balance, connection, hookContract, fee, now, faults>>

-----------------------------------------------------------------------------
(* The transactions of EVMConnector *)

\* submitTTTRecord, mintTTT and swap up to the await of their gas estimate.
\* The first two need the attached contract, swap makes one of its own.
StartOp(c, kind) ==
  /\ call[c].pc = "start"
  /\ connection = "attached" \/ (kind = "swap" /\ connection = "connected")
  /\ call' = [call EXCEPT ![c].pc = "send", ![c].kind = kind]
  /\ UNCHANGED <<token, balance, connection, hookContract, stats, fee, now, faults>>

\* The estimate is an execution of the call, in burnTTT too, where ethers asks
\* for it; then the transaction is sent.
Send(c) ==
  /\ call[c].pc = "send"
  /\ Succeeds(call[c].kind, Id(c))
  /\ call' = [call EXCEPT ![c].pc = "wait", ![c].tx = "pending"]
  /\ UNCHANGED <<token, balance, connection, hookContract, stats, fee, now, faults>>

Mine(c) ==
  /\ call[c].tx = "pending"
  /\ \/ /\ Succeeds(call[c].kind, Id(c))
        /\ balance' = Effect(call[c].kind, Id(c))
        /\ call' = [call EXCEPT ![c].tx = "mined"]
     \/ /\ ~Succeeds(call[c].kind, Id(c))
        /\ call' = [call EXCEPT ![c].tx = "reverted"]
        /\ UNCHANGED balance
  /\ UNCHANGED <<token, connection, hookContract, stats, fee, now, faults>>

Drop(c) ==
  /\ call[c].tx = "pending"
  /\ call' = [call EXCEPT ![c].tx = "dropped"]
  /\ faults' = TRUE
  /\ UNCHANGED <<token, balance, connection, hookContract, stats, fee, now>>

\* tx.wait() resolves with a receipt
Receipt(c) ==
  /\ call[c].pc = "wait" /\ call[c].tx = "mined"
  /\ \/ /\ call[c].kind = "hook" /\ call[c].auth # "none"
        /\ call' = [call EXCEPT ![c].pc = "fee", ![c].feeTxs = 1]
        /\ UNCHANGED stats
     \/ /\ call[c].kind = "hook" /\ call[c].auth = "none"
        /\ stats' = SwapDone(FALSE)
        /\ call' = [call EXCEPT ![c].pc = "done"]
     \/ /\ call[c].kind # "hook"
        /\ call' = [call EXCEPT ![c].pc = "done"]
        /\ UNCHANGED stats
  /\ UNCHANGED <<token, balance, connection, hookContract, fee, now, faults>>

\* The estimate, the sending or the wait rejects: the call reverts, the RPC
\* fails or times out, or the provider is destroyed.  What was sent stays sent.
CallFails(c) ==
  /\ call[c].pc \in {"send", "wait"}
  /\ call' = [call EXCEPT ![c].pc = "failed"]
  /\ stats' = IF call[c].kind = "hook" THEN SwapDone(TRUE) ELSE stats
  /\ faults' = (faults \/ ~(\/ call[c].pc = "send" /\ ~Succeeds(call[c].kind, Id(c))
                            \/ call[c].tx = "reverted"))
  /\ UNCHANGED <<token, balance, connection, hookContract, fee, now>>

\* The collector answers or throws, which afterSwap swallows ...
FeeSettles(c) ==
  /\ call[c].pc = "fee"
  /\ call' = [call EXCEPT ![c].pc = "done"]
  /\ stats' = SwapDone(FALSE)
  /\ UNCHANGED <<token, balance, connection, hookContract, fee, now, faults>>

\* ... or, with its answer lost, submits the authorization again.
ResubmitFee(c) ==
  /\ call[c].pc = "fee" /\ call[c].feeTxs = 0
  /\ call' = [call EXCEPT ![c].feeTxs = 1]
  /\ UNCHANGED <<token, balance, connection, hookContract, stats, fee, now, faults>>

Tick ==
  /\ now < MaxTime
  /\ now' = now + 1
  /\ UNCHANGED <<token, balance, connection, hookContract, stats, call, fee, faults>>

\* disconnect, or the first half of a reconnect
Disconnect ==
  /\ connection # "down"
  /\ connection' = "down"
  /\ hookContract' = IF hookContract = "live" THEN "stale" ELSE hookContract
  /\ faults' = TRUE
  /\ UNCHANGED <<token, balance, stats, call, fee, now>>

\* connect, or the second half of a reconnect
Connect ==
  /\ connection = "down"
  /\ connection' = "connected"
  /\ UNCHANGED <<token, balance, hookContract, stats, call, fee, now, faults>>

\* attachContract
Attach ==
  /\ connection = "connected"
  /\ connection' = "attached"
  /\ UNCHANGED <<token, balance, hookContract, stats, call, fee, now, faults>>

SwapNext ==
  \/ \E c \in Swaps : \/ beforeSwap(c) \/ BalanceRead(c) \/ BalanceFails(c)
                      \/ \E auth \in Auths : afterSwap(c, auth)
                      \/ collectFee(c) \/ FeeSettles(c) \/ ResubmitFee(c)
  \/ \E c \in Ops, kind \in Kinds : StartOp(c, kind)
  \/ \E c \in Swaps \cup Ops : Send(c) \/ Mine(c) \/ Drop(c) \/ Receipt(c) \/ CallFails(c)
  \/ \E r \in Recipients : setFeeRecipient(r)
  \/ Tick \/ Disconnect \/ Connect \/ Attach

SwapSpec == SwapInit /\ [][SwapNext]_swapVars

-----------------------------------------------------------------------------
(* Properties *)

\* What the hook's counters stand for: the burns it made on the chain
HookBurns == {c \in Swaps : call[c].tx = "mined"}

SwapTypeOK ==
  /\ balance \in [TokenIds -> Nat] /\ hookContract \in {"none", "live", "stale"}
  /\ \A c \in Swaps \cup Ops :
       /\ call[c].pc \in {"start", "balance", "checked", "send", "wait", "fee", "done", "failed"}
       /\ call[c].tx \in {"none", "pending", "mined", "reverted", "dropped"}
  /\ stats.failedBurns <= stats.totalSwaps
  /\ nonces \in 0..Funds /\ feeRecipient \in Recipients

\* An authorization is charged at most once, however its submissions race with
\* one another, with other swaps that were signed for the same nonce and with a
\* change of the recipient, never without the burn of its swap being mined, and
\* the recipients have received exactly what the payers' nonces account for.
ChargedOnce ==
  /\ \A c \in Swaps : charged[c] <= 1 /\ (charged[c] = 1 => call[c].tx = "mined")
  /\ SumFunction(received) = nonces
  /\ SumFunction(charged) = nonces

\* The hook never reports a burn that did not happen: whatever fails, drops,
\* reverts or reconnects, the swaps it does not count under failedBurns have
\* their burn on the chain.  (A burn it does count may still be mined later.)
ReportedBurnsHappened ==
  stats.totalSwaps - stats.failedBurns <= Cardinality(HookBurns)

\* What beforeSwap says of itself, "Check TTT balance and deduct fees before a
\* swap": with no RPC failure and no call under way, the fees the statistics
\* say were collected have been burned.
FeesDeducted ==
  (~faults /\ \A c \in Swaps : call[c].pc \in {"start", "done", "failed"})
     => stats.totalFeesCollected <= Cardinality(HookBurns)
=============================================================================
