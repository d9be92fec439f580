---------------------------- MODULE ChainProofs -----------------------------
(***************************************************************************)
(* Proofs about EVMConnector, for any number of overlapping calls, of      *)
(* fallback urls and of providers; about SwapClient, for any finite set of *)
(* swaps, any other calls and any finite set of recipients of the fee; and *)
(* about SwapStats, for logs of any length, any number of days and hours,  *)
(* any fee configurations and any number of cycles of the bot.             *)
(***************************************************************************)
EXTENDS EVMConnector, SwapClient, SwapStats, SharedLemmas

\* What attaching a contract relies on: the signer talks through a provider
\* that is not destroyed.
SignerUsable == signer # 0 => signer \in alive \cup {Own}

UsableInv == SignerUsable /\ AttachedUsable

-----------------------------------------------------------------------------
(* Listeners *)

\* A subscription registers one listener for an event.
LEMMA HandlersUnique ==
  ASSUME NEW events, NEW l \in Handlers(events), NEW m \in Handlers(events),
         l.event = m.event
  PROVE  l = m
  BY DEF Handlers

\* In every behaviour the listeners registered on contracts are those that
\* unsubscribeAll knows, one for an event at most.
THEOREM ListenersAreTracked == Spec => []ListenersTracked
<1>1. Init => ListenersTracked
  BY DEF Init, ListenersTracked
<1>2. ListenersTracked /\ [Next]_vars => ListenersTracked'
  <2> SUFFICES ASSUME ListenersTracked, [Next]_vars PROVE ListenersTracked'
    OBVIOUS
  <2>1. CASE unsubscribeAll
    BY <2>1 DEF unsubscribeAll, ListenersTracked
  <2>2. CASE UNCHANGED <<eventListeners, registered>>
    BY <2>2 DEF ListenersTracked
  <2>3. ASSUME NEW events \in SUBSET Events, subscribeToEvents(events)
        PROVE  ListenersTracked'
    <3>1. registered' = Handlers(events) /\ eventListeners' = Handlers(events)
      BY <2>3 DEF subscribeToEvents, ListenersTracked
    <3>2. QED
      BY <3>1, HandlersUnique DEF ListenersTracked
  <2>4. ASSUME NEW t \in Tasks,
               NetworkAnswers(t) \/ NetworkFails(t) \/ \E key : connect(t, key)
        PROVE  UNCHANGED <<eventListeners, registered>>
    BY <2>4 DEF connect, NetworkAnswers, NetworkFails
  <2>5. ASSUME NEW t \in Tasks, reconnect(t) PROVE unsubscribeAll
    BY <2>5 DEF reconnect
  <2>6. disconnect \/ reconnectBadKey \/ Unsubscribe => unsubscribeAll
    BY DEF disconnect, reconnectBadKey, Unsubscribe
  <2>7. attachContract \/ attachProtocolFeeContract \/ UNCHANGED vars
          => UNCHANGED <<eventListeners, registered>>
    BY DEF attachContract, attachProtocolFeeContract, vars
  <2>8. ASSUME NEW n, connectBadKey(n) PROVE UNCHANGED <<eventListeners, registered>>
    BY <2>8 DEF connectBadKey
  <2>9. QED
    BY <2>1, <2>2, <2>3, <2>4, <2>5, <2>6, <2>7, <2>8 DEF Next
<1>3. QED
  BY <1>1, <1>2, PTL DEF Spec

-----------------------------------------------------------------------------
(* Contracts *)

\* Opening a provider never takes one away, and the new signer is on it.
LEMMA DialKeepsUsable ==
  ASSUME UsableInv, NEW t, NEW op, NEW key, NEW left, Dial(t, op, key, left),
         alive' = alive \cup {created'},
         UNCHANGED <<tttContract, protocolFeeContract>>
  PROVE  UsableInv'
  BY DEF UsableInv, SignerUsable, AttachedUsable, Dial

\* In every behaviour an attached contract is on a provider that is not
\* destroyed, for any interleaving of connects, reconnects and disconnects.
THEOREM ContractsStayUsable == Spec => []AttachedUsable
<1>1. Init => UsableInv
  BY DEF Init, UsableInv, SignerUsable, AttachedUsable
<1>2. UsableInv /\ [Next]_vars => UsableInv'
  <2> SUFFICES ASSUME UsableInv, [Next]_vars PROVE UsableInv'
    OBVIOUS
  <2>1. ASSUME NEW t \in Tasks, NEW key, connect(t, key) PROVE UsableInv'
    BY <2>1, DialKeepsUsable DEF connect
  <2>2. ASSUME NEW n, connectBadKey(n) PROVE UsableInv'
    BY <2>2 DEF connectBadKey, UsableInv, SignerUsable, AttachedUsable
  <2>3. ASSUME NEW t \in Tasks, NetworkAnswers(t) PROVE UsableInv'
    BY <2>3 DEF NetworkAnswers, UsableInv, SignerUsable, AttachedUsable
  <2>4. ASSUME NEW t \in Tasks, NetworkFails(t) PROVE UsableInv'
    <3>1. ASSUME NEW key, Dial(t, task[t].op, key, task[t].left - 1),
                 alive' = alive \cup {created'}
          PROVE  UsableInv'
      BY <2>4, <3>1, DialKeepsUsable DEF NetworkFails
    <3>2. CASE alive \subseteq alive' /\ UNCHANGED signer
      BY <2>4, <3>2 DEF NetworkFails, UsableInv, SignerUsable, AttachedUsable
    <3>3. QED
      BY <2>4, <3>1, <3>2 DEF NetworkFails
  <2>5. ASSUME NEW t \in Tasks, reconnect(t) PROVE UsableInv'
    BY <2>5 DEF reconnect, Dial, Detach, UsableInv, SignerUsable, AttachedUsable
  <2>6. CASE disconnect
    BY <2>6 DEF disconnect, Detach, UsableInv, SignerUsable, AttachedUsable
  <2>7. CASE attachContract
    BY <2>7 DEF attachContract, NewContract, UsableInv, SignerUsable, AttachedUsable
  <2>8. CASE attachProtocolFeeContract
    BY <2>8 DEF attachProtocolFeeContract, NewContract, UsableInv, SignerUsable,
                AttachedUsable
  <2>9. ASSUME NEW events \in SUBSET Events, subscribeToEvents(events) PROVE UsableInv'
    BY <2>9 DEF subscribeToEvents, UsableInv, SignerUsable, AttachedUsable
  <2>10. CASE Unsubscribe
    BY <2>10 DEF Unsubscribe, UsableInv, SignerUsable, AttachedUsable
  <2>11. CASE UNCHANGED vars
    BY <2>11 DEF vars, UsableInv, SignerUsable, AttachedUsable
  <2>12. CASE reconnectBadKey
    BY <2>12 DEF reconnectBadKey, Detach, UsableInv, SignerUsable, AttachedUsable
  <2>13. QED
    BY <2>1, <2>2, <2>3, <2>4, <2>5, <2>6, <2>7, <2>8, <2>9, <2>10, <2>11, <2>12 DEF Next
<1>3. UsableInv => AttachedUsable
  BY DEF UsableInv
<1>4. QED
  BY <1>1, <1>2, <1>3, PTL DEF Spec

-----------------------------------------------------------------------------
(* Types *)

\* Where a call may be when n providers were made
Positions(n) ==
  [op : {"idle", "connect", "reconnect"}, key : {"none", "good", "own"},
   provider : 0..n, left : 0..Fallbacks]

\* The counters of what was made so far only grow.
CountersGrow ==
  /\ created' \in 0..MaxProviders /\ created <= created'
  /\ contracts' \in 0..MaxContracts /\ contracts <= contracts'
  /\ subscriptions' \in 0..MaxSubscriptions /\ subscriptions <= subscriptions'

\* What was of its type stays so when there are more providers, contracts and
\* subscriptions.
LEMMA TypesGrow ==
  ASSUME TypeOK, CountersGrow
  PROVE  /\ Contracts \subseteq Contracts' /\ NoContract \in Contracts'
         /\ Listeners \subseteq Listeners'
         /\ task \in [Tasks -> Positions(created')] /\ Idle \in Positions(created')
<1>1. /\ created \in Nat /\ contracts \in Nat /\ subscriptions \in Nat
      /\ created' \in Nat /\ contracts' \in Nat /\ subscriptions' \in Nat
      /\ created <= created' /\ contracts <= contracts'
      /\ subscriptions <= subscriptions'
  BY ConnectorAssumption DEF TypeOK, CountersGrow
<1>2. /\ 0..created \subseteq 0..created' /\ Own..created \subseteq Own..created'
      /\ 0..contracts \subseteq 0..contracts'
      /\ 1..subscriptions \subseteq 1..subscriptions'
      /\ 0 \in 0..contracts' /\ 0 \in Own..created' /\ 0 \in 0..created'
  BY <1>1 DEF Own
<1>3. Contracts \subseteq Contracts' /\ NoContract \in Contracts'
  BY <1>2 DEF Contracts, NoContract
<1>4. Listeners \subseteq Listeners'
  BY <1>2, <1>3 DEF Listeners
<1>5. task \in [Tasks -> Positions(created')]
  <2>1. task \in [Tasks -> Positions(created)]
    BY DEF TypeOK, Positions
  <2>2. Positions(created) \subseteq Positions(created')
    BY <1>2 DEF Positions
  <2> QED
    BY <2>1, <2>2
<1>6. Idle \in Positions(created')
  <2>1. 0 \in 0..Fallbacks
    BY ConnectorAssumption
  <2> QED
    BY <1>2, <2>1 DEF Idle, Positions
<1> QED
  BY <1>3, <1>4, <1>5, <1>6

\* What a step has to show for the connection, the contracts and the listeners
\* to keep their types
LEMMA TypesKept ==
  ASSUME TypeOK, CountersGrow,
         provider' \in {0, provider, created'},
         signer' \in {0, Own, signer, created'},
         tttContract' \in {tttContract, NoContract} \cup Contracts',
         protocolFeeContract' \in {protocolFeeContract, NoContract} \cup Contracts',
         alive' \subseteq alive \cup (created + 1)..created',
         registered' \subseteq registered \cup Listeners',
         eventListeners' \subseteq eventListeners \cup Listeners',
         connected' \in BOOLEAN,
         credentials' \in {credentials, "good", "bad", "own"},
         task' \in [Tasks -> Positions(created')]
  PROVE  TypeOK'
<1>1. /\ created \in Nat /\ created' \in Nat /\ created <= created'
      /\ provider \in 0..created /\ signer \in Own..created
      /\ alive \subseteq 1..created
  BY ConnectorAssumption DEF TypeOK, CountersGrow
<1>2. provider' \in 0..created' /\ signer' \in Own..created'
  BY <1>1 DEF Own
<1>3. alive' \subseteq 1..created'
  BY <1>1
<1>4. /\ Contracts \subseteq Contracts' /\ NoContract \in Contracts'
      /\ Listeners \subseteq Listeners'
  BY TypesGrow
<1>5. tttContract' \in Contracts' /\ protocolFeeContract' \in Contracts'
  <2>1. tttContract \in Contracts /\ protocolFeeContract \in Contracts
    BY DEF TypeOK
  <2> QED
    BY <1>4, <2>1
<1>6. registered' \subseteq Listeners' /\ eventListeners' \subseteq Listeners'
  <2>1. registered \subseteq Listeners /\ eventListeners \subseteq Listeners
    BY DEF TypeOK
  <2> QED
    BY <1>4, <2>1
<1>7. credentials' \in {"none", "good", "bad", "own"}
  BY DEF TypeOK
<1>8. /\ created' \in 0..MaxProviders
      /\ contracts' \in 0..MaxContracts /\ subscriptions' \in 0..MaxSubscriptions
  BY DEF CountersGrow
<1> QED
  BY <1>2, <1>3, <1>5, <1>6, <1>7, <1>8 DEF TypeOK, Positions

\* A call that waits for its new provider
LEMMA DialTyped ==
  ASSUME TypeOK, NEW t \in Tasks, NEW op \in {"connect", "reconnect"},
         NEW key \in {"none", "good", "own"}, NEW left \in 0..Fallbacks,
         Dial(t, op, key, left), UNCHANGED <<contracts, subscriptions>>
  PROVE  /\ CountersGrow /\ created' \in (created + 1)..created'
         /\ provider' = created' /\ signer' \in {Own, created'}
         /\ task' \in [Tasks -> Positions(created')]
<1>1. created' = created + 1 /\ created < MaxProviders
  BY DEF Dial
<1>2. CountersGrow /\ created' \in (created + 1)..created' /\ created' \in 0..created'
  BY <1>1, ConnectorAssumption DEF TypeOK, CountersGrow
<1>3. task \in [Tasks -> Positions(created')]
  BY <1>2, TypesGrow
<1>4. [op |-> op, key |-> key, provider |-> created', left |-> left]
        \in Positions(created')
  BY <1>2 DEF Positions
<1>5. task' \in [Tasks -> Positions(created')]
  BY <1>3, <1>4 DEF Dial
<1> QED
  BY <1>2, <1>5 DEF Dial

\* Providers made in vain
LEMMA DialInVainTyped ==
  ASSUME TypeOK, NEW n \in Nat, DialInVain(n),
         UNCHANGED <<contracts, subscriptions>>
  PROVE  CountersGrow /\ provider' = created'
BY ConnectorAssumption DEF TypeOK, CountersGrow, DialInVain

LEMMA HandlersTyped ==
  ASSUME TypeOK, NEW events \in SUBSET Events, subscribeToEvents(events)
  PROVE  CountersGrow /\ Handlers(events) \subseteq Listeners'
<1>1. /\ CountersGrow /\ contracts' = contracts
      /\ subscriptions' = subscriptions + 1 /\ subscriptions + 1 \in 1..subscriptions'
  BY ConnectorAssumption DEF TypeOK, CountersGrow, subscribeToEvents
<1>2. \A e \in Events : ContractOf(e) \in Contracts'
  <2>1. tttContract \in Contracts' /\ protocolFeeContract \in Contracts'
    BY <1>1, TypesGrow DEF TypeOK
  <2> QED
    BY <2>1 DEF ContractOf
<1>3. ASSUME NEW l \in Handlers(events) PROVE l \in Listeners'
  <2>1. PICK e \in events :
          l = [event |-> e, contract |-> ContractOf(e), sub |-> subscriptions + 1]
    BY DEF Handlers
  <2> QED
    BY <1>1, <1>2, <2>1 DEF Listeners
<1> QED
  BY <1>1, <1>3

\* One more Contract object
LEMMA NewContractTyped ==
  ASSUME TypeOK, contracts' = contracts + 1, contracts < MaxContracts,
         UNCHANGED <<created, subscriptions>>
  PROVE  CountersGrow /\ NewContract \in Contracts'
<1>1. contracts \in Nat /\ MaxContracts \in Nat /\ signer \in Own..created
  BY ConnectorAssumption DEF TypeOK
<1>2. contracts + 1 \in 0..contracts'
  BY <1>1
<1>3. NewContract \in Contracts'
  BY <1>1, <1>2 DEF NewContract, Contracts
<1>4. CountersGrow
  BY <1>1, ConnectorAssumption DEF TypeOK, CountersGrow
<1> QED
  BY <1>3, <1>4

\* The connector keeps its types for all constants; a call never has more urls
\* left than there are fallbacks.
THEOREM TypeCorrect == Spec => []TypeOK
<1> USE ConnectorAssumption
<1>1. Init => TypeOK
  <2> SUFFICES ASSUME Init PROVE TypeOK
    OBVIOUS
  <2>1. Idle \in Positions(0)
    BY DEF Idle, Positions
  <2>2. task \in [Tasks -> Positions(0)]
    BY <2>1 DEF Init
  <2>3. /\ created = 0 /\ contracts = 0 /\ subscriptions = 0
        /\ 0 \in 0..0 /\ 0 \in 0..MaxProviders /\ 0 \in 0..MaxContracts
        /\ 0 \in 0..MaxSubscriptions /\ 0 \in Own..0
    BY DEF Init, Own
  <2>4. NoContract \in Contracts
    BY <2>3 DEF NoContract, Contracts
  <2> QED
    BY <2>2, <2>3, <2>4 DEF Init, TypeOK, Positions
<1>2. TypeOK /\ [Next]_vars => TypeOK'
  <2> SUFFICES ASSUME TypeOK, [Next]_vars PROVE TypeOK'
    OBVIOUS
  <2>1. connected \in BOOLEAN
    BY DEF TypeOK
  <2>2. ASSUME NEW t \in Tasks, NEW key \in {"good", "own"}, connect(t, key)
        PROVE  TypeOK'
    <3>1. /\ Dial(t, "connect", key, Fallbacks) /\ Fallbacks \in 0..Fallbacks
          /\ alive' = alive \cup {created'} /\ credentials' = key
          /\ UNCHANGED <<tttContract, protocolFeeContract, connected,
                         eventListeners, registered, contracts, subscriptions>>
      BY <2>2 DEF connect
    <3>2. /\ CountersGrow /\ created' \in (created + 1)..created'
          /\ provider' = created' /\ signer' \in {Own, created'}
          /\ task' \in [Tasks -> Positions(created')]
      BY <3>1, DialTyped
    <3>3. alive' \subseteq alive \cup (created + 1)..created'
      BY <3>1, <3>2
    <3> QED
      BY <2>1, <3>1, <3>2, <3>3, TypesKept
  <2>3. ASSUME NEW n \in {1, 1 + Fallbacks}, connectBadKey(n) PROVE TypeOK'
    <3>1. /\ n \in Nat /\ DialInVain(n) /\ credentials' = "bad"
          /\ alive' = alive \cup (created + 1)..created'
          /\ UNCHANGED <<signer, tttContract, protocolFeeContract, connected,
                         eventListeners, registered, contracts, subscriptions, task>>
      BY <2>3 DEF connectBadKey
    <3>2. CountersGrow /\ provider' = created'
      BY <3>1, DialInVainTyped
    <3>3. task' \in [Tasks -> Positions(created')]
      BY <3>1, <3>2, TypesGrow
    <3> QED
      BY <2>1, <3>1, <3>2, <3>3, TypesKept
  <2>4. ASSUME UNCHANGED <<created, contracts, subscriptions>> PROVE CountersGrow
    BY <2>4 DEF TypeOK, CountersGrow
  <2>5. ASSUME NEW t \in Tasks, NetworkAnswers(t) PROVE TypeOK'
    <3>1. /\ connected' = TRUE /\ task' = [task EXCEPT ![t] = Idle]
          /\ UNCHANGED <<provider, signer, tttContract, protocolFeeContract, credentials,
                 eventListeners, registered, alive, created, contracts, subscriptions>>
      BY <2>5 DEF NetworkAnswers
    <3>2. CountersGrow
      BY <2>4, <3>1
    <3>3. task' \in [Tasks -> Positions(created')]
      BY <3>1, <3>2, TypesGrow
    <3> QED
      BY <3>1, <3>2, <3>3, TypesKept
  <2>6. ASSUME NEW t \in Tasks, NetworkFails(t) PROVE TypeOK'
    <3>1. /\ UNCHANGED <<tttContract, protocolFeeContract, credentials,
                         eventListeners, registered, contracts, subscriptions>>
          /\ task[t] # Idle
      BY <2>6 DEF NetworkFails
    <3>2. task[t] \in Positions(created)
      BY DEF TypeOK, Positions
    <3> DEFINE key == IF task[t].op = "reconnect" THEN StoredKey ELSE task[t].key
    <3>3. CASE /\ task[t].left > 0
               /\ Dial(t, task[t].op, key, task[t].left - 1)
               /\ alive' = alive \cup {created'} /\ UNCHANGED connected
      <4>1. task[t].left - 1 \in 0..Fallbacks
        BY <3>2, <3>3 DEF Positions
      <4>2. key \in {"none", "good", "own"}
        BY <3>2 DEF Positions, StoredKey
      <4> HIDE DEF key
      <4>3. created' = created + 1 /\ created < MaxProviders
            /\ provider' = created' /\ signer' \in {Own, created'}
            /\ task' = [task EXCEPT ![t] =
                 [op |-> task[t].op, key |-> key, provider |-> created',
                  left |-> task[t].left - 1]]
        BY <3>3 DEF Dial
      <4>4. CountersGrow /\ created' \in (created + 1)..created' /\ created' \in 0..created'
        BY <3>1, <4>3 DEF TypeOK, CountersGrow
      <4>5. [op |-> task[t].op, key |-> key, provider |-> created',
             left |-> task[t].left - 1] \in Positions(created')
        BY <3>2, <4>1, <4>2, <4>4 DEF Positions
      <4>6. task' \in [Tasks -> Positions(created')]
        BY <4>3, <4>4, <4>5, TypesGrow
      <4>7. alive' \subseteq alive \cup (created + 1)..created'
        BY <3>3, <4>4
      <4>8. connected' \in BOOLEAN
        BY <2>1, <3>3
      <4> QED
        BY <3>1, <4>3, <4>4, <4>6, <4>7, <4>8, TypesKept
    <3>4. CASE /\ connected' = (connected /\ task[t].op = "connect")
               /\ task' = [task EXCEPT ![t] = Idle]
               /\ UNCHANGED <<provider, signer, alive, created>>
      <4>1. CountersGrow
        BY <2>4, <3>1, <3>4
      <4>2. task' \in [Tasks -> Positions(created')]
        BY <3>4, <4>1, TypesGrow
      <4>3. connected' \in BOOLEAN
        BY <3>4
      <4> QED
        BY <3>1, <3>4, <4>1, <4>2, <4>3, TypesKept
    <3>5. CASE /\ task[t].left > 0 /\ DialInVain(task[t].left)
               /\ alive' = alive \cup (created + 1)..created' /\ connected' = FALSE
               /\ task' = [task EXCEPT ![t] = Idle] /\ UNCHANGED signer
      <4>1. task[t].left \in Nat
        BY <3>2 DEF Positions
      <4>2. CountersGrow /\ provider' = created'
        BY <3>1, <3>5, <4>1, DialInVainTyped
      <4>3. task' \in [Tasks -> Positions(created')]
        BY <3>5, <4>2, TypesGrow
      <4> QED
        BY <3>1, <3>5, <4>2, <4>3, TypesKept
    <3> HIDE DEF key
    <3>6. QED
      BY <2>6, <3>3, <3>4, <3>5 DEF NetworkFails, key
  <2>7. ASSUME unsubscribeAll, Detach
        PROVE  /\ registered' \subseteq registered /\ eventListeners' = {}
               /\ tttContract' = NoContract /\ protocolFeeContract' = NoContract
    BY <2>7 DEF unsubscribeAll, Detach
  <2>8. ASSUME NEW t \in Tasks, reconnect(t) PROVE TypeOK'
    <3>1. Attempts - 1 \in 0..Fallbacks
      BY DEF Attempts, Lesser
    <3>2. StoredKey \in {"none", "good", "own"}
      BY DEF StoredKey
    <3>3. /\ Dial(t, "reconnect", StoredKey, Attempts - 1)
          /\ unsubscribeAll /\ Detach /\ connected' = FALSE
          /\ alive' = (alive \ {provider}) \cup {created'}
          /\ UNCHANGED <<credentials, contracts, subscriptions>>
      BY <2>8 DEF reconnect
    <3>4. /\ CountersGrow /\ created' \in (created + 1)..created'
          /\ provider' = created' /\ signer' \in {Own, created'}
          /\ task' \in [Tasks -> Positions(created')]
      BY <3>1, <3>2, <3>3, DialTyped
    <3>5. alive' \subseteq alive \cup (created + 1)..created'
      BY <3>3, <3>4
    <3> QED
      BY <2>7, <3>3, <3>4, <3>5, TypesKept
  <2>9. CASE disconnect
    <3>1. /\ unsubscribeAll /\ Detach
          /\ provider' = 0 /\ signer' = 0 /\ connected' = FALSE
          /\ alive' = alive \ {provider}
          /\ UNCHANGED <<credentials, created, contracts, subscriptions, task>>
      BY <2>9 DEF disconnect
    <3>2. CountersGrow
      BY <2>4, <3>1
    <3>3. task' \in [Tasks -> Positions(created')]
      BY <3>1, <3>2, TypesGrow
    <3> QED
      BY <2>7, <3>1, <3>2, <3>3, TypesKept
  <2>10. CASE attachContract
    <3>1. /\ CountersGrow /\ tttContract' \in Contracts'
          /\ UNCHANGED <<provider, signer, protocolFeeContract, connected, credentials,
                         eventListeners, registered, alive, task>>
      BY <2>10, NewContractTyped DEF attachContract
    <3>2. task' \in [Tasks -> Positions(created')]
      BY <3>1, TypesGrow
    <3> QED
      BY <2>1, <3>1, <3>2, TypesKept
  <2>11. CASE attachProtocolFeeContract
    <3>1. /\ CountersGrow /\ protocolFeeContract' \in Contracts'
          /\ UNCHANGED <<provider, signer, tttContract, connected, credentials,
                         eventListeners, registered, alive, task>>
      BY <2>11, NewContractTyped DEF attachProtocolFeeContract
    <3>2. task' \in [Tasks -> Positions(created')]
      BY <3>1, TypesGrow
    <3> QED
      BY <2>1, <3>1, <3>2, TypesKept
  <2>12. ASSUME NEW events \in SUBSET Events, subscribeToEvents(events) PROVE TypeOK'
    <3>1. CountersGrow /\ Handlers(events) \subseteq Listeners'
      BY <2>12, HandlersTyped
    <3>2. /\ registered' = (registered \ eventListeners) \cup Handlers(events)
          /\ eventListeners' = Handlers(events)
          /\ UNCHANGED <<provider, signer, tttContract, protocolFeeContract, connected,
                         credentials, alive, task>>
      BY <2>12 DEF subscribeToEvents
    <3>3. /\ registered' \subseteq registered \cup Listeners'
          /\ eventListeners' \subseteq eventListeners \cup Listeners'
      BY <3>1, <3>2
    <3>4. task' \in [Tasks -> Positions(created')]
      BY <3>1, <3>2, TypesGrow
    <3> QED
      BY <2>1, <3>1, <3>2, <3>3, <3>4, TypesKept
  <2>13. CASE Unsubscribe
    BY <2>13 DEF Unsubscribe, unsubscribeAll, TypeOK, Contracts, Listeners
  <2>14. CASE UNCHANGED vars
    BY <2>14 DEF vars, TypeOK, Contracts, Listeners
  <2>15. CASE reconnectBadKey
    <3>1. Attempts \in Nat
      BY DEF Attempts, Lesser
    <3>2. /\ DialInVain(Attempts) /\ unsubscribeAll /\ Detach
          /\ connected' = FALSE /\ signer' = 0
          /\ alive' = (alive \ {provider}) \cup (created + 1)..created'
          /\ UNCHANGED <<credentials, contracts, subscriptions, task>>
      BY <2>15 DEF reconnectBadKey
    <3>3. CountersGrow /\ provider' = created'
      BY <3>1, <3>2, DialInVainTyped
    <3>4. task' \in [Tasks -> Positions(created')]
      BY <3>2, <3>3, TypesGrow
    <3> QED
      BY <2>7, <3>2, <3>3, <3>4, TypesKept
  <2>16. QED
    BY <2>2, <2>3, <2>5, <2>6, <2>8, <2>9, <2>10, <2>11, <2>12, <2>13, <2>14, <2>15
       DEF Next
<1>3. QED
  BY <1>1, <1>2, PTL DEF Spec

-----------------------------------------------------------------------------
(***************************************************************************)
(* SwapClient.                                                             *)
(***************************************************************************)

SwapCall ==
  [pc : {"start", "balance", "checked", "send", "wait", "fee", "done", "failed"},
   kind : {"hook"} \cup Kinds,
   tx : {"none", "pending", "mined", "reverted", "dropped"},
   auth : Auths, nonce : Nat, deadline : Nat, feeTxs : Nat]

ClientTypes ==
  /\ token \in {"TTT", "TTTToken"}
  /\ balance \in [TokenIds -> Nat]
  /\ hookContract \in {"none", "live", "stale"}
  /\ stats \in [totalSwaps : Nat, totalFeesCollected : Nat, failedBurns : Nat]
  /\ call \in [Swaps \cup Ops -> SwapCall]
  /\ nonces \in 0..Funds /\ feeRecipient \in Recipients
  /\ now \in Nat
  /\ charged \in [Swaps -> Nat]

\* What a call has done by the time it is where it is: a transaction only after
\* it was sent, a fee only after the burn was mined.
CallOrder(c, k) ==
  /\ c \in Swaps => k.kind = "hook"
  /\ c \in Ops /\ k.pc # "start" => k.kind \in Kinds
  /\ k.pc \in {"start", "balance", "checked", "send"} => k.tx = "none"
  /\ k.pc = "fee" => k.tx = "mined"
  /\ k.pc = "done" => k.tx \in {"none", "mined"}
  /\ k.feeTxs > 0 => k.pc \in {"fee", "done"} /\ k.tx = "mined"

\* An authorization that was charged is behind the nonce of its payer.
FeeInv(c) ==
  charged[c] > 0 =>
    /\ charged[c] = 1
    /\ call[c].nonce < nonces
    /\ call[c].pc \in {"fee", "done"} /\ call[c].tx = "mined"

Settled(k) == k.pc = "done" /\ k.tx = "mined"

Confirmed == {c \in Swaps : Settled(call[c])}

ClientInv ==
  /\ ClientTypes
  /\ \A c \in Swaps \cup Ops : CallOrder(c, call[c])
  /\ \A c \in Swaps : FeeInv(c)
  /\ stats.totalSwaps - stats.failedBurns = Cardinality(Confirmed)

\* The types of everything but the calls
OtherTypes ==
  /\ token \in {"TTT", "TTTToken"}
  /\ balance \in [TokenIds -> Nat]
  /\ hookContract \in {"none", "live", "stale"}
  /\ stats \in [totalSwaps : Nat, totalFeesCollected : Nat, failedBurns : Nat]
  /\ nonces \in 0..Funds /\ feeRecipient \in Recipients
  /\ now \in Nat
  /\ charged \in [Swaps -> Nat]

\* A step of one call that leaves the fees alone keeps the invariant if the
\* call keeps its order, an authorization that was charged stays behind, and
\* the counters move by one exactly when the call becomes a confirmed swap.
LEMMA CallStep ==
  ASSUME ClientInv, NEW c \in Swaps \cup Ops, NEW next \in SwapCall,
         call' = [call EXCEPT ![c] = next],
         OtherTypes', UNCHANGED <<nonces, charged>>,
         CallOrder(c, next),
         c \in Swaps /\ charged[c] > 0 =>
           /\ next.nonce = call[c].nonce
           /\ next.pc \in {"fee", "done"} /\ next.tx = "mined",
         \/ /\ c \in Swaps => (Settled(next) <=> Settled(call[c]))
            /\ stats'.totalSwaps - stats'.failedBurns =
                 stats.totalSwaps - stats.failedBurns
         \/ /\ c \in Swaps /\ Settled(next) /\ ~Settled(call[c])
            /\ stats'.totalSwaps - stats'.failedBurns =
                 stats.totalSwaps - stats.failedBurns + 1
  PROVE  ClientInv'
<1>1. call \in [Swaps \cup Ops -> SwapCall]
  BY DEF ClientInv, ClientTypes
<1>2. /\ call' \in [Swaps \cup Ops -> SwapCall]
      /\ \A d \in Swaps \cup Ops : call'[d] = IF d = c THEN next ELSE call[d]
  BY <1>1
<1>3. ClientTypes'
  BY <1>2 DEF ClientTypes, OtherTypes
<1>4. \A d \in Swaps \cup Ops : CallOrder(d, call'[d])
  BY <1>2 DEF ClientInv
<1>5. \A d \in Swaps : FeeInv(d)'
  BY <1>2 DEF ClientInv, FeeInv
<1>7. IsFiniteSet(Confirmed) /\ Cardinality(Confirmed) \in Nat
  <2>1. IsFiniteSet(Confirmed)
    BY ClientAssumption, FS_Subset DEF Confirmed
  <2> QED
    BY <2>1, FS_CardinalityType
<1>8. stats'.totalSwaps - stats'.failedBurns = Cardinality(Confirmed')
  <2>1. CASE /\ c \in Swaps => (Settled(next) <=> Settled(call[c]))
             /\ stats'.totalSwaps - stats'.failedBurns =
                  stats.totalSwaps - stats.failedBurns
    <3>1. Confirmed' = Confirmed
      BY <1>2, <2>1 DEF Confirmed
    <3> QED
      BY <2>1, <3>1 DEF ClientInv
  <2>2. CASE /\ c \in Swaps /\ Settled(next) /\ ~Settled(call[c])
             /\ stats'.totalSwaps - stats'.failedBurns =
                  stats.totalSwaps - stats.failedBurns + 1
    <3>1. Confirmed' = Confirmed \cup {c} /\ c \notin Confirmed
      BY <1>2, <2>2 DEF Confirmed
    <3>2. Cardinality(Confirmed \cup {c}) = Cardinality(Confirmed) + 1
      BY <1>7, <3>1, FS_AddElement
    <3> QED
      BY <2>2, <3>1, <3>2 DEF ClientInv
  <2> QED
    BY <2>1, <2>2
<1> QED
  BY <1>3, <1>4, <1>5, <1>8 DEF ClientInv

\* The parts of the invariant that a step of one call starts from.
LEMMA CallFacts ==
  ASSUME ClientInv, NEW c \in Swaps \cup Ops
  PROVE  /\ OtherTypes /\ call[c] \in SwapCall /\ CallOrder(c, call[c])
         /\ c \in Swaps => FeeInv(c)
         /\ c \in Ops => c \notin Swaps
  BY ClientAssumption DEF ClientInv, ClientTypes, OtherTypes

\* beforeSwap and its read of the balance
LEMMA BeforeSwapKeeps ==
  ASSUME ClientInv, NEW c \in Swaps,
         beforeSwap(c) \/ BalanceRead(c) \/ BalanceFails(c)
  PROVE  ClientInv'
<1>1. PICK pc \in {"start", "balance", "checked"} :
        call' = [call EXCEPT ![c].pc = pc]
  BY DEF beforeSwap, BalanceRead, BalanceFails
<1> DEFINE next == [call[c] EXCEPT !.pc = pc]
<1>2. /\ call[c] \in SwapCall /\ CallOrder(c, call[c]) /\ OtherTypes /\ FeeInv(c)
  BY CallFacts
<1>3. call[c].pc \in {"start", "balance"}
  BY DEF beforeSwap, BalanceRead, BalanceFails
<1>4. /\ next \in SwapCall /\ next.pc = pc /\ next.tx = call[c].tx
      /\ next.kind = call[c].kind /\ next.feeTxs = call[c].feeTxs
      /\ call' = [call EXCEPT ![c] = next]
  BY <1>1, <1>2 DEF SwapCall
<1> HIDE DEF next
<1>5. CallOrder(c, next) /\ ~Settled(next) /\ ~Settled(call[c])
  BY <1>2, <1>3, <1>4, ClientAssumption DEF CallOrder, Settled, SwapCall
<1>6. /\ UNCHANGED <<nonces, charged, feeRecipient, now, token, balance>>
      /\ hookContract' \in {"none", "live", "stale"}
  BY <1>2 DEF beforeSwap, BalanceRead, BalanceFails, fee, OtherTypes
<1>7. /\ stats' \in [totalSwaps : Nat, totalFeesCollected : Nat, failedBurns : Nat]
      /\ stats'.totalSwaps = stats.totalSwaps
      /\ stats'.failedBurns = stats.failedBurns
  <2>1. stats' \in {stats, [stats EXCEPT !.totalFeesCollected = @ + 1]}
    BY DEF beforeSwap, BalanceRead, BalanceFails
  <2> QED
    BY <1>2, <2>1 DEF OtherTypes
<1>8. OtherTypes'
  BY <1>2, <1>6, <1>7 DEF OtherTypes
<1>9. ~(charged[c] > 0)
  BY <1>2, <1>3 DEF FeeInv
<1> QED
  BY <1>4, <1>5, <1>6, <1>7, <1>8, <1>9, CallStep

\* What the end of afterSwap does to the counters
LEMMA SwapDoneFacts ==
  ASSUME OtherTypes
  PROVE  /\ SwapDone(TRUE) \in [totalSwaps : Nat, totalFeesCollected : Nat,
                                failedBurns : Nat]
         /\ SwapDone(FALSE) \in [totalSwaps : Nat, totalFeesCollected : Nat,
                                 failedBurns : Nat]
         /\ SwapDone(TRUE).totalSwaps = stats.totalSwaps + 1
         /\ SwapDone(FALSE).totalSwaps = stats.totalSwaps + 1
         /\ SwapDone(TRUE).failedBurns = stats.failedBurns + 1
         /\ SwapDone(FALSE).failedBurns = stats.failedBurns
         /\ stats.totalSwaps \in Nat /\ stats.failedBurns \in Nat
<1> DEFINE done(k) == [stats EXCEPT !.totalSwaps = @ + 1, !.failedBurns = @ + k]
<1>1. stats \in [totalSwaps : Nat, totalFeesCollected : Nat, failedBurns : Nat]
  BY DEF OtherTypes
<1>2. \A k \in Nat :
        /\ done(k) \in [totalSwaps : Nat, totalFeesCollected : Nat, failedBurns : Nat]
        /\ done(k).totalSwaps = stats.totalSwaps + 1
        /\ done(k).failedBurns = stats.failedBurns + k
  <2> SUFFICES ASSUME NEW k \in Nat
               PROVE  /\ done(k) \in [totalSwaps : Nat, totalFeesCollected : Nat,
                                      failedBurns : Nat]
                      /\ done(k).totalSwaps = stats.totalSwaps + 1
                      /\ done(k).failedBurns = stats.failedBurns + k
    OBVIOUS
  <2> DEFINE n == stats.totalSwaps + 1
             b == stats.failedBurns + k
  <2>1. n \in Nat /\ b \in Nat
    BY <1>1
  <2>2. done(k) = [stats EXCEPT !.totalSwaps = n, !.failedBurns = b]
    BY <1>1
  <2> HIDE DEF n, b
  <2>3. /\ done(k) \in [totalSwaps : Nat, totalFeesCollected : Nat,
                         failedBurns : Nat]
        /\ done(k).totalSwaps = n
        /\ done(k).failedBurns = b
    BY <1>1, <2>1, <2>2
  <2> QED
    BY <2>3 DEF n, b
<1>3. SwapDone(TRUE) = done(1) /\ SwapDone(FALSE) = done(0)
  BY Zenon DEF SwapDone
<1> HIDE DEF done
<1>4. stats.failedBurns + 0 = stats.failedBurns
  BY <1>1
<1>5. stats.totalSwaps \in Nat /\ stats.failedBurns \in Nat
  BY <1>1
<1>6. 0 \in Nat /\ 1 \in Nat
  OBVIOUS
<1> QED
  BY <1>2, <1>3, <1>4, <1>5, <1>6, Zenon

\* afterSwap up to the await in burnTTT
LEMMA AfterSwapKeeps ==
  ASSUME ClientInv, NEW c \in Swaps, NEW auth \in Auths, afterSwap(c, auth)
  PROVE  ClientInv'
<1>1. /\ call[c] \in SwapCall /\ CallOrder(c, call[c]) /\ OtherTypes /\ FeeInv(c)
  BY CallFacts
<1>2. /\ call[c].pc \in {"start", "checked"} /\ call[c].tx = "none"
      /\ ~(charged[c] > 0) /\ ~Settled(call[c])
  BY <1>1 DEF afterSwap, CallOrder, FeeInv, Settled
<1>3. /\ UNCHANGED <<nonces, charged, feeRecipient, now, token, balance,
                     hookContract>>
  BY DEF afterSwap, fee
<1>4. nonces \in Nat /\ now + Lifetime \in Nat
  BY <1>1, ClientAssumption DEF OtherTypes
<1>5. CASE UNCHANGED stats /\ connection = "attached"
  <2> DEFINE next == [call[c] EXCEPT !.pc = "send", !.auth = auth,
                        !.nonce = nonces, !.deadline = now + Lifetime]
  <2>1. call' = [call EXCEPT ![c] = next]
    BY <1>5 DEF afterSwap
  <2>2. /\ next \in SwapCall /\ next.pc = "send" /\ next.tx = call[c].tx
        /\ next.kind = call[c].kind /\ next.feeTxs = call[c].feeTxs
    BY <1>1, <1>4 DEF SwapCall
  <2> HIDE DEF next
  <2>3. CallOrder(c, next) /\ ~Settled(next)
    BY <1>1, <1>2, <2>2, ClientAssumption DEF CallOrder, Settled
  <2>4. OtherTypes'
    BY <1>1, <1>3, <1>5 DEF OtherTypes
  <2> QED
    BY <1>2, <1>3, <1>5, <2>1, <2>2, <2>3, <2>4, CallStep
<1>6. CASE stats' = SwapDone(TRUE) /\ connection # "attached"
  <2> DEFINE next == [call[c] EXCEPT !.pc = "done"]
  <2>1. call' = [call EXCEPT ![c] = next]
    BY <1>6 DEF afterSwap
  <2>2. /\ next \in SwapCall /\ next.pc = "done" /\ next.tx = call[c].tx
        /\ next.kind = call[c].kind /\ next.feeTxs = call[c].feeTxs
    BY <1>1 DEF SwapCall
  <2> HIDE DEF next
  <2>3. CallOrder(c, next) /\ ~Settled(next)
    BY <1>1, <1>2, <2>2, ClientAssumption DEF CallOrder, Settled
  <2>4. /\ stats' \in [totalSwaps : Nat, totalFeesCollected : Nat, failedBurns : Nat]
        /\ stats'.totalSwaps = stats.totalSwaps + 1
        /\ stats'.failedBurns = stats.failedBurns + 1
    BY <1>1, <1>6, SwapDoneFacts
  <2>5. stats.totalSwaps \in Nat /\ stats.failedBurns \in Nat
    BY <1>1 DEF OtherTypes
  <2>6. OtherTypes'
    BY <1>1, <1>3, <2>4 DEF OtherTypes
  <2>7. stats'.totalSwaps - stats'.failedBurns = stats.totalSwaps - stats.failedBurns
    BY <2>4, <2>5
  <2> QED
    BY <1>2, <1>3, <2>1, <2>2, <2>3, <2>6, <2>7, CallStep
<1> QED
  BY <1>5, <1>6 DEF afterSwap

\* A step of one call that touches neither the counters nor its fee, and does
\* not make it a confirmed swap
LEMMA QuietStep ==
  ASSUME ClientInv, NEW c \in Swaps \cup Ops, NEW next \in SwapCall,
         call' = [call EXCEPT ![c] = next],
         OtherTypes', UNCHANGED <<nonces, charged, stats>>,
         CallOrder(c, next), ~Settled(next), ~Settled(call[c]),
         c \in Swaps => ~(charged[c] > 0)
  PROVE  ClientInv'
  BY CallStep

\* The start, the sending and the loss of a transaction
LEMMA TransactionKeeps ==
  ASSUME ClientInv, NEW c \in Swaps \cup Ops,
         \/ c \in Ops /\ \E kind \in Kinds : StartOp(c, kind)
         \/ Send(c)
         \/ Drop(c)
  PROVE  ClientInv'
<1>1. /\ call[c] \in SwapCall /\ CallOrder(c, call[c]) /\ OtherTypes
      /\ c \in Swaps => FeeInv(c)
      /\ c \in Ops => c \notin Swaps
  BY CallFacts
<1>2. /\ UNCHANGED <<nonces, charged, feeRecipient, now, token, balance,
                     hookContract, stats>>
  BY DEF StartOp, Send, Drop, fee
<1>3. OtherTypes'
  BY <1>1, <1>2 DEF OtherTypes
<1>4. /\ call[c].pc \in {"start", "send"} \/ call[c].tx = "pending"
  BY DEF StartOp, Send, Drop
<1>5. /\ ~Settled(call[c])
      /\ c \in Swaps => ~(charged[c] > 0)
  BY <1>1, <1>4 DEF Settled, FeeInv
<1>6. CASE c \in Ops /\ \E kind \in Kinds : StartOp(c, kind)
  <2>1. PICK kind \in Kinds : StartOp(c, kind)
    BY <1>6
  <2> DEFINE next == [call[c] EXCEPT !.pc = "send", !.kind = kind]
  <2>2. call' = [call EXCEPT ![c] = next] /\ call[c].pc = "start"
    BY <2>1 DEF StartOp
  <2>3. /\ next \in SwapCall /\ next.pc = "send" /\ next.tx = call[c].tx
        /\ next.kind = kind /\ next.feeTxs = call[c].feeTxs
    BY <1>1 DEF SwapCall
  <2> HIDE DEF next
  <2>4. CallOrder(c, next) /\ ~Settled(next)
    BY <1>1, <1>6, <2>2, <2>3 DEF CallOrder, Settled
  <2> QED
    BY <1>2, <1>3, <1>5, <2>2, <2>3, <2>4, QuietStep
<1>7. CASE Send(c)
  <2> DEFINE next == [call[c] EXCEPT !.pc = "wait", !.tx = "pending"]
  <2>1. call' = [call EXCEPT ![c] = next] /\ call[c].pc = "send"
    BY <1>7 DEF Send
  <2>2. /\ next \in SwapCall /\ next.pc = "wait" /\ next.tx = "pending"
        /\ next.kind = call[c].kind /\ next.feeTxs = call[c].feeTxs
    BY <1>1 DEF SwapCall
  <2> HIDE DEF next
  <2>3. CallOrder(c, next) /\ ~Settled(next)
    BY <1>1, <2>1, <2>2 DEF CallOrder, Settled
  <2> QED
    BY <1>2, <1>3, <1>5, <2>1, <2>2, <2>3, QuietStep
<1>8. CASE Drop(c)
  <2> DEFINE next == [call[c] EXCEPT !.tx = "dropped"]
  <2>1. call' = [call EXCEPT ![c] = next] /\ call[c].tx = "pending"
    BY <1>8 DEF Drop
  <2>2. /\ next \in SwapCall /\ next.pc = call[c].pc /\ next.tx = "dropped"
        /\ next.kind = call[c].kind /\ next.feeTxs = call[c].feeTxs
    BY <1>1 DEF SwapCall
  <2> HIDE DEF next
  <2>3. CallOrder(c, next) /\ ~Settled(next)
    BY <1>1, <2>1, <2>2 DEF CallOrder, Settled
  <2> QED
    BY <1>2, <1>3, <1>5, <2>1, <2>2, <2>3, QuietStep
<1> QED
  BY <1>6, <1>7, <1>8

\* A transaction is mined or reverts, also after its caller gave up: no balance
\* is overdrawn, and no call that gave up becomes a confirmed swap.
LEMMA MineKeeps ==
  ASSUME ClientInv, NEW c \in Swaps \cup Ops, Mine(c)
  PROVE  ClientInv'
<1>1. /\ call[c] \in SwapCall /\ CallOrder(c, call[c]) /\ OtherTypes
      /\ c \in Swaps => FeeInv(c)
  BY CallFacts
<1>2. /\ UNCHANGED <<nonces, charged, feeRecipient, now, token,
                     hookContract, stats>>
      /\ call[c].tx = "pending"
  BY DEF Mine, fee
<1>3. PICK tx \in {"mined", "reverted"} : call' = [call EXCEPT ![c].tx = tx]
  BY DEF Mine
<1> DEFINE next == [call[c] EXCEPT !.tx = tx]
<1>4. /\ next \in SwapCall /\ next.pc = call[c].pc /\ next.tx = tx
      /\ next.kind = call[c].kind /\ next.feeTxs = call[c].feeTxs
      /\ call' = [call EXCEPT ![c] = next]
  BY <1>1, <1>3 DEF SwapCall
<1> HIDE DEF next
<1>5. /\ CallOrder(c, next) /\ ~Settled(next) /\ ~Settled(call[c])
      /\ c \in Swaps => ~(charged[c] > 0)
  BY <1>1, <1>2, <1>4 DEF CallOrder, Settled, FeeInv
<1>6. balance' \in [TokenIds -> Nat]
  <2>1. balance \in [TokenIds -> Nat] /\ Id(c) \in TokenIds /\ BurnId(Id(c)) \in TokenIds
    BY <1>1 DEF OtherTypes, Id, BurnId, TokenIds
  <2>2. CASE UNCHANGED balance
    BY <2>1, <2>2
  <2>3. CASE /\ Succeeds(call[c].kind, Id(c))
             /\ balance' = Effect(call[c].kind, Id(c))
    <3> DEFINE i == BurnId(Id(c))
               j == Id(c)
    <3>1. call[c].kind \in {"hook", "record", "mint", "swap"}
      BY <1>1 DEF SwapCall, Kinds
    <3>2. CASE call[c].kind \in {"hook", "record"}
      <4>1. balance[i] > 0 /\ balance' = [balance EXCEPT ![i] = @ - 1]
        BY <2>3, <3>2 DEF Succeeds, Effect
      <4> HIDE DEF i
      <4> QED
        BY <2>1, <4>1 DEF i
    <3>3. CASE call[c].kind = "mint"
      <4>1. balance' = [balance EXCEPT ![j] = @ + 1]
        BY <2>3, <3>3 DEF Effect
      <4> QED
        BY <2>1, <4>1
    <3>4. CASE call[c].kind = "swap"
      BY <2>1, <2>3, <3>4 DEF Effect
    <3> QED
      BY <3>1, <3>2, <3>3, <3>4
  <2> QED
    BY <2>2, <2>3 DEF Mine
<1>7. OtherTypes'
  BY <1>1, <1>2, <1>6 DEF OtherTypes
<1> QED
  BY <1>2, <1>4, <1>5, <1>7, QuietStep

\* A receipt: the swap is confirmed at once, or goes on to its fee.
LEMMA ReceiptKeeps ==
  ASSUME ClientInv, NEW c \in Swaps \cup Ops, Receipt(c)
  PROVE  ClientInv'
<1>1. /\ call[c] \in SwapCall /\ CallOrder(c, call[c]) /\ OtherTypes
      /\ c \in Swaps => FeeInv(c)
      /\ c \in Ops => c \notin Swaps
  BY CallFacts
<1>2. /\ UNCHANGED <<nonces, charged, feeRecipient, now, token, balance,
                     hookContract>>
      /\ call[c].pc = "wait" /\ call[c].tx = "mined"
  BY DEF Receipt, fee
<1>3. /\ ~Settled(call[c])
      /\ c \in Swaps => ~(charged[c] > 0)
      /\ call[c].kind = "hook" <=> c \in Swaps
  BY <1>1, <1>2 DEF Settled, FeeInv, CallOrder, Kinds
<1>4. CASE /\ call[c].kind = "hook" /\ UNCHANGED stats
           /\ call' = [call EXCEPT ![c].pc = "fee", ![c].feeTxs = 1]
  <2> DEFINE next == [call[c] EXCEPT !.pc = "fee", !.feeTxs = 1]
  <2>1. call' = [call EXCEPT ![c] = next]
    BY <1>4
  <2>2. /\ next \in SwapCall /\ next.pc = "fee" /\ next.tx = call[c].tx
        /\ next.kind = call[c].kind
    BY <1>1 DEF SwapCall
  <2> HIDE DEF next
  <2>3. CallOrder(c, next) /\ ~Settled(next)
    BY <1>1, <1>2, <1>3, <1>4, <2>2 DEF CallOrder, Settled
  <2>4. OtherTypes'
    BY <1>1, <1>2, <1>4 DEF OtherTypes
  <2> QED
    BY <1>2, <1>3, <1>4, <2>1, <2>2, <2>3, <2>4, QuietStep
<1>5. ASSUME call' = [call EXCEPT ![c].pc = "done"],
             \/ stats' = SwapDone(FALSE) /\ c \in Swaps
             \/ UNCHANGED stats /\ c \notin Swaps
      PROVE  ClientInv'
  <2> DEFINE next == [call[c] EXCEPT !.pc = "done"]
  <2>1. call' = [call EXCEPT ![c] = next]
    BY <1>5
  <2>2. /\ next \in SwapCall /\ next.pc = "done" /\ next.tx = call[c].tx
        /\ next.kind = call[c].kind /\ next.feeTxs = call[c].feeTxs
    BY <1>1 DEF SwapCall
  <2> HIDE DEF next
  <2>3. CallOrder(c, next) /\ Settled(next)
    BY <1>1, <1>2, <2>2 DEF CallOrder, Settled
  <2>4. CASE stats' = SwapDone(FALSE) /\ c \in Swaps
    <3>1. /\ stats' \in [totalSwaps : Nat, totalFeesCollected : Nat,
                         failedBurns : Nat]
          /\ stats'.totalSwaps = stats.totalSwaps + 1
          /\ stats'.failedBurns = stats.failedBurns
          /\ stats.totalSwaps \in Nat /\ stats.failedBurns \in Nat
      BY <1>1, <2>4, SwapDoneFacts
    <3>2. OtherTypes'
      BY <1>1, <1>2, <3>1 DEF OtherTypes
    <3>3. stats'.totalSwaps - stats'.failedBurns =
            stats.totalSwaps - stats.failedBurns + 1
      BY <3>1
    <3> QED
      BY <1>2, <1>3, <2>1, <2>2, <2>3, <2>4, <3>2, <3>3, CallStep
  <2>5. CASE UNCHANGED stats /\ c \notin Swaps
    <3>1. OtherTypes'
      BY <1>1, <1>2, <2>5 DEF OtherTypes
    <3> QED
      BY <1>2, <1>3, <2>1, <2>2, <2>3, <2>5, <3>1, CallStep
  <2> QED
    BY <1>5, <2>4, <2>5
<1> QED
  BY <1>3, <1>4, <1>5 DEF Receipt

\* A call gives up: what it counts, it counts as a failed burn.
LEMMA CallFailsKeeps ==
  ASSUME ClientInv, NEW c \in Swaps \cup Ops, CallFails(c)
  PROVE  ClientInv'
<1>1. /\ call[c] \in SwapCall /\ CallOrder(c, call[c]) /\ OtherTypes
      /\ c \in Swaps => FeeInv(c)
      /\ c \in Ops => c \notin Swaps
  BY CallFacts
<1>2. /\ UNCHANGED <<nonces, charged, feeRecipient, now, token, balance,
                     hookContract>>
      /\ call[c].pc \in {"send", "wait"}
      /\ stats' = SwapDone(TRUE) \/ UNCHANGED stats
  BY DEF CallFails, fee
<1> DEFINE next == [call[c] EXCEPT !.pc = "failed"]
<1>3. call' = [call EXCEPT ![c] = next]
  BY DEF CallFails
<1>4. /\ next \in SwapCall /\ next.pc = "failed" /\ next.tx = call[c].tx
      /\ next.kind = call[c].kind /\ next.feeTxs = call[c].feeTxs
  BY <1>1 DEF SwapCall
<1> HIDE DEF next
<1>5. /\ CallOrder(c, next) /\ ~Settled(next) /\ ~Settled(call[c])
      /\ c \in Swaps => ~(charged[c] > 0)
  BY <1>1, <1>2, <1>4 DEF CallOrder, Settled, FeeInv
<1>6. CASE UNCHANGED stats
  <2>1. OtherTypes'
    BY <1>1, <1>2, <1>6 DEF OtherTypes
  <2> QED
    BY <1>2, <1>3, <1>4, <1>5, <1>6, <2>1, QuietStep
<1>7. CASE stats' = SwapDone(TRUE)
  <2>1. /\ stats' \in [totalSwaps : Nat, totalFeesCollected : Nat, failedBurns : Nat]
        /\ stats'.totalSwaps = stats.totalSwaps + 1
        /\ stats'.failedBurns = stats.failedBurns + 1
        /\ stats.totalSwaps \in Nat /\ stats.failedBurns \in Nat
    BY <1>1, <1>7, SwapDoneFacts
  <2>2. OtherTypes'
    BY <1>1, <1>2, <2>1 DEF OtherTypes
  <2>3. stats'.totalSwaps - stats'.failedBurns = stats.totalSwaps - stats.failedBurns
    BY <2>1
  <2> QED
    BY <1>2, <1>3, <1>4, <1>5, <2>2, <2>3, CallStep
<1> QED
  BY <1>2, <1>6, <1>7

\* The fee call of afterSwap answers, or the collector tries again.
LEMMA FeeCallKeeps ==
  ASSUME ClientInv, NEW c \in Swaps, FeeSettles(c) \/ ResubmitFee(c)
  PROVE  ClientInv'
<1>1. /\ call[c] \in SwapCall /\ CallOrder(c, call[c]) /\ OtherTypes /\ FeeInv(c)
  BY CallFacts
<1>2. /\ UNCHANGED <<nonces, charged, feeRecipient, now, token, balance,
                     hookContract>>
      /\ call[c].pc = "fee"
  BY DEF FeeSettles, ResubmitFee, fee
<1>3. CASE FeeSettles(c)
  <2> DEFINE next == [call[c] EXCEPT !.pc = "done"]
  <2>1. call' = [call EXCEPT ![c] = next] /\ stats' = SwapDone(FALSE)
    BY <1>3 DEF FeeSettles
  <2>2. /\ next \in SwapCall /\ next.pc = "done" /\ next.tx = call[c].tx
        /\ next.kind = call[c].kind /\ next.feeTxs = call[c].feeTxs
        /\ next.nonce = call[c].nonce
    BY <1>1 DEF SwapCall
  <2> HIDE DEF next
  <2>3. /\ CallOrder(c, next) /\ Settled(next) /\ ~Settled(call[c])
        /\ next.tx = "mined"
    BY <1>1, <1>2, <2>2, ClientAssumption DEF CallOrder, Settled
  <2>4. /\ stats' \in [totalSwaps : Nat, totalFeesCollected : Nat,
                       failedBurns : Nat]
        /\ stats'.totalSwaps = stats.totalSwaps + 1
        /\ stats'.failedBurns = stats.failedBurns
        /\ stats.totalSwaps \in Nat /\ stats.failedBurns \in Nat
    BY <1>1, <2>1, SwapDoneFacts
  <2>5. OtherTypes'
    BY <1>1, <1>2, <2>4 DEF OtherTypes
  <2>6. stats'.totalSwaps - stats'.failedBurns =
          stats.totalSwaps - stats.failedBurns + 1
    BY <2>4
  <2> QED
    BY <1>2, <2>1, <2>2, <2>3, <2>5, <2>6, CallStep
<1>4. CASE ResubmitFee(c)
  <2> DEFINE next == [call[c] EXCEPT !.feeTxs = 1]
  <2>1. call' = [call EXCEPT ![c] = next] /\ UNCHANGED stats
    BY <1>4 DEF ResubmitFee
  <2>2. /\ next \in SwapCall /\ next.pc = call[c].pc /\ next.tx = call[c].tx
        /\ next.kind = call[c].kind /\ next.nonce = call[c].nonce
    BY <1>1 DEF SwapCall
  <2> HIDE DEF next
  <2>3. /\ CallOrder(c, next) /\ ~Settled(next) /\ ~Settled(call[c])
        /\ next.tx = "mined"
    BY <1>1, <1>2, <2>2, ClientAssumption DEF CallOrder, Settled
  <2>4. OtherTypes'
    BY <1>1, <1>2, <2>1 DEF OtherTypes
  <2> QED
    BY <1>2, <2>1, <2>2, <2>3, <2>4, CallStep
<1> QED
  BY <1>3, <1>4

\* collectFee charges only an authorization at the payer's nonce, which one that
\* was charged before is behind.
LEMMA CollectKeeps ==
  ASSUME ClientInv, NEW c \in Swaps, collectFee(c)
  PROVE  ClientInv'
<1>1. /\ call[c] \in SwapCall /\ CallOrder(c, call[c]) /\ OtherTypes /\ FeeInv(c)
  BY CallFacts
<1>2. /\ UNCHANGED <<feeRecipient, now, token, balance, hookContract, stats>>
      /\ call[c].feeTxs > 0
  BY DEF collectFee
<1> DEFINE next == [call[c] EXCEPT !.feeTxs = @ - 1]
<1>3. call' = [call EXCEPT ![c] = next]
  BY DEF collectFee
<1>4. /\ next \in SwapCall /\ next.pc = call[c].pc /\ next.tx = call[c].tx
      /\ next.kind = call[c].kind /\ next.nonce = call[c].nonce
  BY <1>1, <1>2 DEF SwapCall
<1> HIDE DEF next
<1>5. call[c].pc \in {"fee", "done"} /\ call[c].tx = "mined"
  BY <1>1, <1>2 DEF CallOrder
<1>6. CallOrder(c, next) /\ (Settled(next) <=> Settled(call[c]))
  BY <1>1, <1>4, <1>5, ClientAssumption DEF CallOrder, Settled
<1>7. CASE UNCHANGED <<nonces, received, charged>>
  <2>1. OtherTypes'
    BY <1>1, <1>2, <1>7 DEF OtherTypes
  <2> QED
    BY <1>2, <1>3, <1>4, <1>5, <1>6, <1>7, <2>1, CallStep
<1>8. CASE /\ Accepts(c) /\ nonces' = nonces + 1
           /\ charged' = [charged EXCEPT ![c] = @ + 1]
  <2>1. /\ nonces = call[c].nonce /\ nonces < Funds /\ nonces \in Nat
        /\ charged \in [Swaps -> Nat]
    BY <1>1, <1>8, ClientAssumption DEF Accepts, OtherTypes
  <2>2. charged[c] = 0
    BY <1>1, <2>1 DEF FeeInv
  <2>3. /\ charged' \in [Swaps -> Nat] /\ charged'[c] = 1
        /\ \A d \in Swaps : d # c => charged'[d] = charged[d]
    BY <1>8, <2>1, <2>2
  <2>4. nonces' \in 0..Funds
    BY <1>8, <2>1, ClientAssumption
  <2>5. call \in [Swaps \cup Ops -> SwapCall]
    BY DEF ClientInv, ClientTypes
  <2>6. /\ call' \in [Swaps \cup Ops -> SwapCall]
        /\ \A d \in Swaps \cup Ops : call'[d] = IF d = c THEN next ELSE call[d]
    BY <1>3, <1>4, <2>5
  <2>7. ClientTypes'
    BY <1>1, <1>2, <2>3, <2>4, <2>6 DEF ClientTypes, OtherTypes
  <2>8. \A d \in Swaps \cup Ops : CallOrder(d, call'[d])
    BY <1>6, <2>6 DEF ClientInv
  <2>9. ASSUME NEW d \in Swaps PROVE FeeInv(d)'
    <3>1. CASE d = c
      BY <1>4, <1>5, <1>8, <2>1, <2>3, <2>6, <3>1 DEF FeeInv
    <3>2. CASE d # c
      <4>1. call'[d] = call[d] /\ charged'[d] = charged[d] /\ FeeInv(d)
        BY <2>3, <2>6, <3>2 DEF ClientInv
      <4>2. call[d].nonce \in Nat
        BY <2>5 DEF SwapCall
      <4> QED
        BY <1>8, <2>1, <4>1, <4>2 DEF FeeInv
    <3> QED
      BY <3>1, <3>2
  <2>10. Confirmed' = Confirmed
    BY <1>6, <2>6 DEF Confirmed
  <2> QED
    BY <1>2, <2>7, <2>8, <2>9, <2>10 DEF ClientInv
<1> QED
  BY <1>7, <1>8 DEF collectFee

\* Steps that leave the calls, the counters and the fees alone
LEMMA OtherKeeps ==
  ASSUME ClientInv, OtherTypes', UNCHANGED <<call, stats, nonces, charged>>
  PROVE  ClientInv'
<1>1. ClientTypes'
  BY DEF ClientInv, ClientTypes, OtherTypes
<1>2. Confirmed' = Confirmed
  BY DEF Confirmed
<1> QED
  BY <1>1, <1>2 DEF ClientInv, FeeInv

LEMMA StepClient == ClientInv /\ [SwapNext]_swapVars => ClientInv'
<1> SUFFICES ASSUME ClientInv, [SwapNext]_swapVars PROVE ClientInv'
  OBVIOUS
<1>0. OtherTypes
  BY DEF ClientInv, ClientTypes, OtherTypes
<1>1. ASSUME NEW c \in Swaps,
             \/ beforeSwap(c) \/ BalanceRead(c) \/ BalanceFails(c)
             \/ \E auth \in Auths : afterSwap(c, auth)
             \/ collectFee(c) \/ FeeSettles(c) \/ ResubmitFee(c)
      PROVE  ClientInv'
  BY <1>1, BeforeSwapKeeps, AfterSwapKeeps, CollectKeeps, FeeCallKeeps
<1>2. ASSUME NEW c \in Ops, NEW kind \in Kinds, StartOp(c, kind)
      PROVE  ClientInv'
  BY <1>2, TransactionKeeps
<1>3. ASSUME NEW c \in Swaps \cup Ops,
             Send(c) \/ Mine(c) \/ Drop(c) \/ Receipt(c) \/ CallFails(c)
      PROVE  ClientInv'
  BY <1>3, TransactionKeeps, MineKeeps, ReceiptKeeps, CallFailsKeeps
<1>4. ASSUME NEW r \in Recipients, setFeeRecipient(r)
      PROVE  ClientInv'
  <2>1. OtherTypes' /\ UNCHANGED <<call, stats, nonces, charged>>
    BY <1>0, <1>4 DEF setFeeRecipient, OtherTypes
  <2> QED
    BY <2>1, OtherKeeps
<1>5. CASE Tick
  <2>1. OtherTypes' /\ UNCHANGED <<call, stats, nonces, charged>>
    BY <1>0, <1>5 DEF Tick, OtherTypes, fee
  <2> QED
    BY <2>1, OtherKeeps
<1>6. CASE Disconnect \/ Connect \/ Attach \/ UNCHANGED swapVars
  <2>1. /\ UNCHANGED <<token, balance, stats, call, nonces, feeRecipient, charged,
                       now>>
        /\ hookContract' \in {hookContract, "stale"}
    BY <1>6 DEF Disconnect, Connect, Attach, swapVars, fee
  <2>2. OtherTypes'
    BY <1>0, <2>1 DEF OtherTypes
  <2> QED
    BY <2>1, <2>2, OtherKeeps
<1> QED
  BY <1>1, <1>2, <1>3, <1>4, <1>5, <1>6 DEF SwapNext

\* The inductive invariant holds in every reachable state.
THEOREM ClientInductive == SwapSpec => []ClientInv
<1>1. SwapInit => ClientInv
  <2> SUFFICES ASSUME SwapInit PROVE ClientInv
    OBVIOUS
  <2>1. ClientTypes
    <3>1. NoCall \in SwapCall
      BY DEF NoCall, SwapCall, Auths
    <3>2. balance \in [TokenIds -> Nat]
      BY ClientAssumption DEF SwapInit
    <3> QED
      BY <3>1, <3>2, ClientAssumption DEF SwapInit, ClientTypes
  <2>2. \A c \in Swaps \cup Ops : call[c] = NoCall
    BY DEF SwapInit
  <2>3. \A c \in Swaps \cup Ops : CallOrder(c, call[c]) /\ ~Settled(call[c])
    BY <2>2 DEF CallOrder, Settled, NoCall
  <2>4. \A c \in Swaps : charged[c] = 0
    BY DEF SwapInit
  <2>5. Confirmed = {}
    BY <2>3 DEF Confirmed
  <2>6. stats.totalSwaps - stats.failedBurns = 0
    BY DEF SwapInit
  <2> QED
    BY <2>1, <2>3, <2>4, <2>5, <2>6, FS_EmptySet DEF ClientInv, FeeInv
<1> QED
  BY <1>1, StepClient, PTL DEF SwapSpec

\* A set of swaps has a size, and a larger set a larger one.
LEMMA SwapSets ==
  ASSUME NEW S \in SUBSET Swaps, NEW T \in SUBSET S
  PROVE  /\ Cardinality(S) \in Nat /\ Cardinality(T) \in Nat
         /\ Cardinality(T) <= Cardinality(S)
<1>1. IsFiniteSet(S)
  BY ClientAssumption, FS_Subset
<1> QED
  BY <1>1, FS_Subset, FS_CardinalityType

\* In every behaviour the client keeps its types, counts no more failed burns
\* than swaps and never lets the payer's nonce pass what the payer can pay.
THEOREM SwapTypeCorrect == SwapSpec => []SwapTypeOK
<1>1. ClientInv => SwapTypeOK
  <2> SUFFICES ASSUME ClientInv PROVE SwapTypeOK
    OBVIOUS
  <2>1. Cardinality(Confirmed) \in Nat
    BY SwapSets DEF Confirmed
  <2>2. stats.totalSwaps \in Nat /\ stats.failedBurns \in Nat
    BY DEF ClientInv, ClientTypes
  <2>3. stats.failedBurns <= stats.totalSwaps
    BY <2>1, <2>2 DEF ClientInv
  <2>4. \A c \in Swaps \cup Ops : call[c] \in SwapCall
    BY DEF ClientInv, ClientTypes
  <2> QED
    BY <2>3, <2>4 DEF ClientInv, ClientTypes, SwapCall, SwapTypeOK
<1> QED
  BY <1>1, ClientInductive, PTL

\* In every behaviour the swaps the hook does not count as failed have their burn
\* on the chain, for any number of overlapping swaps.
THEOREM BurnsReportedHappened == SwapSpec => []ReportedBurnsHappened
<1>1. ClientInv => ReportedBurnsHappened
  <2> SUFFICES ASSUME ClientInv PROVE ReportedBurnsHappened
    OBVIOUS
  <2>1. Confirmed \in SUBSET HookBurns /\ HookBurns \in SUBSET Swaps
    BY DEF Confirmed, Settled, HookBurns
  <2>2. Cardinality(Confirmed) <= Cardinality(HookBurns)
    BY <2>1, SwapSets
  <2> QED
    BY <2>2 DEF ClientInv, ReportedBurnsHappened
<1> QED
  BY <1>1, ClientInductive, PTL

\* What ProtocolFee and the authorizations were charged add up to, by themselves
\* an inductive invariant
FeeSums ==
  /\ nonces \in Nat /\ feeRecipient \in Recipients
  /\ received \in [Recipients -> Nat] /\ SumFunction(received) = nonces
  /\ charged \in [Swaps -> Nat] /\ SumFunction(charged) = nonces

\* One more of one summand is one more of the sum.
LEMMA SumBumped ==
  ASSUME NEW S, IsFiniteSet(S), NEW f \in [S -> Nat], NEW x \in S
  PROVE  /\ [f EXCEPT ![x] = @ + 1] \in [S -> Nat]
         /\ SumFunction([f EXCEPT ![x] = @ + 1]) = SumFunction(f) + 1
<1> DEFINE g == [f EXCEPT ![x] = @ + 1]
<1>1. /\ g \in [S -> Nat] /\ g[x] = f[x] + 1 /\ \A y \in S \ {x} : g[y] = f[y]
      /\ DOMAIN f = S /\ DOMAIN g = S /\ \A y \in S : f[y] \in Nat /\ 1 \in Nat
  OBVIOUS
<1> HIDE DEF g
<1>2. SumFunctionOnSet(g, S) = SumFunctionOnSet(f, S) + 1
  BY <1>1, SumGrows
<1>3. SumFunction(g) = SumFunction(f) + 1
  BY <1>1, <1>2 DEF SumFunction
<1> QED
  BY <1>1, <1>3 DEF g

LEMMA FeeSumsStart == SwapInit => FeeSums
<1> SUFFICES ASSUME SwapInit PROVE FeeSums
  OBVIOUS
<1>1. /\ received \in [Recipients -> Nat] /\ charged \in [Swaps -> Nat]
      /\ nonces = 0 /\ feeRecipient \in Recipients
      /\ DOMAIN received = Recipients /\ \A r \in Recipients : received[r] = 0
      /\ DOMAIN charged = Swaps /\ \A c \in Swaps : charged[c] = 0
  BY DEF SwapInit
<1>2. SumFunction(received) = 0 /\ SumFunction(charged) = 0
  BY <1>1, SumZero, ClientAssumption DEF SumFunction
<1> QED
  BY <1>1, <1>2 DEF FeeSums

LEMMA FeeSumsKept == FeeSums /\ [SwapNext]_swapVars => FeeSums'
<1> SUFFICES ASSUME FeeSums, [SwapNext]_swapVars PROVE FeeSums'
  OBVIOUS
<1>1. CASE UNCHANGED <<nonces, received, charged>> /\ feeRecipient' \in Recipients
  BY <1>1 DEF FeeSums
<1>2. ASSUME NEW c \in Swaps, collectFee(c) PROVE FeeSums'
  <2>1. CASE UNCHANGED <<nonces, received, charged>>
    BY <1>1, <1>2, <2>1 DEF collectFee, FeeSums
  <2>2. CASE /\ nonces' = nonces + 1
             /\ received' = [received EXCEPT ![feeRecipient] = @ + 1]
             /\ charged' = [charged EXCEPT ![c] = @ + 1]
    <3>1. /\ IsFiniteSet(Recipients) /\ IsFiniteSet(Swaps)
          /\ received \in [Recipients -> Nat] /\ feeRecipient \in Recipients
          /\ charged \in [Swaps -> Nat]
      BY ClientAssumption DEF FeeSums
    <3>2. /\ received' \in [Recipients -> Nat]
          /\ SumFunction(received') = SumFunction(received) + 1
          /\ charged' \in [Swaps -> Nat]
          /\ SumFunction(charged') = SumFunction(charged) + 1
      BY <2>2, <3>1, SumBumped
    <3>3. UNCHANGED feeRecipient
      BY <1>2 DEF collectFee
    <3>4. SumFunction(received') = nonces' /\ SumFunction(charged') = nonces'
      BY <2>2, <3>2 DEF FeeSums
    <3>5. nonces' \in Nat
      BY <2>2 DEF FeeSums
    <3> QED
      BY <3>1, <3>2, <3>3, <3>4, <3>5 DEF FeeSums
  <2> QED
    BY <1>2, <2>1, <2>2 DEF collectFee
<1>3. ASSUME NEW r \in Recipients, setFeeRecipient(r) PROVE FeeSums'
  BY <1>1, <1>3 DEF setFeeRecipient
<1>4. ASSUME UNCHANGED fee PROVE FeeSums'
  BY <1>1, <1>4 DEF fee, FeeSums
<1>5. ASSUME NEW c \in Swaps,
             \/ beforeSwap(c) \/ BalanceRead(c) \/ BalanceFails(c)
             \/ \E auth \in Auths : afterSwap(c, auth)
             \/ FeeSettles(c) \/ ResubmitFee(c)
      PROVE  UNCHANGED fee
  BY <1>5 DEF beforeSwap, BalanceRead, BalanceFails, afterSwap, FeeSettles, ResubmitFee
<1>6. ASSUME NEW c \in Ops, NEW kind \in Kinds, StartOp(c, kind)
      PROVE  UNCHANGED fee
  BY <1>6 DEF StartOp
<1>7. ASSUME NEW c \in Swaps \cup Ops,
             Send(c) \/ Mine(c) \/ Drop(c) \/ Receipt(c) \/ CallFails(c)
      PROVE  UNCHANGED fee
  BY <1>7 DEF Send, Mine, Drop, Receipt, CallFails
<1>8. CASE Tick \/ Disconnect \/ Connect \/ Attach \/ UNCHANGED swapVars
  BY <1>4, <1>8 DEF Tick, Disconnect, Connect, Attach, swapVars, fee
<1> QED
  BY <1>2, <1>3, <1>4, <1>5, <1>6, <1>7, <1>8 DEF SwapNext

\* In every behaviour a fee authorization is charged once at most, after its
\* burn, whatever submissions of collectFee race with it, and the recipients,
\* however often they change, have received what the payers' nonces account for.
THEOREM NeverChargedTwice == SwapSpec => []ChargedOnce
<1>1. ClientInv /\ FeeSums => ChargedOnce
  BY DEF ClientInv, FeeInv, FeeSums, ChargedOnce
<1>2. SwapSpec => []FeeSums
  BY FeeSumsStart, FeeSumsKept, PTL DEF SwapSpec
<1> QED
  BY <1>1, <1>2, ClientInductive, PTL

-----------------------------------------------------------------------------
(* The contracts, the bots and the subgraph *)

Anchor == [name : {"PoTAnchored"}, id : Ids, at : Nat]
Verification ==
  [name : {"SwapVerified"}, sender : Users, pool : {"v4", "simulated"},
   mode : {"turbo", "full"}, feeAmount : Nat, at : Nat]
Event == Anchor \cup Verification

\* Statistics under finitely many keys, a number in every field
StatsOf(table, none) ==
  IsFiniteSet(DOMAIN table) /\ table \in [DOMAIN table -> [DOMAIN none -> Nat]]

StatsTypes ==
  /\ simple \in [config : Configs, totalSwaps : Nat, turboSwaps : Nat, fullSwaps : Nat]
  /\ log \in Seq(Event) /\ indexed \in 0..Len(log) /\ hour \in Nat
  /\ StatsOf(daily, NoDaily) /\ StatsOf(hourly, NoHourly)

\* The hook counts every verification, whether it is indexed or not.
CountersAgree ==
  /\ simple.totalSwaps = Amounts(log, DOMAIN log, "totalSwaps")
  /\ simple.turboSwaps = Amounts(log, DOMAIN log, "turboCount")
  /\ simple.fullSwaps  = Amounts(log, DOMAIN log, "fullCount")

\* Nothing is lost between the log and the days, ...
DaysAgree == \A f \in DOMAIN NoDaily : Known(f) = Amounts(log, DOMAIN log, f)

\* ... nor between the days and the hours; a day without a record has no hours,
\* which is why it may start from nothing.
HoursAgree ==
  /\ \A h \in DOMAIN hourly : h \div HoursPerDay \in DOMAIN daily
  /\ \A d \in DOMAIN daily, f \in DOMAIN NoHourly : daily[d][f] = Total(hourly, HoursOf(d), f)

StatsInv == StatsTypes /\ CountersAgree /\ DaysAgree /\ HoursAgree

\* What a verification adds to a field is a natural number.
LEMMA AmountType ==
  ASSUME NEW e \in Verification, NEW f \in DOMAIN NoDaily
  PROVE  Amount(e, f) \in Nat
  BY DEF Amount, NoDaily, Verification

\* Where verifications are in a log
LEMMA VerifiedFacts ==
  ASSUME NEW events \in Seq(Event), NEW I \in SUBSET (DOMAIN events)
  PROVE  /\ IsFiniteSet(Verified(events, I))
         /\ \A i \in I : \/ events[i].name = "SwapVerified" /\ events[i] \in Verification
                         \/ events[i].name = "PoTAnchored" /\ events[i] \in Anchor
         /\ \A i \in Verified(events, I) : events[i] \in Verification
<1>1. IsFiniteSet(1..Len(events))
  BY UpToSize
<1>2. Verified(events, I) \in SUBSET (1..Len(events))
  BY DEF Verified
<1>3. \A i \in I : events[i] \in Event
  OBVIOUS
<1>4. \A e \in Event : \/ e.name = "SwapVerified" /\ e \in Verification
                       \/ e.name = "PoTAnchored" /\ e \in Anchor
  BY DEF Event, Verification, Anchor
<1> QED
  BY <1>1, <1>2, <1>3, <1>4, FS_Subset DEF Verified

\* A position taken out of those that are summed takes away what it adds.
LEMMA AmountsWithout ==
  ASSUME NEW events \in Seq(Event), NEW I \in SUBSET (DOMAIN events),
         NEW f \in DOMAIN NoDaily
  PROVE  /\ Amounts(events, I, f) \in Nat
         /\ \A i \in I :
              /\ events[i].name = "SwapVerified" =>
                   Amounts(events, I, f) = Amounts(events, I \ {i}, f) + Amount(events[i], f)
              /\ events[i].name = "PoTAnchored" =>
                   Amounts(events, I, f) = Amounts(events, I \ {i}, f)
<1> DEFINE F(J) == [j \in Verified(events, J) |-> Amount(events[j], f)]
           V == Verified(events, I)
<1>1. IsFiniteSet(V) /\ \A j \in V : Amount(events[j], f) \in Nat
  BY VerifiedFacts, AmountType
<1>2. /\ DOMAIN F(I) = V /\ \A j \in V : F(I)[j] = Amount(events[j], f)
      /\ \A j \in V : F(I)[j] \in Nat
  BY <1>1
<1>3. Amounts(events, I, f) = SumFunctionOnSet(F(I), V)
  BY DEF Amounts, SumFunction
<1>4. Amounts(events, I, f) \in Nat
  <2> HIDE DEF F, V
  <2> QED
    BY <1>1, <1>2, <1>3, SumType
<1>5. ASSUME NEW i \in I, events[i].name = "SwapVerified"
      PROVE  Amounts(events, I, f) = Amounts(events, I \ {i}, f) + Amount(events[i], f)
  <2> DEFINE W == Verified(events, I \ {i})
  <2>1. i \in V /\ W = V \ {i} /\ IsFiniteSet(W)
    BY <1>1, <1>5, FS_Subset DEF Verified
  <2>2. DOMAIN F(I \ {i}) = W /\ \A j \in W : F(I \ {i})[j] = Amount(events[j], f)
    OBVIOUS
  <2>3. Amounts(events, I \ {i}, f) = SumFunctionOnSet(F(I \ {i}), W)
    BY DEF Amounts, SumFunction
  <2> HIDE DEF F, V, W
  <2>4. SumFunctionOnSet(F(I \ {i}), W) = SumFunctionOnSet(F(I), W)
    <3>1. \A j \in W : F(I \ {i})[j] = F(I)[j]
      BY <1>2, <2>1, <2>2
    <3> QED
      BY <2>1, <3>1, SumAgree
  <2>5. SumFunctionOnSet(F(I), V) = F(I)[i] + SumFunctionOnSet(F(I), W)
    BY <1>1, <1>2, <2>1, SumRemove
  <2>6. SumFunctionOnSet(F(I), W) \in Nat /\ F(I)[i] = Amount(events[i], f) /\ F(I)[i] \in Nat
    BY <1>2, <2>1, SumType
  <2>7. SumFunctionOnSet(F(I), V) = SumFunctionOnSet(F(I), W) + F(I)[i]
    BY <2>5, <2>6
  <2> QED
    BY <1>3, <2>3, <2>4, <2>6, <2>7
<1>6. ASSUME NEW i \in I, events[i].name = "PoTAnchored"
      PROVE  Amounts(events, I, f) = Amounts(events, I \ {i}, f)
  <2>1. Verified(events, I \ {i}) = V
    BY <1>6 DEF Verified
  <2> QED
    BY <2>1 DEF Amounts
<1> QED
  BY <1>4, <1>5, <1>6

\* An event that is added to the log is added to the sums over it.
LEMMA AmountsAppend ==
  ASSUME NEW events \in Seq(Event), NEW e \in Event, NEW f \in DOMAIN NoDaily,
         NEW k \in 1..(Len(events) + 1)
  PROVE  LET grown == Amounts(Append(events, e), k..(Len(events) + 1), f)
             old   == Amounts(events, k..Len(events), f)
         IN  /\ old \in Nat
             /\ e.name = "SwapVerified" => grown = old + Amount(e, f)
             /\ e.name = "PoTAnchored" => grown = old
<1> DEFINE more == Append(events, e)
           n == Len(events) + 1
           I == k..n
           J == k..Len(events)
<1>1. /\ more \in Seq(Event) /\ Len(more) = n /\ more[n] = e
      /\ \A i \in 1..Len(events) : more[i] = events[i]
  OBVIOUS
<1>2. /\ I \in SUBSET (DOMAIN more) /\ n \in I /\ I \ {n} = J
      /\ J \in SUBSET (DOMAIN more) /\ J \in SUBSET (DOMAIN events) /\ J \subseteq 1..Len(events)
  BY <1>1
<1> HIDE DEF more, I, J, n
<1>3. Amounts(more, J, f) = Amounts(events, J, f)
  <2>1. \A i \in J : more[i] = events[i]
    BY <1>1, <1>2
  <2>2. Verified(more, J) = Verified(events, J)
    BY <2>1 DEF Verified
  <2>3. [i \in Verified(more, J) |-> Amount(more[i], f)]
          = [i \in Verified(events, J) |-> Amount(events[i], f)]
    BY <2>1, <2>2 DEF Verified
  <2> QED
    BY <2>3 DEF Amounts
<1>4. Amounts(events, J, f) \in Nat
  BY <1>2, AmountsWithout
<1>5. /\ e.name = "SwapVerified" => Amounts(more, I, f) = Amounts(more, J, f) + Amount(e, f)
      /\ e.name = "PoTAnchored" => Amounts(more, I, f) = Amounts(more, J, f)
  BY <1>1, <1>2, AmountsWithout
<1> QED
  BY <1>3, <1>4, <1>5 DEF more, I, J, n

\* A record of a day or an hour before anything is counted in it
EmptyRecord(none) ==
  DOMAIN none \subseteq DOMAIN NoDaily /\ none = [f \in DOMAIN none |-> 0]

LEMMA EmptyRecords == EmptyRecord(NoDaily) /\ EmptyRecord(NoHourly)
  BY DEF EmptyRecord, NoDaily, NoHourly

\* The record of a day or an hour that counts one verification more
LEMMA BumpedValues ==
  ASSUME NEW none, EmptyRecord(none), NEW table, StatsOf(table, none),
         NEW e \in Verification, NEW key, NEW more, more = Bumped(table, key, e, none)
  PROVE  /\ StatsOf(more, none)
         /\ \A k \in DOMAIN table \ {key} : more[k] = table[k]
         /\ \A f \in DOMAIN none :
              more[key][f] = (IF key \in DOMAIN table THEN table[key][f] ELSE 0) + Amount(e, f)
<1> DEFINE old == IF key \in DOMAIN table THEN table[key] ELSE none
           fresh == [f \in DOMAIN none |-> old[f] + Amount(e, f)]
<1>1. none \in [DOMAIN none -> Nat] /\ \A f \in DOMAIN none : none[f] = 0 /\ f \in DOMAIN NoDaily
  BY DEF EmptyRecord
<1>2. \A f \in DOMAIN none : Amount(e, f) \in Nat
  BY <1>1, AmountType
<1>3. table \in [DOMAIN table -> [DOMAIN none -> Nat]] /\ IsFiniteSet(DOMAIN table)
  BY DEF StatsOf
<1>4. old \in [DOMAIN none -> Nat]
  BY <1>1, <1>3
<1>5. \A f \in DOMAIN none :
        old[f] = IF key \in DOMAIN table THEN table[key][f] ELSE 0
  BY <1>1
<1> HIDE DEF old
<1>6. fresh \in [DOMAIN none -> Nat] /\ \A f \in DOMAIN none : fresh[f] = old[f] + Amount(e, f)
  BY <1>2, <1>4
<1>7. more = [k \in DOMAIN table \cup {key} |-> IF k = key THEN fresh ELSE table[k]]
  BY DEF Bumped, old
<1> HIDE DEF fresh
<1>8. /\ DOMAIN more = DOMAIN table \cup {key} /\ more[key] = fresh
      /\ \A k \in DOMAIN table \ {key} : more[k] = table[k]
      /\ more \in [DOMAIN table \cup {key} -> [DOMAIN none -> Nat]]
  BY <1>3, <1>6, <1>7
<1>9. IsFiniteSet(DOMAIN table \cup {key})
  BY <1>3, FS_AddElement
<1>10. StatsOf(more, none)
  BY <1>8, <1>9 DEF StatsOf
<1> QED
  BY <1>5, <1>6, <1>8, <1>10

\* A sum over some keys, of two statistics that agree on them
LEMMA TotalAgrees ==
  ASSUME NEW s, NEW t, NEW K, NEW f, \A k \in K : s[k][f] = t[k][f]
  PROVE  Total(s, K, f) = Total(t, K, f)
<1>1. [k \in K |-> s[k][f]] = [k \in K |-> t[k][f]]
  OBVIOUS
<1> QED
  BY <1>1 DEF Total

\* A key taken out of those that are summed takes away its field.
LEMMA TotalWithout ==
  ASSUME NEW table, NEW K, IsFiniteSet(K), NEW f, \A k \in K : table[k][f] \in Nat
  PROVE  /\ Total(table, K, f) \in Nat
         /\ \A k \in K : Total(table, K, f) = Total(table, K \ {k}, f) + table[k][f]
<1> DEFINE F(J) == [k \in J |-> table[k][f]]
<1>1. DOMAIN F(K) = K /\ \A k \in K : F(K)[k] = table[k][f] /\ F(K)[k] \in Nat
  OBVIOUS
<1>2. Total(table, K, f) = SumFunctionOnSet(F(K), K)
  BY DEF Total, SumFunction
<1>3. Total(table, K, f) \in Nat
  <2> HIDE DEF F
  <2> QED
    BY <1>1, <1>2, SumType
<1>4. ASSUME NEW k \in K
      PROVE  Total(table, K, f) = Total(table, K \ {k}, f) + table[k][f]
  <2> DEFINE L == K \ {k}
  <2>1. DOMAIN F(L) = L /\ \A j \in L : F(L)[j] = F(K)[j]
    OBVIOUS
  <2>2. Total(table, L, f) = SumFunctionOnSet(F(L), L)
    BY DEF Total, SumFunction
  <2>3. IsFiniteSet(L)
    BY FS_Subset
  <2> HIDE DEF F
  <2>4. SumFunctionOnSet(F(L), L) = SumFunctionOnSet(F(K), L)
    BY <2>1, <2>3, SumAgree
  <2>5. SumFunctionOnSet(F(K), K) = F(K)[k] + SumFunctionOnSet(F(K), L)
    BY <1>1, SumRemove
  <2>6. SumFunctionOnSet(F(K), L) \in Nat /\ F(K)[k] \in Nat
    BY <1>1, <2>3, SumType
  <2>7. SumFunctionOnSet(F(K), K) = SumFunctionOnSet(F(K), L) + F(K)[k]
    BY <2>5, <2>6
  <2> QED
    BY <1>1, <1>2, <2>2, <2>4, <2>7
<1> QED
  BY <1>3, <1>4

\* What counting one verification does to the sum over some keys, its own among
\* them: the sum over those that had a record before, and what it adds.
LEMMA TotalBumped ==
  ASSUME NEW none, EmptyRecord(none), NEW table, StatsOf(table, none),
         NEW e \in Verification, NEW key, NEW f \in DOMAIN none,
         NEW K \in SUBSET (DOMAIN table \cup {key}), key \in K
  PROVE  Total(Bumped(table, key, e, none), K, f)
           = Total(table, K \cap DOMAIN table, f) + Amount(e, f)
<1> DEFINE more == Bumped(table, key, e, none)
           J == K \cap DOMAIN table
<1>1. /\ StatsOf(more, none) /\ DOMAIN more = DOMAIN table \cup {key}
      /\ \A k \in DOMAIN table \ {key} : more[k] = table[k]
      /\ more[key][f] = (IF key \in DOMAIN table THEN table[key][f] ELSE 0) + Amount(e, f)
  <2>1. more = Bumped(table, key, e, none)
    OBVIOUS
  <2> HIDE DEF more
  <2>2. DOMAIN more = DOMAIN table \cup {key}
    BY <2>1 DEF Bumped
  <2>3. /\ StatsOf(more, none)
        /\ \A k \in DOMAIN table \ {key} : more[k] = table[k]
        /\ \A g \in DOMAIN none :
             more[key][g] = (IF key \in DOMAIN table THEN table[key][g] ELSE 0) + Amount(e, g)
    BY <2>1, BumpedValues
  <2> QED
    BY <2>2, <2>3
<1> HIDE DEF more
<1>2. /\ IsFiniteSet(K) /\ IsFiniteSet(J)
      /\ \A k \in K : more[k][f] \in Nat
      /\ \A k \in J : table[k][f] \in Nat
  BY <1>1, FS_Subset DEF StatsOf
<1>3. Amount(e, f) \in Nat
  <2>1. f \in DOMAIN NoDaily
    BY DEF EmptyRecord
  <2> QED
    BY <2>1, AmountType
<1>4. Total(more, K, f) = Total(more, K \ {key}, f) + more[key][f]
  BY <1>2, TotalWithout
<1>5. Total(more, K \ {key}, f) = Total(table, K \ {key}, f)
  <2>1. \A k \in K \ {key} : more[k][f] = table[k][f]
    BY <1>1
  <2> QED
    BY <2>1, TotalAgrees
<1>6. CASE key \in DOMAIN table
  <2>1. K = J /\ more[key][f] = table[key][f] + Amount(e, f) /\ table[key][f] \in Nat
    BY <1>1, <1>2, <1>6
  <2>2. Total(table, J, f) = Total(table, J \ {key}, f) + table[key][f]
    BY <1>2, <1>6, TotalWithout
  <2>3. Total(table, J \ {key}, f) \in Nat
    <3>1. IsFiniteSet(J \ {key}) /\ \A k \in J \ {key} : table[k][f] \in Nat
      BY <1>2, FS_Subset
    <3> QED
      BY <3>1, TotalWithout
  <2> HIDE DEF J
  <2>4. Total(more, K, f) = Total(table, J \ {key}, f) + (table[key][f] + Amount(e, f))
    BY <1>4, <1>5, <2>1
  <2>5. Total(more, K, f) = Total(table, J, f) + Amount(e, f)
    BY <1>3, <2>1, <2>2, <2>3, <2>4
  <2> QED
    BY <2>5 DEF more, J
<1>7. CASE key \notin DOMAIN table
  <2>1. K \ {key} = J /\ more[key][f] = 0 + Amount(e, f)
    BY <1>1, <1>7
  <2> HIDE DEF J
  <2>2. more[key][f] = Amount(e, f)
    BY <1>3, <2>1
  <2>3. Total(more, K, f) = Total(table, J, f) + Amount(e, f)
    BY <1>4, <1>5, <2>1, <2>2
  <2> QED
    BY <2>3 DEF more, J
<1> QED
  BY <1>6, <1>7

\* The log begins empty and the sums with it.
LEMMA StatsStart == StatsInit => StatsInv
<1> SUFFICES ASSUME StatsInit PROVE StatsInv
  OBVIOUS
<1>1. /\ DOMAIN log = {} /\ log \in Seq(Event) /\ Len(log) = 0 /\ indexed = 0 /\ hour = 0
      /\ DOMAIN daily = {} /\ DOMAIN hourly = {}
      /\ daily \in [DOMAIN daily -> [DOMAIN NoDaily -> Nat]]
      /\ hourly \in [DOMAIN hourly -> [DOMAIN NoHourly -> Nat]]
  BY DEF StatsInit
<1>2. simple \in [config : Configs, totalSwaps : Nat, turboSwaps : Nat, fullSwaps : Nat]
      /\ simple.totalSwaps = 0 /\ simple.turboSwaps = 0 /\ simple.fullSwaps = 0
  BY DEF StatsInit
<1>3. \A f : Amounts(log, {}, f) = 0 /\ Total(daily, {}, f) = 0
  <2> TAKE f
  <2>1. /\ DOMAIN [i \in Verified(log, {}) |-> Amount(log[i], f)] = {}
        /\ DOMAIN [k \in {} |-> daily[k][f]] = {}
    BY DEF Verified
  <2> QED
    BY <2>1, SumEmpty DEF Amounts, Total, SumFunction
<1>4. (indexed + 1)..Len(log) = {}
  BY <1>1
<1>5. StatsTypes
  BY <1>1, <1>2, FS_EmptySet DEF StatsTypes, StatsOf
<1>6. CountersAgree /\ DaysAgree
  BY <1>1, <1>2, <1>3, <1>4 DEF CountersAgree, DaysAgree, Known
<1> QED
  BY <1>1, <1>5, <1>6 DEF StatsInv, HoursAgree

\* A step that neither logs, nor counts, nor indexes
LEMMA StatsQuiet ==
  ASSUME StatsInv, UNCHANGED <<log, indexed, daily, hourly>>, hour' \in Nat,
         simple' \in [config : Configs, totalSwaps : Nat, turboSwaps : Nat, fullSwaps : Nat],
         simple'.totalSwaps = simple.totalSwaps,
         simple'.turboSwaps = simple.turboSwaps,
         simple'.fullSwaps = simple.fullSwaps
  PROVE  StatsInv'
  BY DEF StatsInv, StatsTypes, CountersAgree, DaysAgree, HoursAgree, Known, HoursOf

\* An event is logged, and the hook counts it when it is a verification.
LEMMA LogKeeps ==
  ASSUME StatsInv, NEW e \in Event, log' = Append(log, e),
         UNCHANGED <<indexed, daily, hourly, hour>>,
         simple' \in [config : Configs, totalSwaps : Nat, turboSwaps : Nat, fullSwaps : Nat],
         \/ e.name = "PoTAnchored" /\ UNCHANGED simple
         \/ /\ e.name = "SwapVerified" /\ e \in Verification
            /\ simple'.totalSwaps = simple.totalSwaps + Amount(e, "totalSwaps")
            /\ simple'.turboSwaps = simple.turboSwaps + Amount(e, "turboCount")
            /\ simple'.fullSwaps = simple.fullSwaps + Amount(e, "fullCount")
  PROVE  StatsInv'
<1> DEFINE all(f)  == Amounts(log, DOMAIN log, f)
           rest(f) == Amounts(log, (indexed + 1)..Len(log), f)
           days(f) == Total(daily, DOMAIN daily, f)
<1>1. /\ log \in Seq(Event) /\ indexed \in 0..Len(log) /\ Len(log) \in Nat
      /\ log' \in Seq(Event) /\ Len(log') = Len(log) + 1 /\ indexed \in 0..Len(log')
      /\ DOMAIN log = 1..Len(log) /\ DOMAIN log' = 1..(Len(log) + 1)
      /\ 1 \in 1..(Len(log) + 1) /\ indexed + 1 \in 1..(Len(log) + 1)
  BY DEF StatsInv, StatsTypes
<1>2. StatsTypes'
  BY <1>1 DEF StatsInv, StatsTypes
<1>3. ASSUME NEW f \in DOMAIN NoDaily
      PROVE  /\ all(f) \in Nat /\ rest(f) \in Nat /\ days(f) \in Nat
             /\ e.name = "SwapVerified" => all(f)' = all(f) + Amount(e, f)
                                           /\ rest(f)' = rest(f) + Amount(e, f)
             /\ e.name = "PoTAnchored" => all(f)' = all(f) /\ rest(f)' = rest(f)
  <2>1. /\ all(f) \in Nat
        /\ e.name = "SwapVerified" => all(f)' = all(f) + Amount(e, f)
        /\ e.name = "PoTAnchored" => all(f)' = all(f)
    BY <1>1, AmountsAppend
  <2>2. /\ rest(f) \in Nat
        /\ e.name = "SwapVerified" => rest(f)' = rest(f) + Amount(e, f)
        /\ e.name = "PoTAnchored" => rest(f)' = rest(f)
    BY <1>1, AmountsAppend
  <2>3. days(f) \in Nat
    <3>1. IsFiniteSet(DOMAIN daily) /\ \A d \in DOMAIN daily : daily[d][f] \in Nat
      BY DEF StatsInv, StatsTypes, StatsOf
    <3> QED
      BY <3>1, TotalWithout
  <2> QED
    BY <2>1, <2>2, <2>3
<1>4. \A f \in DOMAIN NoDaily : days(f) + rest(f) = all(f)
  BY DEF StatsInv, DaysAgree, Known
<1>5. \A f \in DOMAIN NoDaily : days(f)' = days(f)
  OBVIOUS
<1>6. /\ simple.totalSwaps = all("totalSwaps") /\ simple.turboSwaps = all("turboCount")
      /\ simple.fullSwaps = all("fullCount")
  BY DEF StatsInv, CountersAgree
<1>7. {"totalSwaps", "turboCount", "fullCount"} \subseteq DOMAIN NoDaily
  BY DEF NoDaily
<1>8. HoursAgree'
  BY DEF StatsInv, HoursAgree, HoursOf
<1>9. ASSUME NEW f \in DOMAIN NoDaily, e.name = "SwapVerified" => Amount(e, f) \in Nat
      PROVE  days(f)' + rest(f)' = all(f)'
  <2> HIDE DEF all, rest, days
  <2> QED
    BY <1>3, <1>4, <1>5, <1>9
<1>10. \A f \in DOMAIN NoDaily : days(f)' + rest(f)' = all(f)'
  BY <1>9, AmountType
<1>11. DaysAgree'
  BY <1>10 DEF DaysAgree, Known
<1>12. /\ simple'.totalSwaps = all("totalSwaps")' /\ simple'.turboSwaps = all("turboCount")'
       /\ simple'.fullSwaps = all("fullCount")'
  <2> HIDE DEF all, rest, days
  <2> QED
    BY <1>3, <1>6, <1>7
<1>13. CountersAgree'
  BY <1>12 DEF CountersAgree
<1> QED
  BY <1>2, <1>8, <1>11, <1>13 DEF StatsInv

\* The subgraph handles the next event: what it adds leaves the sum over the rest
\* of the log and enters a day, and the day's sum over its hours.
LEMMA IndexKeeps ==
  ASSUME StatsInv, Index
  PROVE  StatsInv'
<1> DEFINE n == indexed + 1
           e == log[n]
           rest(f) == Amounts(log, n..Len(log), f)
           days(f) == Total(daily, DOMAIN daily, f)
           day(h)  == h \div HoursPerDay
<1>1. /\ log \in Seq(Event) /\ indexed \in 0..Len(log) /\ Len(log) \in Nat
      /\ n \in 1..Len(log) /\ indexed' = n /\ log' = log
      /\ UNCHANGED <<simple, hour>>
  BY DEF StatsInv, StatsTypes, Index
<1>2. /\ n..Len(log) \in SUBSET (DOMAIN log) /\ n \in n..Len(log)
      /\ (n..Len(log)) \ {n} = (n + 1)..Len(log)
  BY <1>1
<1>3. CountersAgree'
  BY <1>1 DEF StatsInv, CountersAgree
<1>4. /\ StatsOf(daily, NoDaily) /\ StatsOf(hourly, NoHourly)
      /\ DOMAIN NoHourly \subseteq DOMAIN NoDaily
  BY DEF StatsInv, StatsTypes, NoDaily, NoHourly
<1>5. ASSUME NEW f \in DOMAIN NoDaily
      PROVE  /\ rest(f) \in Nat /\ rest(f)' \in Nat /\ days(f) \in Nat
             /\ e.name = "SwapVerified" => rest(f) = rest(f)' + Amount(e, f)
             /\ e.name = "PoTAnchored" => rest(f) = rest(f)'
             /\ days(f) + rest(f) = Amounts(log, DOMAIN log, f)
  <2>1. rest(f)' = Amounts(log, (n + 1)..Len(log), f)
    BY <1>1
  <2>2. /\ rest(f) \in Nat
        /\ e.name = "SwapVerified" => rest(f) = rest(f)' + Amount(e, f)
        /\ e.name = "PoTAnchored" => rest(f) = rest(f)'
    <3> DEFINE I == n..Len(log)
    <3>1. I \in SUBSET (DOMAIN log) /\ n \in I /\ rest(f)' = Amounts(log, I \ {n}, f)
      BY <1>2, <2>1
    <3> HIDE DEF I
    <3>2. /\ Amounts(log, I, f) \in Nat
          /\ log[n].name = "SwapVerified" =>
               Amounts(log, I, f) = Amounts(log, I \ {n}, f) + Amount(log[n], f)
          /\ log[n].name = "PoTAnchored" => Amounts(log, I, f) = Amounts(log, I \ {n}, f)
      BY <1>1, <3>1, AmountsWithout
    <3> QED
      BY <3>1, <3>2 DEF I
  <2>3. (n + 1)..Len(log) \in SUBSET (DOMAIN log)
    BY <1>1
  <2>4. rest(f)' \in Nat
    BY <1>1, <2>1, <2>3, AmountsWithout
  <2>5. days(f) \in Nat
    <3>1. IsFiniteSet(DOMAIN daily) /\ \A d \in DOMAIN daily : daily[d][f] \in Nat
      BY <1>4 DEF StatsOf
    <3> QED
      BY <3>1, TotalWithout
  <2> QED
    BY <2>2, <2>4, <2>5 DEF StatsInv, DaysAgree, Known
<1>6. e \in Event
  BY <1>1
<1>7. CASE e.name = "PoTAnchored" /\ UNCHANGED <<daily, hourly>>
  <2>1. StatsTypes'
    BY <1>1, <1>7 DEF StatsInv, StatsTypes
  <2>2. HoursAgree'
    BY <1>7 DEF StatsInv, HoursAgree, HoursOf
  <2>3. \A f \in DOMAIN NoDaily : Known(f)' = Amounts(log, DOMAIN log, f)
    <3> TAKE f \in DOMAIN NoDaily
    <3>1. days(f)' = days(f)
      BY <1>7
    <3> QED
      BY <1>1, <1>5, <1>7, <3>1 DEF Known
  <2> QED
    BY <1>1, <1>3, <2>1, <2>2, <2>3 DEF StatsInv, DaysAgree
<1>8. CASE e.name = "SwapVerified" /\ handleSwapVerified(e)
  <2>1. /\ e \in Verification
    BY <1>6, <1>8 DEF Event, Anchor
  <2> DEFINE d0 == day(e.at)
  <2>2. daily' = Bumped(daily, d0, e, NoDaily) /\ hourly' = Bumped(hourly, e.at, e, NoHourly)
    BY <1>8 DEF handleSwapVerified, BumpedDaily
  <2> HIDE DEF e, n, day
  <2>3. /\ StatsOf(daily', NoDaily)
        /\ \A k \in DOMAIN daily \ {d0} : daily'[k] = daily[k]
        /\ \A f \in DOMAIN NoDaily :
             daily'[d0][f] = (IF d0 \in DOMAIN daily THEN daily[d0][f] ELSE 0) + Amount(e, f)
    BY <1>4, <2>1, <2>2, BumpedValues, EmptyRecords
  <2>4. /\ StatsOf(hourly', NoHourly)
        /\ \A k \in DOMAIN hourly \ {e.at} : hourly'[k] = hourly[k]
    BY <1>4, <2>1, <2>2, BumpedValues, EmptyRecords
  <2>5. DOMAIN daily' = DOMAIN daily \cup {d0} /\ DOMAIN hourly' = DOMAIN hourly \cup {e.at}
    BY <2>2 DEF Bumped
  <2>6. StatsTypes'
    BY <1>1, <2>3, <2>4 DEF StatsInv, StatsTypes, n
  <2>7. \A f \in DOMAIN NoDaily : Known(f)' = Amounts(log, DOMAIN log, f)
    <3> TAKE f \in DOMAIN NoDaily
    <3>1. days(f)' = days(f) + Amount(e, f)
      <4>1. (DOMAIN daily \cup {d0}) \cap DOMAIN daily = DOMAIN daily
        OBVIOUS
      <4>2. Total(Bumped(daily, d0, e, NoDaily), DOMAIN daily \cup {d0}, f)
              = Total(daily, (DOMAIN daily \cup {d0}) \cap DOMAIN daily, f) + Amount(e, f)
        BY <1>4, <2>1, TotalBumped, EmptyRecords
      <4> QED
        BY <2>2, <2>5, <4>1, <4>2
    <3>2. Amount(e, f) \in Nat
      BY <2>1, AmountType
    <3>3. Known(f)' = days(f)' + rest(f)'
      BY <1>1 DEF Known, n
    <3> HIDE DEF days, rest
    <3> QED
      BY <1>5, <1>8, <3>1, <3>2, <3>3
  <2>8. DaysAgree'
    BY <1>1, <2>7 DEF DaysAgree
  <2>9. /\ \A h \in DOMAIN hourly : day(h) \in DOMAIN daily
        /\ \A d \in DOMAIN daily, f \in DOMAIN NoHourly :
             daily[d][f] = Total(hourly, HoursOf(d), f)
        /\ \A d : HoursOf(d) = {h \in DOMAIN hourly : day(h) = d}
        /\ \A d : HoursOf(d)' = {h \in DOMAIN hourly' : day(h) = d}
    BY DEF StatsInv, HoursAgree, HoursOf, day
  <2>10. \A h \in DOMAIN hourly' : day(h) \in DOMAIN daily'
    BY <2>5, <2>9
  <2>11. ASSUME NEW d \in DOMAIN daily', NEW f \in DOMAIN NoHourly, d # d0
         PROVE  daily'[d][f] = Total(hourly', HoursOf(d)', f)
    <3>1. HoursOf(d)' = HoursOf(d) /\ \A h \in HoursOf(d) : hourly'[h] = hourly[h]
      BY <2>4, <2>5, <2>9, <2>11
    <3>2. Total(hourly', HoursOf(d), f) = Total(hourly, HoursOf(d), f)
      BY <3>1, TotalAgrees
    <3> QED
      BY <2>3, <2>5, <2>9, <2>11, <3>1, <3>2
  <2>12. ASSUME NEW d, d = d0, NEW f \in DOMAIN NoHourly
         PROVE  daily'[d][f] = Total(hourly', HoursOf(d)', f)
    <3> DEFINE K == HoursOf(d)'
    <3>1. /\ K \in SUBSET (DOMAIN hourly \cup {e.at}) /\ e.at \in K
          /\ K \cap DOMAIN hourly = HoursOf(d)
      BY <2>5, <2>9, <2>12
    <3> HIDE DEF K, d0
    <3>2. Total(hourly', K, f) = Total(hourly, HoursOf(d), f) + Amount(e, f)
      BY <1>4, <2>1, <2>2, <3>1, TotalBumped, EmptyRecords
    <3>3. Total(hourly, HoursOf(d), f) = IF d \in DOMAIN daily THEN daily[d][f] ELSE 0
      <4>1. CASE d \in DOMAIN daily
        BY <2>9, <4>1
      <4>2. CASE d \notin DOMAIN daily
        <5>1. HoursOf(d) = {}
          BY <2>9, <4>2
        <5>2. DOMAIN [k \in {} |-> hourly[k][f]] = {}
          OBVIOUS
        <5>3. Total(hourly, {}, f) = 0
          BY <5>2, SumEmpty DEF Total, SumFunction
        <5> QED
          BY <4>2, <5>1, <5>3
      <4> QED
        BY <4>1, <4>2
    <3> QED
      BY <1>4, <2>3, <2>12, <3>2, <3>3 DEF K
  <2>13. HoursAgree'
    BY <2>10, <2>11, <2>12 DEF HoursAgree, day
  <2> QED
    BY <1>3, <2>6, <2>8, <2>13 DEF StatsInv
<1>9. \/ e.name = "PoTAnchored" /\ UNCHANGED <<daily, hourly>>
      \/ e.name = "SwapVerified" /\ handleSwapVerified(e)
  BY DEF Index, handlePoTAnchored
<1> QED
  BY <1>7, <1>8, <1>9

\* verifySwap logs a verification and counts what the subgraph will count.
LEMMA VerifySwapFacts ==
  ASSUME StatsTypes, NEW sender \in Users, NEW poolId \in {"v4", "simulated"},
         verifySwap(sender, poolId)
  PROVE  /\ simple' \in [config : Configs, totalSwaps : Nat, turboSwaps : Nat, fullSwaps : Nat]
         /\ \E e \in Verification :
              /\ log' = Append(log, e) /\ e.name = "SwapVerified" /\ e.pool = poolId
              /\ simple'.totalSwaps = simple.totalSwaps + Amount(e, "totalSwaps")
              /\ simple'.turboSwaps = simple.turboSwaps + Amount(e, "turboCount")
              /\ simple'.fullSwaps = simple.fullSwaps + Amount(e, "fullCount")
<1> DEFINE turbo == IsTurbo(simple.config, sender)
           e == [name |-> "SwapVerified", sender |-> sender, pool |-> poolId,
                 mode |-> IF turbo THEN "turbo" ELSE "full",
                 feeAmount |-> Fee(simple.config, turbo), at |-> hour]
           a == simple.totalSwaps + 1
           b == simple.turboSwaps + (IF turbo THEN 1 ELSE 0)
           c == simple.fullSwaps + (IF turbo THEN 0 ELSE 1)
<1>1. log' = Append(log, e)
      /\ simple' = [simple EXCEPT !.totalSwaps = a, !.turboSwaps = b, !.fullSwaps = c]
  BY DEF verifySwap, Counted
<1>2. /\ simple \in [config : Configs, totalSwaps : Nat, turboSwaps : Nat, fullSwaps : Nat]
      /\ hour \in Nat
  BY DEF StatsTypes
<1>3. a \in Nat /\ b \in Nat /\ c \in Nat
  BY <1>2
<1>4. Fee(simple.config, turbo) \in Nat
  <2>1. simple.config \in [minTTTBalance : Nat, turboFee : Nat, fullFee : Nat, tttTokenId : Ids]
    BY <1>2, StatsAssumption
  <2> QED
    BY <2>1 DEF Fee
<1>5. e \in Verification
  <2> DEFINE amount == Fee(simple.config, turbo)
             mode == IF turbo THEN "turbo" ELSE "full"
  <2>1. amount \in Nat /\ mode \in {"turbo", "full"}
    BY <1>4
  <2> HIDE DEF amount, mode
  <2>2. [name |-> "SwapVerified", sender |-> sender, pool |-> poolId, mode |-> mode,
         feeAmount |-> amount, at |-> hour] \in Verification
    BY <1>2, <2>1 DEF Verification
  <2> QED
    BY <2>2 DEF amount, mode
<1>6. /\ Amount(e, "totalSwaps") = 1
      /\ Amount(e, "turboCount") = (IF turbo THEN 1 ELSE 0)
      /\ Amount(e, "fullCount") = (IF turbo THEN 0 ELSE 1)
  <2>1. CASE turbo
    BY <2>1 DEF Amount
  <2>2. CASE ~turbo
    BY <2>2 DEF Amount
  <2> QED
    BY <2>1, <2>2
<1>7. e.name = "SwapVerified" /\ e.pool = poolId
  OBVIOUS
<1>8. /\ a = simple.totalSwaps + Amount(e, "totalSwaps")
      /\ b = simple.turboSwaps + Amount(e, "turboCount")
      /\ c = simple.fullSwaps + Amount(e, "fullCount")
  BY <1>6
<1> HIDE DEF a, b, c, e, turbo
<1>9. /\ simple' \in [config : Configs, totalSwaps : Nat, turboSwaps : Nat, fullSwaps : Nat]
      /\ simple'.totalSwaps = a /\ simple'.turboSwaps = b /\ simple'.fullSwaps = c
  BY <1>1, <1>2, <1>3
<1> QED
  BY <1>1, <1>5, <1>7, <1>8, <1>9

\* The verifications for the bot's pool are a number, ...
LEMMA BotVerifiedFinite ==
  ASSUME NEW events \in Seq(Event)
  PROVE  IsFiniteSet(BotVerified(events)) /\ Cardinality(BotVerified(events)) \in Nat
<1>1. /\ BotVerified(events) \in SUBSET Verified(events, DOMAIN events)
      /\ IsFiniteSet(Verified(events, DOMAIN events))
  BY VerifiedFacts DEF BotVerified
<1>2. IsFiniteSet(BotVerified(events))
  BY <1>1, FS_Subset
<1> QED
  BY <1>2, FS_CardinalityType

\* ... which grows when the event that is added to the log is one of them.
LEMMA BotVerifiedAppend ==
  ASSUME NEW events \in Seq(Event), NEW e \in Event
  PROVE  Cardinality(BotVerified(Append(events, e))) =
           Cardinality(BotVerified(events))
           + (IF e.name = "SwapVerified" /\ e.pool = "v4" THEN 1 ELSE 0)
<1> DEFINE n == Len(events) + 1
           V == BotVerified(events)
           W == BotVerified(Append(events, e))
<1>1. IsFiniteSet(V) /\ Cardinality(V) \in Nat
  BY BotVerifiedFinite
<1>2. /\ DOMAIN Append(events, e) = DOMAIN events \cup {n} /\ n \notin DOMAIN events
      /\ Append(events, e)[n] = e
      /\ \A i \in DOMAIN events : Append(events, e)[i] = events[i]
  OBVIOUS
<1>3. n \notin V
  BY <1>2 DEF BotVerified, Verified
<1>4. CASE e.name = "SwapVerified" /\ e.pool = "v4"
  <2>1. W = V \cup {n}
    BY <1>2, <1>4 DEF BotVerified, Verified
  <2> HIDE DEF V, W, n
  <2>2. Cardinality(W) = Cardinality(V) + 1
    BY <1>1, <1>3, <2>1, FS_AddElement
  <2> QED
    BY <1>1, <1>4, <2>2 DEF V, W
<1>5. CASE ~(e.name = "SwapVerified" /\ e.pool = "v4")
  <2>1. W = V
    BY <1>2, <1>5 DEF BotVerified, Verified
  <2>2. Cardinality(W) = Cardinality(V) + 0
    BY <1>1, <2>1
  <2> QED
    BY <1>1, <1>5, <2>2
<1> QED
  BY <1>4, <1>5

\* mint logs an anchor.
LEMMA MintLogs ==
  ASSUME StatsTypes, NEW u \in Users, NEW id \in Ids, mint(u, id)
  PROVE  \E e \in Event : e.name = "PoTAnchored" /\ log' = Append(log, e)
<1> DEFINE e == [name |-> "PoTAnchored", id |-> id, at |-> hour]
<1>1. e \in Event /\ e.name = "PoTAnchored"
  BY DEF StatsTypes, Event, Anchor
<1>2. log' = Append(log, e)
  BY DEF mint
<1> QED
  BY <1>1, <1>2

LEMMA StatsStep == StatsInv /\ [StatsNext]_statsVars => StatsInv'
<1> SUFFICES ASSUME StatsInv, [StatsNext]_statsVars PROVE StatsInv'
  OBVIOUS
<1>0. /\ StatsTypes /\ hour \in Nat
      /\ simple \in [config : Configs, totalSwaps : Nat, turboSwaps : Nat, fullSwaps : Nat]
  BY DEF StatsInv, StatsTypes
<1>1. CASE UNCHANGED <<simple, log, indexed, daily, hourly>> /\ hour' \in Nat
  BY <1>0, <1>1, StatsQuiet
<1>2. ASSUME NEW u \in Users, NEW id \in Ids, mint(u, id) \/ burn(u, id) PROVE StatsInv'
  <2>1. CASE mint(u, id)
    <3>1. PICK e \in Event : e.name = "PoTAnchored" /\ log' = Append(log, e)
      BY <1>0, <2>1, MintLogs
    <3>2. UNCHANGED <<simple, indexed, daily, hourly, hour>>
      BY <2>1 DEF mint, graph
    <3> QED
      BY <1>0, <3>1, <3>2, LogKeeps
  <2>2. CASE burn(u, id)
    BY <1>0, <1>1, <2>2 DEF burn, graph
  <2> QED
    BY <1>2, <2>1, <2>2
<1>3. CASE pause \/ addLiquidity
  BY <1>0, <1>1, <1>3 DEF pause, addLiquidity, graph
<1>4. ASSUME NEW c \in Configs, setFeeConfig(c) PROVE StatsInv'
  <2>1. UNCHANGED <<log, indexed, daily, hourly, hour>>
    BY <1>4 DEF setFeeConfig, graph
  <2>2. /\ simple' \in [config : Configs, totalSwaps : Nat, turboSwaps : Nat, fullSwaps : Nat]
        /\ simple'.totalSwaps = simple.totalSwaps
        /\ simple'.turboSwaps = simple.turboSwaps
        /\ simple'.fullSwaps = simple.fullSwaps
    BY <1>0, <1>4 DEF setFeeConfig
  <2> QED
    BY <1>0, <2>1, <2>2, StatsQuiet
<1>5. ASSUME NEW p \in {"v4", "simulated"}, verifySwap(deployer, p), UNCHANGED <<graph, hour>>
      PROVE  StatsInv'
  <2>1. deployer \in Users
    BY StatsAssumption
  <2>2. /\ simple' \in [config : Configs, totalSwaps : Nat, turboSwaps : Nat, fullSwaps : Nat]
        /\ \E e \in Verification :
             /\ log' = Append(log, e) /\ e.name = "SwapVerified" /\ e.pool = p
             /\ simple'.totalSwaps = simple.totalSwaps + Amount(e, "totalSwaps")
             /\ simple'.turboSwaps = simple.turboSwaps + Amount(e, "turboCount")
             /\ simple'.fullSwaps = simple.fullSwaps + Amount(e, "fullCount")
    BY <1>0, <1>5, <2>1, VerifySwapFacts
  <2>3. PICK e \in Verification :
             /\ log' = Append(log, e) /\ e.name = "SwapVerified"
             /\ simple'.totalSwaps = simple.totalSwaps + Amount(e, "totalSwaps")
             /\ simple'.turboSwaps = simple.turboSwaps + Amount(e, "turboCount")
             /\ simple'.fullSwaps = simple.fullSwaps + Amount(e, "fullCount")
    BY <2>2
  <2>4. e \in Event /\ UNCHANGED <<indexed, daily, hourly, hour>>
    BY <1>5 DEF Event, graph
  <2> QED
    BY <2>2, <2>3, <2>4, LogKeeps
<1>6. CASE VerifySwapBot
  BY <1>5, <1>6 DEF VerifySwapBot
<1>7. CASE BotSwap
  BY <1>0, <1>1, <1>7 DEF BotSwap, graph
<1>8. CASE BotVerify
  <2>1. UNCHANGED <<graph, hour>> /\ (verifySwap(deployer, "v4") \/ UNCHANGED <<simple, log>>)
    BY <1>8 DEF BotVerify
  <2>2. CASE verifySwap(deployer, "v4")
    BY <1>5, <2>1, <2>2
  <2>3. CASE UNCHANGED <<simple, log>>
    BY <1>0, <1>1, <2>1, <2>3 DEF graph
  <2> QED
    BY <2>1, <2>2, <2>3
<1>9. CASE Index
  BY <1>9, IndexKeeps
<1>10. CASE HourPasses
  BY <1>0, <1>1, <1>10 DEF HourPasses, graph
<1>11. CASE UNCHANGED statsVars
  BY <1>0, <1>1, <1>11 DEF statsVars
<1> QED
  BY <1>2, <1>3, <1>4, <1>6, <1>7, <1>8, <1>9, <1>10, <1>11 DEF StatsNext

\* The sums over log, days and hours stand in every reachable state.
THEOREM StatsInductive == StatsSpec => []StatsInv
  BY StatsStart, StatsStep, PTL DEF StatsSpec

\* In every behaviour the statistics of the subgraph, the counters of the hook
\* and the log agree, for logs of any length, any number of days and hours, any
\* fee configurations and any lag of the indexer.
THEOREM StatisticsAgree == StatsSpec => []IndexAgrees
<1>1. StatsInv => IndexAgrees
  <2>1. {"totalSwaps", "turboCount", "fullCount", "totalFees"} = DOMAIN NoDaily
    BY DEF NoDaily
  <2> QED
    BY <2>1 DEF StatsInv, CountersAgree, DaysAgree, HoursAgree, IndexAgrees
<1> QED
  BY <1>1, StatsInductive, PTL

\* swap_bot between its two transactions has a swap that it has not verified yet.
Unverified == IF bot.pc = "verify" THEN 1 ELSE 0

BotInv ==
  /\ swapsMined \in Nat /\ "pc" \in DOMAIN bot /\ bot.pc \in {"swap", "verify"}
  /\ Cardinality(BotVerified(log)) + Unverified <= swapsMined

LEMMA BotStep == StatsInv /\ BotInv /\ [StatsNext]_statsVars => BotInv'
<1> SUFFICES ASSUME StatsInv, BotInv, [StatsNext]_statsVars PROVE BotInv'
  OBVIOUS
<1> DEFINE count == Cardinality(BotVerified(log))
<1>0. /\ StatsTypes /\ log \in Seq(Event)
      /\ swapsMined \in Nat /\ "pc" \in DOMAIN bot /\ bot.pc \in {"swap", "verify"}
      /\ count + Unverified <= swapsMined /\ Unverified \in 0..1
  BY DEF StatsInv, StatsTypes, BotInv, Unverified
<1>a. count \in Nat
  BY <1>0, BotVerifiedFinite
<1>1. CASE UNCHANGED <<log, swapsMined, bot>>
  BY <1>1 DEF BotInv, Unverified
<1>2. ASSUME NEW u \in Users, NEW id \in Ids, mint(u, id) \/ burn(u, id) PROVE BotInv'
  <2>1. CASE mint(u, id)
    <3>1. PICK e \in Event : e.name = "PoTAnchored" /\ log' = Append(log, e)
      BY <1>0, <2>1, MintLogs
    <3>2. count' = count
      BY <1>0, <1>a, <3>1, BotVerifiedAppend
    <3>3. UNCHANGED <<swapsMined, bot>>
      BY <2>1 DEF mint, pool
    <3> QED
      BY <3>2, <3>3 DEF BotInv, Unverified
  <2>2. CASE burn(u, id)
    BY <1>1, <2>2 DEF burn, pool
  <2> QED
    BY <1>2, <2>1, <2>2
<1>3. CASE pause \/ addLiquidity \/ Index \/ HourPasses
  BY <1>1, <1>3 DEF pause, addLiquidity, Index, HourPasses, pool
<1>4. ASSUME NEW c \in Configs, setFeeConfig(c) PROVE BotInv'
  BY <1>1, <1>4 DEF setFeeConfig, pool
<1>5. ASSUME NEW p \in {"v4", "simulated"}, verifySwap(deployer, p)
      PROVE  count' = count + (IF p = "v4" THEN 1 ELSE 0)
  <2>1. deployer \in Users
    BY StatsAssumption
  <2>2. PICK e \in Verification :
          log' = Append(log, e) /\ e.name = "SwapVerified" /\ e.pool = p
    BY <1>0, <1>5, <2>1, VerifySwapFacts
  <2>3. e \in Event
    BY DEF Event
  <2> QED
    BY <1>0, <2>2, <2>3, BotVerifiedAppend
<1>6. CASE VerifySwapBot
  <2>1. count' = count /\ UNCHANGED <<swapsMined, bot>>
    BY <1>a, <1>5, <1>6 DEF VerifySwapBot, pool
  <2> QED
    BY <2>1 DEF BotInv, Unverified
<1>7. CASE BotSwap
  <2>1. bot.pc = "swap" /\ log' = log /\ count' = count /\ Unverified = 0
    BY <1>7 DEF BotSwap, Unverified
  <2>2. CASE bot' = AfterBotSwap(FALSE) /\ swapsMined' \in {swapsMined, swapsMined + 1}
    <3>1. bot'.pc = "swap" /\ "pc" \in DOMAIN bot'
      BY <1>0, <2>2 DEF AfterBotSwap, NextCycle
    <3>2. Unverified' = 0
      BY <3>1 DEF Unverified
    <3>3. swapsMined' \in Nat /\ swapsMined <= swapsMined'
      BY <1>0, <2>2
    <3>4. count' + Unverified' <= swapsMined'
      BY <1>0, <1>a, <2>1, <3>2, <3>3
    <3> QED
      BY <3>1, <3>3, <3>4 DEF BotInv
  <2>3. CASE bot' = AfterBotSwap(TRUE) /\ swapsMined' = swapsMined + 1
    <3>1. bot'.pc = "verify" /\ "pc" \in DOMAIN bot'
      BY <1>0, <2>3 DEF AfterBotSwap
    <3>2. Unverified' = 1
      BY <3>1 DEF Unverified
    <3>3. count' + Unverified' <= swapsMined' /\ swapsMined' \in Nat
      BY <1>0, <1>a, <2>1, <2>3, <3>2
    <3> QED
      BY <3>1, <3>3 DEF BotInv
  <2>4. \/ /\ swapsMined' = swapsMined + 1
           /\ bot' = AfterBotSwap(TRUE) \/ bot' = AfterBotSwap(FALSE)
        \/ bot' = AfterBotSwap(FALSE) /\ swapsMined' = swapsMined
    BY <1>7 DEF BotSwap, PoolSwap, pool
  <2> QED
    BY <2>2, <2>3, <2>4
<1>8. CASE BotVerify
  <2>1. /\ Unverified = 1 /\ bot' = NextCycle /\ UNCHANGED swapsMined
        /\ verifySwap(deployer, "v4") \/ UNCHANGED log
    BY <1>8 DEF BotVerify, Unverified, pool
  <2>2. bot'.pc = "swap" /\ "pc" \in DOMAIN bot' /\ Unverified' = 0
    BY <1>0, <2>1 DEF NextCycle, Unverified
  <2>3. count' \in {count, count + 1}
    BY <1>a, <1>5, <2>1
  <2>4. count' + Unverified' <= swapsMined'
    BY <1>0, <1>a, <2>1, <2>2, <2>3
  <2> QED
    BY <1>0, <2>1, <2>2, <2>4 DEF BotInv
<1>9. CASE UNCHANGED statsVars
  BY <1>1, <1>9 DEF statsVars
<1> QED
  BY <1>2, <1>3, <1>4, <1>6, <1>7, <1>8, <1>9 DEF StatsNext

\* In every behaviour the pool has had at least as many swaps as swap_bot
\* verified, however many cycles it runs and whatever fails or is lost in them.
THEOREM BotVerifiesRealSwaps == StatsSpec => []VerifiedWereSwapped
<1>1. StatsInit => BotInv
  <2> SUFFICES ASSUME StatsInit PROVE BotInv
    OBVIOUS
  <2>1. BotVerified(log) = {}
    BY DEF StatsInit, BotVerified, Verified
  <2>2. Cardinality(BotVerified(log)) = 0
    BY <2>1, FS_EmptySet
  <2> QED
    BY <2>2 DEF StatsInit, BotInv, Unverified
<1>2. StatsSpec => []BotInv
  BY <1>1, BotStep, StatsInductive, PTL DEF StatsSpec
<1>3. StatsInv /\ BotInv => VerifiedWereSwapped
  <2> SUFFICES ASSUME StatsInv, BotInv PROVE VerifiedWereSwapped
    OBVIOUS
  <2>1. Cardinality(BotVerified(log)) \in Nat
    BY BotVerifiedFinite DEF StatsInv, StatsTypes
  <2> QED
    BY <2>1 DEF BotInv, Unverified, VerifiedWereSwapped
<1> QED
  BY <1>2, <1>3, StatsInductive, PTL
=============================================================================
