---------------------------- MODULE EVMConnector ----------------------------
(***************************************************************************)
(* The connection life cycle of the SDK's EVMConnector                     *)
(* (src/evm_connector.ts): connect with its fallback RPCs, reconnect,      *)
(* disconnect, the attached contracts and the event listeners.             *)
(*                                                                         *)
(* connect and reconnect wait for provider.getNetwork(), so two of them,   *)
(* or one and a disconnect, can interleave at that await; each step below  *)
(* is what runs between two awaits.  A JsonRpcProvider is the number of    *)
(* its creation, and 0 is null.  A signer is the number of the provider it *)
(* is on, or Own: a Signer object without connect stays on its own one.    *)
(* A Contract is known by the number of its creation and by the signer it  *)
(* was made with, a listener by its subscription, its event and the        *)
(* Contract it was registered on, where on() and off() take effect at once.*)
(***************************************************************************)
EXTENDS Integers

CONSTANTS
  Tasks,                 \* calls of connect and reconnect that may overlap
  Fallbacks,             \* length of fallbackRpcUrls
  maxReconnectAttempts,
  MaxProviders,          \* bounds on the providers, ...
  MaxContracts,          \* ... the Contract objects ...
  MaxSubscriptions       \* ... and the subscriptions of a behaviour

ASSUME ConnectorAssumption ==
  /\ Fallbacks \in Nat /\ maxReconnectAttempts \in Nat \ {0} /\ MaxProviders \in Nat
  /\ MaxContracts \in Nat /\ MaxSubscriptions \in Nat

VARIABLES
  provider, signer, tttContract, protocolFeeContract, connected,
  credentials,    \* signerOrKey: "none", a "good" or a "bad" key, or an "own" signer
  eventListeners, \* the closures unsubscribeAll runs
  registered,     \* what is registered on the contracts themselves
  alive,          \* providers created and not destroyed
  created,        \* the number of providers so far
  contracts,      \* the number of Contract objects so far
  subscriptions,  \* the number of subscriptions so far
  task            \* task -> the await it is at

vars == <<provider, signer, tttContract, protocolFeeContract, connected,
          credentials, eventListeners, registered, alive, created, contracts,
          subscriptions, task>>

Events == {"TTTMinted", "TTTBurned", "FeeCollected"}
Idle   == [op |-> "idle", key |-> "none", provider |-> 0, left |-> 0]
Own    == -1
NoContract == [no |-> 0, on |-> 0]

\* Mutant of Lesser that lets reconnect try more urls than there are
Greater(m, n) == IF m <= n THEN n ELSE m

Lesser(m, n) == IF m <= n THEN m ELSE n

Init ==
  /\ provider = 0 /\ signer = 0
  /\ tttContract = NoContract /\ protocolFeeContract = NoContract
  /\ connected = FALSE /\ credentials = "none"
  /\ eventListeners = {} /\ registered = {}
  /\ alive = {} /\ created = 0 /\ contracts = 0 /\ subscriptions = 0
  /\ task = [t \in Tasks |-> Idle]

-----------------------------------------------------------------------------
(* connect and reconnect *)

\* new JsonRpcProvider(url), a signer on it, and the await of getNetwork();
\* left is how many further urls may be tried.
Dial(t, op, key, left) ==
  /\ created < MaxProviders
  /\ created' = created + 1
  /\ provider' = created'
  /\ signer' = IF key = "own" THEN Own ELSE created'
  /\ task' = [task EXCEPT ![t] =
                [op |-> op, key |-> key, provider |-> created', left |-> left]]

connect(t, key) ==
  /\ task[t] = Idle
  /\ Dial(t, "connect", key, Fallbacks)
  /\ alive' = alive \cup {created'}
  /\ credentials' = key
  /\ UNCHANGED <<tttContract, protocolFeeContract, connected, eventListeners,
                 registered, contracts, subscriptions>>

\* n urls with a key no signer can be made of: the provider is replaced, the
\* signer is not, and nothing is awaited.
DialInVain(n) ==
  /\ created + n <= MaxProviders
  /\ created' = created + n
  /\ provider' = created'

\* connect with a private key that it finds to be of the wrong format, on the
\* first url, or that ethers rejects, on every url
connectBadKey(n) ==
  /\ DialInVain(n)
  /\ alive' = alive \cup (created + 1)..created'
  /\ credentials' = "bad"
  /\ UNCHANGED <<signer, tttContract, protocolFeeContract, connected,
                 eventListeners, registered, contracts, subscriptions, task>>

\* getNetwork() resolves.  The task answers for the provider it made, which
\* need not be the current one any more.
NetworkAnswers(t) ==
  /\ task[t] # Idle /\ task[t].provider \in alive
  /\ connected' = TRUE
  /\ task' = [task EXCEPT ![t] = Idle]
  /\ UNCHANGED <<provider, signer, tttContract, protocolFeeContract, credentials,
                 eventListeners, registered, alive, created, contracts, subscriptions>>

\* The key reconnect finds stored.  (One that connect found to be of the wrong
\* format may yet be one that ethers takes.)
StoredKey == IF credentials = "own" THEN "own" ELSE "good"

\* getNetwork() rejects, at the latest when the provider is destroyed: the
\* next url is tried, and after the last one only reconnect resets connected.
\* reconnect reads the key anew, which another connect may have replaced.
NetworkFails(t) ==
  /\ task[t] # Idle
  /\ \/ /\ task[t].left > 0
        /\ Dial(t, task[t].op,
                IF task[t].op = "reconnect" THEN StoredKey ELSE task[t].key,
                task[t].left - 1)
        /\ alive' = alive \cup {created'}
        /\ UNCHANGED connected
     \/ /\ task[t].left > 0 /\ task[t].op = "reconnect" /\ credentials = "bad"
        /\ DialInVain(task[t].left)
        /\ alive' = alive \cup (created + 1)..created'
        /\ connected' = FALSE
        /\ task' = [task EXCEPT ![t] = Idle]
        /\ UNCHANGED signer
     \/ /\ task[t].left = 0
        /\ connected' = (connected /\ task[t].op = "connect")
        /\ task' = [task EXCEPT ![t] = Idle]
        /\ UNCHANGED <<provider, signer, alive, created>>
  /\ UNCHANGED <<tttContract, protocolFeeContract, credentials, eventListeners,
                 registered, contracts, subscriptions>>

unsubscribeAll ==
  /\ registered' = registered \ eventListeners
  /\ eventListeners' = {}

\* Mutant of Detach that keeps the attached contracts
DetachNothing == UNCHANGED <<tttContract, protocolFeeContract>>

Detach == tttContract' = NoContract /\ protocolFeeContract' = NoContract

disconnect ==
  /\ unsubscribeAll
  /\ Detach
  /\ alive' = alive \ {provider}
  /\ provider' = 0 /\ signer' = 0 /\ connected' = FALSE
  /\ UNCHANGED <<credentials, created, contracts, subscriptions, task>>

Attempts == Lesser(maxReconnectAttempts, 1 + Fallbacks)

\* Up to Attempts urls are tried, after a disconnect.
reconnect(t) ==
  /\ task[t] = Idle /\ credentials # "none"
  /\ unsubscribeAll
  /\ Detach
  /\ connected' = FALSE
  /\ Dial(t, "reconnect", StoredKey, Attempts - 1)
  /\ alive' = (alive \ {provider}) \cup {created'}
  /\ UNCHANGED <<credentials, contracts, subscriptions>>

reconnectBadKey ==
  /\ credentials = "bad"
  /\ unsubscribeAll
  /\ Detach
  /\ connected' = FALSE /\ signer' = 0
  /\ DialInVain(Attempts)
  /\ alive' = (alive \ {provider}) \cup (created + 1)..created'
  /\ UNCHANGED <<credentials, contracts, subscriptions, task>>

-----------------------------------------------------------------------------
(* Contracts and listeners *)

NewContract == [no |-> contracts + 1, on |-> signer]

attachContract ==
  /\ signer # 0 /\ contracts < MaxContracts
  /\ contracts' = contracts + 1
  /\ tttContract' = NewContract
  /\ UNCHANGED <<provider, signer, protocolFeeContract, connected, credentials,
                 eventListeners, registered, alive, created, subscriptions, task>>

attachProtocolFeeContract ==
  /\ signer # 0 /\ contracts < MaxContracts
  /\ contracts' = contracts + 1
  /\ protocolFeeContract' = NewContract
  /\ UNCHANGED <<provider, signer, tttContract, connected, credentials,
                 eventListeners, registered, alive, created, subscriptions, task>>

\* The contract whose events of this name are listened to
ContractOf(e) == IF e = "FeeCollected" THEN protocolFeeContract ELSE tttContract

\* The listeners a subscription with callbacks for these events registers
Handlers(events) ==
  {[event |-> e, contract |-> ContractOf(e), sub |-> subscriptions + 1] :
     e \in {f \in events : ContractOf(f) # NoContract}}

\* Mutant of subscribeToEvents that keeps the previous subscription
SubscribeAgain(events) ==
  /\ subscriptions < MaxSubscriptions
  /\ subscriptions' = subscriptions + 1
  /\ registered' = registered \cup Handlers(events)
  /\ eventListeners' = eventListeners \cup Handlers(events)
  /\ UNCHANGED <<provider, signer, tttContract, protocolFeeContract, connected,
                 credentials, alive, created, contracts, task>>

subscribeToEvents(events) ==
  /\ subscriptions < MaxSubscriptions
  /\ subscriptions' = subscriptions + 1
  /\ registered' = (registered \ eventListeners) \cup Handlers(events)
  /\ eventListeners' = Handlers(events)
  /\ UNCHANGED <<provider, signer, tttContract, protocolFeeContract, connected,
                 credentials, alive, created, contracts, task>>

Unsubscribe ==
  /\ unsubscribeAll
  /\ UNCHANGED <<provider, signer, tttContract, protocolFeeContract, connected,
                 credentials, alive, created, contracts, subscriptions, task>>

Next ==
  \/ \E t \in Tasks : \E key \in {"good", "own"} : connect(t, key)
  \/ \E t \in Tasks : reconnect(t) \/ NetworkAnswers(t) \/ NetworkFails(t)
  \/ \E n \in {1, 1 + Fallbacks} : connectBadKey(n)
  \/ reconnectBadKey
  \/ disconnect
  \/ attachContract \/ attachProtocolFeeContract
  \/ \E events \in SUBSET Events : subscribeToEvents(events)
  \/ Unsubscribe

Spec == Init /\ [][Next]_vars

-----------------------------------------------------------------------------
(* What the connector promises *)

Contracts == [no : 0..contracts, on : Own..created]
Listeners == [event : Events, contract : Contracts, sub : 1..subscriptions]

TypeOK ==
  /\ provider \in 0..created /\ signer \in Own..created
  /\ tttContract \in Contracts /\ protocolFeeContract \in Contracts
  /\ created \in 0..MaxProviders /\ alive \subseteq 1..created
  /\ contracts \in 0..MaxContracts /\ subscriptions \in 0..MaxSubscriptions
  /\ connected \in BOOLEAN /\ credentials \in {"none", "good", "bad", "own"}
  /\ registered \subseteq Listeners /\ eventListeners \subseteq Listeners
  /\ task \in [Tasks -> [op : {"idle", "connect", "reconnect"},
                         key : {"none", "good", "own"},
                         provider : 0..created, left : 0..Fallbacks]]

\* However subscriptions, new contracts, reconnects and disconnects follow one
\* another, whatever is registered on some contract is known to unsubscribeAll
\* and no event has two listeners, on one contract or on two, so that no callback
\* runs twice for an event.
ListenersTracked ==
  /\ registered = eventListeners
  /\ \A l, m \in registered : l.event = m.event => l = m

\* An attached contract never talks through a destroyed provider: every path
\* that destroys one detaches the contracts made on it, also with a connect
\* or a reconnect of another call under way.
AttachedUsable ==
  \A c \in {tttContract, protocolFeeContract} \ {NoContract} :
    c.on \in alive \cup {Own}
=============================================================================
