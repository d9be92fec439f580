--------------------------- MODULE HttpOnlyClient ---------------------------
(***************************************************************************)
(* HttpOnlyClient (src/http_client.ts) and the x402 facilitator that wraps *)
(* it (mcp/packages/x402-pot).  A client makes PoTs from the Date headers  *)
(* of HTTPS servers and protects them with an HMAC; any client with the    *)
(* same secret verifies them.  A PoT travels as it is or inside a payment, *)
(* and may arrive more than once, late, and with a field changed.          *)
(*                                                                         *)
(* Generation reads and writes no state of the client, so a whole call,    *)
(* the four concurrent requests included, is one step at the moment the    *)
(* last of them settles; a call whose requests all fail throws and changes *)
(* nothing.  A nonce of 16 random bytes is a number not used before.  The  *)
(* HMAC is ideal: it is the tuple of what it covers.                       *)
(***************************************************************************)
EXTENDS NonceCache, MedianOfSources

CONSTANTS
  Clients,     \* instances of HttpOnlyClient, each with a nonce cache
  Secret,      \* client -> options.hmacSecret
  Expiry,      \* client -> options.expirySeconds
  Tolerance,   \* options.toleranceNs
  Fetches,     \* the sets of readings one fan-out may yield
  MaxNonces,   \* bound on the PoTs of a behaviour
  MaxTime      \* bound on the clock

Nonces == 1..MaxNonces

ASSUME ConstantsAssumption ==
  /\ Expiry \in [Clients -> Nat]
  /\ Tolerance \in Nat
  /\ \A R \in Fetches : IsFiniteSet(R) /\ R # {}
  /\ MaxNonces \in Nat /\ MaxTime \in Nat

VARIABLES
  now,          \* Date.now()
  pots,         \* the PoTs generated so far, the n-th with nonce n
  usedNonces,   \* client -> nonce -> the time it was first verified
  accepted,     \* ghost: client -> PoT -> how often it was accepted, at most 2
  believed,     \* ghost: what clients accepted: [by, from, timestamp, expiresAt]
  lost          \* ghost: client -> nonces dropped to make room

vars == <<now, pots, usedNonces, accepted, believed, lost>>

\* Mutant of computeHmac that leaves the nonce out of the message
HmacWithoutNonce(timestamp, nonce, expiresAt, sources, secret) ==
  <<timestamp, expiresAt, sources, secret>>

\* Mutant of computeHmac that leaves the expiry out of the message
HmacWithoutExpiry(timestamp, nonce, expiresAt, sources, secret) ==
  <<timestamp, nonce, sources, secret>>

computeHmac(timestamp, nonce, expiresAt, sources, secret) ==
  <<timestamp, nonce, expiresAt, sources, secret>>

MakePoT(c, R, nonce) ==
  LET timestamp == Median(R).timestamp
      expiresAt == now + Expiry[c]
      sources   == Cardinality(R)
  IN  [timestamp |-> timestamp, sources |-> sources, sourceReadings |-> R,
       nonce |-> nonce, expiresAt |-> expiresAt,
       hmac |-> computeHmac(timestamp, nonce, expiresAt, sources, Secret[c])]

Distance(a, b) == IF a > b THEN a - b ELSE b - a

WithinTolerance(pot) ==
  \A r \in pot.sourceReadings :
    Distance(r.timestamp, pot.timestamp) <= Tolerance

\* Step 2 of verifyPoT.  An hmac that does not even have the right length
\* makes timingSafeEqual throw instead: neither changes anything.
HmacMatches(c, pot) ==
  pot.hmac = computeHmac(pot.timestamp, pot.nonce, pot.expiresAt, pot.sources,
                         Secret[c])

\* What verifyPoT does with a pot that stems from the n-th one.
verifyPoT(c, n, pot) ==
  LET kept == Swept(usedNonces[c], now)
      ok   == WithinTolerance(pot)
  IN  \/ /\ now > pot.expiresAt \/ ~HmacMatches(c, pot)
         /\ UNCHANGED <<usedNonces, accepted, believed, lost>>
      \/ /\ now <= pot.expiresAt
         /\ HmacMatches(c, pot)
         /\ pot.nonce \in DOMAIN kept
         /\ usedNonces' = [usedNonces EXCEPT ![c] = kept]
         /\ UNCHANGED <<accepted, believed, lost>>
      \/ /\ now <= pot.expiresAt
         /\ HmacMatches(c, pot)
         /\ pot.nonce \notin DOMAIN kept
         /\ \E gone \in Evictions(kept) :
              /\ usedNonces' =
                   [usedNonces EXCEPT ![c] = Remember(kept, gone, pot.nonce, now)]
              /\ lost' = [lost EXCEPT ![c] = @ \cup gone]
         /\ accepted' = IF ok /\ accepted[c][n] < 2
                        THEN [accepted EXCEPT ![c][n] = @ + 1] ELSE accepted
         /\ believed' = IF ok
                        THEN believed \cup
                               {[by |-> c, from |-> n,
                                 timestamp |-> pot.timestamp,
                                 expiresAt |-> pot.expiresAt]}
                        ELSE believed

\* A payment carries the names of the sources without their readings;
\* verifyPaymentPoT puts the synthesized time in their place.
Reconstructed(pot) ==
  [pot EXCEPT !.sourceReadings = {[r EXCEPT !.timestamp = pot.timestamp] : r \in @}]

\* What may arrive when pot was sent: pot, or pot with one field changed.
Arrivals(pot) ==
  LET times == UNION {{r.timestamp : r \in R} : R \in Fetches}
  IN  {pot, [pot EXCEPT !.hmac = << >>]}
        \cup {[pot EXCEPT !.nonce = m] : m \in Nonces}
        \cup {[pot EXCEPT !.expiresAt = e] : e \in now..MaxTime}
        \cup {[pot EXCEPT !.timestamp = ts] : ts \in times}
        \cup {[pot EXCEPT !.sourceReadings = R] : R \in Fetches}

Init ==
  /\ now = 0
  /\ pots = << >>
  /\ usedNonces = [c \in Clients |-> << >>]
  /\ accepted = [c \in Clients |-> [n \in Nonces |-> 0]]
  /\ believed = {}
  /\ lost = [c \in Clients |-> {}]

\* generatePoT, or createPaymentWithPoT around it
generatePoT(c, R) ==
  LET nonce == Cardinality(DOMAIN pots) + 1
  IN  /\ nonce <= MaxNonces
      /\ pots' = [n \in DOMAIN pots \cup {nonce} |->
                    IF n = nonce THEN MakePoT(c, R, nonce) ELSE pots[n]]
      /\ UNCHANGED <<now, usedNonces, accepted, believed, lost>>

\* verifyPoT of something that arrived
VerifyPoT(c, n) ==
  /\ \E pot \in Arrivals(pots[n]) : verifyPoT(c, n, pot)
  /\ UNCHANGED <<now, pots>>

\* verifyPaymentPoT of something that arrived.  A payment without a PoT or
\* with numbers that do not parse is refused before and changes nothing.
verifyPaymentPoT(c, n) ==
  /\ \E pot \in Arrivals(pots[n]) : verifyPoT(c, n, Reconstructed(pot))
  /\ UNCHANGED <<now, pots>>

Tick ==
  /\ now < MaxTime
  /\ now' = now + 1
  /\ UNCHANGED <<pots, usedNonces, accepted, believed, lost>>

Next ==
  \/ \E c \in Clients, R \in Fetches : generatePoT(c, R)
  \/ \E c \in Clients : \E n \in DOMAIN pots : VerifyPoT(c, n)
  \/ \E c \in Clients : \E n \in DOMAIN pots : verifyPaymentPoT(c, n)
  \/ Tick

Spec == Init /\ [][Next]_vars
-----------------------------------------------------------------------------
TypeOK ==
  /\ now \in 0..MaxTime
  /\ DOMAIN pots \in {1..k : k \in 0..MaxNonces}
  /\ \A n \in DOMAIN pots : pots[n].nonce = n
  /\ DOMAIN usedNonces = Clients
  /\ \A c \in Clients :
       /\ DOMAIN usedNonces[c] \subseteq DOMAIN pots
       /\ \A n \in DOMAIN usedNonces[c] : usedNonces[c][n] \in 0..now
  /\ accepted \in [Clients -> [Nonces -> 0..2]]
  /\ lost \in [Clients -> SUBSET Nonces]

\* A client accepts a PoT at most once, whether it arrives by itself or in a
\* payment, repeated, late or altered, unless the nonce was evicted because
\* the cache was full.
NoReplay ==
  \A c \in Clients, n \in Nonces : accepted[c][n] > 1 => n \in lost[c]

\* The nonce cache of a client never outgrows MAX_NONCE_CACHE.
CacheBounded ==
  \A c \in Clients : Cardinality(DOMAIN usedNonces[c]) <= MaxNonceCache

\* The time and the expiry that a client accepts are those of a PoT that a
\* client with the same secret generated, whatever happened to it on the way.
AcceptedAsGenerated ==
  \A b \in believed :
    /\ b.timestamp = pots[b.from].timestamp
    /\ b.expiresAt = pots[b.from].expiresAt
    /\ HmacMatches(b.by, pots[b.from])
=============================================================================
