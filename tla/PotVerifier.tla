---------------------------- MODULE PotVerifier -----------------------------
(***************************************************************************)
(* PotVerifier and MemoryNonceCache (src/pot_verifier.ts).  An issuer signs*)
(* PoT records; holders send them in frames bound to a TLS session, and the*)
(* verifier at the other end of several sessions checks, in this order, the*)
(* structure, the version, the binding to the session, the signature, the  *)
(* age and the nonce.  Frames are repeated, delayed, sent in the session   *)
(* they were made for or in another, and may have a field changed.         *)
(*                                                                         *)
(* The exporter key and the signature are ideal: each is the tuple of what *)
(* it is computed from.  Date.now() does not advance within a call.        *)
(***************************************************************************)
EXTENDS Integers, FiniteSets

CONSTANTS
  Sessions,     \* TLS sessions of the verifier
  ToleranceOf,  \* tier -> TTTPS_TIER_TOLERANCE_MS
  Skews,        \* clock of the issuer relative to the verifier's
  Ttl,          \* ttlMs of the cache (120 s)
  SweepAbove,   \* the size above which add sweeps (10000)
  MaxNonces,    \* bound on the records of a behaviour
  MaxTime       \* bound on the clock

Tiers  == DOMAIN ToleranceOf
Nonces == 1..MaxNonces

ASSUME ConstantsAssumption ==
  /\ ToleranceOf \in [Tiers -> Nat] /\ 1 \in Tiers
  /\ Skews \subseteq Int
  /\ Ttl \in Nat /\ SweepAbove \in Nat /\ MaxNonces \in Nat /\ MaxTime \in Nat

\* The time to live covers what the slowest tier tolerates, as the defaults of
\* 60 s and 2 minutes do for an issuer ahead by up to a minute.
ASSUME TtlAssumption == \A t \in Tiers, k \in Skews : ToleranceOf[t] + k <= Ttl

VARIABLES
  now,        \* Date.now()
  records,    \* the records the issuer signed, the n-th with nonce n
  cache,      \* MemoryNonceCache: nonce -> expiresAt
  accepted    \* ghost: record -> how often it was accepted, at most 2

vars == <<now, records, cache, accepted>>

exportKeyingMaterial(session, record) == <<session, record>>
Signature(key, record) == <<key, record>>

\* A frame as its holder makes it for a session
Frame(session, record) ==
  [bindingKey |-> exportKeyingMaterial(session, record), record |-> record,
   ed25519Sig |-> Signature("issuer", record)]

verifyBindingKey(session, frame) ==
  frame.bindingKey = exportKeyingMaterial(session, frame.record)

verifyEd25519(frame) == frame.ed25519Sig = Signature("issuer", frame.record)

\* An unknown tier is given the tolerance of T1_block.
Tolerance(tier) == ToleranceOf[IF tier \in Tiers THEN tier ELSE 1]

\* Steps 1 to 5 of verify
Passes(session, frame) ==
  /\ frame.record.version = 1
  /\ verifyBindingKey(session, frame)
  /\ verifyEd25519(frame)
  /\ now - frame.record.timestamp <= Tolerance(frame.record.tier)

Unexpired(c) == [n \in {m \in DOMAIN c : now <= c[m]} |-> c[n]]

\* Mutant of has that gives an entry up one instant too early
HasStrictly(nonce) == nonce \in DOMAIN cache /\ now < cache[nonce]

has(nonce) == nonce \in DOMAIN cache /\ now <= cache[nonce]

\* What has leaves behind when it answers no
WithoutExpired(nonce) ==
  [n \in DOMAIN cache \ {nonce} |-> cache[n]]

\* Mutant of add that never sweeps
AddUnswept(c, nonce) ==
  [n \in DOMAIN c \cup {nonce} |-> IF n = nonce THEN now + Ttl ELSE c[n]]

\* Mutant of add that stores the time of entry, as the other caches do
AddEntered(c, nonce) ==
  [n \in DOMAIN c \cup {nonce} |-> IF n = nonce THEN now ELSE c[n]]

add(c, nonce) ==
  LET swept == IF Cardinality(DOMAIN c) > SweepAbove THEN Unexpired(c) ELSE c
  IN  [n \in DOMAIN swept \cup {nonce} |->
         IF n = nonce THEN now + Ttl ELSE swept[n]]

\* verify of a frame that stems from the n-th record
verify(session, n, frame) ==
  LET nonce == frame.record.nonce
  IN  \/ /\ ~Passes(session, frame) \/ has(nonce)
         /\ UNCHANGED <<cache, accepted>>
      \/ /\ Passes(session, frame)
         /\ ~has(nonce)
         /\ cache' = add(WithoutExpired(nonce), nonce)
         /\ accepted' = IF accepted[n] < 2
                        THEN [accepted EXCEPT ![n] = @ + 1] ELSE accepted

Init ==
  /\ now = 0
  /\ records = << >>
  /\ cache = << >>
  /\ accepted = [n \in Nonces |-> 0]

\* The issuer signs a record with a fresh nonce, by its own clock.
Issue(tier, skew) ==
  LET nonce == Cardinality(DOMAIN records) + 1
  IN  /\ nonce <= MaxNonces
      /\ records' = [n \in DOMAIN records \cup {nonce} |->
                       IF n = nonce
                       THEN [version |-> 1, tier |-> tier, nonce |-> nonce,
                             timestamp |-> now + skew]
                       ELSE records[n]]
      /\ UNCHANGED <<now, cache, accepted>>

\* What may arrive in a session of a record that was framed for a session:
\* the frame, or the frame with one field changed.  A change of the record is
\* followed by a new binding key when its sender holds the session.
Arrivals(record) ==
  LET altered == {[record EXCEPT !.version = 2],
                  [record EXCEPT !.timestamp = now]}
                   \cup {[record EXCEPT !.nonce = m] : m \in Nonces}
                   \cup {[record EXCEPT !.tier = t] : t \in Tiers}
  IN  UNION {{Frame(s, record)}
               \cup {[Frame(s, record) EXCEPT !.record = r] : r \in altered}
               \cup {[Frame(s, r) EXCEPT !.ed25519Sig = Signature("issuer", record)] :
                        r \in altered}
               \cup {[Frame(s, r) EXCEPT !.ed25519Sig = Signature("other", r)] :
                        r \in altered} : s \in Sessions}

\* A frame arrives in a session.  One of the wrong length is refused before.
Verify(session, n) ==
  /\ \E frame \in Arrivals(records[n]) : verify(session, n, frame)
  /\ UNCHANGED <<now, records>>

Tick ==
  /\ now < MaxTime
  /\ now' = now + 1
  /\ UNCHANGED <<records, cache, accepted>>

Next ==
  \/ \E tier \in Tiers, skew \in Skews : Issue(tier, skew)
  \/ \E session \in Sessions : \E n \in DOMAIN records : Verify(session, n)
  \/ Tick

Spec == Init /\ [][Next]_vars
-----------------------------------------------------------------------------
TypeOK ==
  /\ now \in 0..MaxTime
  /\ DOMAIN records \in {1..k : k \in 0..MaxNonces}
  /\ \A n \in DOMAIN records : records[n].nonce = n
  /\ DOMAIN cache \subseteq DOMAIN records
  /\ \A n \in DOMAIN cache : cache[n] \in Ttl..(now + Ttl)
  /\ accepted \in [Nonces -> 0..2]

\* A record is accepted at most once, in whichever sessions and however often
\* it is sent and whatever is changed on the way: an entry may leave the cache
\* only when its record is too old to be accepted.
NoReplay == \A n \in Nonces : accepted[n] <= 1

\* Whenever an entry is added, at most SweepAbove expired ones stay behind:
\* apart from these the cache holds only what was accepted within the time to
\* live.
GarbageBounded ==
  [][\A n \in DOMAIN cache' :
       n \notin DOMAIN cache \/ cache'[n] # cache[n] =>
         Cardinality({m \in DOMAIN cache' : now > cache'[m]}) <= SweepAbove]_vars
=============================================================================
