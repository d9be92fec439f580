----------------------------- MODULE NonceCache -----------------------------
(***************************************************************************)
(* The replay protection that TimeSynthesis.verifyProofOfTime and          *)
(* HttpOnlyClient.verifyPoT share line for line: a map from nonces to the  *)
(* time they were first verified, swept by age when it is more than half   *)
(* full and limited to MaxNonceCache entries by evicting the oldest.       *)
(*                                                                         *)
(* A JavaScript Map iterates in the order of insertion, so its first key   *)
(* is the oldest entry.  Two entries of the same instant are in no         *)
(* particular order here: either may be taken for the oldest.              *)
(***************************************************************************)
EXTENDS Integers, FiniteSets

CONSTANTS
  NonceTtl,        \* NONCE_TTL_MS (300 s)
  MaxNonceCache    \* MAX_NONCE_CACHE (10000)

ASSUME CacheAssumption == NonceTtl \in Nat /\ MaxNonceCache \in Nat \ {0}

\* Mutant of Swept that clears the map when it is more than half full
SweptAll(cache, now) ==
  IF 2 * Cardinality(DOMAIN cache) > MaxNonceCache THEN << >> ELSE cache

\* The cleanup pass: only when the map is more than half full.
Swept(cache, now) ==
  LET full == 2 * Cardinality(DOMAIN cache) > MaxNonceCache
  IN  [n \in {m \in DOMAIN cache : full => now - cache[m] <= NonceTtl}
         |-> cache[n]]

OldestIn(cache) ==
  {m \in DOMAIN cache : \A k \in DOMAIN cache : cache[m] <= cache[k]}

\* Mutant of Evictions that is off by one
EvictionsTooLate(cache) ==
  IF Cardinality(DOMAIN cache) > MaxNonceCache
  THEN {{n} : n \in OldestIn(cache)} ELSE {{}}

\* What makes room for one more entry: nothing, or the oldest entry.
Evictions(cache) ==
  IF Cardinality(DOMAIN cache) >= MaxNonceCache
  THEN {{n} : n \in OldestIn(cache)} ELSE {{}}

\* Mutant of Remember that stores when the nonce may be forgotten
RememberDeadline(cache, gone, nonce, now) ==
  [n \in (DOMAIN cache \ gone) \cup {nonce} |->
     IF n = nonce THEN now + NonceTtl ELSE cache[n]]

Remember(cache, gone, nonce, now) ==
  [n \in (DOMAIN cache \ gone) \cup {nonce} |->
     IF n = nonce THEN now ELSE cache[n]]
=============================================================================
