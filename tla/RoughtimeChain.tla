--------------------------- MODULE RoughtimeChain ---------------------------
(***************************************************************************)
(* The Roughtime clients of the issuer (src/roughtime/client.rs and        *)
(* async_client.rs) and the chain they build (chain.rs, types.rs).  A      *)
(* client asks the servers one after the other, each with a nonce that     *)
(* commits to the answer before it, skips those that fail, and has the     *)
(* chain checked for links, causal order and spread.                       *)
(*                                                                         *)
(* Time passes while a server is asked.  An honest server's interval       *)
(* contains the time at which it answers, a faulty one says what it likes. *)
(* Times are in seconds; hashes are ideal: a nonce is its preimage.        *)
(***************************************************************************)
EXTENDS Integers, Sequences, FiniteSets

CONSTANTS
  NumServers,    \* length of ROUGHTIME_SERVERS (3 in the repository)
  Faulty,        \* the servers that may lie
  Radii,         \* the radii that servers declare
  MinChainLen,   \* MIN_CHAIN_LEN of chain.rs, MIN_CHAIN of async_client.rs
  MinK,          \* min_k of build_roughtime_chain
  SpreadTolerance,
  QueryTimeout,
  MaxTime        \* bound on the clock

Servers == 1..NumServers
Clients == {"client", "async_client"}

ASSUME ChainAssumption ==
  /\ NumServers \in Nat \ {0} /\ Faulty \subseteq Servers /\ Radii \subseteq Nat
  /\ MinChainLen \in Nat \ {0} /\ MinK \in Nat /\ SpreadTolerance \in Nat
  /\ QueryTimeout \in Nat \ {0} /\ MaxTime \in Nat

VARIABLES
  now,           \* the true time
  client,        \* which of the two clients runs
  server,        \* the server being asked
  asked,         \* when it was
  nonce,         \* the nonce it was asked with
  attestations,  \* the answers so far, with the time of the answer as a ghost
  result         \* "pending", "chain", or the error

chainVars == <<now, client, server, asked, nonce, attestations, result>>

ChainInit ==
  /\ now \in 0..MaxTime
  /\ client \in Clients
  /\ server = 1 /\ asked = now
  /\ nonce = <<"csprng">>
  /\ attestations = <<>>
  /\ result = "pending"

-----------------------------------------------------------------------------
(* types.rs *)

\* saturating_sub
Minus(m, n) == IF m >= n THEN m - n ELSE 0

\* SHA-512(raw_response || blind): as good as the number of the query
next_nonce(a) == <<"sha512", a.server>>

\* Mutant of synthesise_timestamp that does not sort
LastMidp(atts) == atts[(Len(atts) \div 2) + 1].midp

\* Median of the midpoints, the mean of the middle two when they are even
synthesise_timestamp(atts) ==
  LET n == Len(atts)
      AtRank(k) == CHOOSE m \in {atts[i].midp : i \in 1..n} :
                     /\ Cardinality({i \in 1..n : atts[i].midp < m}) < k
                     /\ Cardinality({i \in 1..n : atts[i].midp <= m}) >= k
  IN  IF n % 2 = 0 THEN (AtRank(n \div 2) + AtRank(n \div 2 + 1)) \div 2
                   ELSE AtRank(n \div 2 + 1)

-----------------------------------------------------------------------------
(* chain.rs *)

verify_nonce_chain(atts) ==
  \A i \in 2..Len(atts) : atts[i].nonce = next_nonce(atts[i - 1])

\* Mutant of verify_causal_ordering with the two ends swapped
OrderingReversed(atts) ==
  \A i \in 1..(Len(atts) - 1) :
    Minus(atts[i + 1].midp, atts[i + 1].radi) <= atts[i].midp + atts[i].radi

verify_causal_ordering(atts) ==
  \A i \in 1..(Len(atts) - 1) :
    Minus(atts[i].midp, atts[i].radi) <= atts[i + 1].midp + atts[i + 1].radi

verify_spread(atts) ==
  \A i, j \in 1..Len(atts) : atts[i].midp - atts[j].midp <= SpreadTolerance

\* build_chain, and build_chain_unchecked when the links are not checked
build_chain(atts, checked) ==
  CASE Len(atts) < MinChainLen                -> "TooShort"
    [] checked /\ ~verify_nonce_chain(atts)   -> "NonceMismatch"
    [] ~verify_causal_ordering(atts)          -> "OrderingViolated"
    [] ~verify_spread(atts)                   -> "SpreadExceeded"
    [] OTHER                                  -> "chain"

verify_chain_against_pot(atts, t_synth) ==
  LET median == synthesise_timestamp(atts)
      diff   == IF t_synth >= median THEN t_synth - median ELSE median - t_synth
  IN  /\ verify_causal_ordering(atts)
      /\ verify_spread(atts)
      /\ \E i \in 1..Len(atts) : diff <= atts[i].radi + 1   \* max_radi + 1

-----------------------------------------------------------------------------
(* client.rs and async_client.rs *)

\* The rest of the loop, and after the last server the chain
Continue(atts) ==
  /\ attestations' = atts
  /\ server' = server + 1
  /\ asked' = now
  /\ result' = IF server < NumServers THEN "pending"
               ELSE IF client = "client"
               THEN IF Len(atts) < MinK THEN "InsufficientServers" ELSE build_chain(atts, TRUE)
               ELSE IF Len(atts) < MinChainLen THEN "InsufficientServers"
                                               ELSE build_chain(atts, FALSE)
  /\ UNCHANGED <<now, client>>

\* A response arrives in time and parses; async_client.rs also holds midp
\* against the delegation, which an honest server satisfies.
Answers(midp, radi) ==
  /\ result = "pending"
  /\ server \notin Faulty => now \in (midp - radi)..(midp + radi)
  /\ LET a == [server |-> server, midp |-> midp, radi |-> radi,
               nonce |-> nonce, at |-> now] IN
       /\ nonce' = next_nonce(a)
       /\ Continue(Append(attestations, a))

\* Mutant of NonceAfterFailure that draws a new nonce
NonceDrawnAgain == <<"csprng", server>>

\* The next server is asked with the nonce of the one that failed.
NonceAfterFailure == nonce

\* An I/O error, a response that does not parse, or the timeout
Fails ==
  /\ result = "pending"
  /\ nonce' = NonceAfterFailure
  /\ Continue(attestations)

Tick ==
  /\ result = "pending"
  /\ now < asked + QueryTimeout /\ now < MaxTime
  /\ now' = now + 1
  /\ UNCHANGED <<client, server, asked, nonce, attestations, result>>

ChainNext ==
  \/ \E midp \in 0..MaxTime, radi \in Radii : Answers(midp, radi)
  \/ Fails
  \/ Tick

ChainSpec == ChainInit /\ [][ChainNext]_chainVars

-----------------------------------------------------------------------------
(* Properties *)

Indices == 1..Len(attestations)
Honest  == {i \in Indices : attestations[i].server \notin Faulty}
Lies    == Indices \ Honest

\* The time a chain stands for is the true time: with the liars in the minority
\* of those that answered, the median lies between what two honest servers, at
\* the times they were asked, could have said.
TimeTracksTruth ==
  result = "chain" /\ 2 * Cardinality(Lies) < Len(attestations) =>
    LET t == synthesise_timestamp(attestations) IN
    /\ \E i \in Honest : t >= attestations[i].at - attestations[i].radi
    /\ \E i \in Honest : t <= attestations[i].at + attestations[i].radi

\* Whichever servers failed on the way, every chain a client returns is linked,
\* also that of the client that asks for no check; and no PoT is refused because
\* of it whose time is within a second of every honest answer, though the answers
\* were seconds apart and the liars a minority.
ChainsAccepted ==
  result = "chain" =>
    /\ verify_nonce_chain(attestations)
    /\ 2 * Cardinality(Lies) < Len(attestations) =>
         \A t \in 0..MaxTime :
           (\A i \in Honest : attestations[i].at \in (t - 1)..(t + 1))
             => verify_chain_against_pot(attestations, t)

\* A chain is rejected for cause: servers out of order include a liar, and so
\* does a spread beyond what the elapsed time and the radii explain.
RejectedForCause ==
  /\ result # "NonceMismatch"
  /\ result = "OrderingViolated" => Lies # {}
  /\ result = "SpreadExceeded" /\ Lies = {} =>
       \E i, j \in Indices :
         (attestations[j].at - attestations[i].at) + attestations[i].radi
           + attestations[j].radi > SpreadTolerance

\* What async_client.rs says, "Failures are skipped; chain succeeds if >=
\* MIN_CHAIN servers respond."
EnoughResponsesSucceed ==
  client = "async_client" /\ server > NumServers /\ Lies = {}
    /\ Len(attestations) >= MinChainLen => result = "chain"
=============================================================================
