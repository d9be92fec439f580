-------------------------- MODULE MCHttpOnlyClient --------------------------
(***************************************************************************)
(* The instances of HttpOnlyClient that TLC checks.                        *)
(***************************************************************************)
EXTENDS HttpOnlyClient, TLC

CONSTANTS c1, c2

OneSecret   == [c \in Clients |-> "sandbox"]
TwoSecrets  == (c1 :> "sandbox") @@ (c2 :> "own")
ExpiryOne   == [c \in Clients |-> 1]
ExpiryThree == [c \in Clients |-> 3]

\* One source, and two sources within and beyond the tolerance.
One    == {[source |-> 1, timestamp |-> 10, stratum |-> 2]}
Close  == One \cup {[source |-> 2, timestamp |-> 12, stratum |-> 2]}
Apart  == One \cup {[source |-> 2, timestamp |-> 18, stratum |-> 2]}
OneOrApart      == {One, Apart}
OneCloseOrApart == {One, Close, Apart}
=============================================================================
