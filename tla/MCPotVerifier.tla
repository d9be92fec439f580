--------------------------- MODULE MCPotVerifier ----------------------------
(***************************************************************************)
(* The instance of PotVerifier that TLC checks.                            *)
(***************************************************************************)
EXTENDS PotVerifier, TLC

\* A lax tier, a strict one
TwoTiers == (0 :> 1) @@ (1 :> 0)
TwoSkews == {-1, 1}
=============================================================================
