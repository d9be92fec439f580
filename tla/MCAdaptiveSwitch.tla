-------------------------- MODULE MCAdaptiveSwitch --------------------------
(***************************************************************************)
(* The instance of AdaptiveSwitch that TLC checks.                         *)
(***************************************************************************)
EXTENDS AdaptiveSwitch
=============================================================================
