------------------------ MODULE MCAdaptiveSwitchSdk -------------------------
(***************************************************************************)
(* The instance of AdaptiveSwitchSdk that TLC checks: one tier tighter and *)
(* one wider than the default tolerance, and one unknown tier.             *)
(***************************************************************************)
EXTENDS AdaptiveSwitchSdk

CONSTANTS T0_epoch, T3_micro, T9_unknown, txA, txB

MCTierToleranceMs == [t \in {T0_epoch, T3_micro} |->
                        IF t = T0_epoch THEN 2 ELSE 1]
MCTiers == {T0_epoch, T3_micro, T9_unknown}
MCTimes == {0, 1}
MCTxOrders == {<<txA>>, <<txA, txB>>}
=============================================================================
