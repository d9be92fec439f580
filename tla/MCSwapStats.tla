---------------------------- MODULE MCSwapStats -----------------------------
(* SwapStats for TLC: two fee configurations that differ in everything. *)
EXTENDS SwapStats, TLC

MCConfigs ==
  {[minTTTBalance |-> 1, turboFee |-> 1, fullFee |-> 3, tttTokenId |-> 0],
   [minTTTBalance |-> 0, turboFee |-> 0, fullFee |-> 5, tttTokenId |-> 1]}
=============================================================================
