----------------------------- MODULE MCLooper -----------------------------
(* Bounds and model values with which TLC checks KaminoLooper. *)
EXTENDS KaminoLooper

CONSTANTS strategy, lender

StrategyAndLender == {strategy, lender}
=============================================================================
