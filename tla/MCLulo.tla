------------------------------ MODULE MCLulo ------------------------------
(* Bounds and model values with which TLC checks LuloAgent. *)
EXTENDS LuloAgent

CONSTANTS strategy, peer

StrategyAndPeer == {strategy, peer}
=============================================================================
