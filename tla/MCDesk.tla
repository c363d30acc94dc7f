------------------------------- MODULE MCDesk -------------------------------
(* Bounds and model values with which TLC checks Desk. *)
EXTENDS Desk, TLC

At(booked, held, c, d, p) ==
  [allocated |-> booked, ata |-> held, position |-> [cTokens |-> c, debt |-> d, principal |-> p]]

\* Fresh, funded, lent in part to the market and in part to Lulo, in the market
\* with a loan.
MCSituations ==
  {At(0, 0, 0, 0, 0), At(4, 4, 0, 0, 0), At(4, 1, 2, 0, 1), At(4, 0, 6, 3, 0)}
MCMarket == [liquidity |-> 17, collateral |-> 14]
CONSTANTS user, treasury, curator, outside, page, run1, run2
Page == {page}
Runs == {run1, run2}
MCStrategies == {0, 1}
OneUser == {user}
RunSymmetry == Permutations(Runs)
=============================================================================
