------------------------------ MODULE MCVault ------------------------------
(* Bounds and model values with which TLC checks Vault. *)
EXTENDS VaultClaims, TLC

CONSTANTS u1, u2, s1, s2, treasury, curator, outside

OneUser == {u1}
TwoUsers == {u1, u2}
OneStrategy == {s1}
TwoStrategies == {s1, s2}

StrategySymmetry == Permutations(Strategies)
HolderSymmetry == Permutations(Users) \cup Permutations(Strategies)
=============================================================================
