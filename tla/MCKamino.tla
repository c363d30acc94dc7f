----------------------------- MODULE MCKamino -----------------------------
(* Bounds and model values with which TLC checks MockKamino. *)
EXTENDS MockKamino, TLC

CONSTANTS o1, o2

TwoOwners == {o1, o2}
OwnerSymmetry == Permutations(Owners)
=============================================================================
