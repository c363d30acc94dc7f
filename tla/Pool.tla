-------------------------------- MODULE Pool --------------------------------
(***************************************************************************)
(* What the vault promises to its share holders, whatever it does with the *)
(* money: a purchase or a redemption is between one holder and the pool    *)
(* and never lowers the share price of the others; holders trade and burn  *)
(* shares among themselves at no cost to the pool; and the pool's assets   *)
(* move otherwise only by gains and losses that every share takes part in. *)
(***************************************************************************)
EXTENDS VaultMath

CONSTANT Holders

VARIABLES assets, issued, holding

poolVars == <<assets, issued, holding>>

PoolInit ==
  /\ assets = 0
  /\ issued = 0
  /\ holding = [h \in Holders |-> 0]

\* The holder's shares move by as many as the pool issues or retires.
Exchange(h) ==
  /\ holding' = [holding EXCEPT ![h] = @ + issued' - issued]
  /\ PriceNotLower(assets, issued, assets', issued')

Join(h) ==
  /\ assets' > assets /\ issued' > issued
  /\ Exchange(h)

Leave(h) ==
  /\ assets' < assets /\ issued' < issued
  /\ assets' >= 0 /\ issued' >= 0 /\ holding'[h] >= 0
  /\ Exchange(h)

\* Shares change hands, or are given up for nothing.
Trade(h, k, n) ==
  /\ holding' = [holding EXCEPT ![h] = @ - n, ![k] = @ + n]
  /\ UNCHANGED <<assets, issued>>

Forfeit(h) ==
  /\ issued' < issued /\ issued' >= 0 /\ holding'[h] >= 0
  /\ holding' = [holding EXCEPT ![h] = @ + issued' - issued]
  /\ UNCHANGED assets

\* Gains and losses are shared: nobody's shares change.
Revalue ==
  /\ assets' # assets /\ assets' >= 0
  /\ UNCHANGED <<issued, holding>>

PoolNext ==
  \/ Revalue
  \/ \E h \in Holders :
       \/ Join(h) \/ Leave(h) \/ Forfeit(h)
       \/ \E k \in Holders \ {h} : \E n \in 1..holding[h] : Trade(h, k, n)

PoolSpec == PoolInit /\ [][PoolNext]_poolVars
=============================================================================
