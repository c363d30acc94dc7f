----------------------------- MODULE VaultMath -----------------------------
(***************************************************************************)
(* The integer arithmetic of the vault program: share price, fee split,    *)
(* basis-point portions.  Every quantity is an unsigned integer and every  *)
(* division rounds down, as the u128 checked_div of the handlers does.     *)
(*                                                                         *)
(* BPS stands for 10_000 and VirtualShares for 1_000_000; both are         *)
(* parameters so that TLC can work with small numbers.                     *)
(***************************************************************************)
EXTENDS Integers

CONSTANTS
  BPS,              \* basis points in the whole (10_000)
  VirtualShares     \* virtual share offset (1_000_000)

ASSUME BPSAssumption == BPS \in Nat \ {0}
ASSUME VirtualSharesAssumption == VirtualShares \in Nat \ {0}

\* Mutant: shares rounded up.
SharesForUp(amount, supply, total) ==
  (amount * (supply + VirtualShares) + total) \div (total + 1)
\* Shares minted for a deposit.
SharesFor(amount, supply, total) ==
  (amount * (supply + VirtualShares)) \div (total + 1)

\* Mutant: the amount owed rounded up.
UnderlyingForUp(shares, supply, total) ==
  (shares * (total + 1) + supply + VirtualShares - 1) \div (supply + VirtualShares)
\* Underlying owed for burnt shares, before fees.
UnderlyingFor(shares, supply, total) ==
  (shares * (total + 1)) \div (supply + VirtualShares)

\* The part of x that bps basis points stand for: fees, weights, loss caps.
Portion(x, bps) == (x * bps) \div BPS

\* What a withdrawal pays to the user, the treasury and the curator.
TreasuryFee(underlying, protocolBps) == Portion(underlying, protocolBps)
\* Mutant: the curator takes the whole fee.
CuratorFeeWhole(underlying, feeBps, protocolBps) == Portion(underlying, feeBps)
CuratorFee(underlying, feeBps, protocolBps) ==
  Portion(underlying, feeBps) - TreasuryFee(underlying, protocolBps)
UserAmount(underlying, feeBps) == underlying - Portion(underlying, feeBps)

\* The share price is (total + 1) / (supply + VirtualShares); a step that
\* leaves it at least as high dilutes nobody.
PriceNotLower(total, supply, newTotal, newSupply) ==
  (newTotal + 1) * (supply + VirtualShares) >= (total + 1) * (newSupply + VirtualShares)
=============================================================================
