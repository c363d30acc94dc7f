----------------------------- MODULE MockKamino -----------------------------
(***************************************************************************)
(* The lending market the strategies deposit into (programs/mock_kamino):  *)
(* one reserve that issues cTokens for liquidity, and one obligation per   *)
(* owner that borrows against cTokens.  An owner is whoever signs: the     *)
(* authority of a vault's strategy, or any other participant.              *)
(*                                                                         *)
(* An action is one successful instruction; one that fails reverts whole.  *)
(* u64 casts that truncate are modelled as such (Cast).                    *)
(***************************************************************************)
EXTENDS Integers, FiniteSets, Functions

CONSTANTS
  Owners,           \* participants of the market
  BPS,              \* 10_000
  HFMin,            \* HF_MIN_BPS
  MaxU64,           \* the largest u64
  Endowment,        \* underlying tokens each owner starts with
  Amounts,          \* amounts the callers pass
  MaxGifts          \* bound on plain transfers into the liquidity supply

ASSUME OwnersAssumption == IsFiniteSet(Owners)
ASSUME MarketAssumption ==
  /\ BPS \in Nat \ {0} /\ HFMin \in Nat \ {0}
  /\ MaxU64 \in Nat /\ Endowment \in Nat /\ MaxGifts \in Nat
  /\ Amounts \subseteq Nat

\* The supply of the underlying mint is a u64.
ASSUME UnderlyingAssumption ==
  SumFunctionOnSet([o \in Owners |-> Endowment], Owners) <= MaxU64

VARIABLES
  liquid,           \* balance of the liquidity supply account
  totalLiquidity,   \* Reserve.total_liquidity
  totalCollateral,  \* Reserve.total_collateral_supply
  totalBorrowed,    \* Reserve.total_borrowed
  cTokens,          \* cTokens of each owner
  cash,             \* underlying tokens of each owner
  opened,           \* owners with an Obligation account
  debt,             \* Obligation.borrowed_liquidity
  gifts,            \* history: plain transfers into the liquidity supply
  burnt             \* history: cTokens destroyed by their holders

reserveVars == <<totalLiquidity, totalCollateral, totalBorrowed>>
history     == <<gifts, burnt>>
marketVars  == <<liquid, reserveVars, cTokens, cash, opened, debt, history>>

Total(f) == SumFunctionOnSet(f, Owners)

\* After init_reserve.
Init ==
  /\ liquid = 0
  /\ totalLiquidity = 0 /\ totalCollateral = 0 /\ totalBorrowed = 0
  /\ cTokens = [o \in Owners |-> 0]
  /\ cash = [o \in Owners |-> Endowment]
  /\ opened = {}
  /\ debt = [o \in Owners |-> 0]
  /\ gifts = 0 /\ burnt = 0

-----------------------------------------------------------------------------
\* checked_add on a u64.
AddFits(total, amount) == total + amount <= MaxU64

\* "as u64" keeps the low bits.
Cast(x) == x % (MaxU64 + 1)

\* Mutant: the share of the collateral is rounded up.
CollateralForUp(amount) ==
  IF totalCollateral = 0 THEN amount
  ELSE Cast((amount * totalCollateral + totalLiquidity - 1) \div totalLiquidity)
\* cTokens minted for a deposit: one for one into an empty reserve, else at
\* the current rate.  The division needs totalLiquidity > 0 (RateDefined).
CollateralFor(amount) ==
  IF totalCollateral = 0 THEN amount
  ELSE Cast((amount * totalCollateral) \div totalLiquidity)

\* Underlying returned for burnt cTokens.
LiquidityFor(collateral) == Cast((collateral * totalLiquidity) \div totalCollateral)

DepositLiquidity(o, amount) ==
  /\ amount > 0 /\ amount <= cash[o]
  /\ AddFits(totalLiquidity, amount)
  /\ AddFits(totalCollateral, CollateralFor(amount))
  /\ liquid' = liquid + amount
  /\ cash' = [cash EXCEPT ![o] = @ - amount]
  /\ cTokens' = [cTokens EXCEPT ![o] = @ + CollateralFor(amount)]
  /\ totalLiquidity' = totalLiquidity + amount
  /\ totalCollateral' = totalCollateral + CollateralFor(amount)
  /\ UNCHANGED <<totalBorrowed, opened, debt, history>>

\* No health check: an owner with debt may redeem all of its collateral.
RedeemCollateral(o, collateral) ==
  LET amount == LiquidityFor(collateral)
  IN  /\ collateral > 0 /\ totalCollateral > 0
      /\ amount > 0
      /\ collateral <= cTokens[o]
      /\ amount <= liquid
      /\ amount <= totalLiquidity /\ collateral <= totalCollateral
      /\ cTokens' = [cTokens EXCEPT ![o] = @ - collateral]
      /\ liquid' = liquid - amount
      /\ cash' = [cash EXCEPT ![o] = @ + amount]
      /\ totalLiquidity' = totalLiquidity - amount
      /\ totalCollateral' = totalCollateral - collateral
      /\ UNCHANGED <<totalBorrowed, opened, debt, history>>

\* Mutant: init_if_needed, which starts an existing account over.
InitObligationIfNeeded(o) ==
  /\ opened' = opened \cup {o}
  /\ debt' = [debt EXCEPT ![o] = 0]
  /\ UNCHANGED <<liquid, reserveVars, cTokens, cash, history>>

InitObligation(o) ==
  /\ o \notin opened
  /\ opened' = opened \cup {o}
  /\ debt' = [debt EXCEPT ![o] = 0]
  /\ UNCHANGED <<liquid, reserveVars, cTokens, cash, history>>

\* What an owner's cTokens are worth, and whether that covers a debt.
CollateralValue(o) == (cTokens[o] * totalLiquidity) \div totalCollateral
Covers(o, owed) == (CollateralValue(o) * BPS) \div owed >= HFMin

\* Mutant: the new debt alone is held against the collateral.
HealthyAfterNewDebt(o, amount) == Covers(o, amount)
HealthyAfterBorrow(o, amount) == Covers(o, debt[o] + amount)

BorrowLiquidity(o, amount) ==
  /\ amount > 0 /\ o \in opened
  /\ totalCollateral > 0
  /\ HealthyAfterBorrow(o, amount)
  /\ amount <= liquid
  /\ AddFits(totalBorrowed, amount) /\ AddFits(debt[o], amount)
  /\ liquid' = liquid - amount
  /\ cash' = [cash EXCEPT ![o] = @ + amount]
  /\ totalBorrowed' = totalBorrowed + amount
  /\ debt' = [debt EXCEPT ![o] = @ + amount]
  /\ UNCHANGED <<totalLiquidity, totalCollateral, cTokens, opened, history>>

\* Mutant: takes the amount offered, however small the debt.
RepaidUncapped(o, amount) == amount
\* Overpayment is capped at the outstanding debt.
Repaid(o, amount) == IF amount < debt[o] THEN amount ELSE debt[o]
SaturatingSub(a, b) == IF a < b THEN 0 ELSE a - b

RepayLiquidity(o, amount) ==
  LET repay == Repaid(o, amount)
  IN  /\ amount > 0 /\ o \in opened
      /\ repay > 0 /\ repay <= cash[o]
      /\ cash' = [cash EXCEPT ![o] = @ - repay]
      /\ liquid' = liquid + repay
      /\ totalBorrowed' = SaturatingSub(totalBorrowed, repay)
      /\ debt' = [debt EXCEPT ![o] = SaturatingSub(@, repay)]
      /\ UNCHANGED <<totalLiquidity, totalCollateral, cTokens, opened, history>>

\* The admin mints underlying into the supply; the mint's supply is a u64.
SimulateYield(amount) ==
  /\ amount > 0
  /\ liquid + Total(cash) + amount <= MaxU64
  /\ AddFits(totalLiquidity, amount)
  /\ liquid' = liquid + amount
  /\ totalLiquidity' = totalLiquidity + amount
  /\ UNCHANGED <<totalCollateral, totalBorrowed, cTokens, cash, opened, debt, history>>

-----------------------------------------------------------------------------
(***************************************************************************)
(* Outside the program: the token accounts are ordinary SPL accounts, and  *)
(* the reserve does not see what their holders do with them.               *)
(***************************************************************************)
TransferIn(o, amount) ==
  /\ amount > 0 /\ amount <= cash[o] /\ gifts + amount <= MaxGifts
  /\ cash' = [cash EXCEPT ![o] = @ - amount]
  /\ liquid' = liquid + amount
  /\ gifts' = gifts + amount
  /\ UNCHANGED <<reserveVars, cTokens, opened, debt, burnt>>

TransferCTokens(o, p, n) ==
  /\ o # p /\ n > 0 /\ n <= cTokens[o]
  /\ cTokens' = [cTokens EXCEPT ![o] = @ - n, ![p] = @ + n]
  /\ UNCHANGED <<liquid, reserveVars, cash, opened, debt, history>>

BurnCTokens(o, n) ==
  /\ n > 0 /\ n <= cTokens[o]
  /\ cTokens' = [cTokens EXCEPT ![o] = @ - n]
  /\ burnt' = burnt + n
  /\ UNCHANGED <<liquid, reserveVars, cash, opened, debt, gifts>>

-----------------------------------------------------------------------------
OwnerStep(o) ==
  \/ InitObligation(o)
  \/ \E amount \in Amounts :
       \/ DepositLiquidity(o, amount)
       \/ BorrowLiquidity(o, amount)
       \/ RepayLiquidity(o, amount)
       \/ TransferIn(o, amount)
  \/ \E n \in 1..cTokens[o] :
       \/ RedeemCollateral(o, n)
       \/ BurnCTokens(o, n)
       \/ \E p \in Owners : TransferCTokens(o, p, n)

Next ==
  \/ \E o \in Owners : OwnerStep(o)
  \/ \E amount \in Amounts : SimulateYield(amount)

Spec == Init /\ [][Next]_marketVars

-----------------------------------------------------------------------------
TypeOK ==
  /\ liquid \in Nat /\ gifts \in 0..MaxGifts /\ burnt \in Nat
  /\ totalLiquidity \in 0..MaxU64 /\ totalCollateral \in 0..MaxU64
  /\ totalBorrowed \in 0..MaxU64
  /\ cTokens \in [Owners -> Nat] /\ cash \in [Owners -> Nat]
  /\ opened \subseteq Owners /\ debt \in [Owners -> 0..MaxU64]

\* The liquidity supply holds what depositors are owed less what is lent out:
\* every instruction moves tokens and two of the three totals.
LiquidityAccounted == liquid + totalBorrowed = totalLiquidity + gifts

\* The reserve's totals are the sums over its participants (burnt cTokens stay
\* counted), so the saturating subtractions of repay never saturate.
BooksAddUp ==
  /\ totalBorrowed = Total(debt)
  /\ totalCollateral = Total(cTokens) + burnt
  /\ \A o \in Owners : o \notin opened => debt[o] = 0

\* A cToken is worth at least one underlying token: no division by zero in a
\* reserve with cTokens outstanding, and no "as u64" ever truncates.
RateDefined ==
  /\ totalCollateral <= totalLiquidity
  /\ totalCollateral > 0 => totalLiquidity > 0

\* No instruction lowers the redemption rate of the cTokens outstanding.
RateNeverFalls ==
  [][totalCollateral > 0 =>
       totalLiquidity' * totalCollateral >= totalLiquidity * totalCollateral']_marketVars

\* Only its own borrowing, and then down to the minimum, or giving up
\* collateral weakens an obligation: deposits, redemptions, repayments and
\* borrowing by others never make a healthy one unhealthy.
Healthy(o) == debt[o] > 0 => totalCollateral > 0 /\ Covers(o, debt[o])
OnlyOwnerWeakens ==
  [][\A o \in Owners :
       Healthy(o) /\ cTokens'[o] >= cTokens[o] => Healthy(o)']_marketVars
=============================================================================
