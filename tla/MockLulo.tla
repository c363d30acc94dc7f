------------------------------ MODULE MockLulo ------------------------------
(***************************************************************************)
(* The mock lending program the Lulo agent uses (programs/mock_lulo): one  *)
(* treasury shared by all strategies, and for each of them a position that *)
(* records the principal it deposited.  Yield is tokens put into the       *)
(* treasury.                                                               *)
(***************************************************************************)
EXTENDS Integers, FiniteSets, FiniteSetsExt, Folds, Functions

CONSTANTS
  Depositors,       \* strategies with a position
  MaxU64,           \* largest value of a u64
  Supply            \* tokens in circulation

ASSUME LuloAssumption ==
  IsFiniteSet(Depositors) /\ MaxU64 \in Nat /\ Supply \in Nat

VARIABLES
  treasury,         \* balance of the treasury token account
  position,         \* ProtocolPosition.deposited_amount
  held,             \* balance of each strategy's token account
  overdrawn,        \* history: tokens each withdrew beyond its position
  accrued           \* history: yield put into the treasury

TotalOf(f) == SumFunctionOnSet(f, Depositors)

luloVars == <<treasury, position, held, overdrawn, accrued>>

\* A treasury whose depositors lent these amounts and withdrew nothing yet.
LuloInit(principal) ==
  /\ position = principal
  /\ treasury = TotalOf(principal) /\ accrued = 0
  /\ held = [d \in Depositors |-> 0]
  /\ overdrawn = [d \in Depositors |-> 0]

Saturating(a, b) == IF b < a THEN a - b ELSE 0

DepositPrincipal(d, amount) ==
  /\ amount > 0
  /\ amount <= held[d]
  /\ position[d] + amount <= MaxU64
  /\ held' = [held EXCEPT ![d] = @ - amount]
  /\ treasury' = treasury + amount
  /\ position' = [position EXCEPT ![d] = @ + amount]
  /\ UNCHANGED <<overdrawn, accrued>>

\* Mutant: an unchecked subtraction.
PrincipalUnclamped(principal, amount) == principal - amount
\* Mutant: a withdrawal the treasury can pay leaves the position alone when it
\* exceeds the principal.
PrincipalAfterExact(principal, amount) ==
  IF amount <= principal THEN principal - amount ELSE principal
PrincipalAfter(principal, amount) == Saturating(principal, amount)

\* Paid out of the common treasury; a position is not a limit.
WithdrawPrincipal(d, amount) ==
  /\ amount > 0
  /\ amount <= treasury
  /\ treasury' = treasury - amount
  /\ held' = [held EXCEPT ![d] = @ + amount]
  /\ position' = [position EXCEPT ![d] = PrincipalAfter(@, amount)]
  /\ overdrawn' = [overdrawn EXCEPT ![d] = @ + Saturating(amount, position[d])]
  /\ UNCHANGED accrued

\* Tokens sent to the treasury from outside, as the yield crank does.
AddYield(amount) ==
  /\ accrued + amount <= Supply
  /\ treasury' = treasury + amount
  /\ accrued' = accrued + amount
  /\ UNCHANGED <<position, held, overdrawn>>

-----------------------------------------------------------------------------
\* The treasury holds the principals and the yield, less what depositors
\* withdrew beyond their own position: such a withdrawal is the only way the
\* shared treasury comes to owe more than it has.
TreasuryAccounted ==
  treasury + TotalOf(overdrawn) = TotalOf(position) + accrued
=============================================================================
