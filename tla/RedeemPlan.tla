----------------------------- MODULE RedeemPlan -----------------------------
(***************************************************************************)
(* How the web application finds money for a withdrawal that the reserve   *)
(* and the strategies' token accounts do not cover (app/src/lib/adapters): *)
(* one adapter per lending protocol says what a strategy could redeem, and *)
(* the orchestrator walks strategies and adapters in order, taking from    *)
(* each what is still missing; a position it cannot read or use is skipped.*)
(*                                                                         *)
(* A position is a record: cTokens and debt in the Kamino market, the      *)
(* principal lent to Lulo.  A market is the liquidity and the cTokens of   *)
(* its reserve.                                                            *)
(***************************************************************************)
EXTENDS Integers, SequencesExt, FiniteSetsExt

\* What cTokens are worth, rounded down.
Worth(cTokens, market) ==
  IF market.collateral = 0 THEN cTokens
  ELSE (cTokens * market.liquidity) \div market.collateral

\* A position with a loan is left to the agent, which closes it in steps.
KaminoAvailable(position, market) ==
  IF position.debt = 0 THEN Worth(position.cTokens, market) ELSE 0

\* The treasury's principal, whatever the treasury can pay.
LuloAvailable(position) == position.principal

\* The cTokens to burn for an amount, rounded up.
CollateralForAmount(amount, market) ==
  IF market.liquidity = 0 \/ market.collateral = 0 THEN amount
  ELSE (amount * market.collateral + market.liquidity - 1) \div market.liquidity

\* In the order they are asked; Jupiter's has no position to offer.
Adapters == <<"kamino", "lulo">>
Available(adapter, position, market) ==
  IF adapter = "kamino" THEN KaminoAvailable(position, market) ELSE LuloAvailable(position)

\* Mutant: the shortfall is not reduced by what has been taken.
TakeAndForget(plan, entry, available) ==
  IF plan.short <= 0 \/ available <= 0 THEN plan
  ELSE [plan EXCEPT
          !.redeems = Append(@, [of |-> entry, amount |-> Min({available, plan.short})])]
\* Takes from one position what is still missing.
Take(plan, entry, available) ==
  IF plan.short <= 0 \/ available <= 0 THEN plan
  ELSE [short   |-> plan.short - Min({available, plan.short}),
        redeems |-> Append(plan.redeems,
                           [of |-> entry, amount |-> Min({available, plan.short})])]

\* Every strategy is asked through every adapter in turn.
Asked(strategies) ==
  [k \in 1..(Len(strategies) * Len(Adapters)) |->
     <<strategies[((k - 1) \div Len(Adapters)) + 1], Adapters[((k - 1) % Len(Adapters)) + 1]>>]

\* What a position puts at the plan's disposal: one that cannot be read counts as
\* none, one whose redemption cannot be built is passed over.
Disposable(entry, positions, market, skipped) ==
  IF entry \in skipped THEN 0 ELSE Available(entry[2], positions[entry[1]], market)

\* short is what the reserve and the token accounts leave uncovered.
BuildRedeemPlan(strategies, positions, market, short, skipped) ==
  LET asked == Asked(strategies)
      plan[k \in 0..Len(asked)] ==
        IF k = 0 THEN [short |-> short, redeems |-> <<>>]
        ELSE Take(plan[k - 1], asked[k], Disposable(asked[k], positions, market, skipped))
  IN  plan[Len(asked)]
=============================================================================
