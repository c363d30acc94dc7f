------------------------------- MODULE Vault -------------------------------
(***************************************************************************)
(* The accounting core of the vault program (programs/my_project): share   *)
(* issue and redemption, the reserve, the strategies' token accounts and   *)
(* the books (total_deposited, allocated_amount) that stand for them.      *)
(*                                                                         *)
(* An action is one successful transaction: Solana runs an instruction     *)
(* atomically and reverts it whole, so a failing call leaves the state     *)
(* alone and is not a step.  Any interleaving of transactions by users,    *)
(* authority, admin, governance, delegates and strangers is a behaviour.   *)
(* Signer checks are abstracted (module StrategyConfig has the roles).     *)
(***************************************************************************)
EXTENDS VaultMath, FiniteSets, Functions

CONSTANTS
  Users,            \* share holders
  Strategies,       \* strategy ids the admin may create
  Treasury,         \* token account of ProtocolConfig.treasury
  Curator,          \* token account of the vault admin
  Outside,          \* every other token account: protocols, strangers
  MaxU64,           \* the largest u64
  DefaultFee,       \* DEFAULT_PERFORMANCE_FEE_BPS
  MaxFee,           \* MAX_PERFORMANCE_FEE_BPS
  Endowment,        \* tokens each user starts with
  OutsideSupply,    \* tokens the outside starts with
  Amounts,          \* amounts the callers pass
  WeightChoices,    \* weights the admin passes
  FeeChoices,       \* fees the admin passes
  ProtocolFees,     \* fees governance passes
  PauseChoices,     \* arguments of set_paused
  ExternalValues,   \* external value settle_strategy_value may compute
  MaxRepeats,       \* how often a depositor repeats a strategy in the fan-out list
  MaxDonated        \* bound on direct transfers into the reserve

Wallets == Users \cup {Treasury, Curator, Outside}

\* The tokens of each account before the vault exists.
Endowments == [w \in Wallets |-> IF w \in Users THEN Endowment
                                 ELSE IF w = Outside THEN OutsideSupply ELSE 0]

ASSUME SetsAssumption == IsFiniteSet(Users) /\ IsFiniteSet(Strategies)

\* The supply of the token mint is a u64, and so is every balance.
ASSUME SupplyAssumption == SumFunctionOnSet(Endowments, Wallets) <= MaxU64

ASSUME BoundsAssumption ==
  /\ MaxU64 \in Nat /\ Endowment \in Nat /\ OutsideSupply \in Nat
  /\ MaxRepeats \in Nat /\ MaxDonated \in Nat
  /\ Amounts \subseteq Nat /\ ExternalValues \subseteq Nat
  /\ WeightChoices \subseteq Nat /\ PauseChoices \subseteq BOOLEAN

ASSUME FeesAssumption ==
  /\ MaxFee \in 0..BPS /\ DefaultFee \in 0..MaxFee
  /\ FeeChoices \subseteq Nat /\ ProtocolFees \subseteq Nat

VARIABLES
  reserve,          \* balance of the reserve ATA
  ata,              \* balance of each strategy's token account
  wallet,           \* balances of the accounts outside the program
  shares,           \* share tokens of each user
  supply,           \* supply of the share mint
  totalDeposited,   \* VaultState.total_deposited
  allocated,        \* StrategyAllocation.allocated_amount
  status,           \* "none" until created, then is_active or not
  weight,           \* StrategyAllocation.target_weight_bps
  totalWeight,      \* VaultState.total_active_weight_bps
  paused,           \* VaultState.paused
  performanceFee,   \* VaultState.performance_fee_bps
  protocolFee,      \* ProtocolConfig.protocol_fee_bps
  donated           \* history: tokens sent straight to the reserve

tokenVars    == <<reserve, ata, wallet>>
shareVars    == <<shares, supply>>
strategyVars == <<status, weight, totalWeight>>
configVars   == <<paused, performanceFee, protocolFee>>
vars == <<tokenVars, shareVars, totalDeposited, allocated, strategyVars,
          configVars, donated>>

Total(f) == SumFunctionOnSet(f, Strategies)

Active(s)  == status[s] = "active"
Created(s) == status[s] # "none"
Nothing    == [s \in Strategies |-> 0]

-----------------------------------------------------------------------------
\* initialize_vault; the protocol configuration already exists with any fee.
Init ==
  /\ reserve = 0
  /\ ata = Nothing
  /\ wallet = Endowments
  /\ shares = [u \in Users |-> 0]
  /\ supply = 0
  /\ totalDeposited = 0
  /\ allocated = Nothing
  /\ status = [s \in Strategies |-> "none"]
  /\ weight = Nothing
  /\ totalWeight = 0
  /\ paused = FALSE
  /\ performanceFee = DefaultFee
  /\ protocolFee \in {f \in ProtocolFees : f <= MaxFee}
  /\ donated = 0

-----------------------------------------------------------------------------
(***************************************************************************)
(* Users.                                                                  *)
(***************************************************************************)

\* What the fan-out loop of deposit pushes to each strategy when the caller
\* lists strategy s times[s] times; inactive and weightless ones are skipped.
FanOut(amount, times) ==
  [s \in Strategies |-> IF Active(s) THEN times[s] * Portion(amount, weight[s]) ELSE 0]

\* The running pushed_total never exceeds the deposit.
FanOutFits(amount, push) == Total(push) <= amount

\* What a handler requires of the state, on its own where a client needs to know
\* whether its transaction is refused.
MayDeposit(u, amount, times) ==
  LET minted == SharesFor(amount, supply, totalDeposited)
      push   == FanOut(amount, times)
  IN  /\ amount > 0
      /\ ~paused
      /\ minted > 0 /\ minted <= MaxU64
      /\ amount <= wallet[u]
      /\ supply + minted <= MaxU64
      /\ totalDeposited + amount <= MaxU64
      /\ FanOutFits(amount, push)
      /\ \A s \in Strategies : allocated[s] + push[s] <= MaxU64

Deposit(u, amount, times) ==
  LET minted == SharesFor(amount, supply, totalDeposited)
      push   == FanOut(amount, times)
  IN  /\ MayDeposit(u, amount, times)
      /\ reserve' = reserve + amount - Total(push)
      /\ ata' = [s \in Strategies |-> ata[s] + push[s]]
      /\ wallet' = [wallet EXCEPT ![u] = @ - amount]
      /\ shares' = [shares EXCEPT ![u] = @ + minted]
      /\ supply' = supply + minted
      /\ totalDeposited' = totalDeposited + amount
      /\ allocated' = [s \in Strategies |-> allocated[s] + push[s]]
      /\ UNCHANGED <<strategyVars, configVars, donated>>

\* The auto-pull loop of withdraw.  The caller lists the strategies in any
\* order and the loop drains each in turn until the shortfall is closed: some
\* accounts are emptied, at most one is tapped in part, and a pull above the
\* strategy's book value reverts (checked_sub).
Shortfall(owed) == IF reserve < owed THEN owed - reserve ELSE 0
Tapped(pull, s) == pull[s] > 0 /\ pull[s] < ata[s]
AutoPull(owed, pull) ==
  /\ Total(pull) = Shortfall(owed)
  /\ \A s \in Strategies : pull[s] <= ata[s] /\ pull[s] <= allocated[s]
  /\ \A s, t \in Strategies : Tapped(pull, s) /\ Tapped(pull, t) => s = t

\* Mutant: the tokens are pulled, the books stay.
PulledBooksForgotten(pull) == allocated
\* The books after the loop: each pull is deducted from its strategy.
PulledBooks(pull) == [s \in Strategies |-> allocated[s] - pull[s]]

\* The three payments of a withdrawal, out of the reserve.
Credit(balances, to, amount) == [balances EXCEPT ![to] = @ + amount]
PayOut(u, owed) ==
  Credit(Credit(Credit(wallet,
    u,        UserAmount(owed, performanceFee)),
    Treasury, TreasuryFee(owed, protocolFee)),
    Curator,  CuratorFee(owed, performanceFee, protocolFee))

\* Not gated by the pause: exits stay open.
MayWithdraw(u, n, pull) ==
  LET owed == UnderlyingFor(n, supply, totalDeposited)
  IN  /\ n > 0 /\ n <= shares[u]
      /\ owed > 0
      /\ AutoPull(owed, pull)
      /\ performanceFee >= protocolFee

Withdraw(u, n, pull) ==
  LET owed == UnderlyingFor(n, supply, totalDeposited)
  IN  /\ MayWithdraw(u, n, pull)
      /\ reserve' = reserve + Total(pull) - owed
      /\ ata' = [s \in Strategies |-> ata[s] - pull[s]]
      /\ allocated' = PulledBooks(pull)
      /\ wallet' = PayOut(u, owed)
      /\ shares' = [shares EXCEPT ![u] = @ - n]
      /\ supply' = supply - n
      /\ totalDeposited' = totalDeposited - owed
      /\ UNCHANGED <<strategyVars, configVars, donated>>

-----------------------------------------------------------------------------
(***************************************************************************)
(* The authority moves money between the reserve and the strategies ...    *)
(***************************************************************************)
ReserveToStrategy(s, amount) ==
  /\ reserve' = reserve - amount
  /\ ata' = [ata EXCEPT ![s] = @ + amount]

StrategyToReserve(s, amount) ==
  /\ reserve' = reserve + amount
  /\ ata' = [ata EXCEPT ![s] = @ - amount]

Rebook(s, value) == allocated' = [allocated EXCEPT ![s] = value]

BooksUntouched ==
  UNCHANGED <<wallet, shareVars, totalDeposited, strategyVars, configVars, donated>>

MayAllocate(s, amount) ==
  /\ amount > 0 /\ ~paused /\ Active(s)
  /\ allocated[s] + amount <= MaxU64
  /\ amount <= reserve

AllocateToStrategy(s, amount) ==
  /\ MayAllocate(s, amount)
  /\ ReserveToStrategy(s, amount)
  /\ Rebook(s, allocated[s] + amount)
  /\ BooksUntouched

\* No is_active constraint here, unlike its siblings.
DeallocateFromStrategy(s, amount) ==
  /\ amount > 0 /\ ~paused /\ Created(s)
  /\ amount <= allocated[s] /\ amount <= ata[s]
  /\ StrategyToReserve(s, amount)
  /\ Rebook(s, allocated[s] - amount)
  /\ BooksUntouched

\* Brings the book value to the weight's part of the vault; nothing to do when
\* it is already there.
RebalanceTarget(s) == Portion(totalDeposited, weight[s])

MayRebalance(s) ==
  /\ ~paused /\ Active(s)
  /\ \/ RebalanceTarget(s) - allocated[s] \in 1..reserve
     \/ allocated[s] - RebalanceTarget(s) \in 1..ata[s]

RebalanceStrategy(s) ==
  /\ MayRebalance(s)
  /\ \/ /\ RebalanceTarget(s) > allocated[s]
        /\ ReserveToStrategy(s, RebalanceTarget(s) - allocated[s])
     \/ /\ RebalanceTarget(s) < allocated[s]
        /\ StrategyToReserve(s, allocated[s] - RebalanceTarget(s))
  /\ Rebook(s, RebalanceTarget(s))
  /\ BooksUntouched

RebalanceWithDelta(s, delta) ==
  /\ ~paused /\ Active(s) /\ delta # 0
  /\ allocated[s] + delta \in 0..MaxU64
  /\ \/ delta > 0 /\ delta <= reserve /\ ReserveToStrategy(s, delta)
     \/ delta < 0 /\ -delta <= ata[s] /\ StrategyToReserve(s, -delta)
  /\ Rebook(s, allocated[s] + delta)
  /\ BooksUntouched

(***************************************************************************)
(* ... and settles the books with what the strategies really hold.         *)
(***************************************************************************)

\* Mutant: only the gain is checked, the loss is subtracted unguarded.
TotalFitsAbove(total) == total <= MaxU64
\* A loss beyond total_deposited and a gain beyond u64 revert.
TotalFits(total) == total \in 0..MaxU64

\* The book value of s becomes value and total_deposited moves with it.
Settle(s, value) ==
  /\ TotalFits(totalDeposited + value - allocated[s])
  /\ totalDeposited' = totalDeposited + value - allocated[s]
  /\ Rebook(s, value)
  /\ UNCHANGED <<tokenVars, shareVars, strategyVars, configVars, donated>>

\* Only a gain: a token account below the book value reverts.
MayReportYield(s) ==
  /\ ~paused /\ Active(s)
  /\ ata[s] > allocated[s]
  /\ TotalFits(totalDeposited + ata[s] - allocated[s])

ReportYield(s) == MayReportYield(s) /\ Settle(s, ata[s])

\* Neither the pause nor is_active is checked.
ReportLoss(s, loss) ==
  /\ loss > 0 /\ Created(s)
  /\ loss <= allocated[s]
  /\ Settle(s, allocated[s] - loss)

\* The idle balance plus what the listed value sources add up to.
SettleStrategyValue(s, external) ==
  /\ ~paused /\ Active(s)
  /\ ata[s] + external <= MaxU64
  /\ Settle(s, ata[s] + external)

-----------------------------------------------------------------------------
(***************************************************************************)
(* The admin and governance.                                               *)
(***************************************************************************)
CreateStrategy(s) ==
  /\ ~Created(s)
  /\ status' = [status EXCEPT ![s] = "active"]
  /\ UNCHANGED <<tokenVars, shareVars, totalDeposited, allocated, weight,
                 totalWeight, configVars, donated>>

WeightFits(newTotal) == newTotal <= BPS

\* total_active_weight_bps with the new weight in place of the old one.
WeightWith(s, w) == totalWeight - weight[s] + w

MaySetWeight(s, w) ==
  /\ Active(s)
  /\ w <= BPS
  /\ WeightFits(WeightWith(s, w))

SetStrategyWeight(s, w) ==
  /\ MaySetWeight(s, w)
  /\ weight' = [weight EXCEPT ![s] = w]
  /\ totalWeight' = WeightWith(s, w)
  /\ UNCHANGED <<tokenVars, shareVars, totalDeposited, allocated, status,
                 configVars, donated>>

\* Both the books and the token account must be empty.
HoldsNothing(s) == allocated[s] = 0 /\ ata[s] = 0

\* Mutant: the vault keeps counting the weight.
WeightKept(s) == totalWeight
\* total_active_weight_bps once the strategy's weight is given back.
WeightWithout(s) == totalWeight - weight[s]

DeactivateStrategy(s) ==
  /\ Active(s)
  /\ HoldsNothing(s)
  /\ status' = [status EXCEPT ![s] = "inactive"]
  /\ totalWeight' = WeightWithout(s)
  /\ weight' = [weight EXCEPT ![s] = 0]
  /\ UNCHANGED <<tokenVars, shareVars, totalDeposited, allocated, configVars, donated>>

SetPaused(p) ==
  /\ paused' = p
  /\ UNCHANGED <<tokenVars, shareVars, totalDeposited, allocated, strategyVars,
                 performanceFee, protocolFee, donated>>

SetPerformanceFeeBps(f) ==
  /\ f <= MaxFee
  /\ f >= protocolFee
  /\ performanceFee' = f
  /\ UNCHANGED <<tokenVars, shareVars, totalDeposited, allocated, strategyVars,
                 paused, protocolFee, donated>>

\* Knows nothing of any vault's performance fee.
SetProtocolFeeBps(f) ==
  /\ f <= MaxFee
  /\ protocolFee' = f
  /\ UNCHANGED <<tokenVars, shareVars, totalDeposited, allocated, strategyVars,
                 paused, performanceFee, donated>>

-----------------------------------------------------------------------------
(***************************************************************************)
(* The token program, outside the vault's control.  create_strategy        *)
(* approves the delegate for u64::MAX and deactivate_strategy revokes it,  *)
(* so an active strategy's tokens may leave at any time; anyone may send   *)
(* tokens to a strategy's account or to the reserve.                       *)
(***************************************************************************)
DelegateTransfer(s, amount) ==
  /\ Active(s) /\ amount > 0 /\ amount <= ata[s]
  /\ ata' = [ata EXCEPT ![s] = @ - amount]
  /\ wallet' = [wallet EXCEPT ![Outside] = @ + amount]
  /\ UNCHANGED <<reserve, shareVars, totalDeposited, allocated, strategyVars,
                 configVars, donated>>

MayTransferIn(s, amount) ==
  Created(s) /\ amount > 0 /\ amount <= wallet[Outside]

TransferIn(s, amount) ==
  /\ MayTransferIn(s, amount)
  /\ ata' = [ata EXCEPT ![s] = @ + amount]
  /\ wallet' = [wallet EXCEPT ![Outside] = @ - amount]
  /\ UNCHANGED <<reserve, shareVars, totalDeposited, allocated, strategyVars,
                 configVars, donated>>

Donate(amount) ==
  /\ amount > 0 /\ amount <= wallet[Outside]
  /\ donated + amount <= MaxDonated
  /\ reserve' = reserve + amount
  /\ wallet' = [wallet EXCEPT ![Outside] = @ - amount]
  /\ donated' = donated + amount
  /\ UNCHANGED <<ata, shareVars, totalDeposited, allocated, strategyVars, configVars>>

\* The share mint is an ordinary SPL mint: holders trade shares among
\* themselves and may burn their own without redeeming them.
ShareTransfer(u, v, n) ==
  /\ u # v /\ n > 0 /\ n <= shares[u]
  /\ shares' = [shares EXCEPT ![u] = @ - n, ![v] = @ + n]
  /\ UNCHANGED <<tokenVars, supply, totalDeposited, allocated, strategyVars,
                 configVars, donated>>

BurnShares(u, n) ==
  /\ n > 0 /\ n <= shares[u]
  /\ shares' = [shares EXCEPT ![u] = @ - n]
  /\ supply' = supply - n
  /\ UNCHANGED <<tokenVars, totalDeposited, allocated, strategyVars, configVars,
                 donated>>

-----------------------------------------------------------------------------
UserStep ==
  \E u \in Users :
    \/ \E amount \in Amounts, times \in [Strategies -> 0..MaxRepeats] :
         Deposit(u, amount, times)
    \/ \E n \in 1..shares[u] :
       \E pull \in [Strategies -> 0..Shortfall(UnderlyingFor(n, supply, totalDeposited))] :
         Withdraw(u, n, pull)

AuthorityStep ==
  \E s \in Strategies :
    \/ RebalanceStrategy(s)
    \/ ReportYield(s)
    \/ \E external \in ExternalValues : SettleStrategyValue(s, external)
    \/ \E amount \in Amounts :
         \/ AllocateToStrategy(s, amount)
         \/ DeallocateFromStrategy(s, amount)
         \/ RebalanceWithDelta(s, amount)
         \/ RebalanceWithDelta(s, -amount)
         \/ ReportLoss(s, amount)

AdminStep ==
  \/ \E s \in Strategies :
       \/ CreateStrategy(s)
       \/ DeactivateStrategy(s)
       \/ \E w \in WeightChoices : SetStrategyWeight(s, w)
  \/ \E p \in PauseChoices : SetPaused(p)
  \/ \E f \in FeeChoices : SetPerformanceFeeBps(f)
  \/ \E f \in ProtocolFees : SetProtocolFeeBps(f)

TokenStep ==
  \/ \E amount \in Amounts :
       \/ Donate(amount)
       \/ \E s \in Strategies : DelegateTransfer(s, amount) \/ TransferIn(s, amount)
  \/ \E u \in Users : \E n \in 1..shares[u] :
       \/ BurnShares(u, n)
       \/ \E v \in Users : ShareTransfer(u, v, n)

Next == UserStep \/ AuthorityStep \/ AdminStep \/ TokenStep

Spec == Init /\ [][Next]_vars

-----------------------------------------------------------------------------
TypeOK ==
  /\ reserve \in Nat /\ supply \in 0..MaxU64 /\ totalDeposited \in 0..MaxU64
  /\ donated \in 0..MaxDonated
  /\ ata \in [Strategies -> Nat]
  /\ allocated \in [Strategies -> 0..MaxU64]
  /\ wallet \in [Wallets -> Nat]
  /\ shares \in [Users -> Nat]
  /\ status \in [Strategies -> {"none", "active", "inactive"}]
  /\ weight \in [Strategies -> 0..BPS] /\ totalWeight \in 0..BPS
  /\ paused \in BOOLEAN
  /\ performanceFee \in 0..MaxFee /\ protocolFee \in 0..MaxFee

(***************************************************************************)
(* Invariants.                                                             *)
(***************************************************************************)

\* The books balance: what the reserve holds and the strategies are booked at
\* is what the share price is computed from, but for tokens sent straight to
\* the reserve.  Every handler writes two or three of the four quantities.
BooksBalance == reserve + Total(allocated) = totalDeposited + donated

\* Every share belongs to a user, so no burn takes more than the supply.
SharesBacked == SumFunctionOnSet(shares, Users) = supply

\* total_active_weight_bps is the sum of the weights, and only active
\* strategies carry one (state.rs, audit #18).
WeightsWithinCap ==
  /\ totalWeight = Total(weight)
  /\ \A s \in Strategies : ~Active(s) => weight[s] = 0

\* A strategy that is not active is booked at nothing: no later deposit,
\* rebalance or settlement puts value where nobody can manage it.
InactiveIsEmpty == \A s \in Strategies : ~Active(s) => allocated[s] = 0

\* Tokens only move: no handler pays out more or less than it takes.
TokensConserved ==
  reserve + Total(ata) + SumFunctionOnSet(wallet, Wallets)
    = SumFunctionOnSet(Endowments, Wallets)

(***************************************************************************)
(* Action properties.                                                      *)
(***************************************************************************)

\* A settlement that writes a strategy down moves no token and no share.
RecognisedLoss ==
  /\ UNCHANGED <<tokenVars, shareVars>>
  /\ \E s \in Strategies :
       /\ allocated'[s] < allocated[s]
       /\ totalDeposited - totalDeposited' = allocated[s] - allocated'[s]

\* Nothing but a recognised loss lowers the share price: not a deposit, not a
\* withdrawal with its auto-pull and fees, not an allocation or a rebalance.
OnlyLossesLowerPrice ==
  [][\/ PriceNotLower(totalDeposited, supply, totalDeposited', supply')
     \/ RecognisedLoss]_vars

\* The fan-out of a deposit spends the deposit, never the liquidity that was
\* already there for withdrawals, however often a strategy is listed.
DepositKeepsLiquidity == [][supply' > supply => reserve' >= reserve]_vars

\* While the vault is paused no share is issued, no strategy's book value
\* grows, and money leaves the reserve only with a redemption.
PauseOnlyLetsOut ==
  [][paused => /\ supply' <= supply
               /\ \A s \in Strategies : allocated'[s] <= allocated[s]
               /\ reserve' < reserve => supply' < supply]_vars

\* A withdrawal takes from the strategies only once the reserve is used up.
AutoPullIsLastResort == [][supply' < supply /\ ata' # ata => reserve' = 0]_vars

\* Whoever redeems receives all but the capped fee of what leaves the books.
RedeemerIsPaid ==
  [][supply' < supply /\ totalDeposited' < totalDeposited =>
       \A u \in Users : shares'[u] < shares[u] =>
         (wallet'[u] - wallet[u]) * BPS
           >= (totalDeposited - totalDeposited') * (BPS - MaxFee)]_vars

(***************************************************************************)
(* The vault is a pool.                                                    *)
(***************************************************************************)
ThePool == INSTANCE Pool
  WITH Holders <- Users, assets <- totalDeposited, issued <- supply, holding <- shares

\* Every transaction is a purchase, a redemption or a revaluation of the pool
\* at a price that harms no other holder, or is invisible to its holders.
ImplementsPool == ThePool!PoolSpec
=============================================================================
