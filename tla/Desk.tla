-------------------------------- MODULE Desk --------------------------------
(***************************************************************************)
(* The ledger of module Vault as people and scripts use it: the deposit    *)
(* and withdrawal forms and the authority's buttons of the web application *)
(* (app/src), and the scripts that crank, simulate and seed yield          *)
(* (scripts/).  What the ledger does with a transaction is Vault's; what   *)
(* is sent, in which order and from which figures is modelled here.        *)
(*                                                                         *)
(* A page shows what it has read some time ago.  A job is a series of      *)
(* reads and transactions, each awaited, that stops at the first refusal;  *)
(* everybody else's transactions fall in between.  A click is a job of one *)
(* transaction, and one that is refused changes nothing.                   *)
(***************************************************************************)
EXTENDS Vault, RedeemPlan, Listings

CONSTANTS
  Tabs, Scripts,    \* clients: pages of the application, runs of a script
  Holder,           \* the user whose forms are modelled
  Market,           \* reserve of the lending market at the start
  Situations,       \* what a strategy may look like at the start
  FirstDeposit,     \* what the holder has deposited by then
  Allocation,       \* what setup-devnet allocates to each strategy
  YieldBps,         \* crank-yield --yield-bps
  FixedYield,       \* yield simulate-yield and the seed script hand out
  AmountPerClaim,   \* what the faucet pays
  MaxEvents         \* bound on jobs started, clicks, other people's
                    \* transactions and crashes

Clients == Tabs \cup Scripts
Least(S) == CHOOSE s \in S : \A t \in S : s <= t

Positions == [cTokens : Nat, debt : Nat, principal : Nat]

ASSUME DeskAssumption ==
  /\ Strategies \subseteq Nat /\ Strategies # {}
  /\ Holder \in Users \ {Outside}
  /\ Tabs \cap Scripts = {}
  /\ {Allocation, YieldBps, FixedYield, AmountPerClaim, MaxEvents} \subseteq Nat

\* What a strategy has lent has left its account, the market owes no more
\* cTokens than it has issued, and the holder's deposit was accepted.
ASSUME SituationsAssumption ==
  /\ Situations \subseteq [allocated : Nat, ata : Nat, position : Positions]
  /\ \A x \in Situations : x.ata <= x.allocated
  /\ Market \in [liquidity : Nat, collateral : Nat]
  /\ \A at \in [Strategies -> Situations] :
       Total([s \in Strategies |-> at[s].position.cTokens]) <= Market.collateral
  /\ FirstDeposit \in 1..Endowment
  /\ SharesFor(FirstDeposit, 0, 0) <= MaxU64

\* setup-devnet and setup-multi-vaults deposit at least what they allocate to all
\* of their strategies.
ASSUME PlansAssumption ==
  Allocation > 0 /\ Cardinality(Strategies) * Allocation <= FirstDeposit

VARIABLES
  screen,           \* what each tab shows of the vault and of the strategies
  job,              \* what each client is doing
  position,         \* each strategy's positions in the lending protocols
  market,           \* reserve of the lending market
  faucet,           \* mint authority: "payer", "handed" over, "registered"
  purse,            \* the operator's tokens, part of wallet[Outside]
  cooling,          \* the operator's faucet cooldown runs
  events            \* history: how many of them have happened

besideVars == <<position, market, faucet, purse, cooling>>
deskVars == <<vars, besideVars, screen, job, events>>

-----------------------------------------------------------------------------
(***************************************************************************)
(* Pages.                                                                  *)
(***************************************************************************)
VaultShown ==
  [total |-> totalDeposited, supply |-> supply, reserve |-> reserve,
   paused |-> paused, fee |-> performanceFee]
\* The strategies as listed, and what the adapters find redeemable.
StrategiesShown ==
  [status |-> status, weight |-> weight, allocated |-> allocated, ata |-> ata,
   redeemable |-> [s \in Strategies |->
                     [a \in ToSet(Adapters) |-> Available(a, position[s], market)]]]
Shown == [vault |-> VaultShown, strategies |-> StrategiesShown]

ShownActive(t) == {s \in Strategies : screen[t].strategies.status[s] = "active"}
ShownTarget(t, s) == Portion(screen[t].vault.total, screen[t].strategies.weight[s])
ShownDelta(t, s) == ShownTarget(t, s) - screen[t].strategies.allocated[s]

ById(S) == Ascending(S)
\* f over some of the strategies.
Over(f, S) == Total([s \in Strategies |-> IF s \in S THEN f[s] ELSE 0])

Idle == [kind |-> "none", state |-> "idle", todo |-> <<>>, calm |-> FALSE,
         shares |-> 0, amount |-> 0, redeems |-> <<>>, served |-> {}, before |-> 0,
         unseen |-> 0, skipped |-> {}]
Running(c) == job[c].state = "running"

\* Timers read the vault and the strategies again, each on its own.  A job
\* keeps the figures of the moment it was started.
RefreshVault(t) ==
  /\ ~Running(t) /\ events < MaxEvents
  /\ screen[t].vault # VaultShown
  /\ screen' = [screen EXCEPT ![t].vault = VaultShown]
  /\ UNCHANGED <<vars, besideVars, job, events>>
RefreshStrategies(t) ==
  /\ ~Running(t) /\ events < MaxEvents
  /\ screen[t].strategies # StrategiesShown
  /\ screen' = [screen EXCEPT ![t].strategies = StrategiesShown]
  /\ UNCHANGED <<vars, besideVars, job, events>>

-----------------------------------------------------------------------------
(***************************************************************************)
(* Jobs.  A step of a job is an operation and what it is about: a strategy *)
(* or an amount.                                                           *)
(***************************************************************************)
\* A job is calm while nobody else's transaction has landed since it started,
\* but for a crank that runs over a crank and is not broken off.
Overtaken(j, crank) ==
  IF j.state # "running" THEN Idle
  ELSE [j EXCEPT !.calm = @ /\ crank /\ j.kind = "crank"]
OnClient(c, mine, crank) ==
  job' = [d \in Clients |-> IF d = c THEN mine ELSE Overtaken(job[d], crank)]

\* A job stops halfway: a crank may leave yield that nobody reports.
BreaksOff(c, mine) ==
  job' = [d \in Clients |->
            IF d = c THEN mine
            ELSE IF job[c].kind = "crank" /\ job[d].kind = "crank"
            THEN [job[d] EXCEPT !.calm = FALSE]
            ELSE job[d]]

\* The job goes on with these steps in place of its first one.
Continue(c, steps) ==
  LET rest == steps \o Tail(job[c].todo)
  IN  [job[c] EXCEPT !.todo = rest, !.state = IF rest = <<>> THEN "done" ELSE "running"]
Refused(c) == [job[c] EXCEPT !.todo = <<>>, !.state = "refused"]

Each(op, list) == [i \in DOMAIN list |-> <<op, list[i]>>]

Start(c, j) ==
  /\ ~Running(c) /\ events < MaxEvents /\ j.todo # <<>>
  /\ events' = events + 1
  /\ job' = [job EXCEPT ![c] = [j EXCEPT !.state = "running"]]
  /\ UNCHANGED <<vars, besideVars, screen>>

\* A step that only reads.
Read(c, mine) ==
  /\ job' = [job EXCEPT ![c] = mine]
  /\ UNCHANGED <<vars, besideVars, screen, events>>

\* What a page reads again once its job is done; a withdrawal leaves the list
\* of strategies alone.
Afterwards(t, kind) ==
  IF kind = "withdraw" THEN [screen[t] EXCEPT !.vault = VaultShown'] ELSE Shown'

Landed(c) ==
  /\ OnClient(c, Continue(c, <<>>), job[c].kind = "crank" /\ faucet = "payer")
  /\ screen' = [t \in Tabs |-> IF t = c /\ job'[c].state = "done"
                                 THEN Afterwards(t, job[c].kind) ELSE screen[t]]

\* A transaction of the ledger alone.
Ledger(transaction) == transaction /\ UNCHANGED besideVars

\* A step that sends a transaction: it lands, is accepted without an effect,
\* or is refused and ends the job.
Send(c, allowed, transaction, idle) ==
  /\ \/ allowed /\ transaction /\ Landed(c)
     \/ idle /\ UNCHANGED <<vars, besideVars>> /\ Landed(c)
     \/ /\ ~allowed /\ ~idle
        /\ BreaksOff(c, Refused(c)) /\ UNCHANGED <<vars, besideVars, screen>>
  /\ UNCHANGED events

-----------------------------------------------------------------------------
(***************************************************************************)
(* The withdrawal form.                                                    *)
(***************************************************************************)
\* The button is off when the price shown, which leaves the virtual offsets
\* out, asks more of the reserve than it is shown to hold.
ReserveInsufficient(t, n) ==
  LET shown == screen[t].vault
  IN  IF shown.supply = 0 THEN n > shown.reserve
      ELSE n * shown.total > shown.reserve * shown.supply

\* The page knows the vault and nothing but the reserve has moved since, the
\* fees can be paid, and no listed account holds unreported yield: a pull
\* beyond the book value reverts.
WithdrawCalm(t, n) ==
  /\ screen[t].vault.total = totalDeposited
  /\ screen[t].strategies.status = status
  /\ performanceFee >= protocolFee
  /\ UnderlyingFor(n, supply, totalDeposited) > 0
  /\ \A s \in ShownActive(t) : ata[s] <= allocated[s]

StartWithdraw(t, n) ==
  /\ ~ReserveInsufficient(t, n)
  /\ Start(t, [Idle EXCEPT
       !.kind = "withdraw", !.shares = n, !.calm = WithdrawCalm(t, n),
       !.todo = <<<<"supply", 0>>, <<"reserve", 0>>, <<"accounts", 0>>,
                  <<"positions", 0>>, <<"withdraw", 0>>>>])

\* Mutant: the planner counts what the strategies are booked at.
ReachableByBooks(t, failed) == Over(allocated, ShownActive(t) \ failed)
\* What the listed strategies' token accounts hold, as far as they are read: one
\* whose balance is not answered counts as empty.
Reachable(t, failed) == Over(ata, ShownActive(t) \ failed)

\* The reads before the transaction, one after the other.  Without the supply or
\* the reserve the form gives up, as one that is closed; any of the others may fail
\* unnoticed.  History: unseen, what the accounts not read held; skipped, the
\* positions not used (one with nothing to give is passed over either way).
ReadSupply(t) ==
  Read(t, [Continue(t, <<>>) EXCEPT
    !.amount = UnderlyingFor(job[t].shares, supply, screen[t].vault.total)])
ReadReserve(t) == Read(t, [Continue(t, <<>>) EXCEPT !.amount = @ - reserve])
ReadAccounts(t) ==
  \E failed \in SUBSET ShownActive(t) :
    Read(t, [Continue(t, <<>>) EXCEPT
      !.amount = @ - Reachable(t, failed), !.unseen = Over(ata, failed)])
Giving(t) ==
  {e \in ShownActive(t) \X ToSet(Adapters) :
     job[t].amount > 0 /\ Available(e[2], position[e[1]], market) > 0}
ReadPositions(t) ==
  \E skipped \in SUBSET Giving(t) :
    Read(t, [Continue(t, <<>>) EXCEPT
      !.redeems = BuildRedeemPlan(ById(ShownActive(t)), position, market,
                                  job[t].amount, skipped).redeems,
      !.skipped = skipped])

\* withdraw drains the listed accounts in their order.
PulledInOrder(listed, shortfall) ==
  [s \in Strategies |->
     IF s \in listed
       THEN LET before == Over(ata, {r \in listed : r < s})
            IN  Min({ata[s], Max({0, shortfall - before})})
       ELSE 0]

\* execute_action refuses a caller who is neither the delegate nor the
\* authority, and a sibling instruction that names the strategy's account: with
\* a redemption in front the whole transaction is refused.
SendWithdraw(t) ==
  LET owed == UnderlyingFor(job[t].shares, supply, totalDeposited)
      pull == PulledInOrder(ShownActive(t), Shortfall(owed))
  IN  Send(t, job[t].redeems = <<>> /\ MayWithdraw(Holder, job[t].shares, pull),
           Ledger(Withdraw(Holder, job[t].shares, pull)), FALSE)

-----------------------------------------------------------------------------
(***************************************************************************)
(* Rebalancing all strategies.                                             *)
(***************************************************************************)
RebalanceCalm(t) ==
  /\ screen[t].vault.total = totalDeposited
  /\ screen[t].strategies = StrategiesShown
  /\ ~paused
  /\ \A s \in Strategies : Active(s) => ata[s] >= allocated[s]

OffTarget(t) == {s \in ShownActive(t) : ShownDelta(t, s) # 0}
\* Mutant: the largest allocation first.
AllocationsFirst(t) ==
  Ranked(OffTarget(t), {e \in OffTarget(t) \X OffTarget(t) :
    \/ ShownDelta(t, e[1]) > ShownDelta(t, e[2])
    \/ ShownDelta(t, e[1]) = ShownDelta(t, e[2]) /\ e[1] < e[2]})
\* Deallocations first, to free reserve for the allocations.
DeallocationsFirst(t) ==
  Ranked(OffTarget(t), {e \in OffTarget(t) \X OffTarget(t) :
    \/ ShownDelta(t, e[1]) < ShownDelta(t, e[2])
    \/ ShownDelta(t, e[1]) = ShownDelta(t, e[2]) /\ e[1] < e[2]})

StartRebalance(t) ==
  Start(t, [Idle EXCEPT !.kind = "rebalance", !.calm = RebalanceCalm(t),
                        !.todo = Each("rebalance", DeallocationsFirst(t))])

\* At its target the transaction is accepted and does nothing.
SendRebalance(c, s) ==
  Send(c, MayRebalance(s), Ledger(RebalanceStrategy(s)),
       ~paused /\ Active(s) /\ RebalanceTarget(s) = allocated[s])

-----------------------------------------------------------------------------
(***************************************************************************)
(* Scripts that hand out yield.                                            *)
(***************************************************************************)
Unpaused == ~paused

\* crank-yield: with --loop a timer starts the next round whether or not the
\* last one has ended.
StartCrank(c, accrue) ==
  /\ faucet # "handed"
  /\ Start(c, [Idle EXCEPT
       !.kind = "crank", !.calm = Unpaused /\ faucet = "payer",
       !.todo = Each("look", ById({s \in Strategies : Created(s)}))
                \o (IF accrue THEN <<<<"accrue", FixedYield>>>> ELSE <<>>)])

\* Mutant: a strategy that has lent its tokens is cranked as well.
CrankableIfBooked(s) == Active(s) /\ Portion(allocated[s], YieldBps) > 0
\* Only a strategy whose tokens are still in its account.
Crankable(s) ==
  /\ Active(s) /\ ata[s] >= allocated[s]
  /\ Portion(allocated[s], YieldBps) > 0

LookAt(c, s) ==
  LET amount == Portion(allocated[s], YieldBps)
      fund   == IF faucet = "payer" THEN <<<<"mint", s>>>>
                ELSE <<<<"topup", amount>>, <<"fund", s>>>>
  IN  Read(c, IF Crankable(s)
                THEN [Continue(c, fund \o <<<<"report", s>>>>) EXCEPT
                        !.amount = amount, !.served = @ \cup {s}]
                ELSE Continue(c, <<>>))

\* simulate-yield and mint-defi-alpha: a fixed amount for each strategy, the ones
\* of a list or all there are, reported only if the payer is the vault's authority,
\* which is read once.
HandOut(c, authority, list, last) ==
  Start(c, [Idle EXCEPT
    !.kind = "handout", !.amount = FixedYield,
    !.before = IF last = <<>> THEN 0 ELSE totalDeposited,
    !.calm = /\ Unpaused /\ faucet = "payer" /\ \A i \in DOMAIN list : Created(list[i])
             /\ \A s \in Strategies : Active(s) => ata[s] = allocated[s],
    !.todo = Each(IF authority THEN "tip" ELSE "drop", list) \o last])
Tip(c, s, report) ==
  Read(c, IF ~Created(s) THEN Refused(c)
          ELSE IF ~Active(s) THEN Continue(c, <<>>)
          ELSE IF ~report THEN Continue(c, <<<<"mint", s>>>>)
          ELSE [Continue(c, <<<<"mint", s>>, <<"report", s>>>>) EXCEPT !.served = @ \cup {s}])

StartSimulate(c, authority) == HandOut(c, authority, ById(Strategies), <<>>)

\* mint-defi-alpha also mints tokens for a user (part of his endowment here), and
\* the authority's run ends with an error if the vault's total has not grown by
\* exactly what was handed out.
StartMintAll(c, authority) ==
  HandOut(c, authority, ById({s \in Strategies : Created(s)}),
          IF authority THEN <<<<"verify", 0>>>> ELSE <<>>)
Verify(c) ==
  LET handed == job[c].amount * Cardinality(job[c].served)
  IN  Read(c, IF totalDeposited = job[c].before + handed THEN Continue(c, <<>>)
              ELSE Refused(c))

\* seed-demo-strategies: one claim, then a transfer to each account; nobody
\* reports it.
StartSeed(c) ==
  LET targets == {s \in Strategies : Created(s)}
  IN  Start(c, [Idle EXCEPT
        !.kind = "seed", !.amount = FixedYield,
        !.todo = <<<<"topup", FixedYield * Cardinality(targets)>>>> \o Each("fund", ById(targets))])

\* A vault of its own, from the first deposit to the first yield, which is
\* reported strategy by strategy.
SetUp(c, steps) ==
  /\ totalDeposited = 0 /\ \A s \in Strategies : ~Created(s)
  /\ Start(c, [Idle EXCEPT
       !.kind = "setup", !.calm = Unpaused /\ faucet = "payer" /\ FirstDeposit <= wallet[Holder],
       !.served = Strategies, !.amount = Portion(Allocation, YieldBps),
       !.todo = <<<<"deposit", FirstDeposit>>>> \o Each("create", ById(Strategies)) \o steps])

\* setup-devnet hands out all of the yield before it reports any.
StartSetup(c) ==
  SetUp(c, Each("allocate", ById(Strategies)) \o Each("mint", ById(Strategies))
             \o Each("report", ById(Strategies)))

\* setup-multi-vaults gives each strategy the weight of its allocation first.
PlannedWeight == (Allocation * BPS) \div FirstDeposit
StartMultiSetup(c) ==
  LET order == ById(Strategies)
  IN  SetUp(c, Each("weigh", order) \o Each("allocate", order)
               \o [k \in 1..(2 * Len(order)) |->
                     IF k % 2 = 1 THEN <<"mint", order[(k + 1) \div 2]>>
                     ELSE <<"report", order[k \div 2]>>])

\* setup-kamino-strategy, setup-lulo-strategy: one more strategy, a deposit, and
\* its allocation; the strategy's number is the vault's count.
StartAgentSetup(c, weighed) ==
  LET free == {s \in Strategies : ~Created(s)}
      next == Least(free)
  IN  /\ free # {}
      /\ Start(c, [Idle EXCEPT
           !.kind = "agent_setup",
           !.calm = /\ Unpaused /\ FirstDeposit <= wallet[Holder]
                    /\ weighed => totalWeight + PlannedWeight <= BPS,
           !.todo = <<<<"create", next>>>>
                    \o (IF weighed THEN <<<<"weigh", next>>>> ELSE <<>>)
                    \o <<<<"deposit", FirstDeposit>>, <<"allocate", next>>>>])

\* setup-demo-faucet: hands the mint over and registers it, unless done.
StartFaucet(c) ==
  Start(c, [Idle EXCEPT !.kind = "faucet", !.todo = <<<<"handover", 0>>, <<"register", 0>>>>])

\* Tokens of others than the operator, whose purse is not touched.
MayReceive(s, amount) == MayTransferIn(s, amount) /\ purse <= wallet[Outside] - amount

\* Tokens for a strategy: newly minted, or the operator's own.
MayMint(s, amount) == faucet = "payer" /\ MayReceive(s, amount)
Mint(s, amount) == TransferIn(s, amount) /\ UNCHANGED besideVars
\* Mutant: hands out what the operator does not have.
MayFundOnCredit(s, amount) == MayTransferIn(s, amount)
MayFund(s, amount) == amount <= purse /\ MayTransferIn(s, amount)
Fund(s, amount) ==
  /\ MayFund(s, amount)
  /\ purse' = purse - amount
  /\ TransferIn(s, amount)
  /\ UNCHANGED <<position, market, faucet, cooling>>

\* The faucet pays a fixed amount to whoever has not been paid for a while.
MayClaim ==
  /\ faucet = "registered" /\ ~cooling
  /\ purse + AmountPerClaim <= wallet[Outside]
Claim ==
  /\ MayClaim
  /\ purse' = purse + AmountPerClaim /\ cooling' = TRUE
  /\ UNCHANGED <<vars, position, market, faucet>>

\* A claim that fails is passed over.
TopUp(c, needed) ==
  Send(c, purse < needed /\ MayClaim, Claim, purse >= needed \/ ~MayClaim)

\* Accepted at the book value, refused below it.
SendReport(c, s) ==
  Send(c, MayReportYield(s), Ledger(ReportYield(s)),
       ~paused /\ Active(s) /\ ata[s] = allocated[s])

\* simulate_yield of the lending market: its cTokens are worth more.
Accrue(amount) ==
  /\ market' = [market EXCEPT !.liquidity = @ + amount]
  /\ UNCHANGED <<vars, position, faucet, purse, cooling>>

Handover(c) ==
  Send(c, faucet = "payer",
       faucet' = "handed" /\ UNCHANGED <<vars, position, market, purse, cooling>>,
       faucet # "payer")
Register(c) ==
  Send(c, faucet = "handed",
       faucet' = "registered" /\ UNCHANGED <<vars, position, market, purse, cooling>>,
       faucet = "registered")

-----------------------------------------------------------------------------
\* The next step of a running job.
Advance(c) ==
  /\ Running(c)
  /\ LET op == Head(job[c].todo)[1]
         of == Head(job[c].todo)[2]
     IN  \/ op = "supply" /\ ReadSupply(c)
         \/ op = "reserve" /\ ReadReserve(c)
         \/ op = "accounts" /\ ReadAccounts(c)
         \/ op = "positions" /\ ReadPositions(c)
         \/ op = "withdraw" /\ SendWithdraw(c)
         \/ op = "rebalance" /\ SendRebalance(c, of)
         \/ op = "look" /\ LookAt(c, of)
         \/ op = "tip" /\ Tip(c, of, TRUE)
         \/ op = "drop" /\ Tip(c, of, FALSE)
         \/ op = "verify" /\ Verify(c)
         \/ op = "topup" /\ TopUp(c, of)
         \/ op = "fund" /\ Send(c, MayFund(of, job[c].amount), Fund(of, job[c].amount), FALSE)
         \/ op = "mint" /\ Send(c, MayMint(of, job[c].amount), Mint(of, job[c].amount), job[c].amount = 0)
         \/ op = "report" /\ SendReport(c, of)
         \/ op = "accrue" /\ Send(c, TRUE, Accrue(of), FALSE)
         \/ op = "deposit" /\ Send(c, MayDeposit(Holder, of, Nothing), Ledger(Deposit(Holder, of, Nothing)), FALSE)
         \/ op = "create" /\ Send(c, ~Created(of), Ledger(CreateStrategy(of)), FALSE)
         \/ op = "weigh" /\ Send(c, MaySetWeight(of, PlannedWeight), Ledger(SetStrategyWeight(of, PlannedWeight)), FALSE)
         \/ op = "allocate" /\ Send(c, MayAllocate(of, Allocation), Ledger(AllocateToStrategy(of, Allocation)), FALSE)
         \/ op = "handover" /\ Handover(c)
         \/ op = "register" /\ Register(c)

\* A page is closed, a script is interrupted: what has landed stays.
Die(c) ==
  /\ Running(c) /\ events < MaxEvents
  /\ events' = events + 1
  /\ BreaksOff(c, Idle) /\ UNCHANGED <<vars, besideVars, screen>>

-----------------------------------------------------------------------------
(***************************************************************************)
(* Buttons that send one transaction, and what each reads again.           *)
(***************************************************************************)
Click(t, transaction, view) ==
  /\ ~Running(t) /\ events < MaxEvents
  /\ transaction
  /\ OnClient(t, Idle, FALSE)
  /\ screen' = [screen EXCEPT ![t] = view]
  /\ events' = events + 1

VaultRead(t) == [screen[t] EXCEPT !.vault = VaultShown']

\* What the forms let through, from what the page shows.
Entered(amount) == amount > 0
AtTarget(t, s) == ShownDelta(t, s) = 0
HasUnreported(t, s) ==
  screen[t].strategies.ata[s] > screen[t].strategies.allocated[s]
LooksEmpty(t, s) ==
  screen[t].strategies.allocated[s] = 0 /\ screen[t].strategies.ata[s] = 0
NewWeight(t, s, w) == screen[t].strategies.weight[s] # w /\ w <= BPS
NewFee(t, f) == screen[t].vault.fee # f /\ f <= MaxFee
PauseSent(t) == ~screen[t].vault.paused

ClickDeposit(t, amount) ==
  Entered(amount) /\ Click(t, Ledger(Deposit(Holder, amount, Nothing)), VaultRead(t))
ClickAllocate(t, s, amount) ==
  Entered(amount) /\ Click(t, Ledger(AllocateToStrategy(s, amount)), Shown')
ClickDeallocate(t, s, amount) ==
  Entered(amount) /\ Click(t, Ledger(DeallocateFromStrategy(s, amount)), Shown')
ClickRebalance(t, s) == ~AtTarget(t, s) /\ Click(t, Ledger(RebalanceStrategy(s)), Shown')
ClickReportYield(t, s) == HasUnreported(t, s) /\ Click(t, Ledger(ReportYield(s)), Shown')
ClickReportLoss(t, s, amount) ==
  Entered(amount) /\ Click(t, Ledger(ReportLoss(s, amount)), VaultRead(t))
ClickDeactivate(t, s) ==
  /\ s \in ShownActive(t) /\ LooksEmpty(t, s)
  /\ Click(t, Ledger(DeactivateStrategy(s)), Shown')
ClickWeight(t, s, w) ==
  NewWeight(t, s, w) /\ Click(t, Ledger(SetStrategyWeight(s, w)), Shown')
ClickPause(t) == Click(t, Ledger(SetPaused(PauseSent(t))), VaultRead(t))
ClickFee(t, f) == NewFee(t, f) /\ Click(t, Ledger(SetPerformanceFeeBps(f)), VaultRead(t))
ClickFaucet(t) == Click(t, Claim, screen[t])

\* All of what was found redeemable, at today's rate; nothing is read again.
\* The wallet must be the authority's: the button is shown to the admin too,
\* whom execute_action refuses.
RedeemKamino(s, amount) ==
  LET burnt == CollateralForAmount(amount, market)
      paid  == Worth(burnt, market)
  IN  /\ position[s].debt = 0 /\ burnt <= position[s].cTokens
      /\ MayReceive(s, paid) /\ TransferIn(s, paid)
      /\ position' = [position EXCEPT ![s].cTokens = @ - burnt]
      /\ market' = [liquidity |-> market.liquidity - paid, collateral |-> market.collateral - burnt]
      /\ UNCHANGED <<faucet, purse, cooling>>
RedeemLulo(s, amount) ==
  /\ MayReceive(s, amount) /\ TransferIn(s, amount)
  /\ position' = [position EXCEPT ![s].principal = Max({0, @ - amount})]
  /\ UNCHANGED <<market, faucet, purse, cooling>>
ClickRedeem(t, s, adapter) ==
  LET amount == screen[t].strategies.redeemable[s][adapter]
  IN  /\ amount > 0 /\ Active(s)
      /\ Click(t, \/ adapter = "kamino" /\ RedeemKamino(s, amount)
                  \/ adapter = "lulo" /\ RedeemLulo(s, amount), screen[t])

-----------------------------------------------------------------------------
(***************************************************************************)
(* Everybody else.                                                         *)
(***************************************************************************)
Others(transaction) ==
  /\ events < MaxEvents /\ events' = events + 1
  /\ transaction
  /\ job' = [c \in Clients |-> Overtaken(job[c], FALSE)]
  /\ UNCHANGED screen

\* Any transaction of the ledger.
Elsewhere == Others(Ledger(Next) /\ purse <= wallet'[Outside])

\* An agent lends a strategy's tokens.
Lend(s, amount) ==
  Others(/\ DelegateTransfer(s, amount)
         /\ position' = [position EXCEPT ![s].principal = @ + amount]
         /\ UNCHANGED <<market, faucet, purse, cooling>>)

CooldownEnds ==
  /\ events < MaxEvents \/ \E c \in Scripts : Running(c)
  /\ cooling /\ cooling' = FALSE
  /\ UNCHANGED <<vars, position, market, faucet, purse, screen, job, events>>

-----------------------------------------------------------------------------
\* At the start the vault is empty, or the holder has deposited and each
\* strategy is in one of the Situations; a page shows all of it, or still the
\* reserve it read before the strategies were given anything (not combined with
\* a registered faucet: forms and yield scripts do not meet there).
DeskLedger(at, w) ==
  /\ totalDeposited = FirstDeposit
  /\ supply = SharesFor(FirstDeposit, 0, 0)
  /\ shares = [u \in Users |-> IF u = Holder THEN supply ELSE 0]
  /\ allocated = [s \in Strategies |-> at[s].allocated]
  /\ ata = [s \in Strategies |-> at[s].ata]
  /\ reserve = FirstDeposit - Total(allocated)
  /\ wallet = [Endowments EXCEPT ![Holder] = @ - FirstDeposit,
                                 ![Outside] = @ + Total(allocated) - Total(ata)]
  /\ status = [s \in Strategies |-> "active"]
  /\ weight = w /\ totalWeight = Total(w)
  /\ paused = FALSE /\ performanceFee = DefaultFee /\ protocolFee = 0 /\ donated = 0
  /\ position = [s \in Strategies |-> at[s].position]

NoPosition == [cTokens |-> 0, debt |-> 0, principal |-> 0]

DeskInit ==
  /\ \/ Init /\ position = [s \in Strategies |-> NoPosition]
     \/ \E at \in [Strategies -> Situations], w \in [Strategies -> WeightChoices] :
          /\ Total([s \in Strategies |-> at[s].allocated]) <= FirstDeposit
          /\ Total(w) <= BPS
          /\ DeskLedger(at, w)
  /\ market = Market
  /\ faucet \in {"payer", "registered"}
  /\ purse = 0 /\ cooling = FALSE
  /\ \E shown \in {reserve} \cup (IF faucet = "payer" THEN {totalDeposited} ELSE {}) :
       screen = [t \in Tabs |-> [Shown EXCEPT !.vault.reserve = shown]]
  /\ job = [c \in Clients |-> Idle]
  /\ events = 0

TabNext(t) ==
  \/ RefreshVault(t) \/ RefreshStrategies(t)
  \/ \E n \in 1..shares[Holder] : StartWithdraw(t, n)
  \/ StartRebalance(t)
  \/ ClickPause(t) \/ ClickFaucet(t)
  \/ \E f \in FeeChoices : ClickFee(t, f)
  \/ \E amount \in Amounts : ClickDeposit(t, amount)
  \/ \E s \in Strategies :
       \/ ClickRebalance(t, s) \/ ClickReportYield(t, s) \/ ClickDeactivate(t, s)
       \/ \E w \in WeightChoices : ClickWeight(t, s, w)
       \/ \E a \in ToSet(Adapters) : ClickRedeem(t, s, a)
       \/ \E amount \in Amounts :
            ClickAllocate(t, s, amount) \/ ClickDeallocate(t, s, amount)
              \/ ClickReportLoss(t, s, amount)

ScriptNext(c) ==
  \/ \E b \in BOOLEAN : StartCrank(c, b) \/ StartSimulate(c, b)
  \/ \E b \in BOOLEAN : StartMintAll(c, b) \/ StartAgentSetup(c, b)
  \/ StartSeed(c) \/ StartSetup(c) \/ StartMultiSetup(c) \/ StartFaucet(c)

DeskNext ==
  \/ \E t \in Tabs : TabNext(t)
  \/ \E c \in Scripts : ScriptNext(c)
  \/ \E c \in Clients : Advance(c) \/ Die(c)
  \/ Elsewhere \/ CooldownEnds
  \/ \E s \in Strategies, amount \in Amounts : Lend(s, amount)

DeskSpec == DeskInit /\ [][DeskNext]_deskVars

-----------------------------------------------------------------------------
DeskTypeOK ==
  /\ TypeOK
  /\ \A c \in Clients :
       /\ job[c].state \in {"idle", "running", "done", "refused"}
       /\ job[c].kind \in {"none", "withdraw", "rebalance", "crank", "handout",
                           "seed", "setup", "agent_setup", "faucet"}
       /\ Running(c) <=> job[c].todo # <<>>
  /\ purse \in 0..wallet[Outside] /\ cooling \in BOOLEAN
  /\ faucet \in {"payer", "handed", "registered"}
  /\ \A s \in Strategies : position[s] \in Positions
  /\ market \in [liquidity : Nat, collateral : Nat]

Ended(c, kind) == job[c].kind = kind /\ ~Running(c) /\ job[c].calm

\* A withdrawal nobody came between goes through exactly if the plan needs no
\* lending protocol and the reserve and the listed token accounts cover it, those
\* the page failed to read included: the page's estimate, made before the
\* transaction from separate reads, differs from the program's own figures by no
\* more than what it failed to see, and the plan is empty when it sees enough.
WithdrawIffCovered ==
  \A t \in Tabs : Ended(t, "withdraw") =>
    /\ job[t].state = "done" <=> job[t].redeems = <<>> /\ job[t].amount <= job[t].unseen
    /\ job[t].amount <= 0 => job[t].redeems = <<>>

\* The redeem plan takes as much as seems missing or as there is in the positions
\* that could be read and used, from each of them at most what it can give, and
\* nothing from one in debt.
PlanIsExact ==
  \A t \in Tabs :
    job[t].kind = "withdraw" /\ job[t].calm /\ job[t].todo = <<<<"withdraw", 0>>>> =>
      LET plan == job[t].redeems
          there == ShownActive(t) \X ToSet(Adapters)
          give == [e \in there |-> IF e \in job[t].skipped THEN 0
                                   ELSE Available(e[2], position[e[1]], market)]
      IN  /\ SumFunctionOnSet([i \in DOMAIN plan |-> plan[i].amount], DOMAIN plan)
               = Min({Max({0, job[t].amount}), SumFunctionOnSet(give, there)})
          /\ \A i \in DOMAIN plan : plan[i].amount \in 1..give[plan[i].of]
          /\ \A i, k \in DOMAIN plan : plan[i].of = plan[k].of => i = k

\* A round of rebalancing that nobody comes between is carried out to the end
\* and leaves every active strategy at its target: the reserve is never short
\* in the middle, because the deallocations come first.
RoundReachesTargets ==
  \A t \in Tabs : Ended(t, "rebalance") =>
    /\ job[t].state = "done"
    /\ \A s \in Strategies : Active(s) => allocated[s] = RebalanceTarget(s)

\* A round of the crank, overlapped at most by other rounds that are not broken
\* off, the other scripts that hand out yield and the setups are never refused,
\* unless the tokens to hand out or the range of a u64 are exhausted; so the total
\* grows by what was handed out, and that is in the books, or a round that is
\* still running will put it there.
HandedOut(c) == \E kind \in {"crank", "handout", "setup", "agent_setup"} : Ended(c, kind)
Exhausted(c) ==
  \/ job[c].amount + purse > wallet[Outside]
  \/ \E s \in Strategies : totalDeposited + ata[s] - allocated[s] > MaxU64
  \/ /\ job[c].kind \in {"setup", "agent_setup"}
     /\ \/ SharesFor(FirstDeposit, supply, totalDeposited) \notin 1..(MaxU64 - supply)
        \/ totalDeposited + FirstDeposit > MaxU64
YieldIsBooked ==
  \A c \in Scripts : HandedOut(c) =>
    IF job[c].state = "done"
      THEN \A s \in job[c].served :
             \/ ata[s] = allocated[s]
             \/ \E d \in Scripts : <<"report", s>> \in ToSet(job[d].todo)
      ELSE Exhausted(c)
=============================================================================
