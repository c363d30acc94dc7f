----------------------------- MODULE DeskProofs -----------------------------
(***************************************************************************)
(* The pages and scripts of Desk: that the ledger's invariant survives     *)
(* every client, and what a withdrawal or a round of rebalancing achieves, *)
(* for every set of strategies, every number of clients and every bound.   *)
(***************************************************************************)
EXTENDS Desk, VaultProofs

-----------------------------------------------------------------------------
(***************************************************************************)
(* The redeem planner's Kamino adapter.                                    *)
(***************************************************************************)
Markets == [liquidity : Nat \ {0}, collateral : Nat \ {0}]

\* Whatever part of a position's worth the planner asks for, the cTokens it
\* burns are there, redeem to at least that amount, and not one of them could
\* be spared (kaminoAdapter: available rounds down, the burn rounds up).
THEOREM RedemptionCovers ==
  ASSUME NEW pool \in Markets, NEW held \in Nat,
         NEW amount \in Nat, amount <= Worth(held, pool)
  PROVE  LET burnt == CollateralForAmount(amount, pool)
         IN  /\ burnt \in Nat /\ burnt <= held
             /\ Worth(burnt, pool) >= amount
             /\ \A fewer \in Nat : fewer < burnt => Worth(fewer, pool) < amount
<1> DEFINE L == pool.liquidity
           C == pool.collateral
           owed  == amount * C
           burnt == CollateralForAmount(amount, pool)
<1>1. L \in Nat \ {0} /\ C \in Nat \ {0} /\ owed \in Nat
  BY ProductNat DEF Markets
<1>2. \A n \in Nat : Worth(n, pool) = (n * L) \div C
  BY <1>1 DEF Worth
<1>3. burnt = (owed + L - 1) \div L
  BY <1>1 DEF CollateralForAmount
<1> HIDE DEF L, C
<1>4. \A n \in Nat : n * L \in Nat
  BY <1>1, ProductNat
<1>5. \A n \in Nat : amount <= Worth(n, pool) <=> owed <= n * L
  <2> TAKE n \in Nat
  <2> DEFINE a == n * L
  <2>1. a \in Nat
    BY <1>4
  <2>2. Worth(n, pool) = a \div C
    BY <1>2
  <2> HIDE DEF a
  <2>3. amount <= a \div C <=> owed <= a
    BY <1>1, <2>1, FloorReaches
  <2> QED BY <2>2, <2>3 DEF a
<1>6. \A n \in Nat : Worth(n, pool) \in Nat
  BY <1>1, <1>2, <1>4, FloorDivision
<1> HIDE DEF owed, burnt
<1>7. burnt \in Nat /\ burnt * L >= owed /\ burnt * L < owed + L
  BY <1>1, <1>3, CeilingDivision
<1>8. \A n \in Nat : owed <= n * L => burnt <= n
  <2> SUFFICES ASSUME NEW n \in Nat, owed <= n * L, n + 1 <= burnt PROVE FALSE
    BY <1>7
  <2> DEFINE k == n + 1
  <2>1. k \in Nat /\ k <= burnt /\ k * L = n * L + L
    BY <1>1
  <2> HIDE DEF k
  <2>2. k * L <= burnt * L
    BY <1>1, <1>7, <2>1, ProductMono
  <2>3. n * L \in Nat /\ burnt * L \in Nat
    BY <1>4, <1>7
  <2> QED BY <1>1, <1>7, <2>1, <2>2, <2>3
<1>9. burnt <= held
  BY <1>5, <1>8
<1>10. Worth(burnt, pool) >= amount
  BY <1>5, <1>6, <1>7
<1>11. \A fewer \in Nat : fewer < burnt => Worth(fewer, pool) < amount
  <2> SUFFICES ASSUME NEW fewer \in Nat, fewer < burnt, amount <= Worth(fewer, pool)
               PROVE  FALSE
    BY <1>6
  <2>1. burnt <= fewer
    BY <1>5, <1>8
  <2> QED BY <1>7, <2>1
<1> QED BY <1>7, <1>9, <1>10, <1>11 DEF burnt

-----------------------------------------------------------------------------
(***************************************************************************)
(* The shape of a state: jobs whose steps are about strategies or amounts, *)
(* pages that show figures of the right kinds, and a market that owes the  *)
(* strategies no more cTokens than it has issued.                          *)
(***************************************************************************)
OnStrategy == {"rebalance", "look", "tip", "drop", "mint", "report", "fund",
               "create", "weigh", "allocate"}
OnAmount == {"topup", "accrue", "deposit"}
OnNothing == {"verify", "handover", "register"}
Steps == (OnStrategy \X Strategies) \cup (OnAmount \X Nat) \cup (OnNothing \X {0})
PageSteps == {"supply", "reserve", "accounts", "positions", "withdraw"} \X {0}
StepsOf(kind) == IF kind = "withdraw" THEN PageSteps ELSE Steps

JobFields == {"kind", "state", "todo", "calm", "shares", "amount", "redeems",
              "served", "before", "unseen", "skipped"}
JobOK(j) ==
  /\ DOMAIN j = JobFields
  /\ j.kind \in {"none", "withdraw", "rebalance", "crank", "handout",
                 "seed", "setup", "agent_setup", "faucet"}
  /\ j.state \in {"idle", "running", "done", "refused"}
  /\ j.todo \in Seq(StepsOf(j.kind))
  /\ j.state = "running" <=> j.todo # <<>>
  /\ j.amount \in Int /\ j.shares \in Nat
\* Only a page withdraws.
JobFor(c, j) == JobOK(j) /\ (j.kind = "withdraw" => c \in Tabs)
JobsOK == DOMAIN job = Clients /\ \A c \in Clients : JobFor(c, job[c])

CTokens == [s \in Strategies |-> position[s].cTokens]
BesideOK ==
  /\ position \in [Strategies -> Positions]
  /\ market \in [liquidity : Nat, collateral : Nat]
  /\ Total(CTokens) <= market.collateral
  /\ faucet \in {"payer", "handed", "registered"}
  /\ purse \in 0..wallet[Outside] /\ cooling \in BOOLEAN

VaultViewOK(v) == v.total \in Nat /\ v.paused \in BOOLEAN
StrategiesViewOK(v) ==
  /\ v.weight \in [Strategies -> 0..BPS]
  /\ v.allocated \in [Strategies -> Nat]
  /\ \A s \in Strategies, a \in ToSet(Adapters) : v.redeemable[s][a] \in Nat
ViewOK(v) ==
  DOMAIN v = {"vault", "strategies"} /\ VaultViewOK(v.vault) /\ StrategiesViewOK(v.strategies)
ScreensOK == DOMAIN screen = Tabs /\ \A t \in Tabs : ViewOK(screen[t])

DeskInv == Inv /\ BesideOK /\ ScreensOK /\ JobsOK

\* What every proof below uses of the constants.
LEMMA DeskConstants ==
  /\ Strategies \subseteq Nat /\ Holder \in Users /\ Holder # Outside
  /\ Tabs \subseteq Clients /\ Scripts \subseteq Clients
  /\ \A t \in Tabs : t \notin Scripts
  /\ Allocation \in Nat /\ YieldBps \in Nat /\ FixedYield \in Nat /\ AmountPerClaim \in Nat
  /\ MaxEvents \in Nat
  /\ FirstDeposit \in Nat /\ FirstDeposit > 0 /\ FirstDeposit <= Endowment
BY DeskAssumption, SituationsAssumption, Constants DEF Clients

\* Only two adapters have positions to offer.
LEMMA AdaptersAre == ToSet(Adapters) = {"kamino", "lulo"}
BY DEF ToSet, Adapters

-----------------------------------------------------------------------------
(***************************************************************************)
(* Jobs.                                                                   *)
(***************************************************************************)
\* What the step of a job is about.
LEMMA StepFacts ==
  ASSUME NEW e \in Steps
  PROVE  /\ e[1] \in OnStrategy => e[2] \in Strategies
         /\ e[1] \in OnAmount => e[2] \in Nat
         /\ e[1] \in OnStrategy \cup OnAmount \cup OnNothing
BY DEF Steps, OnStrategy, OnAmount, OnNothing

\* A list of strategies makes a list of steps.
LEMMA EachFacts ==
  ASSUME NEW op \in OnStrategy, NEW S \in SUBSET Strategies, NEW list \in Seq(S)
  PROVE  /\ Each(op, list) \in Seq(Steps) /\ Len(Each(op, list)) = Len(list)
         /\ \A i \in 1..Len(list) : Each(op, list)[i] = <<op, list[i]>>
<1>1. Len(list) \in Nat /\ list \in [1..Len(list) -> S] /\ DOMAIN list = 1..Len(list)
  BY LenProperties
<1>2. Each(op, list) = [i \in 1..Len(list) |-> <<op, list[i]>>]
  BY <1>1 DEF Each
<1>3. \A i \in 1..Len(list) : <<op, list[i]>> \in Steps
  BY <1>1 DEF Steps
<1> QED BY <1>1, <1>2, <1>3

\* The identifiers of strategies in ascending order.
LEMMA ByIdFacts ==
  ASSUME NEW S \in SUBSET Strategies
  PROVE  /\ IsFiniteSet(S)
         /\ ById(S) \in Seq(S)
         /\ \A i, j \in 1..Len(ById(S)) : i < j => ById(S)[i] < ById(S)[j]
         /\ \A x \in S : \E i \in 1..Len(ById(S)) : ById(S)[i] = x
<1>1. IsFiniteSet(S) /\ S \in SUBSET Nat
  BY Constants, DeskConstants, FS_Subset
<1> QED BY <1>1, AscendingLists DEF ById

\* The idle job.
LEMMA IdleOK == JobOK(Idle) /\ Idle.state = "idle" /\ Idle.todo = <<>>
BY EmptySeq DEF JobOK, Idle, JobFields

\* A job that goes on keeps its figures.
LEMMA ContinueFacts ==
  ASSUME JobsOK, NEW c \in Clients, Running(c), NEW steps \in Seq(StepsOf(job[c].kind))
  PROVE  LET j == Continue(c, steps)
         IN  /\ JobFor(c, j)
             /\ j.todo = steps \o Tail(job[c].todo)
             /\ j.state = IF j.todo = <<>> THEN "done" ELSE "running"
             /\ j.kind = job[c].kind /\ j.calm = job[c].calm /\ j.shares = job[c].shares
             /\ j.amount = job[c].amount /\ j.redeems = job[c].redeems
             /\ j.unseen = job[c].unseen /\ j.skipped = job[c].skipped
<1>1. JobFor(c, job[c]) /\ job[c].todo \in Seq(StepsOf(job[c].kind)) /\ job[c].todo # <<>>
  BY DEF JobsOK, JobFor, JobOK, Running
<1> DEFINE rest == steps \o Tail(job[c].todo)
           state == IF rest = <<>> THEN "done" ELSE "running"
           j == Continue(c, steps)
<1>2. rest \in Seq(StepsOf(job[c].kind))
  BY <1>1, HeadTailProperties, ConcatProperties
<1>3. j = [job[c] EXCEPT !.todo = rest, !.state = state]
  BY DEF Continue
<1>4. state \in {"done", "running"} /\ (state = "running" <=> rest # <<>>)
  OBVIOUS
<1> HIDE DEF rest, state, j
<1>5. /\ DOMAIN j = JobFields /\ j.todo = rest /\ j.state = state
      /\ j.kind = job[c].kind /\ j.calm = job[c].calm /\ j.shares = job[c].shares
      /\ j.amount = job[c].amount /\ j.redeems = job[c].redeems
      /\ j.unseen = job[c].unseen /\ j.skipped = job[c].skipped
  BY <1>1, <1>3 DEF JobFor, JobOK, JobFields
<1>6. JobFor(c, j)
  BY <1>1, <1>2, <1>4, <1>5 DEF JobFor, JobOK
<1> QED BY <1>5, <1>6 DEF rest, state, j

\* A refused job is over.
LEMMA RefusedFacts ==
  ASSUME JobsOK, NEW c \in Clients
  PROVE  /\ JobFor(c, Refused(c)) /\ Refused(c).state = "refused" /\ Refused(c).todo = <<>>
         /\ Refused(c).kind = job[c].kind /\ Refused(c).calm = job[c].calm
         /\ Refused(c).amount = job[c].amount /\ Refused(c).redeems = job[c].redeems
         /\ Refused(c).unseen = job[c].unseen
<1> DEFINE j == Refused(c)
<1>1. JobFor(c, job[c]) /\ JobOK(job[c])
  BY DEF JobsOK, JobFor
<1>2. j = [job[c] EXCEPT !.todo = <<>>, !.state = "refused"]
  BY DEF Refused
<1> HIDE DEF j
<1>3. /\ DOMAIN j = JobFields /\ j.todo = <<>> /\ j.state = "refused"
      /\ j.kind = job[c].kind /\ j.calm = job[c].calm /\ j.shares = job[c].shares
      /\ j.amount = job[c].amount /\ j.redeems = job[c].redeems /\ j.unseen = job[c].unseen
  BY <1>1, <1>2 DEF JobOK, JobFields
<1>4. JobFor(c, j)
  BY <1>1, <1>3, EmptySeq DEF JobFor, JobOK
<1> QED BY <1>3, <1>4 DEF j

\* A crank that is no longer calm is the job it was.
LEMMA UncalmedFacts ==
  ASSUME NEW c, NEW j, JobFor(c, j)
  PROVE  LET k == [j EXCEPT !.calm = FALSE]
         IN  /\ JobFor(c, k) /\ k.calm = FALSE /\ k.kind = j.kind /\ k.state = j.state
             /\ k.todo = j.todo
<1> DEFINE k == [j EXCEPT !.calm = FALSE]
<1>1. DOMAIN j = JobFields
  BY DEF JobFor, JobOK
<1>2. /\ DOMAIN k = JobFields /\ k.calm = FALSE /\ k.kind = j.kind /\ k.state = j.state
      /\ k.todo = j.todo /\ k.shares = j.shares /\ k.amount = j.amount
  BY <1>1 DEF JobFields
<1> HIDE DEF k
<1>3. JobFor(c, k)
  BY <1>2 DEF JobFor, JobOK
<1> QED BY <1>2, <1>3 DEF k

\* Somebody else's transaction leaves a running job its steps; one that is
\* over is cleared away.
LEMMA OvertakenFacts ==
  ASSUME NEW c, NEW j, JobFor(c, j), NEW crank
  PROVE  /\ JobFor(c, Overtaken(j, crank))
         /\ \/ Overtaken(j, crank) = Idle
            \/ /\ j.state = "running" /\ Overtaken(j, crank).state = "running"
               /\ Overtaken(j, crank).kind = j.kind
               /\ Overtaken(j, crank).todo = j.todo
               /\ Overtaken(j, crank).calm => j.calm /\ crank /\ j.kind = "crank"
<1>1. CASE j.state # "running"
  BY <1>1, IdleOK DEF Overtaken, JobFor, Idle
<1>2. CASE j.state = "running"
  <2> DEFINE calm == j.calm /\ crank /\ j.kind = "crank"
             k == Overtaken(j, crank)
  <2>1. k = [j EXCEPT !.calm = calm]
    BY <1>2 DEF Overtaken
  <2> HIDE DEF calm, k
  <2>2. /\ DOMAIN k = JobFields /\ k.todo = j.todo /\ k.state = j.state /\ k.kind = j.kind
        /\ k.amount = j.amount /\ k.shares = j.shares /\ k.calm = calm
    BY <2>1 DEF JobFor, JobOK, JobFields
  <2>3. JobFor(c, k)
    BY <2>2 DEF JobFor, JobOK
  <2> QED BY <1>2, <2>2, <2>3 DEF calm, k
<1> QED BY <1>1, <1>2

-----------------------------------------------------------------------------
(***************************************************************************)
(* Transactions.  A client sends those of LedgerTransaction and those that *)
(* move tokens of the operator, the faucet and the lending protocols.      *)
(***************************************************************************)
LedgerTransaction ==
  \/ \E amount \in Nat : Deposit(Holder, amount, Nothing)
  \/ \E n \in Nat, pull \in [Strategies -> Nat] : Withdraw(Holder, n, pull)
  \/ \E s \in Strategies :
       \/ RebalanceStrategy(s) \/ ReportYield(s) \/ CreateStrategy(s) \/ DeactivateStrategy(s)
       \/ \E w \in Nat : SetStrategyWeight(s, w)
       \/ \E amount \in Nat :
            AllocateToStrategy(s, amount) \/ DeallocateFromStrategy(s, amount)
              \/ ReportLoss(s, amount)
  \/ \E p \in BOOLEAN : SetPaused(p)
  \/ \E f \in Nat : SetPerformanceFeeBps(f)
  \/ Next /\ purse <= wallet'[Outside]

LendTransaction(s, amount) ==
  /\ DelegateTransfer(s, amount)
  /\ position' = [position EXCEPT ![s].principal = @ + amount]
  /\ UNCHANGED <<market, faucet, purse, cooling>>

FaucetTransaction ==
  /\ faucet' \in {"handed", "registered"}
  /\ UNCHANGED <<vars, position, market, purse, cooling>>

Transaction ==
  \/ LedgerTransaction /\ UNCHANGED besideVars
  \/ \E s \in Strategies, amount \in Nat :
       \/ MayMint(s, amount) /\ Mint(s, amount)
       \/ Fund(s, amount)
       \/ RedeemKamino(s, amount) \/ RedeemLulo(s, amount)
       \/ LendTransaction(s, amount)
  \/ \E amount \in Nat : Accrue(amount)
  \/ Claim \/ FaucetTransaction

\* A ledger transaction that leaves the operator's tokens alone.
LEMMA LedgerKeeps ==
  ASSUME Inv, BesideOK, UNCHANGED besideVars, purse <= wallet'[Outside],
         \/ Purchase \/ Redemption \/ Movement \/ Settlement
         \/ Administration \/ Switches \/ TokenMovement \/ ShareMovement
  PROVE  Inv' /\ BesideOK'
<1>1. Inv'
  BY KindsKeepInv
<1>2. wallet'[Outside] \in Nat
  BY <1>1, Constants DEF Inv, TypeOK
<1>3. BesideOK'
  BY <1>2 DEF BesideOK, besideVars, CTokens, Total
<1> QED BY <1>1, <1>3

\* Nor does any transaction a client may send.
LEMMA LedgerTransactionKeeps ==
  ASSUME Inv, BesideOK, LedgerTransaction, UNCHANGED besideVars
  PROVE  Inv' /\ BesideOK'
<1>1. /\ wallet \in [Wallets -> Nat] /\ wallet[Outside] \in Nat /\ purse \in Nat
      /\ purse <= wallet[Outside] /\ Holder \in Users /\ Holder # Outside
      /\ Outside \in Wallets
  BY Constants, DeskConstants DEF Inv, TypeOK, BesideOK
<1>2. CASE \E amount \in Nat : Deposit(Holder, amount, Nothing)
  <2>1. PICK amount \in Nat : Deposit(Holder, amount, Nothing)
    BY <1>2
  <2>2. Nothing \in [Strategies -> Nat]
    BY DEF Nothing
  <2>3. wallet'[Outside] = wallet[Outside]
    BY <1>1, <2>1 DEF Deposit
  <2>4. Purchase
    BY <1>1, <2>1, <2>2 DEF Purchase
  <2> QED BY <1>1, <2>3, <2>4, LedgerKeeps
<1>3. CASE \E n \in Nat, pull \in [Strategies -> Nat] : Withdraw(Holder, n, pull)
  <2>1. PICK n \in Nat, pull \in [Strategies -> Nat] : Withdraw(Holder, n, pull)
    BY <1>3
  <2> DEFINE owed == UnderlyingFor(n, supply, totalDeposited)
  <2>2. owed \in Nat /\ performanceFee >= protocolFee /\ wallet' = PayOut(Holder, owed)
    <3>1. owed \in 0..totalDeposited /\ totalDeposited \in Nat
      BY <1>1, <2>1, WithdrawFacts DEF Inv, TypeOK
    <3> QED BY <2>1, <3>1 DEF Withdraw, MayWithdraw
  <2> HIDE DEF owed
  <2>3. wallet'[Outside] >= wallet[Outside] /\ wallet'[Outside] \in Nat
    BY <1>1, <2>2, PayOutFacts DEF Inv
  <2>4. Redemption /\ purse <= wallet'[Outside]
    BY <1>1, <2>1, <2>3 DEF Redemption
  <2> QED BY <2>4, LedgerKeeps
<1>4. ASSUME NEW s \in Strategies,
             \/ RebalanceStrategy(s)
             \/ \E amount \in Nat : AllocateToStrategy(s, amount) \/ DeallocateFromStrategy(s, amount)
      PROVE  Inv' /\ BesideOK'
  <2>1. Movement
    BY <1>4, MoneyMoves DEF Movement
  <2>2. wallet' = wallet
    BY <2>1 DEF Movement, Moved, BooksUntouched
  <2> QED BY <1>1, <2>1, <2>2, LedgerKeeps
<1>5. ASSUME NEW s \in Strategies,
             ReportYield(s) \/ \E amount \in Nat : ReportLoss(s, amount)
      PROVE  Inv' /\ BesideOK'
  <2>1. Settlement
    BY <1>5, SettlementsSettle DEF Settlement
  <2>2. wallet' = wallet
    BY <2>1 DEF Settlement, Settle, TotalFits, tokenVars
  <2> QED BY <1>1, <2>1, <2>2, LedgerKeeps
<1>6. ASSUME NEW s \in Strategies,
             \/ CreateStrategy(s) \/ DeactivateStrategy(s)
             \/ \E w \in Nat : SetStrategyWeight(s, w)
      PROVE  Inv' /\ BesideOK'
  <2>1. Administration
    BY <1>6 DEF Administration
  <2>2. wallet' = wallet
    BY <1>6 DEF CreateStrategy, DeactivateStrategy, SetStrategyWeight, tokenVars
  <2> QED BY <1>1, <2>1, <2>2, LedgerKeeps
<1>7. CASE (\E p \in BOOLEAN : SetPaused(p)) \/ (\E f \in Nat : SetPerformanceFeeBps(f))
  <2>1. Switches
    BY <1>7 DEF Switches
  <2>2. wallet' = wallet
    BY <1>7 DEF SetPaused, SetPerformanceFeeBps, tokenVars
  <2> QED BY <1>1, <2>1, <2>2, LedgerKeeps
<1>8. CASE Next /\ purse <= wallet'[Outside]
  BY <1>8, StepCases, LedgerKeeps
<1> QED BY <1>2, <1>3, <1>4, <1>5, <1>6, <1>7, <1>8 DEF LedgerTransaction

\* Tokens that leave or reach the outside, with room for the operator's own.
LEMMA TransferKeeps ==
  ASSUME Inv, NEW s \in Strategies, NEW amount \in Nat,
         DelegateTransfer(s, amount) \/ TransferIn(s, amount)
  PROVE  /\ Inv' /\ wallet'[Outside] \in Nat
         /\ TransferIn(s, amount) => wallet'[Outside] = wallet[Outside] - amount
         /\ DelegateTransfer(s, amount) => wallet'[Outside] = wallet[Outside] + amount
<1>1. wallet \in [Wallets -> Nat] /\ Outside \in Wallets
  BY Constants DEF Inv, TypeOK
<1>2. Inv'
  BY TokenTransfersInv
<1>3. wallet'[Outside] \in Nat
  BY <1>1, <1>2 DEF Inv, TypeOK
<1> QED BY <1>1, <1>2, <1>3 DEF DelegateTransfer, TransferIn

\* A change of one strategy's principal leaves the cTokens alone.
LEMMA PrincipalChange ==
  ASSUME BesideOK, NEW s \in Strategies, NEW n \in Nat,
         position' = [position EXCEPT ![s].principal = n]
  PROVE  position' \in [Strategies -> Positions] /\ CTokens' = CTokens
<1>1. position \in [Strategies -> Positions]
  BY DEF BesideOK
<1>2. /\ position' \in [Strategies -> Positions]
      /\ \A r \in Strategies : position'[r].cTokens = position[r].cTokens
  BY <1>1 DEF Positions
<1> QED BY <1>2 DEF CTokens

\* Strategies' cTokens are part of what the market has issued.
LEMMA CTokensBound ==
  ASSUME BesideOK, NEW s \in Strategies
  PROVE  /\ CTokens \in [Strategies -> Nat] /\ CTokens[s] = position[s].cTokens
         /\ position[s].cTokens \in Nat /\ position[s].cTokens <= market.collateral
         /\ market.collateral \in Nat /\ market.liquidity \in Nat
<1>1. position \in [Strategies -> Positions] /\ market \in [liquidity : Nat, collateral : Nat]
  BY DEF BesideOK
<1>2. \A r \in Strategies : position[r].cTokens \in Nat
  BY <1>1 DEF Positions
<1>3. CTokens \in [Strategies -> Nat] /\ CTokens[s] = position[s].cTokens
  BY <1>2 DEF CTokens
<1>4. CTokens[s] <= Total(CTokens) /\ Total(CTokens) \in Nat
  BY <1>3, Constants, SumMember, SumType DEF Total
<1> QED BY <1>1, <1>3, <1>4 DEF BesideOK

\* A position of natural numbers in a market is worth a natural number.
LEMMA WorthType ==
  ASSUME NEW n \in Nat, NEW pool \in [liquidity : Nat, collateral : Nat]
  PROVE  Worth(n, pool) \in Nat /\ CollateralForAmount(n, pool) \in Nat
<1> DEFINE L == pool.liquidity
           C == pool.collateral
<1>1. L \in Nat /\ C \in Nat /\ n * L \in Nat /\ n * C \in Nat
  BY ProductNat
<1>2. Worth(n, pool) = (IF C = 0 THEN n ELSE (n * L) \div C)
  BY DEF Worth
<1>3. CollateralForAmount(n, pool) = (IF L = 0 \/ C = 0 THEN n ELSE (n * C + L - 1) \div L)
  BY DEF CollateralForAmount
<1> DEFINE a == n * L
           b == n * C
<1> HIDE DEF L, C, a, b
<1>4. CASE C # 0 /\ L # 0
  <2>1. a \in Nat /\ b \in Nat /\ C \in Nat \ {0} /\ L \in Nat \ {0}
    BY <1>1, <1>4 DEF a, b
  <2>2. a \div C \in Nat /\ (b + L - 1) \div L \in Nat
    BY <2>1, FloorDivision, CeilingDivision
  <2> QED BY <1>2, <1>3, <1>4, <2>2 DEF a, b
<1>5. CASE C = 0
  BY <1>2, <1>3, <1>5
<1>6. CASE C # 0 /\ L = 0
  <2>1. a \in Nat /\ C \in Nat \ {0}
    BY <1>1, <1>6 DEF a
  <2>2. a \div C \in Nat
    BY <2>1, FloorDivision
  <2> QED BY <1>2, <1>3, <1>6, <2>2 DEF a
<1> QED BY <1>4, <1>5, <1>6

\* Redeeming cTokens the market has issued takes no more than it holds.
LEMMA WorthBound ==
  ASSUME NEW pool \in [liquidity : Nat, collateral : Nat], NEW n \in 1..pool.collateral
  PROVE  Worth(n, pool) <= pool.liquidity
<1> DEFINE L == pool.liquidity
           C == pool.collateral
           a == n * L
           q == a \div C
<1>1. L \in Nat /\ C \in Nat \ {0} /\ n \in Nat /\ n <= C /\ a \in Nat
  BY ProductNat
<1>2. Worth(n, pool) = q
  BY <1>1 DEF Worth
<1> HIDE DEF L, C
<1>3. a <= C * L /\ C * L \in Nat
  BY <1>1, ProductMono, ProductNat
<1>4. q \in Nat /\ q * C <= a
  <2> HIDE DEF a
  <2> QED BY <1>1, FloorDivision
<1> HIDE DEF a, q
<1>5. q * C <= L * C
  BY <1>1, <1>3, <1>4, ProductNat
<1>6. q <= L
  BY <1>1, <1>4, <1>5, ProductCancelLeq
<1> QED BY <1>2, <1>6 DEF L

\* The larger of zero and a number.
LEMMA MaxWithZero ==
  ASSUME NEW n \in Int
  PROVE  /\ Max({0, n}) = IF n > 0 THEN n ELSE 0
         /\ Max({0, n}) \in Nat
<1> DEFINE m == IF n > 0 THEN n ELSE 0
<1>1. m \in {0, n} /\ m \in Nat /\ \A y \in {0, n} : m >= y
  OBVIOUS
<1>2. \A x \in {0, n} : (\A y \in {0, n} : x >= y) => x = m
  OBVIOUS
<1> HIDE DEF m
<1>3. Max({0, n}) = m
  BY <1>1, <1>2 DEF Max
<1> QED BY <1>1, <1>3 DEF m

\* The smaller of two.
LEMMA MinOfTwo ==
  ASSUME NEW a \in Int, NEW b \in Int
  PROVE  Min({a, b}) = IF a <= b THEN a ELSE b
<1> DEFINE m == IF a <= b THEN a ELSE b
<1>1. m \in {a, b} /\ \A y \in {a, b} : m <= y
  OBVIOUS
<1>2. \A x \in {a, b} : (\A y \in {a, b} : x <= y) => x = m
  OBVIOUS
<1> HIDE DEF m
<1>3. Min({a, b}) = m
  BY <1>1, <1>2 DEF Min
<1> QED BY <1>3 DEF m

\* A token transfer between the outside and a strategy; the operator's own
\* tokens stay within the outside's.
LEMMA PurseKeeps ==
  ASSUME Inv, BesideOK, NEW s \in Strategies, NEW amount \in Nat,
         NEW spent \in 0..purse, purse' = purse - spent,
         \/ TransferIn(s, amount) /\ (spent = amount \/ purse <= wallet[Outside] - amount)
         \/ DelegateTransfer(s, amount)
  PROVE  Inv' /\ purse' \in 0..wallet'[Outside]
<1>1. /\ Inv' /\ wallet'[Outside] \in Nat
      /\ TransferIn(s, amount) => wallet'[Outside] = wallet[Outside] - amount
      /\ DelegateTransfer(s, amount) => wallet'[Outside] = wallet[Outside] + amount
  BY TransferKeeps
<1>2. purse \in Nat /\ wallet[Outside] \in Nat /\ purse <= wallet[Outside]
  BY Constants DEF BesideOK, Inv, TypeOK
<1> QED BY <1>1, <1>2

\* A redemption from the lending market gives it back cTokens it has issued.
LEMMA RedeemKaminoKeeps ==
  ASSUME Inv, BesideOK, NEW s \in Strategies, NEW amount \in Nat, RedeemKamino(s, amount)
  PROVE  Inv' /\ BesideOK'
<1> DEFINE burnt == CollateralForAmount(amount, market)
           paid  == Worth(burnt, market)
           held  == position[s].cTokens
<1>1. /\ held \in Nat /\ held <= market.collateral
      /\ CTokens \in [Strategies -> Nat] /\ CTokens[s] = held
      /\ market.collateral \in Nat /\ market.liquidity \in Nat
      /\ market \in [liquidity : Nat, collateral : Nat]
      /\ position \in [Strategies -> Positions]
  BY CTokensBound DEF BesideOK
<1>2. burnt \in Nat /\ paid \in Nat
  BY <1>1, WorthType
<1>3. /\ burnt <= held
      /\ MayReceive(s, paid) /\ TransferIn(s, paid)
      /\ position' = [position EXCEPT ![s].cTokens = @ - burnt]
      /\ market' = [liquidity |-> market.liquidity - paid,
                    collateral |-> market.collateral - burnt]
      /\ UNCHANGED <<faucet, purse, cooling>>
  BY DEF RedeemKamino
<1>4. paid > 0
  BY <1>3 DEF MayReceive, MayTransferIn
<1>5. burnt > 0
  <2>1. Worth(0, market) = 0
    <3>1. market.collateral # 0 => (0 * market.liquidity) \div market.collateral = 0
      BY <1>1
    <3> QED BY <3>1 DEF Worth
  <2> QED BY <1>2, <1>4, <2>1
<1>6. burnt \in 1..market.collateral /\ paid <= market.liquidity
  <2>1. burnt \in 1..market.collateral
    BY <1>1, <1>2, <1>3, <1>5
  <2> HIDE DEF burnt
  <2>2. Worth(burnt, market) <= market.liquidity
    BY <1>1, <2>1, WorthBound
  <2> QED BY <2>1, <2>2
<1> HIDE DEF burnt, paid, held
<1>7. market' \in [liquidity : Nat, collateral : Nat] /\ market'.collateral = market.collateral - burnt
  BY <1>1, <1>2, <1>3, <1>6
<1>8. /\ position' \in [Strategies -> Positions]
      /\ CTokens' \in [Strategies -> Nat] /\ CTokens'[s] = held - burnt
      /\ \A r \in Strategies \ {s} : CTokens'[r] = CTokens[r]
  <2>1. position' = [position EXCEPT ![s].cTokens = held - burnt] /\ held - burnt \in Nat
    BY <1>1, <1>2, <1>3 DEF held
  <2>2. position[s] \in Positions
    BY <1>1
  <2>3. /\ position' \in [Strategies -> Positions]
        /\ position'[s].cTokens = held - burnt
        /\ \A r \in Strategies \ {s} : position'[r].cTokens = position[r].cTokens
    BY <1>1, <2>1, <2>2 DEF Positions
  <2>4. \A r \in Strategies : position'[r].cTokens \in Nat
    BY <2>3 DEF Positions
  <2> QED BY <2>3, <2>4 DEF CTokens
<1>9. Total(CTokens') <= market'.collateral
  <2> DEFINE old == CTokens
             new == CTokens'
  <2>0. /\ old \in [Strategies -> Nat] /\ new \in [Strategies -> Nat]
        /\ old[s] = held /\ new[s] = held - burnt
        /\ \A r \in Strategies \ {s} : new[r] = old[r]
    BY <1>1, <1>8
  <2> HIDE DEF old, new
  <2>1. Total(new) = Total(old) - old[s] + new[s] /\ Total(old) \in Nat
    BY <2>0, Constants, SumUpdate, SumType DEF Total
  <2>2. Total(old) <= market.collateral
    BY DEF old, BesideOK
  <2>3. Total(new) <= market.collateral - burnt
    BY <1>1, <1>2, <2>0, <2>1, <2>2
  <2> QED BY <1>7, <2>3 DEF new
<1>10. Inv' /\ purse' \in 0..wallet'[Outside]
  <2>1. purse <= wallet[Outside] - paid /\ purse \in Nat /\ purse' = purse - 0
    BY <1>3 DEF MayReceive, BesideOK
  <2> QED BY <1>2, <1>3, <2>1, PurseKeeps
<1>11. (Total(CTokens) <= market.collateral)'
  BY <1>9 DEF Total
<1> QED BY <1>3, <1>7, <1>8, <1>10, <1>11 DEF BesideOK

\* No transaction a client may send breaks the ledger or takes the operator's
\* tokens, the positions or the market out of range.
LEMMA TransactionKeeps ==
  ASSUME Inv, BesideOK, Transaction
  PROVE  Inv' /\ BesideOK'
<1>1. /\ position \in [Strategies -> Positions]
      /\ market \in [liquidity : Nat, collateral : Nat]
      /\ purse \in Nat /\ wallet[Outside] \in Nat /\ purse <= wallet[Outside]
      /\ wallet \in [Wallets -> Nat]
      /\ \A s \in Strategies : position[s].principal \in Nat
  BY Constants DEF BesideOK, Inv, TypeOK, Positions
<1>2. CASE LedgerTransaction /\ UNCHANGED besideVars
  BY <1>2, LedgerTransactionKeeps
<1>3. ASSUME NEW s \in Strategies, NEW amount \in Nat, MayMint(s, amount), Mint(s, amount)
      PROVE  Inv' /\ BesideOK'
  <2>1. /\ TransferIn(s, amount) /\ UNCHANGED besideVars
        /\ purse <= wallet[Outside] - amount /\ purse' = purse - 0
    BY <1>1, <1>3 DEF MayMint, MayReceive, Mint, besideVars
  <2>2. Inv' /\ purse' \in 0..wallet'[Outside]
    BY <1>1, <2>1, PurseKeeps
  <2> QED BY <2>1, <2>2 DEF BesideOK, besideVars, CTokens, Total
<1>4. ASSUME NEW s \in Strategies, NEW amount \in Nat, Fund(s, amount)
      PROVE  Inv' /\ BesideOK'
  <2>1. /\ TransferIn(s, amount) /\ amount \in 0..purse /\ purse' = purse - amount
        /\ UNCHANGED <<position, market, faucet, cooling>>
    BY <1>1, <1>4 DEF Fund, MayFund
  <2>2. Inv' /\ purse' \in 0..wallet'[Outside]
    BY <2>1, PurseKeeps
  <2> QED BY <2>1, <2>2 DEF BesideOK, CTokens, Total
<1>5. ASSUME NEW s \in Strategies, NEW amount \in Nat, NEW n \in Nat,
             \/ TransferIn(s, amount) /\ purse <= wallet[Outside] - amount
             \/ DelegateTransfer(s, amount),
             position' = [position EXCEPT ![s].principal = n],
             UNCHANGED <<market, faucet, purse, cooling>>
      PROVE  Inv' /\ BesideOK'
  <2>1. purse' = purse - 0
    BY <1>1, <1>5
  <2>2. Inv' /\ purse' \in 0..wallet'[Outside]
    BY <1>1, <1>5, <2>1, PurseKeeps
  <2>3. position' \in [Strategies -> Positions] /\ CTokens' = CTokens
    BY <1>5, PrincipalChange
  <2>4. (Total(CTokens) <= market.collateral)'
    <3>1. Total(CTokens') = Total(CTokens) /\ market' = market
      BY <1>5, <2>3
    <3> QED BY <3>1 DEF BesideOK, Total
  <2> QED BY <1>5, <2>2, <2>3, <2>4 DEF BesideOK
<1>6. ASSUME NEW s \in Strategies, NEW amount \in Nat, LendTransaction(s, amount)
      PROVE  Inv' /\ BesideOK'
  <2> DEFINE n == position[s].principal + amount
  <2>1. n \in Nat /\ position' = [position EXCEPT ![s].principal = n]
    BY <1>1, <1>6 DEF LendTransaction
  <2> HIDE DEF n
  <2> QED BY <1>5, <1>6, <2>1 DEF LendTransaction
<1>7. ASSUME NEW s \in Strategies, NEW amount \in Nat, RedeemLulo(s, amount)
      PROVE  Inv' /\ BesideOK'
  <2> DEFINE n == Max({0, position[s].principal - amount})
  <2>1. position[s].principal - amount \in Int
    BY <1>1
  <2>2. n \in Nat
    BY <2>1, MaxWithZero
  <2>3. position' = [position EXCEPT ![s].principal = n]
    BY <1>7 DEF RedeemLulo
  <2> HIDE DEF n
  <2> QED BY <1>5, <1>7, <2>2, <2>3 DEF RedeemLulo, MayReceive
<1>8. ASSUME NEW s \in Strategies, NEW amount \in Nat, RedeemKamino(s, amount)
      PROVE  Inv' /\ BesideOK'
  BY <1>8, RedeemKaminoKeeps
<1>9. ASSUME UNCHANGED <<vars, position>>, purse' \in 0..wallet[Outside],
             cooling' \in BOOLEAN, market' \in [liquidity : Nat, collateral : Nat],
             market'.collateral = market.collateral,
             faucet' \in {"payer", "handed", "registered"}
      PROVE  Inv' /\ BesideOK'
  <2>1. Inv'
    BY <1>9, StutterInv
  <2>2. wallet' = wallet
    BY <1>9 DEF vars, tokenVars
  <2> QED BY <1>9, <2>1, <2>2 DEF BesideOK, CTokens, Total
<1>10. ASSUME NEW amount \in Nat, Accrue(amount)
       PROVE  Inv' /\ BesideOK'
  <2>1. /\ market' = [market EXCEPT !.liquidity = @ + amount]
        /\ UNCHANGED <<vars, position, faucet, purse, cooling>>
    BY <1>10 DEF Accrue
  <2>2. market' \in [liquidity : Nat, collateral : Nat] /\ market'.collateral = market.collateral
    BY <1>1, <2>1
  <2> QED BY <1>1, <1>9, <2>1, <2>2 DEF BesideOK
<1>11. CASE Claim
  <2>1. purse' = purse + AmountPerClaim /\ purse + AmountPerClaim <= wallet[Outside]
    BY <1>11 DEF Claim, MayClaim
  <2> QED BY <1>1, <1>9, <1>11, <2>1, DeskConstants DEF Claim, BesideOK
<1>12. CASE FaucetTransaction
  BY <1>1, <1>9, <1>12 DEF FaucetTransaction, BesideOK
<1> QED
  BY <1>2, <1>3, <1>4, <1>6, <1>7, <1>8, <1>10, <1>11, <1>12 DEF Transaction

-----------------------------------------------------------------------------
(***************************************************************************)
(* Starting a job.                                                         *)
(***************************************************************************)
Kinds == {"none", "withdraw", "rebalance", "crank", "handout",
          "seed", "setup", "agent_setup", "faucet"}

\* A client takes up, goes on with or loses a job, and nothing else happens.
OwnMove(c) ==
  /\ \E j : JobFor(c, j) /\ job' = [job EXCEPT ![c] = j]
  /\ UNCHANGED <<vars, besideVars, screen>>

\* A list of steps makes a job.
LEMMA StartFacts ==
  ASSUME JobsOK, NEW c \in Clients, NEW j, Start(c, j),
         DOMAIN j = JobFields, j.kind \in Kinds, j.todo \in Seq(StepsOf(j.kind)),
         j.kind = "withdraw" => c \in Tabs,
         j.amount \in Int, j.shares \in Nat
  PROVE  OwnMove(c)
<1> DEFINE k == [j EXCEPT !.state = "running"]
<1>1. /\ job' = [job EXCEPT ![c] = k] /\ j.todo # <<>>
      /\ UNCHANGED <<vars, besideVars, screen>>
  BY DEF Start
<1>2. /\ DOMAIN k = JobFields /\ k.state = "running" /\ k.kind = j.kind /\ k.todo = j.todo
      /\ k.amount = j.amount /\ k.shares = j.shares
  BY DEF JobFields
<1> HIDE DEF k
<1>3. JobFor(c, k)
  BY <1>1, <1>2 DEF JobFor, JobOK, Kinds
<1> QED BY <1>1, <1>3 DEF OwnMove

\* Two of a job's lists after one another, and single steps.
LEMMA StepLists ==
  /\ <<>> \in Seq(Steps)
  /\ \A e \in Steps : <<e>> \in Seq(Steps)
  /\ \A s, t \in Seq(Steps) : s \o t \in Seq(Steps)
BY ConcatProperties

\* An amount is a whole number of tokens.
LEMMA AmountTypes ==
  /\ \A x \in Nat, bps \in Nat : Portion(x, bps) \in Nat
  /\ \A n, issued, total \in Nat : UnderlyingFor(n, issued, total) \in Nat
  /\ PlannedWeight \in Nat
<1>1. BPS \in Nat \ {0} /\ VirtualShares \in Nat \ {0}
  BY Constants
<1>2. ASSUME NEW x \in Nat, NEW bps \in Nat PROVE Portion(x, bps) \in Nat
  <2> DEFINE a == x * bps
  <2>1. a \in Nat
    BY ProductNat
  <2> HIDE DEF a
  <2>2. a \div BPS \in Nat
    BY <1>1, <2>1, FloorDivision
  <2> QED BY <2>2 DEF a, Portion
<1>3. ASSUME NEW n \in Nat, NEW issued \in Nat, NEW total \in Nat
      PROVE  UnderlyingFor(n, issued, total) \in Nat
  <2> DEFINE a == n * (total + 1)
             b == issued + VirtualShares
  <2>1. a \in Nat /\ b \in Nat \ {0}
    BY <1>1, ProductNat
  <2> HIDE DEF a, b
  <2>2. a \div b \in Nat
    BY <2>1, FloorDivision
  <2> QED BY <2>2 DEF a, b, UnderlyingFor
<1>4. PlannedWeight \in Nat
  <2> DEFINE a == Allocation * BPS
  <2>1. a \in Nat /\ FirstDeposit \in Nat \ {0}
    BY <1>1, ProductNat, DeskConstants
  <2> HIDE DEF a
  <2>2. a \div FirstDeposit \in Nat
    BY <2>1, FloorDivision
  <2> QED BY <2>2 DEF a, PlannedWeight
<1> QED BY <1>2, <1>3, <1>4

\* A job for each strategy of a set, in the order of their numbers.
LEMMA EachById ==
  ASSUME NEW op \in OnStrategy, NEW S \in SUBSET Strategies
  PROVE  Each(op, ById(S)) \in Seq(Steps)
BY ByIdFacts, EachFacts

\* The order of the rebalancing round.
LEMMA OffTargetOrder ==
  ASSUME ScreensOK, JobsOK, Inv, NEW t \in Tabs
  PROVE  LET before == {e \in OffTarget(t) \X OffTarget(t) :
                          \/ ShownDelta(t, e[1]) < ShownDelta(t, e[2])
                          \/ ShownDelta(t, e[1]) = ShownDelta(t, e[2]) /\ e[1] < e[2]}
         IN  /\ IsFiniteSet(OffTarget(t)) /\ OffTarget(t) \in SUBSET Strategies
             /\ \A s \in Strategies : ShownDelta(t, s) \in Int
             /\ RunsThrough(DeallocationsFirst(t), OffTarget(t), before)
<1> DEFINE S == OffTarget(t)
           d(s) == ShownDelta(t, s)
           before == {e \in S \X S : d(e[1]) < d(e[2]) \/ (d(e[1]) = d(e[2]) /\ e[1] < e[2])}
<1>1. S \in SUBSET Strategies /\ IsFiniteSet(S) /\ S \in SUBSET Nat
  BY Constants, DeskConstants, FS_Subset DEF OffTarget, ShownActive
<1>2. ASSUME NEW s \in Strategies PROVE d(s) \in Int
  <2>1. ViewOK(screen[t])
    BY DEF ScreensOK
  <2>2. /\ screen[t].vault.total \in Nat /\ screen[t].strategies.weight[s] \in Nat
        /\ screen[t].strategies.allocated[s] \in Nat
    BY <2>1, Constants DEF ViewOK, VaultViewOK, StrategiesViewOK
  <2> DEFINE total == screen[t].vault.total
             weigh == screen[t].strategies.weight[s]
             booked == screen[t].strategies.allocated[s]
  <2>3. d(s) = Portion(total, weigh) - booked
    BY DEF ShownDelta, ShownTarget
  <2>4. total \in Nat /\ weigh \in Nat /\ booked \in Nat
    BY <2>2
  <2> HIDE DEF total, weigh, booked, d
  <2>5. Portion(total, weigh) \in Nat
    BY <2>4, AmountTypes
  <2> QED BY <2>3, <2>4, <2>5
<1>3. DeallocationsFirst(t) = Ranked(S, before)
  BY DEF DeallocationsFirst
<1>4. \A x \in S : d(x) \in Int /\ x \in Nat
  BY <1>1, <1>2
<1> HIDE DEF S, d
<1>5. IsOrder(S, before)
  BY <1>4 DEF IsOrder
<1> HIDE DEF before
<1>6. RunsThrough(Ranked(S, before), S, before)
  BY <1>1, <1>5, RankedLists
<1> QED BY <1>1, <1>2, <1>3, <1>6 DEF S, d, before

\* The jobs of a page.
LEMMA PageStarts ==
  ASSUME DeskInv, NEW t \in Tabs,
         StartRebalance(t) \/ \E n \in Nat : StartWithdraw(t, n)
  PROVE  OwnMove(t)
<1>1. t \in Clients /\ JobsOK /\ ScreensOK /\ Inv
  BY DeskConstants DEF DeskInv
<1>2. ASSUME NEW n \in Nat, StartWithdraw(t, n) PROVE OwnMove(t)
  <2> DEFINE calm == WithdrawCalm(t, n)
             todo == <<<<"supply", 0>>, <<"reserve", 0>>, <<"accounts", 0>>,
                       <<"positions", 0>>, <<"withdraw", 0>>>>
             j == [Idle EXCEPT !.kind = "withdraw", !.shares = n, !.calm = calm, !.todo = todo]
  <2>1. Start(t, j)
    BY <1>2 DEF StartWithdraw
  <2>2. todo \in Seq(PageSteps)
    <3>1. /\ <<"supply", 0>> \in PageSteps /\ <<"reserve", 0>> \in PageSteps
          /\ <<"accounts", 0>> \in PageSteps /\ <<"positions", 0>> \in PageSteps
          /\ <<"withdraw", 0>> \in PageSteps
      BY DEF PageSteps
    <3> QED BY <3>1
  <2> HIDE DEF calm, todo
  <2>3. /\ DOMAIN j = JobFields /\ j.kind = "withdraw" /\ j.todo = todo
        /\ j.amount = 0 /\ j.shares = n
    BY DEF Idle, JobFields
  <2> HIDE DEF j
  <2> QED BY <1>1, <2>1, <2>2, <2>3, StartFacts DEF Kinds, StepsOf
<1>3. ASSUME StartRebalance(t) PROVE OwnMove(t)
  <2> DEFINE calm == RebalanceCalm(t)
             todo == Each("rebalance", DeallocationsFirst(t))
             j == [Idle EXCEPT !.kind = "rebalance", !.calm = calm, !.todo = todo]
  <2>1. Start(t, j)
    BY <1>3 DEF StartRebalance
  <2>2. todo \in Seq(Steps)
    BY <1>1, OffTargetOrder, EachFacts DEF RunsThrough, OnStrategy
  <2> HIDE DEF calm, todo
  <2>3. /\ DOMAIN j = JobFields /\ j.kind = "rebalance" /\ j.todo = todo
        /\ j.amount = 0 /\ j.shares = 0
    BY DEF Idle, JobFields
  <2> HIDE DEF j
  <2> QED BY <1>1, <2>1, <2>2, <2>3, StartFacts DEF Kinds, StepsOf
<1> QED BY <1>2, <1>3

\* The scripts that hand out yield.
LEMMA YieldStarts ==
  ASSUME DeskInv, NEW c \in Scripts, NEW b \in BOOLEAN,
         \/ StartCrank(c, b) \/ StartSimulate(c, b) \/ StartMintAll(c, b) \/ StartSeed(c)
  PROVE  OwnMove(c)
<1>1. c \in Clients /\ JobsOK
  BY DeskConstants DEF DeskInv
<1> DEFINE created == {s \in Strategies : Created(s)}
<1>2. created \in SUBSET Strategies /\ Strategies \in SUBSET Strategies
  OBVIOUS
<1>3. ASSUME StartCrank(c, b) PROVE OwnMove(c)
  <2> DEFINE calm == Unpaused /\ faucet = "payer"
             tail == IF b THEN <<<<"accrue", FixedYield>>>> ELSE <<>>
             todo == Each("look", ById(created)) \o tail
             j == [Idle EXCEPT !.kind = "crank", !.calm = calm, !.todo = todo]
  <2>1. Start(c, j)
    BY <1>3 DEF StartCrank
  <2>2. todo \in Seq(Steps)
    <3>1. Each("look", ById(created)) \in Seq(Steps)
      BY <1>2, EachById DEF OnStrategy
    <3>2. <<"accrue", FixedYield>> \in Steps
      BY DeskConstants DEF Steps, OnAmount
    <3>3. tail \in Seq(Steps)
      BY <3>2, StepLists
    <3> QED BY <3>1, <3>3, StepLists
  <2> HIDE DEF calm, todo
  <2>3. /\ DOMAIN j = JobFields /\ j.kind = "crank" /\ j.todo = todo
        /\ j.amount = 0 /\ j.shares = 0
    BY DEF Idle, JobFields
  <2> HIDE DEF j
  <2> QED BY <1>1, <2>1, <2>2, <2>3, StartFacts DEF Kinds, StepsOf
<1>4. ASSUME NEW authority \in BOOLEAN, NEW S \in SUBSET Strategies, NEW last \in Seq(Steps),
             HandOut(c, authority, ById(S), last)
      PROVE  OwnMove(c)
  <2> DEFINE list == ById(S)
             calm == /\ Unpaused /\ faucet = "payer" /\ \A i \in DOMAIN list : Created(list[i])
                     /\ \A s \in Strategies : Active(s) => ata[s] = allocated[s]
             before == IF last = <<>> THEN 0 ELSE totalDeposited
             op == IF authority THEN "tip" ELSE "drop"
             todo == Each(op, list) \o last
             j == [Idle EXCEPT !.kind = "handout", !.amount = FixedYield, !.before = before,
                               !.calm = calm, !.todo = todo]
  <2>1. Start(c, j)
    BY <1>4 DEF HandOut
  <2>2. todo \in Seq(Steps)
    BY EachById, StepLists DEF OnStrategy
  <2> HIDE DEF calm, todo, before
  <2>3. /\ DOMAIN j = JobFields /\ j.kind = "handout" /\ j.todo = todo
        /\ j.amount = FixedYield /\ j.shares = 0
    BY DEF Idle, JobFields
  <2> HIDE DEF j
  <2> QED BY <1>1, <2>1, <2>2, <2>3, StartFacts, DeskConstants DEF Kinds, StepsOf
<1>5. ASSUME StartSimulate(c, b) PROVE OwnMove(c)
  BY <1>2, <1>4, <1>5, StepLists DEF StartSimulate
<1>6. ASSUME StartMintAll(c, b) PROVE OwnMove(c)
  <2> DEFINE last == IF b THEN <<<<"verify", 0>>>> ELSE <<>>
  <2>1. <<"verify", 0>> \in Steps
    BY DEF Steps, OnNothing
  <2>2. last \in Seq(Steps)
    BY <2>1, StepLists
  <2>3. HandOut(c, b, ById(created), last)
    BY <1>6 DEF StartMintAll
  <2> HIDE DEF last, created
  <2> QED BY <1>2, <1>4, <2>2, <2>3
<1>7. ASSUME StartSeed(c) PROVE OwnMove(c)
  <2> DEFINE needed == FixedYield * Cardinality(created)
             todo == <<<<"topup", needed>>>> \o Each("fund", ById(created))
             j == [Idle EXCEPT !.kind = "seed", !.amount = FixedYield, !.todo = todo]
  <2>1. Start(c, j)
    BY <1>7 DEF StartSeed
  <2>2. todo \in Seq(Steps)
    <3>1. IsFiniteSet(created)
      BY <1>2, ByIdFacts
    <3>2. needed \in Nat
      BY <3>1, FS_CardinalityType, DeskConstants, ProductNat
    <3>3. <<"topup", needed>> \in Steps
      BY <3>2 DEF Steps, OnAmount
    <3>4. Each("fund", ById(created)) \in Seq(Steps)
      BY <1>2, EachById DEF OnStrategy
    <3> QED BY <3>3, <3>4, StepLists
  <2> HIDE DEF todo
  <2>3. /\ DOMAIN j = JobFields /\ j.kind = "seed" /\ j.todo = todo
        /\ j.amount = FixedYield /\ j.shares = 0
    BY DEF Idle, JobFields
  <2> HIDE DEF j
  <2> QED BY <1>1, <2>1, <2>2, <2>3, StartFacts, DeskConstants DEF Kinds, StepsOf
<1> QED BY <1>3, <1>5, <1>6, <1>7

\* The scripts that set up a vault, a strategy or the faucet.
LEMMA SetupStarts ==
  ASSUME DeskInv, NEW c \in Scripts, NEW b \in BOOLEAN,
         \/ StartAgentSetup(c, b) \/ StartSetup(c) \/ StartMultiSetup(c) \/ StartFaucet(c)
  PROVE  OwnMove(c)
<1>1. c \in Clients /\ JobsOK
  BY DeskConstants DEF DeskInv
<1>2. <<"deposit", FirstDeposit>> \in Steps
  BY DeskConstants DEF Steps, OnAmount
<1>3. \A op \in OnStrategy : Each(op, ById(Strategies)) \in Seq(Steps)
  BY EachById
<1>4. ASSUME NEW steps \in Seq(Steps), SetUp(c, steps) PROVE OwnMove(c)
  <2> DEFINE calm == Unpaused /\ faucet = "payer" /\ FirstDeposit <= wallet[Holder]
             amount == Portion(Allocation, YieldBps)
             todo == <<<<"deposit", FirstDeposit>>>> \o Each("create", ById(Strategies)) \o steps
             j == [Idle EXCEPT !.kind = "setup", !.calm = calm, !.served = Strategies,
                               !.amount = amount, !.todo = todo]
  <2>1. Start(c, j)
    BY <1>4 DEF SetUp
  <2>2. todo \in Seq(Steps)
    BY <1>2, <1>3, <1>4, StepLists DEF OnStrategy
  <2>3. amount \in Nat
    BY AmountTypes, DeskConstants
  <2> HIDE DEF calm, todo, amount
  <2>4. /\ DOMAIN j = JobFields /\ j.kind = "setup" /\ j.todo = todo
        /\ j.amount = amount /\ j.shares = 0
    BY DEF Idle, JobFields
  <2> HIDE DEF j
  <2> QED BY <1>1, <2>1, <2>2, <2>3, <2>4, StartFacts DEF Kinds, StepsOf
<1>5. ASSUME StartSetup(c) PROVE OwnMove(c)
  <2> DEFINE steps == Each("allocate", ById(Strategies)) \o Each("mint", ById(Strategies))
                        \o Each("report", ById(Strategies))
  <2>1. steps \in Seq(Steps)
    BY <1>3, StepLists DEF OnStrategy
  <2>2. SetUp(c, steps)
    BY <1>5 DEF StartSetup
  <2> HIDE DEF steps
  <2> QED BY <1>4, <2>1, <2>2
<1>6. ASSUME StartMultiSetup(c) PROVE OwnMove(c)
  <2> DEFINE order == ById(Strategies)
             pairs == [k \in 1..(2 * Len(order)) |->
                         IF k % 2 = 1 THEN <<"mint", order[(k + 1) \div 2]>>
                         ELSE <<"report", order[k \div 2]>>]
             steps == Each("weigh", order) \o Each("allocate", order) \o pairs
  <2>1. order \in Seq(Strategies)
    BY ByIdFacts
  <2> DEFINE n == Len(order)
  <2>2. n \in Nat /\ \A i \in 1..n : order[i] \in Strategies
    BY <2>1
  <2>3. pairs \in Seq(Steps)
    <3> SUFFICES ASSUME NEW k \in 1..(2 * n) PROVE pairs[k] \in Steps
      <4>1. 2 * n \in Nat
        BY <2>2
      <4> HIDE DEF order
      <4> QED BY <4>1
    <3> DEFINE i == IF k % 2 = 1 THEN (k + 1) \div 2 ELSE k \div 2
    <3>1. i \in 1..n
      <4> HIDE DEF n
      <4> QED BY <2>2
    <3>2. order[i] \in Strategies
      BY <2>2, <3>1
    <3>3. pairs[k] = <<IF k % 2 = 1 THEN "mint" ELSE "report", order[i]>>
      <4> HIDE DEF order
      <4> QED OBVIOUS
    <3> HIDE DEF i, pairs, order
    <3> QED BY <3>2, <3>3 DEF Steps, OnStrategy
  <2>4. steps \in Seq(Steps)
    <3> HIDE DEF pairs
    <3> QED BY <1>3, <2>3, StepLists DEF OnStrategy
  <2>5. SetUp(c, steps)
    BY <1>6 DEF StartMultiSetup
  <2> HIDE DEF steps
  <2> QED BY <1>4, <2>4, <2>5
<1>7. ASSUME StartAgentSetup(c, b) PROVE OwnMove(c)
  <2> DEFINE free == {s \in Strategies : ~Created(s)}
             next == Least(free)
             calm == /\ Unpaused /\ FirstDeposit <= wallet[Holder]
                     /\ b => totalWeight + PlannedWeight <= BPS
             weigh == IF b THEN <<<<"weigh", next>>>> ELSE <<>>
             todo == <<<<"create", next>>>> \o weigh
                       \o <<<<"deposit", FirstDeposit>>, <<"allocate", next>>>>
             j == [Idle EXCEPT !.kind = "agent_setup", !.calm = calm, !.todo = todo]
  <2>1. Start(c, j) /\ free # {}
    BY <1>7 DEF StartAgentSetup
  <2>2. next \in Strategies
    <3>1. free \in SUBSET Nat /\ free \in SUBSET Strategies
      BY DeskConstants
    <3> HIDE DEF free
    <3>2. PICK s \in free : \A r \in free : s <= r
      BY <2>1, <3>1, LeastNat
    <3>3. next \in free
      BY <3>2 DEF Least
    <3> QED BY <3>1, <3>3
  <2>3. todo \in Seq(Steps)
    <3> HIDE DEF next
    <3>1. <<"create", next>> \in Steps /\ <<"weigh", next>> \in Steps /\ <<"allocate", next>> \in Steps
      BY <2>2 DEF Steps, OnStrategy
    <3>2. <<<<"deposit", FirstDeposit>>, <<"allocate", next>>>> \in Seq(Steps)
      BY <1>2, <3>1
    <3>3. weigh \in Seq(Steps) /\ <<<<"create", next>>>> \in Seq(Steps)
      BY <3>1, StepLists
    <3> HIDE DEF weigh
    <3> QED BY <3>2, <3>3, StepLists
  <2> HIDE DEF calm, todo
  <2>4. /\ DOMAIN j = JobFields /\ j.kind = "agent_setup" /\ j.todo = todo
        /\ j.amount = 0 /\ j.shares = 0
    BY DEF Idle, JobFields
  <2> HIDE DEF j
  <2> QED BY <1>1, <2>1, <2>3, <2>4, StartFacts DEF Kinds, StepsOf
<1>8. ASSUME StartFaucet(c) PROVE OwnMove(c)
  <2> DEFINE todo == <<<<"handover", 0>>, <<"register", 0>>>>
             j == [Idle EXCEPT !.kind = "faucet", !.todo = todo]
  <2>1. Start(c, j)
    BY <1>8 DEF StartFaucet
  <2>2. todo \in Seq(Steps)
    <3>1. <<"handover", 0>> \in Steps /\ <<"register", 0>> \in Steps
      BY DEF Steps, OnNothing
    <3> QED BY <3>1
  <2> HIDE DEF todo
  <2>3. /\ DOMAIN j = JobFields /\ j.kind = "faucet" /\ j.todo = todo
        /\ j.amount = 0 /\ j.shares = 0
    BY DEF Idle, JobFields
  <2> HIDE DEF j
  <2> QED BY <1>1, <2>1, <2>2, <2>3, StartFacts DEF Kinds, StepsOf
<1> QED BY <1>5, <1>6, <1>7, <1>8

-----------------------------------------------------------------------------
(***************************************************************************)
(* The steps of a job.                                                     *)
(***************************************************************************)
\* A transaction of the client's has landed, or was accepted without effect.
Sent(c) ==
  /\ Transaction \/ UNCHANGED <<vars, besideVars>>
  /\ Landed(c)

\* A job ends halfway and leaves everything else as it is.
BrokenOff(c, mine) == BreaksOff(c, mine) /\ UNCHANGED <<vars, besideVars, screen>>

\* What is held by some of the strategies.
LEMMA OverType ==
  ASSUME NEW f \in [Strategies -> Nat], NEW S
  PROVE  Over(f, S) \in Nat
<1> DEFINE g == [s \in Strategies |-> IF s \in S THEN f[s] ELSE 0]
<1>1. g \in [Strategies -> Nat]
  OBVIOUS
<1>2. Over(f, S) = SumFunctionOnSet(g, Strategies)
  BY DEF Over, Total
<1> HIDE DEF g
<1> QED BY <1>1, <1>2, Constants, SumType

\* The pulls of a withdrawal are amounts.
LEMMA PulledType ==
  ASSUME TypeOK, NEW S, NEW short \in Int
  PROVE  PulledInOrder(S, short) \in [Strategies -> Nat]
<1>1. ata \in [Strategies -> Nat]
  BY DEF TypeOK
<1> SUFFICES ASSUME NEW s \in Strategies
             PROVE  PulledInOrder(S, short)[s] \in Nat
  BY DEF PulledInOrder
<1> DEFINE before == Over(ata, {r \in S : r < s})
           left == short - before
           most == Max({0, left})
<1>2. before \in Nat
  BY <1>1, OverType
<1> HIDE DEF before
<1>3. left \in Int
  BY <1>2
<1> HIDE DEF left
<1>4. most \in Nat
  BY <1>3, MaxWithZero
<1>5. PulledInOrder(S, short)[s] = IF s \in S THEN Min({ata[s], most}) ELSE 0
  BY DEF PulledInOrder, before, left
<1> HIDE DEF most
<1>6. Min({ata[s], most}) \in Nat
  BY <1>1, <1>4, MinOfTwo
<1> QED BY <1>5, <1>6

\* A client's job goes on or ends, and nothing else happens.
Follows(c, j) == JobFor(c, j) /\ j.kind = job[c].kind /\ j.calm = job[c].calm
OwnStep(c) ==
  /\ \E j : Follows(c, j) /\ job' = [job EXCEPT ![c] = j]
  /\ UNCHANGED <<vars, besideVars, screen>>

\* A step that only reads changes nothing but the job.
LEMMA ReadMoves ==
  ASSUME NEW c \in Clients, NEW mine, Follows(c, mine), Read(c, mine)
  PROVE  OwnStep(c)
BY DEF Read, OwnStep

\* A job with another amount, or another set of strategies served.
LEMMA AmountFacts ==
  ASSUME NEW c, NEW j, Follows(c, j), NEW amount \in Int, NEW some, NEW rest
  PROVE  /\ Follows(c, [j EXCEPT !.amount = amount])
         /\ Follows(c, [j EXCEPT !.amount = amount, !.unseen = rest])
         /\ Follows(c, [j EXCEPT !.served = some])
         /\ Follows(c, [j EXCEPT !.redeems = some, !.skipped = rest])
         /\ Follows(c, [j EXCEPT !.amount = amount, !.served = some])
<1>1. /\ JobOK(j) /\ (j.kind = "withdraw" => c \in Tabs)
      /\ j.kind = job[c].kind /\ j.calm = job[c].calm
  BY DEF Follows, JobFor
<1>2. ASSUME NEW k, DOMAIN k = JobFields, k.kind = j.kind, k.state = j.state, k.calm = j.calm,
             k.todo = j.todo, k.shares = j.shares, k.amount \in Int
      PROVE  Follows(c, k)
  BY <1>1, <1>2 DEF Follows, JobFor, JobOK
<1>3. Follows(c, [j EXCEPT !.amount = amount])
  <2> DEFINE k == [j EXCEPT !.amount = amount]
  <2>1. /\ DOMAIN k = JobFields /\ k.kind = j.kind /\ k.state = j.state /\ k.calm = j.calm
        /\ k.todo = j.todo /\ k.shares = j.shares /\ k.amount = amount
    BY <1>1 DEF JobOK, JobFields
  <2> HIDE DEF k
  <2>2. Follows(c, k)
    BY <1>2, <2>1
  <2> QED BY <2>2 DEF k
<1>4. Follows(c, [j EXCEPT !.served = some])
  <2> DEFINE k == [j EXCEPT !.served = some]
  <2>1. /\ DOMAIN k = JobFields /\ k.kind = j.kind /\ k.state = j.state /\ k.calm = j.calm
        /\ k.todo = j.todo /\ k.shares = j.shares /\ k.amount \in Int
    BY <1>1 DEF JobOK, JobFields
  <2> HIDE DEF k
  <2>2. Follows(c, k)
    BY <1>2, <2>1
  <2> QED BY <2>2 DEF k
<1>5. Follows(c, [j EXCEPT !.redeems = some, !.skipped = rest])
  <2> DEFINE k == [j EXCEPT !.redeems = some, !.skipped = rest]
  <2>1. /\ DOMAIN k = JobFields /\ k.kind = j.kind /\ k.state = j.state /\ k.calm = j.calm
        /\ k.todo = j.todo /\ k.shares = j.shares /\ k.amount \in Int
    BY <1>1 DEF JobOK, JobFields
  <2> HIDE DEF k
  <2>2. Follows(c, k)
    BY <1>2, <2>1
  <2> QED BY <2>2 DEF k
<1>6. Follows(c, [j EXCEPT !.amount = amount, !.served = some])
  <2> DEFINE k == [j EXCEPT !.amount = amount, !.served = some]
  <2>1. /\ DOMAIN k = JobFields /\ k.kind = j.kind /\ k.state = j.state /\ k.calm = j.calm
        /\ k.todo = j.todo /\ k.shares = j.shares /\ k.amount = amount
    BY <1>1 DEF JobOK, JobFields
  <2> HIDE DEF k
  <2>2. Follows(c, k)
    BY <1>2, <2>1
  <2> QED BY <2>2 DEF k
<1>7. Follows(c, [j EXCEPT !.amount = amount, !.unseen = rest])
  <2> DEFINE k == [j EXCEPT !.amount = amount, !.unseen = rest]
  <2>1. /\ DOMAIN k = JobFields /\ k.kind = j.kind /\ k.state = j.state /\ k.calm = j.calm
        /\ k.todo = j.todo /\ k.shares = j.shares /\ k.amount = amount
    BY <1>1 DEF JobOK, JobFields
  <2> HIDE DEF k
  <2>2. Follows(c, k)
    BY <1>2, <2>1
  <2> QED BY <2>2 DEF k
<1> QED BY <1>3, <1>4, <1>5, <1>6, <1>7

\* The reads of a withdrawal, one after the other.
LEMMA PageReads ==
  ASSUME DeskInv, NEW t \in Tabs, Running(t), job[t].kind = "withdraw",
         ReadSupply(t) \/ ReadReserve(t) \/ ReadAccounts(t) \/ ReadPositions(t)
  PROVE  OwnStep(t)
<1> DEFINE j == Continue(t, <<>>)
<1>1. JobsOK /\ t \in Clients /\ JobOK(job[t]) /\ TypeOK /\ ViewOK(screen[t])
  BY DeskConstants DEF DeskInv, JobsOK, JobFor, Inv, ScreensOK
<1>2. Follows(t, j) /\ j.amount \in Int
  <2>1. <<>> \in Seq(StepsOf(job[t].kind))
    BY EmptySeq
  <2> QED BY <1>1, <2>1, ContinueFacts DEF Follows, JobFor, JobOK
<1> HIDE DEF j
<1>3. CASE ReadSupply(t)
  <2> DEFINE amount == UnderlyingFor(job[t].shares, supply, screen[t].vault.total)
  <2>1. amount \in Int
    <3> DEFINE n == job[t].shares
               total == screen[t].vault.total
    <3>1. n \in Nat /\ supply \in Nat /\ total \in Nat
      BY <1>1 DEF TypeOK, JobOK, ViewOK, VaultViewOK
    <3> HIDE DEF n, total
    <3>2. UnderlyingFor(n, supply, total) \in Nat
      BY <3>1, AmountTypes
    <3> QED BY <3>2 DEF n, total
  <2>2. Read(t, [j EXCEPT !.amount = amount])
    BY <1>3 DEF ReadSupply, j
  <2> HIDE DEF amount
  <2> QED BY <1>1, <1>2, <2>1, <2>2, AmountFacts, ReadMoves
<1>4. CASE ReadReserve(t)
  <2> DEFINE amount == j.amount - reserve
  <2>1. amount \in Int
    BY <1>1, <1>2 DEF TypeOK
  <2>2. Read(t, [j EXCEPT !.amount = amount])
    BY <1>4 DEF ReadReserve, j
  <2> HIDE DEF amount
  <2> QED BY <1>1, <1>2, <2>1, <2>2, AmountFacts, ReadMoves
<1>5. CASE ReadAccounts(t)
  <2>0. PICK failed \in SUBSET ShownActive(t) :
          Read(t, [j EXCEPT !.amount = @ - Reachable(t, failed), !.unseen = Over(ata, failed)])
    BY <1>5 DEF ReadAccounts, j
  <2> DEFINE amount == j.amount - Reachable(t, failed)
             rest == Over(ata, failed)
  <2>1. amount \in Int
    BY <1>1, <1>2, OverType DEF TypeOK, Reachable
  <2>2. Read(t, [j EXCEPT !.amount = amount, !.unseen = rest])
    BY <2>0
  <2> HIDE DEF amount, rest
  <2> QED BY <1>1, <1>2, <2>1, <2>2, AmountFacts, ReadMoves
<1>6. CASE ReadPositions(t)
  <2>0. PICK rest \in SUBSET Giving(t) :
          Read(t, [j EXCEPT !.redeems = BuildRedeemPlan(ById(ShownActive(t)), position, market,
                                                        job[t].amount, rest).redeems,
                            !.skipped = rest])
    BY <1>6 DEF ReadPositions, j
  <2> DEFINE some == BuildRedeemPlan(ById(ShownActive(t)), position, market,
                                     job[t].amount, rest).redeems
  <2>1. Read(t, [j EXCEPT !.redeems = some, !.skipped = rest])
    BY <2>0
  <2> HIDE DEF some
  <2>2. 0 \in Int
    OBVIOUS
  <2> QED BY <1>1, <1>2, <2>1, <2>2, AmountFacts, ReadMoves
<1> QED BY <1>3, <1>4, <1>5, <1>6

\* The reads of a script.
LEMMA ScriptReads ==
  ASSUME DeskInv, NEW c \in Clients, Running(c), job[c].kind # "withdraw",
         \/ \E s \in Strategies : LookAt(c, s) \/ \E report \in BOOLEAN : Tip(c, s, report)
         \/ Verify(c)
  PROVE  OwnStep(c)
<1>1. JobsOK /\ JobOK(job[c]) /\ TypeOK
  BY DEF DeskInv, JobsOK, JobFor, Inv
<1>2. \A steps \in Seq(Steps) : Follows(c, Continue(c, steps))
  BY <1>1, ContinueFacts DEF Follows, StepsOf
<1>3. Follows(c, Refused(c)) /\ Follows(c, Continue(c, <<>>))
  BY <1>1, <1>2, RefusedFacts, StepLists DEF Follows
<1>4. ASSUME NEW s \in Strategies, LookAt(c, s) PROVE OwnStep(c)
  <2> DEFINE amount == Portion(allocated[s], YieldBps)
             fund   == IF faucet = "payer" THEN <<<<"mint", s>>>>
                       ELSE <<<<"topup", amount>>, <<"fund", s>>>>
             steps  == fund \o <<<<"report", s>>>>
             j      == Continue(c, steps)
             some   == j.served \cup {s}
             k      == [j EXCEPT !.amount = amount, !.served = some]
  <2>1. amount \in Nat
    <3>1. allocated[s] \in Nat /\ YieldBps \in Nat
      BY <1>1, DeskConstants, Constants DEF TypeOK
    <3> QED BY <3>1, AmountTypes
  <2>2. k = [j EXCEPT !.amount = amount, !.served = @ \cup {s}]
    OBVIOUS
  <2>3. Read(c, IF Crankable(s) THEN k ELSE Continue(c, <<>>))
    BY <1>4, <2>2 DEF LookAt
  <2>4. steps \in Seq(Steps)
    <3> HIDE DEF amount
    <3>1. /\ <<"mint", s>> \in Steps /\ <<"topup", amount>> \in Steps
          /\ <<"fund", s>> \in Steps /\ <<"report", s>> \in Steps
      BY <2>1 DEF Steps, OnStrategy, OnAmount
    <3>2. fund \in Seq(Steps)
      BY <3>1
    <3> QED BY <3>1, <3>2, StepLists
  <2> HIDE DEF amount, steps
  <2>5. Follows(c, j)
    BY <1>2, <2>4
  <2> HIDE DEF j, some
  <2>6. Follows(c, k)
    <3>1. amount \in Int
      BY <2>1
    <3>2. Follows(c, [j EXCEPT !.amount = amount, !.served = some])
      BY <2>5, <3>1, AmountFacts
    <3> QED BY <3>2
  <2> HIDE DEF k
  <2> QED BY <1>3, <2>3, <2>6, ReadMoves
<1>5. ASSUME NEW s \in Strategies, NEW report \in BOOLEAN, Tip(c, s, report) PROVE OwnStep(c)
  <2> DEFINE both == Continue(c, <<<<"mint", s>>, <<"report", s>>>>)
             some == both.served \cup {s}
             k    == [both EXCEPT !.served = some]
             one  == Continue(c, <<<<"mint", s>>>>)
  <2>1. k = [both EXCEPT !.served = @ \cup {s}]
    OBVIOUS
  <2>2. Read(c, IF ~Created(s) THEN Refused(c)
                ELSE IF ~Active(s) THEN Continue(c, <<>>)
                ELSE IF ~report THEN one ELSE k)
    BY <1>5, <2>1 DEF Tip
  <2>3. <<<<"mint", s>>, <<"report", s>>>> \in Seq(Steps) /\ <<<<"mint", s>>>> \in Seq(Steps)
    <3>1. <<"mint", s>> \in Steps /\ <<"report", s>> \in Steps
      BY DEF Steps, OnStrategy
    <3> QED BY <3>1
  <2>4. Follows(c, both) /\ Follows(c, one)
    BY <1>2, <2>3
  <2> HIDE DEF both, one, some
  <2>5. Follows(c, k)
    <3>1. 0 \in Int
      OBVIOUS
    <3> QED BY <2>4, <3>1, AmountFacts
  <2> HIDE DEF k
  <2>6. \E mine : Follows(c, mine) /\ Read(c, mine)
    BY <1>3, <2>2, <2>4, <2>5
  <2> QED BY <2>6, ReadMoves
<1>6. CASE Verify(c)
  <2> DEFINE handed == job[c].amount * Cardinality(job[c].served)
             grown == totalDeposited = job[c].before + handed
  <2>1. Read(c, IF grown THEN Continue(c, <<>>) ELSE Refused(c))
    BY <1>6 DEF Verify
  <2> HIDE DEF grown
  <2> QED BY <1>3, <2>1, ReadMoves
<1> QED BY <1>4, <1>5, <1>6

\* The next step of a job has its own job go on or end, or a transaction land.
LEMMA AdvanceMoves ==
  ASSUME DeskInv, NEW c \in Clients, Advance(c)
  PROVE  OwnStep(c) \/ Sent(c) \/ BrokenOff(c, Refused(c))
<1> DEFINE op == Head(job[c].todo)[1]
           of == Head(job[c].todo)[2]
           mine == job[c]
<1>1. /\ JobsOK /\ Inv /\ ScreensOK /\ Running(c) /\ JobOK(mine) /\ TypeOK
      /\ mine.kind = "withdraw" => c \in Tabs
  BY DEF DeskInv, Advance, JobsOK, JobFor, Inv
<1>2. /\ mine.todo \in Seq(StepsOf(mine.kind)) /\ mine.todo # <<>>
      /\ mine.amount \in Int /\ mine.shares \in Nat
  BY <1>1 DEF JobOK, Running
<1>3. IF mine.kind = "withdraw"
        THEN op \in {"supply", "reserve", "accounts", "positions", "withdraw"}
        ELSE /\ op \in OnStrategy => of \in Strategies
             /\ op \in OnAmount => of \in Nat
             /\ op \in OnStrategy \cup OnAmount \cup OnNothing
  <2>1. Head(mine.todo) \in StepsOf(mine.kind)
    BY <1>2, HeadTailProperties
  <2> QED BY <2>1, StepFacts DEF StepsOf, PageSteps
<1>4. \/ op = "supply" /\ ReadSupply(c)
      \/ op = "reserve" /\ ReadReserve(c)
      \/ op = "accounts" /\ ReadAccounts(c)
      \/ op = "positions" /\ ReadPositions(c)
      \/ op = "withdraw" /\ SendWithdraw(c)
      \/ op = "rebalance" /\ SendRebalance(c, of)
      \/ op = "look" /\ LookAt(c, of)
      \/ op = "tip" /\ Tip(c, of, TRUE)
      \/ op = "drop" /\ Tip(c, of, FALSE)
      \/ op = "verify" /\ Verify(c)
      \/ op = "topup" /\ TopUp(c, of)
      \/ op = "fund" /\ Send(c, MayFund(of, mine.amount), Fund(of, mine.amount), FALSE)
      \/ /\ op = "mint"
         /\ Send(c, MayMint(of, mine.amount), Mint(of, mine.amount), mine.amount = 0)
      \/ op = "report" /\ SendReport(c, of)
      \/ op = "accrue" /\ Send(c, TRUE, Accrue(of), FALSE)
      \/ /\ op = "deposit"
         /\ Send(c, MayDeposit(Holder, of, Nothing), Ledger(Deposit(Holder, of, Nothing)), FALSE)
      \/ op = "create" /\ Send(c, ~Created(of), Ledger(CreateStrategy(of)), FALSE)
      \/ /\ op = "weigh"
         /\ Send(c, MaySetWeight(of, PlannedWeight),
                 Ledger(SetStrategyWeight(of, PlannedWeight)), FALSE)
      \/ /\ op = "allocate"
         /\ Send(c, MayAllocate(of, Allocation), Ledger(AllocateToStrategy(of, Allocation)), FALSE)
      \/ op = "handover" /\ Handover(c)
      \/ op = "register" /\ Register(c)
  BY DEF Advance
<1> HIDE DEF op, of
<1>5. ASSUME BreaksOff(c, Refused(c)), UNCHANGED <<vars, besideVars, screen>>
      PROVE  BrokenOff(c, Refused(c))
  BY <1>5 DEF BrokenOff
<1>6. CASE mine.kind = "withdraw"
  <2>1. c \in Tabs
    BY <1>1, <1>6
  <2>2. CASE ReadSupply(c) \/ ReadReserve(c) \/ ReadAccounts(c) \/ ReadPositions(c)
    BY <1>1, <1>6, <2>1, <2>2, PageReads
  <2>3. CASE SendWithdraw(c)
    <3> DEFINE owed == UnderlyingFor(mine.shares, supply, totalDeposited)
               pull == PulledInOrder(ShownActive(c), Shortfall(owed))
    <3>1. \/ Ledger(Withdraw(Holder, mine.shares, pull)) /\ Landed(c)
          \/ BreaksOff(c, Refused(c)) /\ UNCHANGED <<vars, besideVars, screen>>
      BY <2>3 DEF SendWithdraw, Send
    <3>2. pull \in [Strategies -> Nat]
      <4>0. mine.shares \in Nat /\ supply \in Nat /\ totalDeposited \in Nat /\ reserve \in Nat
        BY <1>1, <1>2 DEF TypeOK
      <4>1. owed \in Nat /\ reserve \in Nat
        BY <4>0, AmountTypes
      <4> HIDE DEF owed
      <4>2. Shortfall(owed) \in Int
        BY <4>1 DEF Shortfall
      <4> QED BY <1>1, <4>2, PulledType
    <3> HIDE DEF pull
    <3> QED BY <1>2, <1>5, <3>1, <3>2 DEF Sent, Transaction, LedgerTransaction, Ledger
  <2> QED
    BY <1>3, <1>4, <1>6, <2>2, <2>3
<1>7. CASE mine.kind # "withdraw"
  <2>1. /\ op \in OnStrategy => of \in Strategies
        /\ op \in OnAmount => of \in Nat
        /\ op \in OnStrategy \cup OnAmount \cup OnNothing
    BY <1>3, <1>7
  <2>2. CASE \/ op = "look" /\ LookAt(c, of)
             \/ op = "tip" /\ Tip(c, of, TRUE)
             \/ op = "drop" /\ Tip(c, of, FALSE)
             \/ op = "verify" /\ Verify(c)
    BY <1>1, <1>7, <2>1, <2>2, ScriptReads DEF OnStrategy
  <2>3. CASE op = "rebalance" /\ SendRebalance(c, of)
    BY <1>5, <2>1, <2>3
       DEF SendRebalance, Send, Sent, Transaction, LedgerTransaction, Ledger, OnStrategy
  <2>4. CASE op = "topup" /\ TopUp(c, of)
    BY <1>5, <2>4 DEF TopUp, Send, Sent, Transaction
  <2>5. ASSUME of \in Strategies, MayTransferIn(of, mine.amount) PROVE mine.amount \in Nat
    BY <1>2, <2>5 DEF MayTransferIn
  <2>6. CASE op = "fund" /\ Send(c, MayFund(of, mine.amount), Fund(of, mine.amount), FALSE)
    BY <1>5, <2>1, <2>5, <2>6 DEF Send, Sent, Transaction, OnStrategy, Fund, MayFund
  <2>7. CASE /\ op = "mint"
             /\ Send(c, MayMint(of, mine.amount), Mint(of, mine.amount), mine.amount = 0)
    BY <1>5, <2>1, <2>5, <2>7 DEF Send, Sent, Transaction, OnStrategy, MayMint, MayReceive
  <2>8. CASE op = "report" /\ SendReport(c, of)
    BY <1>5, <2>1, <2>8
       DEF SendReport, Send, Sent, Transaction, LedgerTransaction, Ledger, OnStrategy
  <2>9. CASE op = "accrue" /\ Send(c, TRUE, Accrue(of), FALSE)
    BY <2>1, <2>9 DEF Send, Sent, Transaction, OnAmount
  <2>10. CASE /\ op = "deposit"
              /\ Send(c, MayDeposit(Holder, of, Nothing), Ledger(Deposit(Holder, of, Nothing)), FALSE)
    BY <1>5, <2>1, <2>10 DEF Send, Sent, Transaction, LedgerTransaction, Ledger, OnAmount
  <2>11. CASE op = "create" /\ Send(c, ~Created(of), Ledger(CreateStrategy(of)), FALSE)
    BY <1>5, <2>1, <2>11 DEF Send, Sent, Transaction, LedgerTransaction, Ledger, OnStrategy
  <2>12. CASE /\ op = "weigh"
              /\ Send(c, MaySetWeight(of, PlannedWeight),
                      Ledger(SetStrategyWeight(of, PlannedWeight)), FALSE)
    BY <1>5, <2>1, <2>12, AmountTypes
       DEF Send, Sent, Transaction, LedgerTransaction, Ledger, OnStrategy
  <2>13. CASE /\ op = "allocate"
              /\ Send(c, MayAllocate(of, Allocation), Ledger(AllocateToStrategy(of, Allocation)), FALSE)
    BY <1>5, <2>1, <2>13, DeskConstants
       DEF Send, Sent, Transaction, LedgerTransaction, Ledger, OnStrategy
  <2>14. CASE op = "handover" /\ Handover(c)
    BY <1>5, <2>14 DEF Handover, Send, Sent, Transaction, FaucetTransaction
  <2>15. CASE op = "register" /\ Register(c)
    BY <1>5, <2>15 DEF Register, Send, Sent, Transaction, FaucetTransaction
  <2> QED
    BY <1>4, <2>1, <2>2, <2>3, <2>4, <2>6, <2>7, <2>8, <2>9, <2>10, <2>11, <2>12, <2>13,
       <2>14, <2>15 DEF OnStrategy, OnAmount, OnNothing
<1> QED BY <1>6, <1>7

-----------------------------------------------------------------------------
(***************************************************************************)
(* Every step of the clients and of everybody else.                        *)
(***************************************************************************)
\* A button sends a transaction and has the page read some of the state again.
Clicked(t) ==
  /\ ~Running(t) /\ Transaction /\ OnClient(t, Idle, FALSE)
  /\ \E v \in {screen[t], Shown', VaultRead(t)} : screen' = [screen EXCEPT ![t] = v]

\* A timer has an idle page read some of the state again.
Refreshed(t) ==
  /\ ~Running(t) /\ UNCHANGED <<vars, besideVars, job>>
  /\ \/ screen' = [screen EXCEPT ![t].vault = VaultShown]
     \/ screen' = [screen EXCEPT ![t].strategies = StrategiesShown]

\* Somebody who is no client of these pages and scripts sends a transaction.
Disturbed ==
  /\ Transaction
  /\ job' = [c \in Clients |-> Overtaken(job[c], FALSE)]
  /\ UNCHANGED screen

\* The buttons of a page.
LEMMA ClickMoves ==
  ASSUME DeskInv, NEW t \in Tabs,
         \/ ClickPause(t) \/ ClickFaucet(t)
         \/ \E f \in Nat : ClickFee(t, f)
         \/ \E amount \in Nat : ClickDeposit(t, amount)
         \/ \E s \in Strategies :
              \/ ClickRebalance(t, s) \/ ClickReportYield(t, s) \/ ClickDeactivate(t, s)
              \/ \E w \in Nat : ClickWeight(t, s, w)
              \/ \E a \in ToSet(Adapters) : ClickRedeem(t, s, a)
              \/ \E amount \in Nat :
                   \/ ClickAllocate(t, s, amount) \/ ClickDeallocate(t, s, amount)
                   \/ ClickReportLoss(t, s, amount)
  PROVE  Clicked(t)
<1>1. ViewOK(screen[t])
  BY DEF DeskInv, ScreensOK
<1>2. CASE ClickPause(t)
  <2>1. PauseSent(t) \in BOOLEAN
    BY DEF PauseSent
  <2>2. SetPaused(PauseSent(t)) /\ UNCHANGED besideVars
    BY <1>2 DEF ClickPause, Click, Ledger
  <2>3. Transaction
    BY <2>1, <2>2 DEF Transaction, LedgerTransaction
  <2> QED BY <1>2, <2>3 DEF ClickPause, Click, Clicked
<1>3. CASE ClickFaucet(t)
  BY <1>3 DEF ClickFaucet, Click, Clicked, Transaction
<1>4. ASSUME NEW f \in Nat, ClickFee(t, f) PROVE Clicked(t)
  BY <1>4 DEF ClickFee, Click, Clicked, Transaction, LedgerTransaction, Ledger
<1>5. ASSUME NEW amount \in Nat, ClickDeposit(t, amount) PROVE Clicked(t)
  BY <1>5 DEF ClickDeposit, Click, Clicked, Transaction, LedgerTransaction, Ledger
<1>6. ASSUME NEW s \in Strategies,
             ClickRebalance(t, s) \/ ClickReportYield(t, s) \/ ClickDeactivate(t, s)
      PROVE  Clicked(t)
  BY <1>6 DEF ClickRebalance, ClickReportYield, ClickDeactivate, Click, Clicked, Transaction,
              LedgerTransaction, Ledger
<1>7. ASSUME NEW s \in Strategies, NEW w \in Nat, ClickWeight(t, s, w) PROVE Clicked(t)
  BY <1>7 DEF ClickWeight, Click, Clicked, Transaction, LedgerTransaction, Ledger
<1>8. ASSUME NEW s \in Strategies, NEW a \in ToSet(Adapters), ClickRedeem(t, s, a)
      PROVE  Clicked(t)
  <2> DEFINE amount == screen[t].strategies.redeemable[s][a]
  <2>1. amount \in Nat
    BY <1>1 DEF ViewOK, StrategiesViewOK
  <2>2. Click(t, \/ a = "kamino" /\ RedeemKamino(s, amount)
                 \/ a = "lulo" /\ RedeemLulo(s, amount), screen[t])
    BY <1>8 DEF ClickRedeem
  <2> HIDE DEF amount
  <2> QED BY <2>1, <2>2 DEF Click, Clicked, Transaction
<1>9. ASSUME NEW s \in Strategies, NEW amount \in Nat,
             \/ ClickAllocate(t, s, amount) \/ ClickDeallocate(t, s, amount)
             \/ ClickReportLoss(t, s, amount)
      PROVE  Clicked(t)
  BY <1>9 DEF ClickAllocate, ClickDeallocate, ClickReportLoss, Click, Clicked, Transaction,
              LedgerTransaction, Ledger
<1> QED BY <1>2, <1>3, <1>4, <1>5, <1>6, <1>7, <1>8, <1>9

\* A page only does what the cases above say.
LEMMA TabMoves ==
  ASSUME DeskInv, NEW t \in Tabs, TabNext(t)
  PROVE  OwnMove(t) \/ Clicked(t) \/ Refreshed(t)
<1>1. CASE RefreshVault(t) \/ RefreshStrategies(t)
  BY <1>1 DEF RefreshVault, RefreshStrategies, Refreshed
<1>2. /\ Amounts \subseteq Nat /\ FeeChoices \subseteq Nat /\ WeightChoices \subseteq Nat
      /\ \A n \in 1..shares[Holder] : n \in Nat
  BY Constants, DeskConstants DEF DeskInv, Inv, TypeOK
<1>3. CASE StartRebalance(t) \/ \E n \in 1..shares[Holder] : StartWithdraw(t, n)
  BY <1>2, <1>3, PageStarts
<1>4. CASE \/ ClickPause(t) \/ ClickFaucet(t)
           \/ \E f \in FeeChoices : ClickFee(t, f)
           \/ \E amount \in Amounts : ClickDeposit(t, amount)
           \/ \E s \in Strategies :
                \/ ClickRebalance(t, s) \/ ClickReportYield(t, s) \/ ClickDeactivate(t, s)
                \/ \E w \in WeightChoices : ClickWeight(t, s, w)
                \/ \E a \in ToSet(Adapters) : ClickRedeem(t, s, a)
                \/ \E amount \in Amounts :
                     \/ ClickAllocate(t, s, amount) \/ ClickDeallocate(t, s, amount)
                     \/ ClickReportLoss(t, s, amount)
  BY <1>2, <1>4, ClickMoves
<1> QED BY <1>1, <1>3, <1>4 DEF TabNext

\* So does everybody.
LEMMA DeskStepCases ==
  ASSUME DeskInv, DeskNext
  PROVE  \/ \E c \in Clients : OwnMove(c)
         \/ \E c \in Clients : Running(c) /\ Sent(c)
         \/ \E t \in Tabs : Clicked(t) \/ Refreshed(t)
         \/ \E c \in Clients : Running(c) /\ \E mine \in {Idle, Refused(c)} : BrokenOff(c, mine)
         \/ Disturbed
         \/ CooldownEnds
<1>1. Tabs \subseteq Clients /\ Scripts \subseteq Clients /\ JobsOK /\ Amounts \subseteq Nat
  BY DeskConstants, Constants DEF DeskInv
<1>2. ASSUME NEW t \in Tabs, TabNext(t)
      PROVE  OwnMove(t) \/ Clicked(t) \/ Refreshed(t)
  BY <1>2, TabMoves
<1>3. ASSUME NEW c \in Scripts, ScriptNext(c) PROVE OwnMove(c)
  BY <1>3, YieldStarts, SetupStarts DEF ScriptNext
<1>4. ASSUME NEW c \in Clients, Advance(c)
      PROVE  OwnMove(c) \/ (Running(c) /\ (Sent(c) \/ BrokenOff(c, Refused(c))))
  BY <1>4, AdvanceMoves DEF Advance, OwnStep, OwnMove, Follows
<1>5. ASSUME NEW c \in Clients, Die(c) PROVE Running(c) /\ BrokenOff(c, Idle)
  BY <1>5 DEF Die, BrokenOff
<1>6. CASE Elsewhere
  BY <1>6 DEF Elsewhere, Others, Ledger, Disturbed, Transaction, LedgerTransaction
<1>7. ASSUME NEW s \in Strategies, NEW amount \in Amounts, Lend(s, amount) PROVE Disturbed
  <2>1. amount \in Nat /\ LendTransaction(s, amount)
    BY <1>1, <1>7 DEF Lend, Others, LendTransaction
  <2>2. Transaction
    BY <2>1 DEF Transaction
  <2> QED BY <1>7, <2>2 DEF Lend, Others, Disturbed
<1> QED BY <1>1, <1>2, <1>3, <1>4, <1>5, <1>6, <1>7 DEF DeskNext

\* What a page reads is of the right kinds.
LEMMA ShownOK ==
  Inv /\ BesideOK => VaultViewOK(VaultShown) /\ StrategiesViewOK(StrategiesShown) /\ ViewOK(Shown)
<1> SUFFICES ASSUME Inv, BesideOK
             PROVE  VaultViewOK(VaultShown) /\ StrategiesViewOK(StrategiesShown)
  BY DEF ViewOK, Shown
<1>1. TypeOK
  BY DEF Inv
<1>2. VaultViewOK(VaultShown)
  BY <1>1, Constants DEF TypeOK, VaultViewOK, VaultShown
<1>3. weight \in [Strategies -> 0..BPS] /\ allocated \in [Strategies -> Nat]
  BY <1>1, Constants DEF TypeOK
<1>4. \A s \in Strategies, a \in ToSet(Adapters) : Available(a, position[s], market) \in Nat
  <2>1. \A s \in Strategies : position[s].cTokens \in Nat /\ position[s].principal \in Nat
    BY DEF BesideOK, Positions
  <2>2. \A s \in Strategies : Worth(position[s].cTokens, market) \in Nat
    BY <2>1, WorthType DEF BesideOK
  <2> QED BY <2>1, <2>2 DEF Available, KaminoAvailable, LuloAvailable
<1>5. \A s \in Strategies, a \in ToSet(Adapters) : StrategiesShown.redeemable[s][a] \in Nat
  BY <1>4 DEF StrategiesShown
<1>6. StrategiesShown.weight = weight /\ StrategiesShown.allocated = allocated
  BY DEF StrategiesShown
<1> QED BY <1>2, <1>3, <1>5, <1>6 DEF StrategiesViewOK

\* The same of the next state.
LEMMA ShownOKNext ==
  (Inv /\ BesideOK)' =>
    (VaultViewOK(VaultShown) /\ StrategiesViewOK(StrategiesShown) /\ ViewOK(Shown))'
BY ShownOK, PTL

\* A part of a view, read again.
LEMMA ViewParts ==
  ASSUME NEW v, ViewOK(v), NEW w
  PROVE  /\ VaultViewOK(w) => ViewOK([v EXCEPT !.vault = w])
         /\ StrategiesViewOK(w) => ViewOK([v EXCEPT !.strategies = w])
<1>1. ASSUME VaultViewOK(w) PROVE ViewOK([v EXCEPT !.vault = w])
  <2> DEFINE x == [v EXCEPT !.vault = w]
  <2>1. DOMAIN x = {"vault", "strategies"} /\ x.vault = w /\ x.strategies = v.strategies
    BY DEF ViewOK
  <2> HIDE DEF x
  <2>2. ViewOK(x)
    BY <1>1, <2>1 DEF ViewOK
  <2> QED BY <2>2 DEF x
<1>2. ASSUME StrategiesViewOK(w) PROVE ViewOK([v EXCEPT !.strategies = w])
  <2> DEFINE x == [v EXCEPT !.strategies = w]
  <2>1. DOMAIN x = {"vault", "strategies"} /\ x.strategies = w /\ x.vault = v.vault
    BY DEF ViewOK
  <2> HIDE DEF x
  <2>2. ViewOK(x)
    BY <1>2, <2>1 DEF ViewOK
  <2> QED BY <2>2 DEF x
<1> QED BY <1>1, <1>2

\* The ledger, the market and the operator's tokens stay in order.
LEMMA StateKeeps ==
  ASSUME DeskInv, [DeskNext]_deskVars
  PROVE  Inv' /\ BesideOK'
<1>1. Inv /\ BesideOK
  BY DEF DeskInv
<1>2. CASE Transaction
  BY <1>1, <1>2, TransactionKeeps
<1>3. ASSUME UNCHANGED <<vars, position, market, faucet, purse>>, cooling' \in BOOLEAN
      PROVE  Inv' /\ BesideOK'
  <2>1. Inv'
    BY <1>1, <1>3, StutterInv
  <2>2. wallet' = wallet
    BY <1>3 DEF vars, tokenVars
  <2> QED BY <1>1, <1>3, <2>1, <2>2 DEF BesideOK, CTokens, Total
<1>4. CASE UNCHANGED <<vars, besideVars>>
  BY <1>1, <1>3, <1>4 DEF besideVars, BesideOK
<1>5. CASE CooldownEnds
  BY <1>3, <1>5 DEF CooldownEnds
<1>6. CASE UNCHANGED deskVars
  BY <1>4, <1>6 DEF deskVars
<1>7. DeskNext => Transaction \/ UNCHANGED <<vars, besideVars>> \/ CooldownEnds
  <2> SUFFICES ASSUME DeskNext
               PROVE  Transaction \/ UNCHANGED <<vars, besideVars>> \/ CooldownEnds
    OBVIOUS
  <2> QED BY DeskStepCases DEF OwnMove, Sent, Clicked, Refreshed, Disturbed, BrokenOff
<1> QED BY <1>2, <1>4, <1>5, <1>6, <1>7

\* Every client keeps a proper job.
LEMMA JobsKeep ==
  ASSUME DeskInv, [DeskNext]_deskVars
  PROVE  JobsOK'
<1>1. JobsOK /\ DOMAIN job = Clients /\ \A c \in Clients : JobFor(c, job[c])
  BY DEF DeskInv, JobsOK
<1>2. CASE UNCHANGED job
  BY <1>1, <1>2 DEF JobsOK
<1>3. ASSUME NEW c \in Clients, OwnMove(c) PROVE JobsOK'
  <2>1. PICK j : JobFor(c, j) /\ job' = [job EXCEPT ![c] = j]
    BY <1>3 DEF OwnMove
  <2>2. DOMAIN job' = Clients /\ \A d \in Clients : JobFor(d, job'[d])
    BY <1>1, <2>1
  <2> QED BY <2>2 DEF JobsOK
<1>4. ASSUME NEW c \in Clients, NEW mine, JobFor(c, mine), NEW crank, OnClient(c, mine, crank)
      PROVE  JobsOK'
  <2>1. \A d \in Clients : JobFor(d, Overtaken(job[d], crank))
    BY <1>1, OvertakenFacts
  <2>2. job' = [d \in Clients |-> IF d = c THEN mine ELSE Overtaken(job[d], crank)]
    BY <1>4 DEF OnClient
  <2>3. DOMAIN job' = Clients /\ \A d \in Clients : JobFor(d, job'[d])
    BY <1>4, <2>1, <2>2
  <2> QED BY <2>3 DEF JobsOK
<1>5. ASSUME NEW c \in Clients, Running(c), Sent(c) PROVE JobsOK'
  <2> DEFINE mine == Continue(c, <<>>)
             crank == job[c].kind = "crank" /\ faucet = "payer"
  <2>1. OnClient(c, mine, crank)
    BY <1>5 DEF Sent, Landed
  <2>2. JobFor(c, mine)
    BY <1>1, <1>5, EmptySeq, ContinueFacts
  <2> HIDE DEF mine, crank
  <2> QED BY <1>4, <2>1, <2>2
<1>6. ASSUME NEW t \in Tabs, Clicked(t) PROVE JobsOK'
  <2>1. t \in Clients /\ JobFor(t, Idle) /\ OnClient(t, Idle, FALSE)
    BY <1>6, IdleOK, DeskConstants DEF JobFor, Idle, Clicked
  <2> QED BY <1>4, <2>1
<1>7. CASE Disturbed
  <2>1. DOMAIN job' = Clients /\ \A d \in Clients : JobFor(d, job'[d])
    BY <1>1, <1>7, OvertakenFacts DEF Disturbed
  <2> QED BY <2>1 DEF JobsOK
<1>8. ASSUME NEW c \in Clients, NEW mine \in {Idle, Refused(c)}, BrokenOff(c, mine)
      PROVE  JobsOK'
  <2>1. \A d \in Clients : JobFor(d, [job[d] EXCEPT !.calm = FALSE])
    BY <1>1, UncalmedFacts
  <2>2. JobFor(c, Idle) /\ JobFor(c, Refused(c))
    BY <1>1, IdleOK, RefusedFacts DEF JobFor, Idle
  <2>3. DOMAIN job' = Clients /\ \A d \in Clients : JobFor(d, job'[d])
    BY <1>1, <1>8, <2>1, <2>2 DEF BrokenOff, BreaksOff
  <2> QED BY <2>3 DEF JobsOK
<1>9. CASE DeskNext
  BY <1>2, <1>3, <1>5, <1>6, <1>7, <1>8, <1>9, DeskStepCases DEF Refreshed, CooldownEnds
<1> QED BY <1>2, <1>9 DEF deskVars

\* Every page keeps proper figures.
LEMMA ScreensKeep ==
  ASSUME DeskInv, [DeskNext]_deskVars
  PROVE  ScreensOK'
<1>1. DOMAIN screen = Tabs /\ \A t \in Tabs : ViewOK(screen[t])
  BY DEF DeskInv, ScreensOK
<1>2. /\ VaultViewOK(VaultShown') /\ ViewOK(Shown')
      /\ VaultViewOK(VaultShown) /\ StrategiesViewOK(StrategiesShown)
  <2>1. Inv' /\ BesideOK' /\ Inv /\ BesideOK
    BY StateKeeps DEF DeskInv
  <2>2. (VaultViewOK(VaultShown) /\ ViewOK(Shown))'
    BY <2>1, ShownOKNext
  <2>3. VaultViewOK(VaultShown') /\ ViewOK(Shown')
    BY <2>2
  <2> QED BY <2>1, <2>3, ShownOK
<1>3. CASE UNCHANGED screen
  BY <1>1, <1>3 DEF ScreensOK
<1>4. ASSUME NEW t \in Tabs, NEW v, ViewOK(v), screen' = [screen EXCEPT ![t] = v]
      PROVE  ScreensOK'
  <2>1. DOMAIN screen' = Tabs /\ \A p \in Tabs : ViewOK(screen'[p])
    BY <1>1, <1>4
  <2> QED BY <2>1 DEF ScreensOK
<1>5. ASSUME NEW t \in Tabs PROVE ViewOK([screen[t] EXCEPT !.vault = VaultShown'])
  <2> DEFINE v == screen[t]
             w == VaultShown'
  <2>1. ViewOK(v) /\ VaultViewOK(w)
    BY <1>1, <1>2
  <2> HIDE DEF v, w
  <2>2. ViewOK([v EXCEPT !.vault = w])
    BY <2>1, ViewParts
  <2> QED BY <2>2 DEF v, w
<1>6. ASSUME NEW c \in Clients, Sent(c) PROVE ScreensOK'
  <2>1. screen' = [t \in Tabs |-> IF t = c /\ job'[c].state = "done"
                                    THEN Afterwards(t, job[c].kind) ELSE screen[t]]
    BY <1>6 DEF Sent, Landed
  <2>2. \A t \in Tabs : ViewOK(Afterwards(t, job[c].kind))
    BY <1>2, <1>5 DEF Afterwards
  <2>3. DOMAIN screen' = Tabs /\ \A t \in Tabs : ViewOK(screen'[t])
    BY <1>1, <2>1, <2>2
  <2> QED BY <2>3 DEF ScreensOK
<1>7. ASSUME NEW t \in Tabs, Clicked(t) PROVE ScreensOK'
  <2>1. PICK v \in {screen[t], Shown', VaultRead(t)} : screen' = [screen EXCEPT ![t] = v]
    BY <1>7 DEF Clicked
  <2>2. ViewOK(v)
    BY <1>1, <1>2, <1>5 DEF VaultRead
  <2> QED BY <1>4, <2>1, <2>2
<1>8. ASSUME NEW t \in Tabs, Refreshed(t) PROVE ScreensOK'
  <2> DEFINE v == screen[t]
             w == VaultShown
             x == StrategiesShown
             f == [v EXCEPT !.vault = w]
             g == [v EXCEPT !.strategies = x]
  <2>1. ViewOK(v) /\ VaultViewOK(w) /\ StrategiesViewOK(x)
    BY <1>1, <1>2
  <2>2. screen' = [screen EXCEPT ![t] = f] \/ screen' = [screen EXCEPT ![t] = g]
    BY <1>8 DEF Refreshed
  <2> HIDE DEF v, w, x
  <2>3. ViewOK(f) /\ ViewOK(g)
    BY <2>1, ViewParts
  <2> HIDE DEF f, g
  <2> QED BY <1>4, <2>2, <2>3
<1>9. CASE DeskNext
  BY <1>3, <1>6, <1>7, <1>8, <1>9, DeskStepCases DEF OwnMove, Disturbed, BrokenOff, CooldownEnds
<1> QED BY <1>3, <1>9 DEF deskVars

\* A vault the holder has deposited in, part of it allocated and lent.
LEMMA DeskLedgerInv ==
  ASSUME NEW at \in [Strategies -> Situations], NEW w \in [Strategies -> WeightChoices],
         Total([s \in Strategies |-> at[s].allocated]) <= FirstDeposit,
         Total(w) <= BPS, DeskLedger(at, w)
  PROVE  Inv
<1> DEFINE held == [s \in Strategies |-> at[s].ata]
           booked == [s \in Strategies |-> at[s].allocated]
<1>1. /\ \A s \in Strategies : at[s].allocated \in Nat /\ at[s].ata \in Nat
      /\ held \in [Strategies -> Nat] /\ booked \in [Strategies -> Nat]
      /\ \A s \in Strategies : held[s] <= booked[s]
  <2>1. \A s \in Strategies : /\ at[s] \in [allocated : Nat, ata : Nat, position : Positions]
                              /\ at[s].ata <= at[s].allocated
    BY SituationsAssumption
  <2> QED BY <2>1
<1>2. /\ ata = held /\ allocated = booked /\ totalDeposited = FirstDeposit
      /\ supply = SharesFor(FirstDeposit, 0, 0)
      /\ shares = [u \in Users |-> IF u = Holder THEN supply ELSE 0]
      /\ reserve = FirstDeposit - Total(allocated)
      /\ wallet = [Endowments EXCEPT ![Holder] = @ - FirstDeposit,
                                     ![Outside] = @ + Total(allocated) - Total(ata)]
      /\ status = [s \in Strategies |-> "active"]
      /\ weight = w /\ totalWeight = Total(w)
      /\ paused = FALSE /\ performanceFee = DefaultFee /\ protocolFee = 0 /\ donated = 0
  BY DEF DeskLedger
<1> HIDE DEF held, booked
<1>3. /\ Total(ata) \in Nat /\ Total(allocated) \in Nat /\ Total(allocated) <= FirstDeposit
      /\ \A s \in Strategies : allocated[s] \in Nat /\ allocated[s] <= Total(allocated)
  <2>1. Total(ata) \in Nat /\ Total(allocated) \in Nat
    BY <1>1, <1>2, Constants, SumType DEF Total
  <2>2. \A s \in Strategies : allocated[s] \in Nat /\ allocated[s] <= Total(allocated)
    BY <1>1, <1>2, Constants, SumMember DEF Total
  <2>3. Total(allocated) <= FirstDeposit
    BY <1>2 DEF booked
  <2> QED BY <2>1, <2>2, <2>3
<1>4. Total(ata) <= Total(allocated)
  BY <1>1, <1>2, Constants, SumMono DEF Total
<1>5. /\ Holder \in Users /\ Holder \in Wallets /\ Outside \in Wallets /\ Holder # Outside
      /\ FirstDeposit \in Nat /\ FirstDeposit <= Endowment
      /\ Endowments \in [Wallets -> Nat] /\ Endowments[Holder] = Endowment
      /\ IsFiniteSet(Wallets) /\ IsFiniteSet(Users) /\ IsFiniteSet(Strategies)
      /\ SumFunctionOnSet(Endowments, Wallets) <= MaxU64
  BY Constants, DeskConstants DEF Endowments, Wallets
<1>6. FirstDeposit <= MaxU64 /\ MaxU64 \in Nat
  <2>1. Endowments[Holder] <= SumFunctionOnSet(Endowments, Wallets)
    BY <1>5, SumMember
  <2>2. SumFunctionOnSet(Endowments, Wallets) \in Nat
    BY <1>5, SumType
  <2> QED BY <1>5, <2>1, <2>2, Constants
<1>7. supply \in 0..MaxU64
  <2>1. SharesFor(FirstDeposit, 0, 0) \in Nat
    BY <1>5, MintKeepsPrice
  <2> QED BY <1>2, <1>6, <2>1, SituationsAssumption
<1> DEFINE lent == Total(allocated) - Total(ata)
           paid == [Endowments EXCEPT ![Holder] = @ - FirstDeposit]
<1>8. /\ lent \in Nat
      /\ paid \in [Wallets -> Nat]
      /\ SumFunctionOnSet(paid, Wallets) = SumFunctionOnSet(Endowments, Wallets) - FirstDeposit
      /\ wallet \in [Wallets -> Nat]
      /\ SumFunctionOnSet(wallet, Wallets)
           = SumFunctionOnSet(Endowments, Wallets) - FirstDeposit + lent
  <2>1. lent \in Nat
    BY <1>3, <1>4
  <2>2. /\ paid \in [Wallets -> Nat] /\ paid[Holder] = Endowments[Holder] - FirstDeposit
        /\ \A x \in Wallets \ {Holder} : paid[x] = Endowments[x]
    BY <1>5
  <2> HIDE DEF lent, paid
  <2>3. wallet = [paid EXCEPT ![Outside] = @ + lent]
    <3>1. \A x \in Wallets : wallet[x] = IF x = Outside THEN paid[x] + lent ELSE paid[x]
      BY <1>2, <1>3, <1>5, <2>2 DEF lent, paid
    <3>2. DOMAIN wallet = Wallets /\ wallet = [x \in Wallets |-> wallet[x]]
      BY <1>2, <1>5
    <3> QED BY <2>2, <3>1, <3>2
  <2>4. /\ wallet \in [Wallets -> Nat] /\ wallet[Outside] = paid[Outside] + lent
        /\ \A x \in Wallets \ {Outside} : wallet[x] = paid[x]
    BY <1>5, <2>1, <2>2, <2>3
  <2>5. SumFunctionOnSet(paid, Wallets)
          = SumFunctionOnSet(Endowments, Wallets) - Endowments[Holder] + paid[Holder]
    BY <1>5, <2>2, SumUpdate
  <2>6. SumFunctionOnSet(wallet, Wallets)
          = SumFunctionOnSet(paid, Wallets) - paid[Outside] + wallet[Outside]
    BY <1>5, <2>2, <2>4, SumUpdate
  <2>7. SumFunctionOnSet(Endowments, Wallets) \in Nat /\ SumFunctionOnSet(paid, Wallets) \in Nat
        /\ paid[Outside] \in Nat /\ Endowments[Holder] \in Nat
    BY <1>5, <2>2, SumType
  <2> QED BY <1>5, <2>1, <2>2, <2>4, <2>5, <2>6, <2>7
<1>9. TypeOK
  <2>1. reserve \in Nat /\ totalDeposited \in 0..MaxU64 /\ donated \in 0..MaxDonated
    BY <1>2, <1>3, <1>5, <1>6, Constants
  <2>2. ata \in [Strategies -> Nat] /\ allocated \in [Strategies -> 0..MaxU64]
    BY <1>1, <1>2, <1>3, <1>5, <1>6
  <2>3. shares \in [Users -> Nat] /\ status \in [Strategies -> {"none", "active", "inactive"}]
    BY <1>2, <1>7
  <2>4. weight \in [Strategies -> 0..BPS] /\ totalWeight \in 0..BPS
    <3>1. w \in [Strategies -> Nat]
      BY Constants
    <3>2. Total(w) \in Nat /\ \A s \in Strategies : w[s] \in Nat /\ w[s] <= Total(w)
      BY <3>1, Constants, SumType, SumMember DEF Total
    <3> QED BY <1>2, <3>2, Constants
  <2>5. paused \in BOOLEAN /\ performanceFee \in 0..MaxFee /\ protocolFee \in 0..MaxFee
    <3>1. paused = FALSE /\ performanceFee = DefaultFee /\ protocolFee = 0
      BY <1>2
    <3>2. MaxFee \in Nat /\ DefaultFee \in 0..MaxFee
      BY Constants
    <3>3. performanceFee \in 0..MaxFee /\ protocolFee \in 0..MaxFee
      BY <3>1, <3>2
    <3> QED BY <3>1, <3>3
  <2> QED BY <1>7, <1>8, <2>1, <2>2, <2>3, <2>4, <2>5 DEF TypeOK
<1>10. BooksBalance
  BY <1>2, <1>3, <1>5 DEF BooksBalance
<1>11. SharesBacked
  <2> DEFINE none == [u \in Users |-> 0]
  <2>1. none \in [Users -> Nat] /\ \A u \in Users : none[u] = 0
    OBVIOUS
  <2>2. /\ shares \in [Users -> Nat] /\ shares[Holder] = supply
        /\ \A u \in Users \ {Holder} : shares[u] = none[u]
    BY <1>2, <1>5, <1>7
  <2> HIDE DEF none
  <2>3. SumFunctionOnSet(none, Users) = 0
    BY <1>5, <2>1, SumZero
  <2>4. SumFunctionOnSet(shares, Users) = SumFunctionOnSet(none, Users) - none[Holder] + shares[Holder]
    BY <1>5, <2>1, <2>2, SumUpdate
  <2> QED BY <1>5, <1>7, <2>1, <2>2, <2>3, <2>4 DEF SharesBacked
<1>12. WeightsWithinCap /\ InactiveIsEmpty
  BY <1>2 DEF WeightsWithinCap, InactiveIsEmpty, Active
<1>13. TokensConserved
  <2>1. SumFunctionOnSet(Endowments, Wallets) \in Nat
    BY <1>5, SumType
  <2> QED BY <1>2, <1>3, <1>5, <1>8, <2>1 DEF TokensConserved
<1> QED BY <1>9, <1>10, <1>11, <1>12, <1>13 DEF Inv

\* At the start nothing is at odds.
LEMMA DeskInitInv == DeskInit => DeskInv
<1> SUFFICES ASSUME DeskInit PROVE DeskInv
  OBVIOUS
<1>1. PICK at \in [Strategies -> Situations] \cup {<<>>} :
        /\ Inv
        /\ \/ position = [s \in Strategies |-> NoPosition]
           \/ /\ at \in [Strategies -> Situations]
              /\ position = [s \in Strategies |-> at[s].position]
  <2>1. CASE Init /\ position = [s \in Strategies |-> NoPosition]
    BY <2>1, InitInv
  <2>2. ASSUME NEW at \in [Strategies -> Situations], NEW w \in [Strategies -> WeightChoices],
               Total([s \in Strategies |-> at[s].allocated]) <= FirstDeposit,
               Total(w) <= BPS, DeskLedger(at, w)
        PROVE  Inv /\ position = [s \in Strategies |-> at[s].position]
    BY <2>2, DeskLedgerInv DEF DeskLedger
  <2> QED BY <2>1, <2>2 DEF DeskInit
<1>2. /\ market = Market /\ faucet \in {"payer", "registered"} /\ purse = 0 /\ cooling = FALSE
      /\ job = [c \in Clients |-> Idle]
      /\ \E shown \in {reserve} \cup (IF faucet = "payer" THEN {totalDeposited} ELSE {}) :
           screen = [t \in Tabs |-> [Shown EXCEPT !.vault.reserve = shown]]
  BY DEF DeskInit
<1>3. /\ position \in [Strategies -> Positions] /\ Total(CTokens) <= market.collateral
      /\ market \in [liquidity : Nat, collateral : Nat]
  <2>1. CASE position = [s \in Strategies |-> NoPosition]
    <3>1. CTokens \in [Strategies -> Nat] /\ \A s \in Strategies : CTokens[s] = 0
      BY <2>1 DEF CTokens, NoPosition
    <3>2. Total(CTokens) = 0
      BY <3>1, Constants, SumZero DEF Total
    <3>3. Market.collateral \in Nat /\ Market \in [liquidity : Nat, collateral : Nat]
      BY SituationsAssumption
    <3>4. NoPosition \in Positions
      BY DEF NoPosition, Positions
    <3> QED BY <1>2, <2>1, <3>2, <3>3, <3>4
  <2>2. CASE /\ at \in [Strategies -> Situations]
             /\ position = [s \in Strategies |-> at[s].position]
    <3>1. CTokens = [s \in Strategies |-> at[s].position.cTokens]
      BY <2>2 DEF CTokens
    <3>2. \A s \in Strategies : at[s].position \in Positions
      BY <2>2, SituationsAssumption
    <3> QED BY <1>2, <2>2, <3>1, <3>2, SituationsAssumption
  <2> QED BY <1>1, <2>1, <2>2
<1>4. BesideOK
  <2>1. wallet[Outside] \in Nat
    BY <1>1, Constants DEF Inv, TypeOK
  <2>2. purse \in 0..wallet[Outside]
    BY <1>2, <2>1
  <2>3. cooling \in BOOLEAN /\ faucet \in {"payer", "handed", "registered"}
    BY <1>2
  <2> QED BY <1>3, <2>2, <2>3 DEF BesideOK
<1>5. ScreensOK
  <2>1. PICK shown : screen = [t \in Tabs |-> [Shown EXCEPT !.vault.reserve = shown]]
    BY <1>2
  <2> DEFINE w == [VaultShown EXCEPT !.reserve = shown]
             v == [Shown EXCEPT !.vault = w]
  <2>2. [Shown EXCEPT !.vault.reserve = shown] = v
    BY DEF Shown
  <2>3. ViewOK(Shown) /\ VaultViewOK(VaultShown)
    BY <1>1, <1>4, ShownOK
  <2>4. w.total = VaultShown.total /\ w.paused = VaultShown.paused
    BY DEF VaultShown
  <2>5. VaultViewOK(w)
    BY <2>3, <2>4 DEF VaultViewOK
  <2> HIDE DEF w
  <2>6. ViewOK(v)
    BY <2>3, <2>5, ViewParts
  <2>7. DOMAIN screen = Tabs /\ \A t \in Tabs : screen[t] = v
    BY <2>1, <2>2
  <2> HIDE DEF v
  <2> QED BY <2>6, <2>7 DEF ScreensOK
<1>6. JobsOK
  BY <1>2, IdleOK DEF JobsOK, JobFor, Idle
<1> QED BY <1>1, <1>4, <1>5, <1>6 DEF DeskInv

\* Every step keeps all of it.
LEMMA DeskStepInv ==
  ASSUME DeskInv, [DeskNext]_deskVars
  PROVE  DeskInv'
BY StateKeeps, JobsKeep, ScreensKeep DEF DeskInv

\* The strengthened invariant holds of the ledger with its pages and scripts.
THEOREM DeskInvariant == DeskSpec => []DeskInv
<1>1. DeskInit => DeskInv
  BY DeskInitInv
<1>2. DeskInv /\ [DeskNext]_deskVars => DeskInv'
  BY DeskStepInv
<1> QED BY <1>1, <1>2, PTL DEF DeskSpec

\* Whatever the pages and the scripts send, the ledger's variables, the jobs, the
\* operator's tokens, the positions and the market stay in range: nobody hands
\* out tokens he does not have, and no redemption takes more cTokens than are
\* held or more liquidity than there is.
THEOREM DeskTypeCorrect == DeskSpec => []DeskTypeOK
<1>1. DeskInv => DeskTypeOK
  <2> SUFFICES ASSUME DeskInv PROVE DeskTypeOK
    OBVIOUS
  <2>1. \A c \in Clients : JobOK(job[c])
    BY DEF DeskInv, JobsOK, JobFor
  <2>2. \A s \in Strategies : position[s] \in Positions
    BY DEF DeskInv, BesideOK
  <2> QED BY <2>1, <2>2 DEF DeskTypeOK, DeskInv, Inv, BesideOK, JobOK, Running
<1> QED BY <1>1, DeskInvariant, PTL

\* And the ledger's own invariants hold under them: the books balance, every
\* share is backed, weights stay within the cap, inactive strategies are empty
\* and tokens only move.
THEOREM DeskKeepsTheBooks ==
  DeskSpec => [](BooksBalance /\ SharesBacked /\ WeightsWithinCap /\ InactiveIsEmpty
                 /\ TokensConserved)
<1>1. DeskInv => /\ BooksBalance /\ SharesBacked /\ WeightsWithinCap /\ InactiveIsEmpty
                 /\ TokensConserved
  BY DEF DeskInv, Inv
<1> QED BY <1>1, DeskInvariant, PTL

-----------------------------------------------------------------------------
(***************************************************************************)
(* One page among the others.                                              *)
(***************************************************************************)
\* The page's job goes on knowing all there is to know.
Still(t) ==
  /\ job'[t] = job[t] /\ UNCHANGED <<vars, position, market>>
  /\ Running(t) => screen'[t] = screen[t]

\* Somebody's transaction came between, the job was dropped, or a button pressed.
Upset(t) == job'[t].calm => job'[t].kind = "crank"

\* What can happen to the job of a page in a step of the whole.
LEMMA PageCases ==
  ASSUME DeskInv, [DeskNext]_deskVars, NEW t \in Tabs
  PROVE  \/ Still(t) \/ Upset(t)
         \/ StartRebalance(t) \/ (\E n \in 1..shares[Holder] : StartWithdraw(t, n))
         \/ Advance(t)
<1>1. /\ t \in Clients /\ t \notin Scripts /\ Tabs \subseteq Clients /\ Scripts \subseteq Clients
      /\ DOMAIN job = Clients /\ JobFor(t, job[t])
      /\ DOMAIN screen = Tabs
  BY DeskConstants DEF DeskInv, JobsOK, ScreensOK
<1>2. Idle.calm = FALSE
  BY DEF Idle
<1>3. ASSUME NEW c \in Clients \ {t}, OwnMove(c) PROVE Still(t)
  <2>1. PICK j : job' = [job EXCEPT ![c] = j]
    BY <1>3 DEF OwnMove
  <2> QED BY <1>1, <1>3, <2>1 DEF OwnMove, Still, besideVars
<1>4. ASSUME NEW crank, job'[t] = Overtaken(job[t], crank) PROVE Upset(t)
  <2>1. \/ job'[t] = Idle
        \/ job'[t].kind = job[t].kind /\ (job'[t].calm => job[t].kind = "crank")
    BY <1>1, <1>4, OvertakenFacts
  <2> QED BY <1>2, <2>1 DEF Upset
<1>5. ASSUME NEW c \in Clients \ {t}, NEW mine, NEW crank, OnClient(c, mine, crank)
      PROVE  Upset(t)
  <2>1. job'[t] = Overtaken(job[t], crank)
    BY <1>1, <1>5 DEF OnClient
  <2> QED BY <1>4, <2>1
<1>6. ASSUME NEW p \in Tabs \ {t}, TabNext(p) PROVE Still(t) \/ Upset(t)
  <2>1. p \in Clients \ {t} /\ (OwnMove(p) \/ Clicked(p) \/ Refreshed(p))
    BY <1>1, <1>6, TabMoves
  <2>2. Refreshed(p) => Still(t)
    BY <1>1, <1>6 DEF Refreshed, Still, besideVars
  <2> QED BY <1>3, <1>5, <2>1, <2>2 DEF Clicked
<1>7. ASSUME NEW c \in Scripts, ScriptNext(c) PROVE Still(t)
  <2>1. OwnMove(c)
    BY <1>7, YieldStarts, SetupStarts DEF ScriptNext
  <2> QED BY <1>1, <1>3, <2>1
<1>8. ASSUME NEW c \in Clients \ {t}, NEW mine, BrokenOff(c, mine)
       PROVE  Still(t) \/ Upset(t)
  <2>1. CASE job'[t] = job[t]
    BY <1>8, <2>1 DEF BrokenOff, Still, besideVars
  <2>2. CASE job'[t] = [job[t] EXCEPT !.calm = FALSE]
    BY <1>1, <2>2, UncalmedFacts DEF Upset
  <2> QED BY <1>1, <1>8, <2>1, <2>2 DEF BrokenOff, BreaksOff
<1>9. ASSUME NEW c \in Clients \ {t}, Advance(c) PROVE Still(t) \/ Upset(t)
  <2>1. OwnMove(c) \/ Sent(c) \/ BrokenOff(c, Refused(c))
    BY <1>9, AdvanceMoves DEF OwnStep, OwnMove, Follows
  <2>2. BrokenOff(c, Refused(c)) => Still(t) \/ Upset(t)
    BY <1>9, <1>8
  <2> QED BY <1>3, <1>5, <2>1, <2>2 DEF Sent, Landed
<1>10. ASSUME NEW c \in Clients, Die(c) PROVE Still(t) \/ Upset(t)
  <2>1. CASE c = t
    BY <1>1, <1>2, <1>10, <2>1 DEF Die, BreaksOff, Upset
  <2>2. CASE c # t
    BY <1>10, <1>8, <2>2 DEF Die, BrokenOff
  <2> QED BY <2>1, <2>2
<1>11. CASE Elsewhere \/ \E s \in Strategies, amount \in Amounts : Lend(s, amount)
  <2>1. job'[t] = Overtaken(job[t], FALSE)
    BY <1>1, <1>11 DEF Elsewhere, Lend, Others
  <2> QED BY <1>4, <2>1
<1>12. CASE CooldownEnds \/ UNCHANGED deskVars
  BY <1>12 DEF CooldownEnds, deskVars, besideVars, Still
<1>13. CASE TabNext(t)
  <2>1. CASE RefreshVault(t) \/ RefreshStrategies(t)
    BY <2>1 DEF RefreshVault, RefreshStrategies, Still, besideVars
  <2>2. CASE StartRebalance(t) \/ \E n \in 1..shares[Holder] : StartWithdraw(t, n)
    BY <2>2
  <2>3. ASSUME OnClient(t, Idle, FALSE) PROVE Upset(t)
    BY <1>1, <1>2, <2>3 DEF OnClient, Upset
  <2>4. CASE \/ ClickPause(t) \/ ClickFaucet(t)
             \/ \E f \in FeeChoices : ClickFee(t, f)
             \/ \E amount \in Amounts : ClickDeposit(t, amount)
             \/ \E s \in Strategies :
                  \/ ClickRebalance(t, s) \/ ClickReportYield(t, s) \/ ClickDeactivate(t, s)
                  \/ \E w \in WeightChoices : ClickWeight(t, s, w)
                  \/ \E a \in ToSet(Adapters) : ClickRedeem(t, s, a)
                  \/ \E amount \in Amounts :
                       \/ ClickAllocate(t, s, amount) \/ ClickDeallocate(t, s, amount)
                       \/ ClickReportLoss(t, s, amount)
    <3>1. OnClient(t, Idle, FALSE)
      BY <2>4 DEF ClickPause, ClickFaucet, ClickFee, ClickDeposit, ClickRebalance,
                  ClickReportYield, ClickDeactivate, ClickWeight, ClickRedeem, ClickAllocate,
                  ClickDeallocate, ClickReportLoss, Click
    <3> QED BY <2>3, <3>1
  <2> QED BY <1>13, <2>1, <2>2, <2>4 DEF TabNext
<1> QED
  BY <1>1, <1>6, <1>7, <1>9, <1>10, <1>11, <1>12, <1>13 DEF DeskNext

-----------------------------------------------------------------------------
(***************************************************************************)
(* Sums over some of the strategies.                                       *)
(***************************************************************************)
\* One more strategy adds what it holds, none at all holds nothing.
LEMMA OverSteps ==
  ASSUME NEW f \in [Strategies -> Nat], NEW S \in SUBSET Strategies
  PROVE  /\ S = {} => Over(f, S) = 0
         /\ \A s \in Strategies \ S : Over(f, S \cup {s}) = Over(f, S) + f[s]
<1> DEFINE part(T) == [r \in Strategies |-> IF r \in T THEN f[r] ELSE 0]
<1>1. \A T \in SUBSET Strategies : part(T) \in [Strategies -> Nat]
  OBVIOUS
<1>2. \A T \in SUBSET Strategies : Over(f, T) = SumFunctionOnSet(part(T), Strategies)
  BY DEF Over, Total
<1>3. S = {} => Over(f, S) = 0
  <2> SUFFICES ASSUME S = {} PROVE Over(f, S) = 0
    OBVIOUS
  <2> DEFINE g == part(S)
  <2>1. g \in [Strategies -> Nat] /\ \A r \in Strategies : g[r] = 0
    OBVIOUS
  <2>2. Over(f, S) = SumFunctionOnSet(g, Strategies)
    BY <1>2
  <2> HIDE DEF g
  <2> QED BY <2>1, <2>2, Constants, SumZero
<1>4. ASSUME NEW s \in Strategies \ S
      PROVE  Over(f, S \cup {s}) = Over(f, S) + f[s]
  <2> DEFINE T == S \cup {s}
             g == part(S)
             h == part(T)
  <2>1. T \in SUBSET Strategies
    OBVIOUS
  <2>2. Over(f, S) = SumFunctionOnSet(g, Strategies) /\ Over(f, T) = SumFunctionOnSet(h, Strategies)
    BY <1>2, <2>1
  <2>3. /\ g \in [Strategies -> Nat] /\ h \in [Strategies -> Nat] /\ g[s] = 0 /\ h[s] = f[s]
        /\ \A r \in Strategies \ {s} : h[r] = g[r]
    OBVIOUS
  <2> HIDE DEF g, h, part
  <2>4. SumFunctionOnSet(h, Strategies) = SumFunctionOnSet(g, Strategies) - g[s] + h[s]
    BY <2>3, Constants, SumUpdate
  <2>5. SumFunctionOnSet(g, Strategies) \in Nat /\ f[s] \in Nat
    BY <2>3, Constants, SumType
  <2> QED BY <2>2, <2>3, <2>4, <2>5
<1> QED BY <1>3, <1>4

\* A finite set of strategies has numbers below some bound.
LEMMA Bounded ==
  ASSUME NEW S \in SUBSET Strategies
  PROVE  \E k \in Nat : \A s \in S : s < k
<1> DEFINE list == ById(S)
<1>1. /\ list \in Seq(S) /\ \A i, j \in 1..Len(list) : i < j => list[i] < list[j]
      /\ \A x \in S : \E i \in 1..Len(list) : list[i] = x
  BY ByIdFacts
<1> HIDE DEF list
<1>2. CASE Len(list) = 0
  BY <1>1, <1>2
<1>3. CASE Len(list) # 0
  <2> DEFINE n == Len(list)
             k == list[n] + 1
  <2>1. n \in 1..Len(list) /\ list[n] \in S /\ list[n] \in Nat
    <3>1. n \in 1..Len(list)
      BY <1>1, <1>3, LenProperties
    <3>2. list[n] \in S
      BY <1>1, <3>1
    <3> QED BY <3>1, <3>2, DeskConstants
  <2>2. ASSUME NEW s \in S PROVE s < k
    <3>1. PICK i \in 1..n : list[i] = s
      BY <1>1
    <3>2. i < n => list[i] < list[n]
      BY <1>1, <2>1
    <3>3. i = n \/ i < n
      BY <1>1
    <3> QED BY <2>1, <3>1, <3>2, <3>3, DeskConstants
  <2> QED BY <2>1, <2>2
<1> QED BY <1>2, <1>3

\* More of the strategies hold no less.
LEMMA OverMono ==
  ASSUME NEW f \in [Strategies -> Nat], NEW S \in SUBSET Strategies, NEW T \in SUBSET S
  PROVE  Over(f, T) <= Over(f, S)
<1> DEFINE g == [s \in Strategies |-> IF s \in S THEN f[s] ELSE 0]
           h == [s \in Strategies |-> IF s \in T THEN f[s] ELSE 0]
<1>1. g \in [Strategies -> Nat] /\ h \in [Strategies -> Nat] /\ \A s \in Strategies : h[s] <= g[s]
  OBVIOUS
<1>2. Over(f, S) = SumFunctionOnSet(g, Strategies) /\ Over(f, T) = SumFunctionOnSet(h, Strategies)
  BY DEF Over, Total
<1> HIDE DEF g, h
<1> QED BY <1>1, <1>2, Constants, SumMono

\* What a withdrawal that lists the accounts of S takes from each: what is
\* still missing after the accounts before it, or all there is.
LEMMA PulledEach ==
  ASSUME TypeOK, NEW S \in SUBSET Strategies, NEW short \in Nat, NEW s \in S
  PROVE  LET left == short - Over(ata, {r \in S : r < s})
         IN  PulledInOrder(S, short)[s] = IF left > ata[s] THEN ata[s]
                                          ELSE IF left > 0 THEN left ELSE 0
<1> DEFINE left == short - Over(ata, {r \in S : r < s})
           most == Max({0, left})
<1>1. ata \in [Strategies -> Nat]
  BY DEF TypeOK
<1>2. left \in Int
  BY <1>1, OverType
<1>3. PulledInOrder(S, short)[s] = Min({ata[s], most})
  BY <1>1 DEF PulledInOrder
<1> HIDE DEF left
<1>4. most = (IF left > 0 THEN left ELSE 0) /\ most \in Nat
  BY <1>2, MaxWithZero
<1> HIDE DEF most
<1>5. ata[s] \in Nat
  BY <1>1
<1>6. PulledInOrder(S, short)[s] = IF ata[s] <= most THEN ata[s] ELSE most
  BY <1>3, <1>4, <1>5, MinOfTwo
<1>7. PulledInOrder(S, short)[s] = IF left > ata[s] THEN ata[s] ELSE IF left > 0 THEN left ELSE 0
  BY <1>2, <1>4, <1>5, <1>6
<1> QED BY <1>7 DEF left

\* The accounts are drained in their order until the shortfall is covered or
\* they are empty: the pulls add up to the smaller of the two.
LEMMA PulledSum ==
  ASSUME TypeOK, NEW S \in SUBSET Strategies, NEW short \in Nat
  PROVE  Total(PulledInOrder(S, short))
           = IF short <= Over(ata, S) THEN short ELSE Over(ata, S)
<1> DEFINE pull == PulledInOrder(S, short)
           first(k) == {r \in S : r < k}
           least(a) == IF short <= a THEN short ELSE a
<1>1. ata \in [Strategies -> Nat] /\ pull \in [Strategies -> Nat] /\ Strategies \subseteq Nat
  BY PulledType, DeskConstants DEF TypeOK
<1>0. \A r \in S : r \in Nat /\ r \in Strategies
  BY <1>1
<1>2. ASSUME NEW s \in S
      PROVE  pull[s] = IF short - Over(ata, first(s)) > ata[s] THEN ata[s]
                       ELSE IF short - Over(ata, first(s)) > 0 THEN short - Over(ata, first(s))
                       ELSE 0
  BY PulledEach
<1>3. \A s \in Strategies \ S : pull[s] = 0
  BY DEF PulledInOrder
<1> HIDE DEF pull
<1>4. \A k \in Nat : Over(pull, first(k)) = least(Over(ata, first(k)))
  <2> DEFINE Bad == {k \in Nat : Over(pull, first(k)) # least(Over(ata, first(k)))}
  <2> SUFFICES ASSUME Bad # {} PROVE FALSE
    OBVIOUS
  <2>1. PICK k \in Bad : \A m \in Bad : k <= m
    BY LeastNat
  <2>2. k # 0
    <3> DEFINE none == first(0)
    <3>1. none = {} /\ none \in SUBSET Strategies
      BY <1>0
    <3> HIDE DEF none
    <3>2. Over(pull, none) = 0 /\ Over(ata, none) = 0
      BY <1>1, <3>1, OverSteps
    <3> QED BY <3>2 DEF none
  <2> DEFINE m == k - 1
             P == first(m)
             A == Over(ata, P)
             B == Over(pull, P)
  <2>3. m \in Nat /\ k = m + 1 /\ m \notin Bad
    BY <2>1, <2>2
  <2>4. B = least(A) /\ A \in Nat /\ B \in Nat
    BY <1>1, <2>3, OverType
  <2>5. P \in SUBSET Strategies
    OBVIOUS
  <2>6. CASE m \notin S
    <3>1. first(k) = P
      BY <1>0, <2>3, <2>6
    <3> HIDE DEF P, first
    <3> QED BY <2>1, <2>4, <3>1
  <2>7. CASE m \in S
    <3>1. first(k) = P \cup {m} /\ m \in Strategies \ P
      BY <1>0, <2>3, <2>7
    <3>2. pull[m] = IF short - A > ata[m] THEN ata[m] ELSE IF short - A > 0 THEN short - A ELSE 0
      BY <1>2, <2>7
    <3>3. ata[m] \in Nat
      BY <1>1, <3>1
    <3> DEFINE Q == first(k)
    <3> HIDE DEF P, m
    <3>4. Over(ata, Q) = A + ata[m] /\ Over(pull, Q) = B + pull[m]
      BY <1>1, <2>5, <3>1, OverSteps
    <3> HIDE DEF A, B, Q
    <3>5. Over(pull, Q) = least(Over(ata, Q))
      BY <2>4, <3>2, <3>3, <3>4
    <3> QED BY <2>1, <3>5 DEF Q
  <2> QED BY <2>6, <2>7
<1>5. PICK k \in Nat : \A s \in S : s < k
  BY Bounded
<1>6. first(k) = S
  BY <1>5
<1>7. Over(pull, S) = least(Over(ata, S))
  BY <1>4, <1>6
<1>8. Total(pull) = Over(pull, S)
  <2>1. pull = [s \in Strategies |-> IF s \in S THEN pull[s] ELSE 0]
    BY <1>1, <1>3
  <2> QED BY <2>1 DEF Over
<1> QED BY <1>7, <1>8 DEF pull

\* At most one account is tapped without being emptied.
LEMMA PulledOnce ==
  ASSUME TypeOK, NEW S \in SUBSET Strategies, NEW short \in Nat,
         NEW s \in Strategies, NEW r \in Strategies,
         Tapped(PulledInOrder(S, short), s), Tapped(PulledInOrder(S, short), r)
  PROVE  s = r
<1> DEFINE pull == PulledInOrder(S, short)
           first(k) == {x \in S : x < k}
           left(k) == short - Over(ata, first(k))
<1>1. ata \in [Strategies -> Nat] /\ Strategies \subseteq Nat /\ pull \in [Strategies -> Nat]
  BY PulledType, DeskConstants DEF TypeOK
<1>2. \A x \in Strategies \ S : pull[x] = 0
  BY DEF PulledInOrder
<1>3. \A x \in S : pull[x] = IF left(x) > ata[x] THEN ata[x] ELSE IF left(x) > 0 THEN left(x) ELSE 0
  BY PulledEach
<1>4. s \in S /\ r \in S /\ pull[s] > 0 /\ pull[s] < ata[s] /\ pull[r] > 0 /\ pull[r] < ata[r]
  BY <1>1, <1>2 DEF Tapped
<1> HIDE DEF pull
<1>5. ASSUME NEW x \in S, NEW y \in S, x < y, pull[x] > 0, pull[x] < ata[x]
      PROVE  ~(pull[y] > 0)
  <2> DEFINE A == Over(ata, first(x))
             B == Over(ata, first(y))
  <2>1. A + ata[x] <= B /\ A \in Nat /\ B \in Nat /\ ata[x] \in Nat /\ ata[y] \in Nat
    <3> DEFINE P == first(x)
               Q == first(y)
               R == P \cup {x}
    <3>0. \A z \in S : z \in Nat /\ z \in Strategies
      BY <1>1
    <3>1. P \in SUBSET Strategies /\ x \in Strategies \ P /\ Q \in SUBSET Strategies
      BY <3>0
    <3>2. R \in SUBSET Q
      BY <1>5, <3>0
    <3> HIDE DEF P, Q
    <3>3. Over(ata, R) = Over(ata, P) + ata[x]
      BY <1>1, <3>1, OverSteps
    <3>4. Over(ata, R) <= Over(ata, Q)
      BY <1>1, <3>1, <3>2, OverMono
    <3>5. Over(ata, P) \in Nat /\ Over(ata, Q) \in Nat
      BY <1>1, OverType
    <3>6. ata[x] \in Nat /\ ata[y] \in Nat
      BY <1>1
    <3> HIDE DEF R
    <3> QED BY <3>3, <3>4, <3>5, <3>6 DEF P, Q
  <2>2. /\ pull[x] = IF short - A > ata[x] THEN ata[x] ELSE IF short - A > 0 THEN short - A ELSE 0
        /\ pull[y] = IF short - B > ata[y] THEN ata[y] ELSE IF short - B > 0 THEN short - B ELSE 0
    BY <1>3
  <2> HIDE DEF A, B
  <2> QED BY <1>5, <2>1, <2>2
<1>6. s \in Nat /\ r \in Nat
  BY <1>1
<1> QED BY <1>4, <1>5, <1>6

-----------------------------------------------------------------------------
(***************************************************************************)
(* A withdrawal nobody comes between.                                      *)
(***************************************************************************)
Owed(t) == UnderlyingFor(job[t].shares, supply, totalDeposited)

Rest5 == <<<<"supply", 0>>, <<"reserve", 0>>, <<"accounts", 0>>, <<"positions", 0>>,
           <<"withdraw", 0>>>>
Rest4 == <<<<"reserve", 0>>, <<"accounts", 0>>, <<"positions", 0>>, <<"withdraw", 0>>>>
Rest3 == <<<<"accounts", 0>>, <<"positions", 0>>, <<"withdraw", 0>>>>
Rest2 == <<<<"positions", 0>>, <<"withdraw", 0>>>>
Rest1 == <<<<"withdraw", 0>>>>

\* What the page and the ledger agree on meanwhile.
Agreed(t) ==
  /\ screen[t].vault.total = totalDeposited
  /\ performanceFee >= protocolFee
  /\ Owed(t) > 0
  /\ \A s \in ShownActive(t) : ata[s] <= allocated[s]
  /\ job[t].shares \in 1..shares[Holder]

\* The amount a job has is what is uncovered, but for the accounts not read.
Listed(t) == Over(ata, ShownActive(t))
Short(t, j) == /\ j.amount \in Int /\ j.unseen \in Nat
               /\ j.amount - j.unseen = Owed(t) - reserve - Listed(t)
PlanOf(t, j) ==
  BuildRedeemPlan(ById(ShownActive(t)), position, market, j.amount, j.skipped).redeems

\* The amount still uncovered after each read.
Uncovered(t) ==
  \/ job[t].todo = Rest5
  \/ job[t].todo = Rest4 /\ job[t].amount = Owed(t)
  \/ job[t].todo = Rest3 /\ job[t].amount = Owed(t) - reserve
  \/ job[t].todo = Rest2 /\ Short(t, job[t])
  \/ job[t].todo = Rest1 /\ Short(t, job[t]) /\ job[t].redeems = PlanOf(t, job[t])

\* How a job has ended: done exactly if the plan was empty and the accounts not
\* read make up for what seemed missing, and the plan empty if nothing did.
Settled(j) == /\ j.state = "done" <=> j.redeems = <<>> /\ j.amount <= j.unseen
              /\ j.amount <= 0 => j.redeems = <<>>

WithdrawalOK(t) ==
  job[t].kind = "withdraw" /\ job[t].calm =>
    IF Running(t) THEN Agreed(t) /\ Uncovered(t) ELSE Settled(job[t])

\* What is owed is an amount.
LEMMA OwedType ==
  ASSUME TypeOK, NEW t, JobOK(job[t])
  PROVE  Owed(t) \in Nat
<1> DEFINE n == job[t].shares
<1>1. n \in Nat /\ supply \in Nat /\ totalDeposited \in Nat
  BY DEF JobOK, TypeOK
<1> HIDE DEF n
<1>2. UnderlyingFor(n, supply, totalDeposited) \in Nat
  BY <1>1, AmountTypes
<1> QED BY <1>2 DEF Owed, n

\* What some of the strategies hold, taken apart.
LEMMA OverSplits ==
  ASSUME NEW f \in [Strategies -> Nat], NEW S, NEW T \in SUBSET S
  PROVE  Over(f, S) = Over(f, S \ T) + Over(f, T)
<1> DEFINE Part(U) == [s \in Strategies |-> IF s \in U THEN f[s] ELSE 0]
<1>1. /\ Part(S) \in [Strategies -> Nat] /\ Part(S \ T) \in [Strategies -> Nat]
      /\ Part(T) \in [Strategies -> Nat]
      /\ \A s \in Strategies : Part(S)[s] = Part(S \ T)[s] + Part(T)[s]
  OBVIOUS
<1>2. \A U : Over(f, U) = SumFunctionOnSet(Part(U), Strategies)
  BY DEF Over, Total
<1> DEFINE whole == Part(S)
           rest == Part(S \ T)
           less == Part(T)
<1> HIDE DEF Part
<1>3. /\ whole \in [Strategies -> Nat] /\ rest \in [Strategies -> Nat]
      /\ less \in [Strategies -> Nat] /\ \A s \in Strategies : whole[s] = rest[s] + less[s]
  BY <1>1
<1> HIDE DEF whole, rest, less
<1>4. SumFunctionOnSet(whole, Strategies)
        = SumFunctionOnSet(rest, Strategies) + SumFunctionOnSet(less, Strategies)
  BY <1>3, Constants, SumAdd
<1> QED BY <1>2, <1>4 DEF whole, rest, less

\* What the accounts of S hold covers the shortfall exactly if the pulls of
\* the page's list make an auto-pull.
LEMMA CoveredIsPulled ==
  ASSUME Inv, NEW S \in SUBSET Strategies, NEW owed \in Nat,
         \A s \in S : ata[s] <= allocated[s]
  PROVE  AutoPull(owed, PulledInOrder(S, Shortfall(owed))) <=> owed - reserve - Over(ata, S) <= 0
<1> DEFINE short == Shortfall(owed)
           pull == PulledInOrder(S, short)
           there == Over(ata, S)
<1>1. TypeOK /\ reserve \in Nat /\ ata \in [Strategies -> Nat] /\ allocated \in [Strategies -> Nat]
  BY Constants DEF Inv, TypeOK
<1>2. short = (IF reserve < owed THEN owed - reserve ELSE 0) /\ short \in Nat
  BY <1>1 DEF Shortfall
<1> HIDE DEF short
<1>3. there \in Nat
  BY <1>1, OverType
<1>4. Total(pull) = IF short <= there THEN short ELSE there
  BY <1>1, <1>2, PulledSum
<1>5. pull \in [Strategies -> Nat]
  BY <1>1, <1>2, PulledType
<1>6. \A s \in Strategies : pull[s] <= ata[s] /\ pull[s] <= allocated[s]
  <2> SUFFICES ASSUME NEW s \in Strategies PROVE pull[s] <= ata[s] /\ pull[s] <= allocated[s]
    OBVIOUS
  <2>1. ata[s] \in Nat /\ allocated[s] \in Nat
    BY <1>1
  <2>2. CASE s \notin S
    <3>1. pull[s] = 0
      BY <2>2 DEF PulledInOrder
    <3> QED BY <2>1, <3>1
  <2>3. CASE s \in S
    <3> DEFINE left == short - Over(ata, {r \in S : r < s})
    <3>1. pull[s] = IF left > ata[s] THEN ata[s] ELSE IF left > 0 THEN left ELSE 0
      BY <1>1, <1>2, <2>3, PulledEach
    <3>2. left \in Int
      BY <1>1, <1>2, OverType
    <3> HIDE DEF left, pull
    <3> QED BY <2>1, <2>3, <3>1, <3>2
  <2> QED BY <2>2, <2>3
<1>7. \A s, r \in Strategies : Tapped(pull, s) /\ Tapped(pull, r) => s = r
  BY <1>1, <1>2, PulledOnce
<1>8. AutoPull(owed, pull) <=> Total(pull) = short
  BY <1>6, <1>7 DEF AutoPull, short
<1> HIDE DEF pull, there
<1>9. Total(pull) = short <=> owed - reserve - there <= 0
  BY <1>1, <1>2, <1>3, <1>4
<1> QED BY <1>8, <1>9 DEF pull, there, short

-----------------------------------------------------------------------------
(***************************************************************************)
(* The redeem planner.  BuildRedeemPlan is a recursive function over what  *)
(* it asks; that it exists is shown from the first of them on.             *)
(***************************************************************************)
NothingTaken(short) == [short |-> short, redeems |-> <<>>]

\* The plan after the first entries asked, one after another.
Plans(asked, held, pool, short, skipped, N) ==
  CHOOSE g : g = [k \in 0..N |->
                    IF k = 0 THEN NothingTaken(short)
                    ELSE Take(g[k - 1], asked[k], Disposable(asked[k], held, pool, skipped))]

\* There is such a function.
LEMMA PlansAreChain ==
  ASSUME NEW asked, NEW held, NEW pool, NEW short, NEW skipped, NEW N \in Nat
  PROVE  Plans(asked, held, pool, short, skipped, N)
           = [k \in 0..N |->
                IF k = 0 THEN NothingTaken(short)
                ELSE Take(Plans(asked, held, pool, short, skipped, N)[k - 1], asked[k],
                          Disposable(asked[k], held, pool, skipped))]
<1> DEFINE After(plan, k) == Take(plan, asked[k], Disposable(asked[k], held, pool, skipped))
           none == NothingTaken(short)
           Is(g, m) == g = [k \in 0..m |-> IF k = 0 THEN none ELSE After(g[k - 1], k)]
           B == {m \in 0..N : ~\E g : Is(g, m)}
<1> HIDE DEF After, none
<1>1. ASSUME B # {} PROVE FALSE
  <2>1. PICK m \in B : \A k \in B : m <= k
    <3>1. B \in SUBSET Nat
      OBVIOUS
    <3> HIDE DEF B
    <3> QED BY <1>1, <3>1, LeastNat
  <2>2. m \in 0..N /\ ~\E g : Is(g, m)
    OBVIOUS
  <2>3. CASE m = 0
    <3> DEFINE g == [n \in 0..0 |-> none]
    <3>1. Is(g, 0)
      OBVIOUS
    <3> HIDE DEF Is
    <3> QED BY <2>2, <2>3, <3>1
  <2>4. CASE m # 0
    <3>1. m - 1 \in 0..N /\ m - 1 \notin B
      <4>1. m - 1 \in 0..N /\ ~(m <= m - 1)
        BY <2>2, <2>4
      <4> HIDE DEF B
      <4> QED BY <2>1, <4>1
    <3>2. PICK g : Is(g, m - 1)
      BY <3>1
    <3> DEFINE h == [n \in 0..m |-> IF n = m THEN After(g[m - 1], m) ELSE g[n]]
    <3>3. \A n \in 0..(m - 1) : g[n] = IF n = 0 THEN none ELSE After(g[n - 1], n)
      <4> DEFINE F == [n \in 0..(m - 1) |-> IF n = 0 THEN none ELSE After(g[n - 1], n)]
      <4>1. g = F
        BY <3>2
      <4>2. \A n \in 0..(m - 1) : F[n] = IF n = 0 THEN none ELSE After(g[n - 1], n)
        OBVIOUS
      <4> HIDE DEF F
      <4> QED BY <4>1, <4>2
    <3>4. \A n \in 0..m : h[n] = IF n = 0 THEN none ELSE After(h[n - 1], n)
      <4> SUFFICES ASSUME NEW n \in 0..m
                   PROVE  h[n] = IF n = 0 THEN none ELSE After(h[n - 1], n)
        OBVIOUS
      <4>1. m \in Nat /\ n \in Nat
        BY <2>2
      <4>2. CASE n = m
        <5>1. m - 1 \in 0..m /\ m - 1 # m
          BY <2>4, <4>1
        <5>2. h[m - 1] = g[m - 1] /\ h[m] = After(g[m - 1], m)
          BY <4>2, <5>1
        <5> HIDE DEF h
        <5> QED BY <2>4, <4>2, <5>2
      <4>3. CASE n # m
        <5>1. n \in 0..(m - 1)
          BY <4>1, <4>3
        <5>2. h[n] = g[n] /\ (n # 0 => n - 1 \in 0..m /\ n - 1 # m)
          BY <4>1, <4>3
        <5>3. n # 0 => h[n - 1] = g[n - 1]
          BY <5>2
        <5> HIDE DEF h
        <5> QED BY <3>3, <5>1, <5>2, <5>3
      <4> QED BY <4>2, <4>3
    <3>5. h = [n \in 0..m |-> h[n]]
      OBVIOUS
    <3> HIDE DEF h
    <3>6. Is(h, m)
      BY <3>4, <3>5
    <3> QED BY <2>2, <3>6
  <2> QED BY <2>3, <2>4
<1>2. \E g : Is(g, N)
  BY <1>1
<1> QED BY <1>2 DEF Plans, After, none

\* The planner asks every strategy of its list through both adapters.
LEMMA AskedLength ==
  ASSUME NEW list, Len(list) \in Nat
  PROVE  /\ Len(Asked(list)) = 2 * Len(list) /\ Len(Asked(list)) \in Nat
         /\ \A k \in 1..(2 * Len(list)) :
              Asked(list)[k] = <<list[((k - 1) \div 2) + 1], Adapters[((k - 1) % 2) + 1]>>
<1> DEFINE n == Len(list)
           F == [k \in 1..(n * 2) |-> <<list[((k - 1) \div 2) + 1], Adapters[((k - 1) % 2) + 1]>>]
<1>1. Len(Adapters) = 2
  BY DEF Adapters
<1>2. Asked(list) = F
  BY <1>1 DEF Asked
<1> HIDE DEF n
<1>3. n * 2 = 2 * n /\ 2 * n \in Nat
  BY DEF n
<1>4. DOMAIN F = 1..(2 * n)
  BY <1>3
<1>5. F \in Seq({F[k] : k \in 1..(2 * n)})
  <2>1. F \in [1..(2 * n) -> {F[k] : k \in 1..(2 * n)}]
    BY <1>3
  <2> HIDE DEF F
  <2> QED BY <1>3, <2>1, SeqDef
<1>6. Len(F) = 2 * n
  <2>1. DOMAIN F = 1..Len(F) /\ Len(F) \in Nat
    BY <1>5, LenProperties
  <2> HIDE DEF F
  <2> QED BY <1>3, <1>4, <2>1
<1>7. \A k \in 1..(2 * n) : F[k] = <<list[((k - 1) \div 2) + 1], Adapters[((k - 1) % 2) + 1]>>
  BY <1>3
<1> HIDE DEF F
<1> QED BY <1>2, <1>3, <1>6, <1>7 DEF n

\* The plans after each entry asked; the last of them is the planner's.
IsPlanned(g, list, held, pool, short, skipped) ==
  /\ g[0] = NothingTaken(short)
  /\ \A k \in 1..(2 * Len(list)) :
       g[k] = Take(g[k - 1], Asked(list)[k], Disposable(Asked(list)[k], held, pool, skipped))
  /\ BuildRedeemPlan(list, held, pool, short, skipped) = g[2 * Len(list)]

\* There are such plans.
LEMMA PlanIsChain ==
  ASSUME NEW list, NEW held, NEW pool, NEW short, NEW skipped, Len(list) \in Nat
  PROVE  \E g : IsPlanned(g, list, held, pool, short, skipped)
<1> DEFINE asked == Asked(list)
           N == Len(asked)
           g == Plans(asked, held, pool, short, skipped, N)
           F == [k \in 0..N |-> IF k = 0 THEN NothingTaken(short)
                                ELSE Take(g[k - 1], asked[k], Disposable(asked[k], held, pool, skipped))]
<1>1. N = 2 * Len(list) /\ N \in Nat
  BY AskedLength
<1>2. BuildRedeemPlan(list, held, pool, short, skipped) = g[N]
  BY DEF BuildRedeemPlan, Plans, NothingTaken
<1>3. g = F
  <2> HIDE DEF asked, N
  <2> QED BY <1>1, PlansAreChain
<1>4. /\ F[0] = NothingTaken(short)
      /\ \A k \in 1..N : F[k] = Take(g[k - 1], asked[k], Disposable(asked[k], held, pool, skipped))
  <2> HIDE DEF g, asked, N
  <2> QED BY <1>1
<1> HIDE DEF F, g, N
<1>5. IsPlanned(g, list, held, pool, short, skipped)
  BY <1>1, <1>2, <1>3, <1>4 DEF IsPlanned
<1> QED BY <1>5

\* With nothing missing the planner takes nothing.
LEMMA NothingMissing ==
  ASSUME NEW list, NEW held, NEW pool, NEW short \in Int, NEW skipped, short <= 0,
         Len(list) \in Nat
  PROVE  BuildRedeemPlan(list, held, pool, short, skipped).redeems = <<>>
<1> DEFINE asked == Asked(list)
           N == 2 * Len(list)
           none == NothingTaken(short)
<1>0. PICK g : IsPlanned(g, list, held, pool, short, skipped)
  BY PlanIsChain
<1>1. /\ g[0] = none
      /\ \A k \in 1..N : g[k] = Take(g[k - 1], asked[k], Disposable(asked[k], held, pool, skipped))
      /\ BuildRedeemPlan(list, held, pool, short, skipped) = g[N]
  BY <1>0 DEF IsPlanned
<1>2. N \in Nat /\ none.short <= 0 /\ none.redeems = <<>>
  BY DEF NothingTaken
<1> HIDE DEF none, N, asked
<1> DEFINE B == {k \in 0..N : g[k] # none}
<1>3. B = {}
  <2> SUFFICES ASSUME B # {} PROVE FALSE
    OBVIOUS
  <2>1. PICK k \in B : \A m \in B : k <= m
    <3>1. B \in SUBSET Nat
      BY <1>2
    <3> HIDE DEF B
    <3> QED BY <3>1, LeastNat
  <2>2. k \in 1..N /\ k - 1 \in 0..N /\ ~(k <= k - 1)
    BY <1>1, <1>2
  <2>3. g[k - 1] = none /\ g[k] # none
    BY <2>1, <2>2
  <2> QED BY <1>1, <1>2, <2>2, <2>3 DEF Take
<1>4. g[N] = none
  BY <1>2, <1>3
<1> QED BY <1>1, <1>2, <1>4

\* A job that has started has the figures it was started with.
LEMMA StartedFacts ==
  ASSUME JobsOK, NEW c \in Clients, NEW j, Start(c, j), DOMAIN j = JobFields
  PROVE  /\ job'[c].kind = j.kind /\ job'[c].calm = j.calm /\ job'[c].todo = j.todo
         /\ job'[c].amount = j.amount /\ job'[c].shares = j.shares
         /\ job'[c].state = "running" /\ j.todo # <<>>
         /\ UNCHANGED <<vars, besideVars, screen>>
BY DEF Start, JobsOK, JobFields

\* A step of a job that is neither started nor dropped keeps its kind and its calm.
LEMMA AdvanceKeepsKind ==
  ASSUME DeskInv, NEW t \in Clients, Advance(t)
  PROVE  job'[t].kind = job[t].kind /\ job'[t].calm = job[t].calm
<1>1. JobsOK /\ Running(t) /\ DOMAIN job = Clients
  BY DEF DeskInv, JobsOK, Advance
<1>2. CASE OwnStep(t)
  <2>1. PICK j : /\ j.kind = job[t].kind /\ j.calm = job[t].calm
                 /\ job' = [job EXCEPT ![t] = j]
    BY <1>2 DEF OwnStep, Follows
  <2> QED BY <1>1, <2>1
<1>3. CASE Sent(t)
  <2>1. job'[t] = Continue(t, <<>>)
    BY <1>1, <1>3 DEF Sent, Landed, OnClient
  <2>2. Continue(t, <<>>).kind = job[t].kind /\ Continue(t, <<>>).calm = job[t].calm
    BY <1>1, EmptySeq, ContinueFacts
  <2> QED BY <2>1, <2>2
<1>4. CASE BrokenOff(t, Refused(t))
  <2>1. job'[t] = Refused(t)
    BY <1>1, <1>4 DEF BrokenOff, BreaksOff
  <2> QED BY <1>1, <2>1, RefusedFacts
<1> QED BY <1>1, <1>2, <1>3, <1>4, AdvanceMoves

\* The lists of steps, taken apart.
LEMMA Rests ==
  /\ Head(Rest5) = <<"supply", 0>> /\ Tail(Rest5) = Rest4
  /\ Head(Rest4) = <<"reserve", 0>> /\ Tail(Rest4) = Rest3
  /\ Head(Rest3) = <<"accounts", 0>> /\ Tail(Rest3) = Rest2
  /\ Head(Rest2) = <<"positions", 0>> /\ Tail(Rest2) = Rest1
  /\ Head(Rest1) = <<"withdraw", 0>> /\ Tail(Rest1) = <<>>
  /\ Rest4 # <<>> /\ Rest3 # <<>> /\ Rest2 # <<>> /\ Rest1 # <<>>
BY DEF Rest5, Rest4, Rest3, Rest2, Rest1

\* After a read the job goes on with the next step.
LEMMA ReadOn ==
  ASSUME JobsOK, NEW t \in Clients, Running(t), job[t].kind = "withdraw",
         NEW rest \in {Rest4, Rest3, Rest2, Rest1}, Tail(job[t].todo) = rest
  PROVE  LET j == Continue(t, <<>>)
         IN  /\ DOMAIN j = JobFields /\ j.todo = rest /\ j.state = "running"
             /\ j.amount = job[t].amount /\ j.shares = job[t].shares
             /\ j.unseen = job[t].unseen
<1>1. job[t].todo \in Seq(StepsOf(job[t].kind)) /\ job[t].todo # <<>>
  BY DEF JobsOK, JobFor, JobOK, Running
<1>2. Tail(job[t].todo) \in Seq(StepsOf(job[t].kind))
  BY <1>1, HeadTailProperties
<1>3. <<>> \o Tail(job[t].todo) = rest
  BY <1>2, ConcatEmptySeq
<1>4. rest # <<>>
  BY Rests
<1> DEFINE j == Continue(t, <<>>)
<1>5. <<>> \in Seq(StepsOf(job[t].kind))
  BY EmptySeq
<1>6. /\ JobFor(t, j) /\ j.todo = <<>> \o Tail(job[t].todo)
      /\ j.state = IF j.todo = <<>> THEN "done" ELSE "running"
      /\ j.amount = job[t].amount /\ j.shares = job[t].shares /\ j.unseen = job[t].unseen
  BY <1>5, ContinueFacts
<1> HIDE DEF j
<1>7. DOMAIN j = JobFields
  BY <1>6 DEF JobFor, JobOK
<1>8. j.todo = rest /\ j.state = "running"
  BY <1>3, <1>4, <1>6
<1> QED BY <1>6, <1>7, <1>8 DEF j

\* The reads of a withdrawal see one state of the vault and come to the amount
\* its transaction will be short of; it is sent and refused accordingly.
LEMMA WithdrawalAdvances ==
  ASSUME DeskInv, NEW t \in Tabs, WithdrawalOK(t), Advance(t),
         job[t].kind = "withdraw", job[t].calm
  PROVE  WithdrawalOK(t)'
<1>1. /\ t \in Clients /\ JobsOK /\ Running(t) /\ DOMAIN job = Clients /\ JobOK(job[t])
      /\ Agreed(t) /\ Uncovered(t) /\ Inv /\ TypeOK
  BY DeskConstants DEF DeskInv, JobsOK, JobFor, Advance, WithdrawalOK, Inv
<1> DEFINE op == Head(job[t].todo)[1]
           j == Continue(t, <<>>)
<1>2. /\ op = "supply" => ReadSupply(t)
      /\ op = "reserve" => ReadReserve(t)
      /\ op = "accounts" => ReadAccounts(t)
      /\ op = "positions" => ReadPositions(t)
      /\ op = "withdraw" => SendWithdraw(t)
  BY DEF Advance
<1>3. ASSUME NEW k, job' = [job EXCEPT ![t] = k], UNCHANGED <<vars, besideVars, screen>>,
             k.state = "running", k.shares = job[t].shares,
             \/ k.todo = Rest4 /\ k.amount = Owed(t)
             \/ k.todo = Rest3 /\ k.amount = Owed(t) - reserve
             \/ k.todo = Rest2 /\ Short(t, k)
             \/ k.todo = Rest1 /\ Short(t, k) /\ k.redeems = PlanOf(t, k)
      PROVE  WithdrawalOK(t)'
  <2>1. job'[t] = k
    BY <1>1, <1>3
  <2>2. /\ supply' = supply /\ totalDeposited' = totalDeposited /\ ata' = ata
        /\ allocated' = allocated /\ performanceFee' = performanceFee
        /\ protocolFee' = protocolFee /\ shares' = shares /\ reserve' = reserve
        /\ screen' = screen /\ position' = position /\ market' = market
    BY <1>3 DEF vars, tokenVars, shareVars, configVars, besideVars
  <2>3. Owed(t)' = Owed(t) /\ ShownActive(t)' = ShownActive(t) /\ Listed(t)' = Listed(t)
    BY <1>3, <2>1, <2>2 DEF Owed, ShownActive, Listed, Over, Total
  <2>4. Agreed(t)'
    BY <1>1, <1>3, <2>1, <2>2, <2>3 DEF Agreed
  <2>5. Uncovered(t)'
    <3>1. (Short(t, k) => Short(t, job[t])') /\ PlanOf(t, job[t])' = PlanOf(t, k)
      BY <2>1, <2>2, <2>3 DEF Short, PlanOf
    <3> QED BY <1>3, <2>1, <2>2, <2>3, <3>1 DEF Uncovered
  <2>6. Running(t)'
    BY <1>3, <2>1 DEF Running
  <2> QED BY <2>4, <2>5, <2>6 DEF WithdrawalOK
<1>4. CASE job[t].todo = Rest5
  <2> DEFINE k == [j EXCEPT !.amount = Owed(t)]
  <2>1. op = "supply" /\ Tail(job[t].todo) = Rest4
    BY <1>4, Rests
  <2>2. Read(t, k)
    BY <1>1, <1>2, <2>1 DEF ReadSupply, Owed, Agreed
  <2>3. DOMAIN j = JobFields /\ j.todo = Rest4 /\ j.state = "running" /\ j.shares = job[t].shares
    BY <1>1, <2>1, ReadOn
  <2> HIDE DEF j
  <2>4. k.todo = Rest4 /\ k.state = "running" /\ k.shares = job[t].shares /\ k.amount = Owed(t)
    BY <2>3 DEF JobFields
  <2> HIDE DEF k
  <2> QED BY <1>3, <2>2, <2>4 DEF Read
<1>5. CASE job[t].todo = Rest4 /\ job[t].amount = Owed(t)
  <2> DEFINE k == [j EXCEPT !.amount = j.amount - reserve]
  <2>1. op = "reserve" /\ Tail(job[t].todo) = Rest3
    BY <1>5, Rests
  <2>2. Read(t, k)
    BY <1>1, <1>2, <2>1 DEF ReadReserve
  <2>3. /\ DOMAIN j = JobFields /\ j.todo = Rest3 /\ j.state = "running"
        /\ j.shares = job[t].shares /\ j.amount = job[t].amount
    BY <1>1, <2>1, ReadOn
  <2> HIDE DEF j
  <2>4. /\ k.todo = Rest3 /\ k.state = "running" /\ k.shares = job[t].shares
        /\ k.amount = Owed(t) - reserve
    BY <1>5, <2>3 DEF JobFields
  <2> HIDE DEF k
  <2> QED BY <1>3, <2>2, <2>4 DEF Read
<1>6. CASE job[t].todo = Rest3 /\ job[t].amount = Owed(t) - reserve
  <2>1. op = "accounts" /\ Tail(job[t].todo) = Rest2
    BY <1>6, Rests
  <2>0. PICK failed \in SUBSET ShownActive(t) :
          Read(t, [j EXCEPT !.amount = @ - Reachable(t, failed), !.unseen = Over(ata, failed)])
    BY <1>1, <1>2, <2>1 DEF ReadAccounts
  <2> DEFINE seen == Reachable(t, failed)
             unseen == Over(ata, failed)
             k == [j EXCEPT !.amount = j.amount - seen, !.unseen = unseen]
  <2>2. Read(t, k)
    BY <2>0
  <2>3. /\ DOMAIN j = JobFields /\ j.todo = Rest2 /\ j.state = "running"
        /\ j.shares = job[t].shares /\ j.amount = job[t].amount
    BY <1>1, <2>1, ReadOn
  <2> HIDE DEF j
  <2>5. seen \in Nat /\ unseen \in Nat /\ Listed(t) = seen + unseen
    <3>1. ata \in [Strategies -> Nat] /\ ShownActive(t) \in SUBSET Strategies
      BY <1>1 DEF TypeOK, ShownActive
    <3> QED BY <3>1, OverType, OverSplits DEF Listed, Reachable
  <2>6. Owed(t) \in Int /\ reserve \in Int
    BY <1>1, OwedType DEF TypeOK
  <2> HIDE DEF seen, unseen
  <2>4. /\ k.todo = Rest2 /\ k.state = "running" /\ k.shares = job[t].shares
        /\ k.amount = Owed(t) - reserve - seen /\ k.unseen = unseen
    BY <1>6, <2>3 DEF JobFields
  <2> HIDE DEF k
  <2>7. Short(t, k)
    BY <2>4, <2>5, <2>6 DEF Short
  <2> QED BY <1>3, <2>2, <2>4, <2>7 DEF Read
<1>7. CASE job[t].todo = Rest2 /\ Short(t, job[t])
  <2>1. op = "positions" /\ Tail(job[t].todo) = Rest1
    BY <1>7, Rests
  <2>0. PICK skipped \in SUBSET Giving(t) :
          Read(t, [j EXCEPT !.redeems = BuildRedeemPlan(ById(ShownActive(t)), position, market,
                                                        job[t].amount, skipped).redeems,
                            !.skipped = skipped])
    BY <1>1, <1>2, <2>1 DEF ReadPositions
  <2> DEFINE plan == BuildRedeemPlan(ById(ShownActive(t)), position, market,
                                     job[t].amount, skipped).redeems
             k == [j EXCEPT !.redeems = plan, !.skipped = skipped]
  <2>2. Read(t, k)
    BY <2>0
  <2>3. /\ DOMAIN j = JobFields /\ j.todo = Rest1 /\ j.state = "running"
        /\ j.shares = job[t].shares /\ j.amount = job[t].amount /\ j.unseen = job[t].unseen
    BY <1>1, <2>1, ReadOn
  <2> HIDE DEF j, plan
  <2>4. /\ k.todo = Rest1 /\ k.state = "running" /\ k.shares = job[t].shares
        /\ k.amount = job[t].amount /\ k.unseen = job[t].unseen
        /\ k.redeems = plan /\ k.skipped = skipped
    BY <2>3 DEF JobFields
  <2> HIDE DEF k
  <2>5. k.redeems = PlanOf(t, k)
    BY <2>4 DEF plan, PlanOf
  <2>6. Short(t, k)
    BY <1>7, <2>4 DEF Short
  <2> QED BY <1>3, <2>2, <2>4, <2>5, <2>6 DEF Read
<1>8. CASE job[t].todo = Rest1 /\ Short(t, job[t]) /\ job[t].redeems = PlanOf(t, job[t])
  <2> DEFINE owed == Owed(t)
             S == ShownActive(t)
             pull == PulledInOrder(S, Shortfall(owed))
             may == job[t].redeems = <<>> /\ MayWithdraw(Holder, job[t].shares, pull)
  <2>1. op = "withdraw" /\ Tail(job[t].todo) = <<>>
    BY <1>8, Rests
  <2>2. owed \in Nat /\ S \in SUBSET Strategies /\ \A s \in S : ata[s] <= allocated[s]
    BY <1>1, OwedType DEF ShownActive, Agreed
  <2>3. AutoPull(owed, pull) <=> job[t].amount <= job[t].unseen
    <3> HIDE DEF S, owed
    <3>1. AutoPull(owed, pull) <=> owed - reserve - Over(ata, S) <= 0
      BY <1>1, <2>2, CoveredIsPulled
    <3>2. job[t].amount - job[t].unseen = owed - reserve - Over(ata, S)
          /\ job[t].amount \in Int /\ job[t].unseen \in Int
      BY <1>8 DEF S, owed, Listed, Short
    <3> QED BY <3>1, <3>2
  <2>4. job[t].amount <= 0 => job[t].redeems = <<>>
    <3>1. Len(ById(S)) \in Nat
      BY <2>2, ByIdFacts, LenProperties
    <3> QED BY <1>1, <1>8, <3>1, NothingMissing DEF JobOK, PlanOf
  <2>5. may <=> job[t].redeems = <<>> /\ job[t].amount <= job[t].unseen
    <3>1. MayWithdraw(Holder, job[t].shares, pull) <=> AutoPull(owed, pull)
      BY <1>1 DEF MayWithdraw, Agreed, Owed, JobOK
    <3> QED BY <2>3, <3>1
  <2>6. \/ may /\ OnClient(t, Continue(t, <<>>), job[t].kind = "crank" /\ faucet = "payer")
        \/ ~may /\ BreaksOff(t, Refused(t))
    BY <1>2, <2>1 DEF SendWithdraw, Send, Owed, Landed
  <2> HIDE DEF may
  <2>7. \/ may /\ job'[t] = Continue(t, <<>>)
        \/ ~may /\ job'[t] = Refused(t)
    BY <1>1, <2>6 DEF OnClient, BreaksOff
  <2> DEFINE Same(k) == /\ k.amount = job[t].amount /\ k.redeems = job[t].redeems
                        /\ k.unseen = job[t].unseen
  <2>8. /\ Continue(t, <<>>).state = "done" /\ Same(Continue(t, <<>>))
        /\ Refused(t).state = "refused" /\ Same(Refused(t))
    <3>1. <<>> \o Tail(job[t].todo) = <<>>
      BY <2>1, EmptySeq, ConcatEmptySeq
    <3>2. Continue(t, <<>>).state = "done" /\ Same(Continue(t, <<>>))
      BY <1>1, <3>1, EmptySeq, ContinueFacts
    <3>3. Refused(t).state = "refused" /\ Same(Refused(t))
      BY <1>1, RefusedFacts
    <3> QED BY <3>2, <3>3
  <2>9. ~Running(t)' /\ Settled(job'[t])
    <3>1. ASSUME NEW k, job'[t] = k, Same(k), k.state \in {"done", "refused"},
                 k.state = "done" <=> may
          PROVE  ~Running(t)' /\ Settled(job'[t])
      BY <2>4, <2>5, <3>1 DEF Running, Settled
    <3> HIDE DEF Same
    <3> QED BY <2>7, <2>8, <3>1
  <2> QED BY <2>9 DEF WithdrawalOK
<1> QED BY <1>1, <1>4, <1>5, <1>6, <1>7, <1>8 DEF Uncovered

\* While the page is still, what it knows stays true.
LEMMA WithdrawalStill ==
  ASSUME NEW t \in Tabs, WithdrawalOK(t), Still(t)
  PROVE  WithdrawalOK(t)'
<1>1. job'[t] = job[t] /\ (Running(t)' <=> Running(t))
  BY DEF Still, Running
<1> SUFFICES ASSUME job[t].kind = "withdraw", job[t].calm, Running(t)
             PROVE  Agreed(t)' /\ Uncovered(t)'
  BY <1>1 DEF WithdrawalOK
<1>2. /\ supply' = supply /\ totalDeposited' = totalDeposited /\ ata' = ata
      /\ allocated' = allocated /\ performanceFee' = performanceFee
      /\ protocolFee' = protocolFee /\ shares' = shares /\ reserve' = reserve
      /\ screen'[t] = screen[t] /\ position' = position /\ market' = market
  BY DEF Still, vars, tokenVars, shareVars, configVars
<1>3. Agreed(t) /\ Uncovered(t)
  BY DEF WithdrawalOK
<1>4. Owed(t)' = Owed(t) /\ ShownActive(t)' = ShownActive(t)
  BY <1>1, <1>2 DEF Owed, ShownActive
<1>5. Listed(t)' = Listed(t)
  BY <1>2, <1>4 DEF Listed, Over, Total
<1>6. Agreed(t)'
  BY <1>1, <1>2, <1>3, <1>4 DEF Agreed
<1>7. Uncovered(t)'
  <2>1. (Short(t, job[t]) => Short(t, job[t])') /\ PlanOf(t, job[t])' = PlanOf(t, job[t])
    BY <1>1, <1>2, <1>4, <1>5 DEF Short, PlanOf
  <2> QED BY <1>1, <1>2, <1>3, <1>4, <1>5, <2>1 DEF Uncovered
<1> QED BY <1>6, <1>7

\* A withdrawal starts from the figures of the page.
LEMMA WithdrawalStarts ==
  ASSUME DeskInv, NEW t \in Tabs, NEW n \in 1..shares[Holder], StartWithdraw(t, n)
  PROVE  WithdrawalOK(t)'
<1> DEFINE j == [Idle EXCEPT
                   !.kind = "withdraw", !.shares = n, !.calm = WithdrawCalm(t, n),
                   !.todo = <<<<"supply", 0>>, <<"reserve", 0>>, <<"accounts", 0>>,
                              <<"positions", 0>>, <<"withdraw", 0>>>>]
<1>1. Start(t, j)
  BY DEF StartWithdraw
<1>2. /\ DOMAIN j = JobFields /\ j.todo = Rest5 /\ j.shares = n
      /\ (j.calm <=> WithdrawCalm(t, n))
  BY DEF Idle, JobFields, Rest5
<1>3. t \in Clients /\ JobsOK
  BY DeskConstants DEF DeskInv
<1> HIDE DEF j
<1>4. /\ job'[t].calm = j.calm /\ job'[t].todo = j.todo /\ job'[t].shares = j.shares
      /\ job'[t].state = "running" /\ UNCHANGED <<vars, besideVars, screen>>
  BY <1>1, <1>2, <1>3, StartedFacts
<1> SUFFICES ASSUME WithdrawCalm(t, n)
             PROVE  Agreed(t)' /\ Uncovered(t)' /\ Running(t)'
  BY <1>2, <1>4 DEF WithdrawalOK
<1>5. /\ supply' = supply /\ totalDeposited' = totalDeposited /\ ata' = ata
      /\ allocated' = allocated /\ performanceFee' = performanceFee
      /\ protocolFee' = protocolFee /\ shares' = shares /\ screen' = screen
  BY <1>4 DEF vars, tokenVars, shareVars, configVars
<1>6. Agreed(t)'
  BY <1>2, <1>4, <1>5 DEF Agreed, WithdrawCalm, Owed, ShownActive
<1>7. Uncovered(t)' /\ Running(t)'
  BY <1>2, <1>4 DEF Uncovered, Running
<1> QED BY <1>6, <1>7

\* Every step of the whole keeps what is known of a withdrawal.
LEMMA WithdrawalStep ==
  ASSUME DeskInv, [DeskNext]_deskVars, NEW t \in Tabs, WithdrawalOK(t)
  PROVE  WithdrawalOK(t)'
<1>1. CASE Upset(t)
  BY <1>1 DEF Upset, WithdrawalOK
<1>2. CASE StartRebalance(t)
  <2> DEFINE j == [Idle EXCEPT !.kind = "rebalance", !.calm = RebalanceCalm(t),
                               !.todo = Each("rebalance", DeallocationsFirst(t))]
  <2>1. Start(t, j)
    BY <1>2 DEF StartRebalance
  <2>2. DOMAIN j = JobFields /\ j.kind = "rebalance"
    BY DEF Idle, JobFields
  <2>3. t \in Clients /\ JobsOK
    BY DeskConstants DEF DeskInv
  <2> HIDE DEF j
  <2>4. job'[t].kind = "rebalance"
    BY <2>1, <2>2, <2>3, StartedFacts
  <2> QED BY <2>4 DEF WithdrawalOK
<1>3. CASE Advance(t)
  <2>1. job'[t].kind = job[t].kind /\ job'[t].calm = job[t].calm
    BY <1>3, AdvanceKeepsKind, DeskConstants
  <2>2. CASE job[t].kind = "withdraw" /\ job[t].calm
    BY <1>3, <2>2, WithdrawalAdvances
  <2>3. CASE ~(job[t].kind = "withdraw" /\ job[t].calm)
    BY <2>1, <2>3 DEF WithdrawalOK
  <2> QED BY <2>2, <2>3
<1> QED BY <1>1, <1>2, <1>3, WithdrawalStill, WithdrawalStarts, PageCases

\* What is known of every withdrawal.
LEMMA WithdrawalsFollowed == DeskSpec => [](\A t \in Tabs : WithdrawalOK(t))
<1>1. DeskInit => \A t \in Tabs : WithdrawalOK(t)
  <2> SUFFICES ASSUME DeskInit, NEW t \in Tabs PROVE WithdrawalOK(t)
    OBVIOUS
  <2>1. job[t] = Idle
    BY DeskConstants DEF DeskInit
  <2> QED BY <2>1 DEF Idle, WithdrawalOK
<1>2. ASSUME DeskInv, [DeskNext]_deskVars, \A t \in Tabs : WithdrawalOK(t)
      PROVE  \A t \in Tabs : WithdrawalOK(t)'
  BY <1>2, WithdrawalStep
<1>3. DeskInv /\ (\A t \in Tabs : WithdrawalOK(t)) /\ [DeskNext]_deskVars
        => (\A t \in Tabs : WithdrawalOK(t))'
  BY <1>2
<1> QED BY <1>1, <1>3, DeskInvariant, PTL DEF DeskSpec

\* A withdrawal nobody came between goes through exactly if the plan needs no
\* lending protocol and the reserve and the listed token accounts cover it, whatever
\* the number of strategies, the positions and the market, and whichever balances
\* and positions the page failed to read: its reads, with what it did not see, add
\* up to the program's own figures, and its list of accounts drains them without a
\* loss.
THEOREM WithdrawalsGoThroughIffCovered == DeskSpec => []WithdrawIffCovered
<1>1. (\A t \in Tabs : WithdrawalOK(t)) => WithdrawIffCovered
  BY DEF WithdrawalOK, WithdrawIffCovered, Ended, Settled
<1> QED BY <1>1, WithdrawalsFollowed, PTL

-----------------------------------------------------------------------------
(***************************************************************************)
(* What the planner comes to.                                              *)
(***************************************************************************)
Redemptions(there) == [of : there, amount : Nat]
Redeemed(redeems) ==
  SumFunctionOnSet([i \in DOMAIN redeems |-> redeems[i].amount], DOMAIN redeems)
\* All that the entries of A have to give.
Offered(give, there, A) ==
  SumFunctionOnSet([e \in there |-> IF e \in A THEN give[e] ELSE 0], there)

\* A plan once the entries of A have been asked.
ExactFor(plan, give, there, A, short) ==
  /\ plan.redeems \in Seq(Redemptions(there))
  /\ Redeemed(plan.redeems) = IF short <= 0 THEN 0
                              ELSE IF short <= Offered(give, there, A) THEN short
                              ELSE Offered(give, there, A)
  /\ plan.short = short - Redeemed(plan.redeems)
  /\ \A i \in 1..Len(plan.redeems) :
       /\ plan.redeems[i].of \in A
       /\ plan.redeems[i].amount \in 1..give[plan.redeems[i].of]
  /\ \A i, k \in 1..Len(plan.redeems) : plan.redeems[i].of = plan.redeems[k].of => i = k

\* What a list redeems is a number, and one more redemption adds its amount.
LEMMA RedeemedSteps ==
  ASSUME NEW there, NEW redeems \in Seq(Redemptions(there)),
         NEW r \in Redemptions(there)
  PROVE  /\ Redeemed(redeems) \in Nat
         /\ Redeemed(Append(redeems, r)) = Redeemed(redeems) + r.amount
<1> DEFINE n == Len(redeems)
           more == Append(redeems, r)
           f == [i \in 1..(n + 1) |-> more[i].amount]
           g == [i \in 1..n |-> redeems[i].amount]
<1>1. /\ n \in Nat /\ DOMAIN redeems = 1..n /\ \A i \in 1..n : redeems[i] \in Redemptions(there)
      /\ more \in Seq(Redemptions(there)) /\ Len(more) = n + 1 /\ more[n + 1] = r
      /\ \A i \in 1..n : more[i] = redeems[i]
  BY LenProperties, ElementOfSeq, AppendProperties
<1>2. DOMAIN more = 1..(n + 1)
  BY <1>1, LenProperties
<1> HIDE DEF n, more
<1>3. r.amount \in Nat /\ \A i \in 1..n : redeems[i].amount \in Nat
  BY <1>1 DEF Redemptions
<1>4. g \in [1..n -> Nat] /\ IsFiniteSet(1..n) /\ IsFiniteSet(1..(n + 1))
  BY <1>1, <1>3, FS_Interval
<1>5. f \in [1..(n + 1) -> Nat]
  <2>1. \A i \in 1..(n + 1) : more[i].amount \in Nat
    BY <1>1, <1>3
  <2> QED BY <2>1
<1>6. Redeemed(redeems) = SumFunctionOnSet(g, 1..n)
  BY <1>1 DEF Redeemed
<1>7. Redeemed(more) = SumFunctionOnSet(f, 1..(n + 1))
  BY <1>2 DEF Redeemed
<1>8. SumFunctionOnSet(f, 1..(n + 1)) = r.amount + SumFunctionOnSet(g, 1..n)
  <2> DEFINE S == 1..(n + 1)
             x == n + 1
             h == [i \in S \ {x} |-> f[i]]
  <2>1. x \in S /\ S \ {x} = 1..n /\ f[x] = r.amount
    BY <1>1
  <2>2. h = g
    <3>1. \A i \in 1..n : f[i] = redeems[i].amount
      BY <1>1
    <3> HIDE DEF f, S, x
    <3> QED BY <2>1, <3>1
  <2> HIDE DEF f, g, S, x
  <2>3. SumFunctionOnSet(f, S) = f[x] + SumFunctionOnSet(h, S \ {x})
    BY <1>4, <1>5, <2>1, SumSplit DEF S
  <2> QED BY <2>1, <2>2, <2>3 DEF S
<1>9. SumFunctionOnSet(g, 1..n) \in Nat
  <2> HIDE DEF g
  <2> QED BY <1>4, SumType
<1> HIDE DEF f, g
<1>10. Redeemed(more) = Redeemed(redeems) + r.amount
  BY <1>3, <1>6, <1>7, <1>8, <1>9
<1> QED BY <1>6, <1>9, <1>10 DEF more

\* What is offered is a number: nothing by nobody, and one more entry adds what
\* it has to give.
LEMMA OfferedSteps ==
  ASSUME NEW there, IsFiniteSet(there), NEW give \in [there -> Nat],
         NEW A \in SUBSET there, NEW e \in there \ A
  PROVE  /\ Offered(give, there, A) \in Nat
         /\ Offered(give, there, A \cup {e}) = Offered(give, there, A) + give[e]
<1> DEFINE f == [x \in there |-> IF x \in A THEN give[x] ELSE 0]
           B == A \cup {e}
           g == [x \in there |-> IF x \in B THEN give[x] ELSE 0]
<1>1. f \in [there -> Nat] /\ g \in [there -> Nat] /\ e \in there
  OBVIOUS
<1>2. (\A x \in there \ {e} : g[x] = f[x]) /\ f[e] = 0 /\ g[e] = give[e] /\ give[e] \in Nat
  OBVIOUS
<1>3. Offered(give, there, A) = SumFunctionOnSet(f, there)
  BY DEF Offered
<1>4. Offered(give, there, B) = SumFunctionOnSet(g, there)
  BY DEF Offered
<1> HIDE DEF f, g, B
<1>5. SumFunctionOnSet(g, there) = SumFunctionOnSet(f, there) - f[e] + g[e]
  BY <1>1, <1>2, SumUpdate
<1>6. SumFunctionOnSet(f, there) \in Nat
  BY <1>1, SumType
<1> QED BY <1>2, <1>3, <1>4, <1>5, <1>6 DEF B

\* Before anybody is asked nothing is taken.
LEMMA NothingIsExact ==
  ASSUME NEW there, IsFiniteSet(there), NEW give \in [there -> Nat], NEW short \in Int
  PROVE  ExactFor(NothingTaken(short), give, there, {}, short)
<1> DEFINE none == NothingTaken(short)
           f == [i \in {} |-> <<>>[i].amount]
           g == [e \in there |-> IF e \in {} THEN give[e] ELSE 0]
<1>1. none.short = short /\ none.redeems = <<>> /\ <<>> \in Seq(Redemptions(there))
  BY DEF NothingTaken
<1>2. Redeemed(<<>>) = 0
  <2>1. DOMAIN <<>> = {}
    BY EmptySeq
  <2>2. f \in [{} -> Nat] /\ IsFiniteSet({}) /\ \A i \in {} : f[i] = 0
    BY FS_EmptySet
  <2>3. Redeemed(<<>>) = SumFunctionOnSet(f, {})
    BY <2>1 DEF Redeemed
  <2> HIDE DEF f
  <2> QED BY <2>2, <2>3, SumZero
<1>3. Offered(give, there, {}) = 0
  <2>1. g \in [there -> Nat] /\ \A e \in there : g[e] = 0
    OBVIOUS
  <2>2. Offered(give, there, {}) = SumFunctionOnSet(g, there)
    BY DEF Offered
  <2> HIDE DEF g
  <2> QED BY <2>1, <2>2, SumZero
<1> HIDE DEF none
<1>4. Len(<<>>) = 0
  BY EmptySeq
<1> QED BY <1>1, <1>2, <1>3, <1>4 DEF ExactFor, none

\* Asking one more entry takes what it has to give or what is still missing.
LEMMA TakeIsExact ==
  ASSUME NEW there, IsFiniteSet(there), NEW give \in [there -> Nat],
         NEW A \in SUBSET there, NEW e \in there \ A, NEW short \in Int,
         NEW plan, ExactFor(plan, give, there, A, short)
  PROVE  ExactFor(Take(plan, e, give[e]), give, there, A \cup {e}, short)
<1> DEFINE list == plan.redeems
           sum == Redeemed(list)
           have == Offered(give, there, A)
           g == give[e]
           n == Len(list)
           B == A \cup {e}
           more == Offered(give, there, B)
<1>1. have \in Nat /\ more = have + g /\ g \in Nat
  BY OfferedSteps
<1>2. /\ list \in Seq(Redemptions(there))
      /\ sum = IF short <= 0 THEN 0 ELSE IF short <= have THEN short ELSE have
      /\ plan.short = short - sum
      /\ \A i \in 1..n : list[i].of \in A /\ list[i].amount \in 1..give[list[i].of]
      /\ \A i, k \in 1..n : list[i].of = list[k].of => i = k
  BY DEF ExactFor
<1>3. n \in Nat
  BY <1>2, LenProperties
<1>4. CASE plan.short <= 0 \/ g <= 0
  <2>1. Take(plan, e, g) = plan
    BY <1>4 DEF Take
  <2> HIDE DEF have, g, n, sum, more
  <2>2. sum = IF short <= 0 THEN 0 ELSE IF short <= more THEN short ELSE more
    BY <1>1, <1>2, <1>4
  <2>3. \A i \in 1..n : list[i].of \in B
    BY <1>2
  <2>4. ExactFor(plan, give, there, B, short)
    BY <1>2, <2>2, <2>3 DEF ExactFor, sum, n, more
  <2> QED BY <2>1, <2>4 DEF g
<1>5. CASE plan.short > 0 /\ g > 0
  <2> DEFINE a == Min({g, plan.short})
             r == [of |-> e, amount |-> a]
             next == Take(plan, e, g)
             longer == Append(list, r)
  <2>1. plan.short \in Int
    <3> HIDE DEF have, g, n, sum, more
    <3> QED BY <1>1, <1>2
  <2>2. a = IF g <= plan.short THEN g ELSE plan.short
    <3> HIDE DEF g
    <3> QED BY <1>1, <2>1, MinOfTwo
  <2>3. next = [short |-> plan.short - a, redeems |-> longer]
    <3>1. ~(plan.short <= 0 \/ g <= 0)
      <4> HIDE DEF g
      <4> QED BY <1>1, <1>5, <2>1
    <3> QED BY <3>1 DEF Take
  <2> HIDE DEF a
  <2>4. a \in Nat /\ a > 0 /\ a <= g
    <3> HIDE DEF g
    <3> QED BY <1>1, <1>5, <2>1, <2>2
  <2>5. r \in Redemptions(there) /\ r.amount = a /\ r.of = e
    BY <2>4 DEF Redemptions
  <2>6. next.short = plan.short - a /\ next.redeems = longer
    BY <2>3
  <2> HIDE DEF r, next
  <2>7. /\ longer \in Seq(Redemptions(there)) /\ Len(longer) = n + 1 /\ longer[n + 1] = r
        /\ \A i \in 1..n : longer[i] = list[i]
    BY <1>2, <2>5, AppendProperties
  <2>8. Redeemed(longer) = sum + a
    BY <1>2, <2>5, RedeemedSteps
  <2> HIDE DEF longer, list
  <2>9. Redeemed(longer) = IF short <= 0 THEN 0 ELSE IF short <= more THEN short ELSE more
    <3> HIDE DEF have, g, n, sum, more
    <3> QED BY <1>1, <1>2, <1>5, <2>2, <2>4, <2>8
  <2>10. next.short = short - Redeemed(longer)
    <3>1. sum \in Int
      <4> HIDE DEF have, sum
      <4> QED BY <1>1, <1>2
    <3> HIDE DEF sum
    <3> QED BY <1>2, <2>4, <2>6, <2>8, <3>1
  <2>11. \A i \in 1..(n + 1) : longer[i].of \in B /\ longer[i].amount \in 1..give[longer[i].of]
    <3> SUFFICES ASSUME NEW i \in 1..(n + 1)
                 PROVE  longer[i].of \in B /\ longer[i].amount \in 1..give[longer[i].of]
      OBVIOUS
    <3>1. CASE i = n + 1
      BY <2>4, <2>5, <2>7, <3>1
    <3>2. CASE i # n + 1
      <4>1. i \in 1..n
        BY <1>3, <3>2
      <4> QED BY <1>2, <2>7, <4>1
    <3> QED BY <3>1, <3>2
  <2>12. \A i, k \in 1..(n + 1) : longer[i].of = longer[k].of => i = k
    <3> SUFFICES ASSUME NEW i \in 1..(n + 1), NEW k \in 1..(n + 1),
                        longer[i].of = longer[k].of
                 PROVE  i = k
      OBVIOUS
    <3>1. \A x \in 1..n : longer[x].of \in A
      BY <1>2, <2>7
    <3>2. longer[n + 1].of \notin A
      BY <2>5, <2>7
    <3>3. (i = n + 1 \/ i \in 1..n) /\ (k = n + 1 \/ k \in 1..n)
      BY <1>3
    <3> QED BY <1>2, <2>7, <3>1, <3>2, <3>3
  <2> HIDE DEF n, sum, more
  <2>13. ExactFor(next, give, there, B, short)
    BY <2>6, <2>7, <2>9, <2>10, <2>11, <2>12 DEF ExactFor, more
  <2> QED BY <2>13 DEF next
<1>6. plan.short <= 0 \/ g <= 0 \/ (plan.short > 0 /\ g > 0)
  <2>1. plan.short \in Int
    <3> HIDE DEF have, g, n, sum, more
    <3> QED BY <1>1, <1>2
  <2> HIDE DEF g
  <2> QED BY <1>1, <2>1
<1> QED BY <1>4, <1>5, <1>6

\* Two adapters.
LEMMA BothAdapters ==
  /\ IsFiniteSet(ToSet(Adapters)) /\ Adapters[1] # Adapters[2]
  /\ Adapters[1] \in ToSet(Adapters) /\ Adapters[2] \in ToSet(Adapters)
  /\ \A a \in ToSet(Adapters) : \E i \in {1, 2} : Adapters[i] = a
<1>1. Adapters[1] = "kamino" /\ Adapters[2] = "lulo"
  BY DEF Adapters
<1> DEFINE one == {} \cup {"kamino"}
           both == one \cup {"lulo"}
<1>2. both = ToSet(Adapters)
  BY AdaptersAre
<1>3. IsFiniteSet(one)
  BY FS_EmptySet, FS_AddElement
<1> HIDE DEF one
<1>4. IsFiniteSet(both)
  BY <1>3, FS_AddElement
<1> QED BY <1>1, <1>2, <1>4, AdaptersAre

\* Everybody who is there is asked, in n questions, and nobody twice.
EachAskedOnce(asked, n, there) ==
  /\ n \in Nat
  /\ \A k \in 1..n : asked[k] \in there
  /\ \A i, k \in 1..n : asked[i] = asked[k] => i = k
  /\ \A e \in there : \E k \in 1..n : asked[k] = e

\* Every strategy of a list is asked through every adapter, and once.
LEMMA AskedOnce ==
  ASSUME NEW S, NEW list \in Seq(S),
         \A i, k \in 1..Len(list) : list[i] = list[k] => i = k,
         \A s \in S : \E i \in 1..Len(list) : list[i] = s
  PROVE  EachAskedOnce(Asked(list), 2 * Len(list), S \X ToSet(Adapters))
<1> DEFINE n == Len(list)
           N == 2 * n
           asked == Asked(list)
           row(k) == ((k - 1) \div 2) + 1
           column(k) == ((k - 1) % 2) + 1
<1>1. n \in Nat /\ \A i \in 1..n : list[i] \in S
  BY LenProperties, ElementOfSeq
<1>2. \A k \in 1..N : asked[k] = <<list[row(k)], Adapters[column(k)]>>
  BY <1>1, AskedLength
<1>3. /\ Adapters[1] # Adapters[2]
      /\ Adapters[1] \in ToSet(Adapters) /\ Adapters[2] \in ToSet(Adapters)
      /\ \A a \in ToSet(Adapters) : \E i \in {1, 2} : Adapters[i] = a
  BY BothAdapters
<1> HIDE DEF asked, n
<1>4. ASSUME NEW k \in 1..N
      PROVE  /\ row(k) \in 1..n /\ column(k) \in {1, 2} /\ row(k) \in Nat
             /\ k = 2 * (row(k) - 1) + column(k)
  BY <1>1, <1>4
<1>5. \A i \in 1..n, c \in {1, 2} :
        2 * (i - 1) + c \in 1..N /\ row(2 * (i - 1) + c) = i /\ column(2 * (i - 1) + c) = c
  <2> SUFFICES ASSUME NEW i \in 1..n, NEW c \in {1, 2}
               PROVE  /\ 2 * (i - 1) + c \in 1..N /\ row(2 * (i - 1) + c) = i
                      /\ column(2 * (i - 1) + c) = c
    OBVIOUS
  <2>1. CASE c = 1
    BY <1>1, <2>1
  <2>2. CASE c = 2
    BY <1>1, <2>2
  <2> QED BY <2>1, <2>2
<1> HIDE DEF row, column
<1>6. N \in Nat
  BY <1>1
<1>7. \A k \in 1..N : asked[k] \in S \X ToSet(Adapters)
  <2> SUFFICES ASSUME NEW k \in 1..N PROVE asked[k] \in S \X ToSet(Adapters)
    OBVIOUS
  <2> DEFINE s == list[row(k)]
             a == Adapters[column(k)]
  <2>1. s \in S
    BY <1>1, <1>4
  <2>2. a \in ToSet(Adapters)
    BY <1>3, <1>4
  <2>3. asked[k] = <<s, a>>
    BY <1>2
  <2> HIDE DEF s, a
  <2> QED BY <2>1, <2>2, <2>3
<1>8. \A i, k \in 1..N : asked[i] = asked[k] => i = k
  <2> SUFFICES ASSUME NEW i \in 1..N, NEW k \in 1..N, asked[i] = asked[k] PROVE i = k
    OBVIOUS
  <2>1. list[row(i)] = list[row(k)] /\ Adapters[column(i)] = Adapters[column(k)]
    BY <1>2
  <2>2. row(i) = row(k)
    BY <1>4, <2>1 DEF n
  <2>3. column(i) = column(k)
    BY <1>3, <1>4, <2>1
  <2>4. i = 2 * (row(i) - 1) + column(i) /\ k = 2 * (row(k) - 1) + column(k)
    BY <1>4
  <2> QED BY <2>2, <2>3, <2>4
<1>9. \A e \in S \X ToSet(Adapters) : \E k \in 1..N : asked[k] = e
  <2> SUFFICES ASSUME NEW e \in S \X ToSet(Adapters)
               PROVE  \E k \in 1..N : asked[k] = e
    OBVIOUS
  <2>0. PICK s \in S, a \in ToSet(Adapters) : e = <<s, a>>
    OBVIOUS
  <2>1. PICK i \in 1..n : list[i] = s
    BY DEF n
  <2>2. PICK c \in {1, 2} : Adapters[c] = a
    BY <1>3
  <2> DEFINE k == 2 * (i - 1) + c
  <2>3. k \in 1..N /\ row(k) = i /\ column(k) = c
    BY <1>5
  <2> HIDE DEF k
  <2>4. asked[k] = <<s, a>>
    BY <1>2, <2>1, <2>2, <2>3
  <2> QED BY <2>0, <2>3, <2>4
<1> QED BY <1>6, <1>7, <1>8, <1>9 DEF asked, n, EachAskedOnce

\* Those asked in k questions are those asked in the first k - 1, and the last.
LEMMA OneMoreAsked ==
  ASSUME NEW asked, NEW k \in Nat \ {0}
  PROVE  {asked[i] : i \in 1..k} = {asked[i] : i \in 1..(k - 1)} \cup {asked[k]}
<1> DEFINE some == {asked[i] : i \in 1..k}
           less == {asked[i] : i \in 1..(k - 1)}
<1>1. \A i \in 1..k : asked[i] \in less \cup {asked[k]}
  <2>1. \A i \in 1..k : i \in 1..(k - 1) \/ i = k
    OBVIOUS
  <2> QED BY <2>1
<1>2. \A i \in 1..(k - 1) : asked[i] \in some
  <2>1. \A i \in 1..(k - 1) : i \in 1..k
    OBVIOUS
  <2> QED BY <2>1
<1>3. asked[k] \in some
  <2>1. k \in 1..k
    OBVIOUS
  <2> QED BY <2>1
<1>4. some \subseteq less \cup {asked[k]}
  BY <1>1
<1>5. less \subseteq some
  BY <1>2
<1> HIDE DEF some, less
<1>6. some = less \cup {asked[k]}
  BY <1>3, <1>4, <1>5
<1> QED BY <1>6 DEF some, less

\* The plan as a whole: as much as is missing or as there is.
LEMMA PlannerIsExact ==
  ASSUME NEW S, IsFiniteSet(S), NEW list \in Seq(S),
         \A i, k \in 1..Len(list) : list[i] = list[k] => i = k,
         \A s \in S : \E i \in 1..Len(list) : list[i] = s,
         NEW held, NEW pool, NEW short \in Int, NEW skipped,
         NEW give \in [S \X ToSet(Adapters) -> Nat],
         \A e \in S \X ToSet(Adapters) : give[e] = Disposable(e, held, pool, skipped)
  PROVE  LET there == S \X ToSet(Adapters)
         IN  ExactFor(BuildRedeemPlan(list, held, pool, short, skipped), give, there, there, short)
<1> DEFINE there == S \X ToSet(Adapters)
           N == 2 * Len(list)
           asked == Asked(list)
           first(k) == {asked[i] : i \in 1..k}
<1>1. /\ N \in Nat /\ \A k \in 1..N : asked[k] \in there
      /\ \A i, k \in 1..N : asked[i] = asked[k] => i = k
      /\ \A e \in there : \E k \in 1..N : asked[k] = e
  <2>1. EachAskedOnce(Asked(list), 2 * Len(list), S \X ToSet(Adapters))
    BY AskedOnce
  <2> QED BY <2>1 DEF EachAskedOnce
<1>2. PICK g : IsPlanned(g, list, held, pool, short, skipped)
  BY PlanIsChain, LenProperties
<1>3. /\ g[0] = NothingTaken(short)
      /\ \A k \in 1..N : g[k] = Take(g[k - 1], asked[k], Disposable(asked[k], held, pool, skipped))
      /\ BuildRedeemPlan(list, held, pool, short, skipped) = g[N]
  BY <1>2 DEF IsPlanned
<1>4. IsFiniteSet(there)
  BY BothAdapters, FS_Product
<1>5. \A e \in there : give[e] = Disposable(e, held, pool, skipped)
  OBVIOUS
<1>6. give \in [there -> Nat]
  OBVIOUS
<1> HIDE DEF there, N, asked
<1> DEFINE Bad == {k \in 0..N : ~ExactFor(g[k], give, there, first(k), short)}
<1>7. Bad = {}
  <2> SUFFICES ASSUME Bad # {} PROVE FALSE
    OBVIOUS
  <2>1. PICK k \in Bad : \A m \in Bad : k <= m
    <3>1. Bad \in SUBSET Nat
      BY <1>1
    <3> HIDE DEF Bad
    <3> QED BY <3>1, LeastNat
  <2>2. CASE k = 0
    <3>1. first(0) = {}
      OBVIOUS
    <3>2. ~ExactFor(g[0], give, there, first(0), short)
      BY <2>1, <2>2
    <3> HIDE DEF first
    <3>3. ExactFor(NothingTaken(short), give, there, {}, short)
      BY <1>4, <1>6, NothingIsExact
    <3>4. g[0] = NothingTaken(short)
      BY <1>3
    <3> QED BY <3>1, <3>2, <3>3, <3>4
  <2>3. CASE k # 0
    <3> DEFINE m == k - 1
    <3>1. m \in 0..N /\ k \in 1..N /\ m \notin Bad
      <4>1. m \in 0..N /\ k \in 1..N /\ ~(k <= m)
        <5>1. k \in 0..N /\ k # 0 /\ N \in Nat
          BY <1>1, <2>1, <2>3
        <5> HIDE DEF Bad
        <5> QED BY <5>1
      <4> HIDE DEF Bad, m
      <4> QED BY <2>1, <4>1
    <3>2. first(k) = first(m) \cup {asked[k]} /\ first(m) \in SUBSET there
          /\ asked[k] \in there \ first(m)
      <4>0. k \in Nat \ {0} /\ N \in Nat /\ k <= N
        BY <1>1, <3>1
      <4>2. \A i \in 1..m : i \in 1..N /\ i # k
        BY <4>0
      <4> HIDE DEF m, Bad
      <4>4. first(k) = first(m) \cup {asked[k]}
        BY <4>0, OneMoreAsked DEF m
      <4>5. first(m) \in SUBSET there /\ asked[k] \in there
        <5>1. (\A i \in 1..m : asked[i] \in there) /\ asked[k] \in there
          BY <1>1, <3>1, <4>2
        <5> QED BY <5>1
      <4>6. asked[k] \notin first(m)
        <5>1. \A i \in 1..m : asked[i] # asked[k]
          BY <1>1, <3>1, <4>2
        <5> QED BY <5>1
      <4> QED BY <4>4, <4>5, <4>6
    <3> DEFINE A == first(m)
               e == asked[k]
               plan == g[m]
    <3>3. ExactFor(plan, give, there, A, short)
      BY <3>1
    <3>4. g[k] = Take(plan, e, give[e])
      BY <1>3, <1>5, <3>1, <3>2
    <3>5. first(k) = A \cup {e} /\ A \in SUBSET there /\ e \in there \ A
      BY <3>2
    <3> HIDE DEF plan, A, e, m
    <3>6. ExactFor(Take(plan, e, give[e]), give, there, A \cup {e}, short)
      BY <1>4, <1>6, <3>3, <3>5, TakeIsExact
    <3> QED BY <2>1, <3>4, <3>5, <3>6
  <2> QED BY <2>2, <2>3
<1>8. first(N) = there
  BY <1>1
<1>9. N \in 0..N /\ N \notin Bad
  <2>1. N \in 0..N
    BY <1>1
  <2> HIDE DEF Bad
  <2> QED BY <1>7, <2>1
<1>10. ExactFor(g[N], give, there, first(N), short)
  BY <1>9
<1> HIDE DEF first, Bad
<1>11. ExactFor(BuildRedeemPlan(list, held, pool, short, skipped), give, there, there, short)
  BY <1>3, <1>8, <1>10
<1> QED BY <1>11 DEF there

\* What an adapter finds is an amount.
LEMMA AvailableType ==
  ASSUME BesideOK, NEW s \in Strategies, NEW a
  PROVE  Available(a, position[s], market) \in Nat
<1>1. position[s].cTokens \in Nat /\ position[s].principal \in Nat
  BY DEF BesideOK, Positions
<1>2. Worth(position[s].cTokens, market) \in Nat
  BY <1>1, WorthType DEF BesideOK
<1> QED BY <1>1, <1>2 DEF Available, KaminoAvailable, LuloAvailable

\* What PlanIsExact says of one page.
ExactPlan(t) ==
  LET plan == job[t].redeems
      there == ShownActive(t) \X ToSet(Adapters)
      give == [e \in there |-> IF e \in job[t].skipped THEN 0
                               ELSE Available(e[2], position[e[1]], market)]
  IN  /\ SumFunctionOnSet([i \in DOMAIN plan |-> plan[i].amount], DOMAIN plan)
           = Min({Max({0, job[t].amount}), SumFunctionOnSet(give, there)})
      /\ \A i \in DOMAIN plan : plan[i].amount \in 1..give[plan[i].of]
      /\ \A i, k \in DOMAIN plan : plan[i].of = plan[k].of => i = k

\* The redeem plan takes exactly as much as seems missing or as there is in the
\* positions that could be read and used, from each of them at most what it can give
\* and at most once, and nothing from one in debt or one that was skipped, whatever
\* strategies are listed, however the market stands and whichever reads fail.
THEOREM PlansAreExact == DeskSpec => []PlanIsExact
<1>1. DeskInv /\ (\A t \in Tabs : WithdrawalOK(t)) => PlanIsExact
  <2> SUFFICES ASSUME DeskInv, \A t \in Tabs : WithdrawalOK(t), NEW t \in Tabs,
                      job[t].kind = "withdraw", job[t].calm,
                      job[t].todo = <<<<"withdraw", 0>>>>
               PROVE  ExactPlan(t)
    BY Zenon DEF PlanIsExact, ExactPlan
  <2> DEFINE S == ShownActive(t)
             list == ById(S)
             short == job[t].amount
             skipped == job[t].skipped
             plan == BuildRedeemPlan(list, position, market, short, skipped)
             there == ShownActive(t) \X ToSet(Adapters)
             give == [e \in there |-> IF e \in skipped THEN 0
                                      ELSE Available(e[2], position[e[1]], market)]
             all == SumFunctionOnSet(give, there)
  <2>1. t \in Clients /\ JobOK(job[t]) /\ BesideOK
    BY DeskConstants DEF DeskInv, JobsOK, JobFor
  <2>2. Running(t) /\ short \in Int
    BY <2>1 DEF JobOK, Running
  <2>3. job[t].redeems = plan.redeems
    <3>1. Uncovered(t)
      BY <2>2 DEF WithdrawalOK
    <3>2. Rest1 # Rest5 /\ Rest1 # Rest4 /\ Rest1 # Rest3 /\ Rest1 # Rest2
      BY Rests
    <3> QED BY <3>1, <3>2 DEF Uncovered, Rest1, PlanOf
  <2>4. there = S \X ToSet(Adapters)
    OBVIOUS
  <2>5. S \in SUBSET Strategies
    BY DEF ShownActive
  <2>6. /\ IsFiniteSet(S) /\ list \in Seq(S)
        /\ \A i, k \in 1..Len(list) : list[i] = list[k] => i = k
        /\ \A s \in S : \E i \in 1..Len(list) : list[i] = s
    <3>1. /\ IsFiniteSet(S) /\ list \in Seq(S)
          /\ \A i, k \in 1..Len(list) : i < k => list[i] < list[k]
          /\ \A s \in S : \E i \in 1..Len(list) : list[i] = s
      BY <2>5, ByIdFacts
    <3>2. \A i \in 1..Len(list) : list[i] \in Nat
      BY <2>5, <3>1, ElementOfSeq, DeskConstants
    <3>3. \A i, k \in 1..Len(list) : list[i] = list[k] => i = k
      <4> HIDE DEF list
      <4>1. Len(list) \in Nat
        BY <3>1, LenProperties
      <4> SUFFICES ASSUME NEW i \in 1..Len(list), NEW k \in 1..Len(list), list[i] = list[k]
                   PROVE  i = k
        OBVIOUS
      <4>2. list[i] \in Nat /\ list[k] \in Nat /\ i \in Nat /\ k \in Nat
        BY <3>2, <4>1
      <4>3. ~(list[i] < list[k]) /\ ~(list[k] < list[i])
        BY <4>2
      <4>4. ~(i < k) /\ ~(k < i)
        BY <3>1, <4>3
      <4> QED BY <4>2, <4>4
    <3> QED BY <3>1, <3>3
  <2>7. give \in [there -> Nat]
    <3>1. \A e \in there : Available(e[2], position[e[1]], market) \in Nat
      BY <2>1, <2>5, AvailableType
    <3> QED BY <3>1
  <2>8. \A e \in there : give[e] = Disposable(e, position, market, skipped)
    BY DEF Disposable
  <2>9. IsFiniteSet(there)
    BY <2>4, <2>6, BothAdapters, FS_Product
  <2>10. ExactFor(plan, give, there, there, short)
    <3> HIDE DEF list, give, short, S, there, skipped
    <3>1. LET P == S \X ToSet(Adapters)
          IN  ExactFor(BuildRedeemPlan(list, position, market, short, skipped), give, P, P, short)
      BY <2>2, <2>4, <2>6, <2>7, <2>8, PlannerIsExact
    <3> QED BY <2>4, <3>1
  <2>11. Offered(give, there, there) = all /\ all \in Nat
    <3> HIDE DEF there
    <3>1. give = [e \in there |-> IF e \in there THEN give[e] ELSE 0]
      OBVIOUS
    <3> HIDE DEF give
    <3>2. Offered(give, there, there) = all
      BY <3>1 DEF Offered
    <3> QED BY <2>7, <2>9, <3>2, SumType
  <2>12. Min({Max({0, short}), all})
           = IF short <= 0 THEN 0 ELSE IF short <= all THEN short ELSE all
    <3> HIDE DEF all, short
    <3> DEFINE most == Max({0, short})
    <3>1. most = (IF short > 0 THEN short ELSE 0) /\ most \in Nat
      BY <2>2, MaxWithZero
    <3> HIDE DEF most
    <3>2. Min({most, all}) = IF most <= all THEN most ELSE all
      BY <2>11, <3>1, MinOfTwo
    <3> QED BY <2>2, <2>11, <3>1, <3>2 DEF most
  <2> HIDE DEF all, short, give, there, plan, S
  <2>13. /\ Redeemed(plan.redeems) = Min({Max({0, short}), all})
         /\ \A i \in 1..Len(plan.redeems) : plan.redeems[i].amount \in 1..give[plan.redeems[i].of]
         /\ \A i, k \in 1..Len(plan.redeems) : plan.redeems[i].of = plan.redeems[k].of => i = k
         /\ DOMAIN plan.redeems = 1..Len(plan.redeems)
    BY <2>10, <2>11, <2>12, LenProperties DEF ExactFor
  <2> DEFINE mine == job[t].redeems
  <2>14. /\ Redeemed(mine) = Min({Max({0, short}), all})
         /\ \A i \in DOMAIN mine : mine[i].amount \in 1..give[mine[i].of]
         /\ \A i, k \in DOMAIN mine : mine[i].of = mine[k].of => i = k
    BY <2>3, <2>13
  <2> QED BY <2>14, Zenon DEF ExactPlan, Redeemed, all, short, give, there
<1> QED BY <1>1, DeskInvariant, WithdrawalsFollowed, PTL

-----------------------------------------------------------------------------
(***************************************************************************)
(* A round of rebalancing nobody comes between.                            *)
(***************************************************************************)
\* The steps that are left, the deepest cut first.
InOrder(todo) ==
  /\ \A i \in 1..Len(todo) :
       todo[i][1] = "rebalance" /\ todo[i][2] \in Strategies /\ Active(todo[i][2])
  /\ \A i, k \in 1..Len(todo) :
       i < k => todo[i][2] # todo[k][2] /\ Gap(todo[i][2]) <= Gap(todo[k][2])

\* Every active strategy that is not among them.
OthersSettled(todo) ==
  \A s \in Strategies :
    Active(s) /\ (\A i \in 1..Len(todo) : todo[i][2] # s) => Gap(s) = 0

RoundOK(t) ==
  job[t].kind = "rebalance" /\ job[t].calm =>
    IF Running(t)
      THEN /\ ~paused /\ \A s \in Strategies : Active(s) => ata[s] >= allocated[s]
           /\ InOrder(job[t].todo) /\ OthersSettled(job[t].todo)
      ELSE /\ job[t].state = "done"
           /\ \A s \in Strategies : Active(s) => Gap(s) = 0

\* With its first strategy at the target, what is left of a round is in order.
LEMMA RestInOrder ==
  ASSUME NEW todo, NEW rest, NEW s, Len(todo) \in Nat, Len(todo) > 0,
         Len(rest) = Len(todo) - 1, \A i \in 1..Len(rest) : rest[i] = todo[i + 1],
         InOrder(todo), OthersSettled(todo), s = todo[1][2],
         status' = status, Gap(s)' = 0, \A r \in Strategies \ {s} : Gap(r)' = Gap(r)
  PROVE  InOrder(rest)' /\ OthersSettled(rest)'
<1>1. /\ \A i \in 1..Len(todo) :
           todo[i][1] = "rebalance" /\ todo[i][2] \in Strategies /\ Active(todo[i][2])
      /\ \A i, k \in 1..Len(todo) :
           i < k => todo[i][2] # todo[k][2] /\ Gap(todo[i][2]) <= Gap(todo[k][2])
  BY DEF InOrder
<1>2. \A r : Active(r)' <=> Active(r)
  BY DEF Active
<1>3. ASSUME NEW i \in 1..Len(rest)
      PROVE  /\ i + 1 \in 1..Len(todo) /\ rest[i] = todo[i + 1]
             /\ rest[i][2] \in Strategies \ {s} /\ Gap(rest[i][2])' = Gap(todo[i + 1][2])
  <2>1. i + 1 \in 1..Len(todo) /\ 1 \in 1..Len(todo) /\ 1 < i + 1 /\ rest[i] = todo[i + 1]
    OBVIOUS
  <2>2. rest[i][2] \in Strategies \ {s}
    BY <1>1, <2>1
  <2>3. Gap(rest[i][2])' = Gap(rest[i][2])
    BY <2>2
  <2> QED BY <2>1, <2>2, <2>3
<1>4. \A i \in 1..Len(rest) :
        rest[i][1] = "rebalance" /\ rest[i][2] \in Strategies /\ Active(rest[i][2])'
  BY <1>1, <1>2, <1>3
<1>5. \A i, k \in 1..Len(rest) :
        i < k => rest[i][2] # rest[k][2] /\ Gap(rest[i][2])' <= Gap(rest[k][2])'
  <2> SUFFICES ASSUME NEW i \in 1..Len(rest), NEW k \in 1..Len(rest), i < k
               PROVE  rest[i][2] # rest[k][2] /\ Gap(rest[i][2])' <= Gap(rest[k][2])'
    OBVIOUS
  <2>1. i + 1 \in 1..Len(todo) /\ k + 1 \in 1..Len(todo) /\ i + 1 < k + 1
    BY <1>3
  <2>2. todo[i + 1][2] # todo[k + 1][2] /\ Gap(todo[i + 1][2]) <= Gap(todo[k + 1][2])
    BY <1>1, <2>1
  <2> QED BY <1>3, <2>2
<1>6. InOrder(rest)'
  BY <1>4, <1>5 DEF InOrder
<1>7. ASSUME NEW r \in Strategies, Active(r), \A i \in 1..Len(rest) : rest[i][2] # r
      PROVE  Gap(r)' = 0
  <2>1. CASE r = s
    BY <2>1
  <2>2. CASE r # s
    <3>1. \A i \in 1..Len(todo) : todo[i][2] # r
      <4> SUFFICES ASSUME NEW i \in 1..Len(todo), todo[i][2] = r PROVE FALSE
        OBVIOUS
      <4>1. i # 1
        BY <2>2
      <4>2. i - 1 \in 1..Len(rest) /\ (i - 1) + 1 = i
        BY <4>1
      <4>3. rest[i - 1] = todo[i]
        BY <4>2
      <4> QED BY <1>7, <4>2, <4>3
    <3>2. Gap(r) = 0
      BY <1>7, <3>1 DEF OthersSettled
    <3> QED BY <2>2, <3>2
  <2> QED BY <2>1, <2>2
<1>8. OthersSettled(rest)'
  BY <1>2, <1>7 DEF OthersSettled
<1> QED BY <1>6, <1>8

\* The next strategy of a round can always be brought to its target: a cut takes
\* no more than its account holds, and when it is a raise all cuts are done.
LEMMA RoundIsAccepted ==
  ASSUME Inv, ~paused, \A s \in Strategies : Active(s) => ata[s] >= allocated[s],
         NEW todo, Len(todo) \in Nat, Len(todo) > 0, InOrder(todo), OthersSettled(todo)
  PROVE  LET s == todo[1][2] IN s \in Strategies /\ Active(s) /\ (MayRebalance(s) \/ Gap(s) = 0)
<1> DEFINE s == todo[1][2]
<1>1. s \in Strategies /\ Active(s)
  BY DEF InOrder
<1>2. /\ TypeOK /\ ata[s] \in Nat /\ reserve \in Nat /\ ata[s] >= allocated[s]
      /\ RebalanceTarget(s) \in Nat /\ allocated[s] \in Nat
      /\ Gap(s) = RebalanceTarget(s) - allocated[s]
  <2>1. TypeOK
    BY DEF Inv
  <2>2. RebalanceTarget(s) \in 0..totalDeposited /\ allocated[s] \in Nat /\ totalDeposited \in Nat
    <3> HIDE DEF s
    <3> QED BY <1>1, <2>1, GapType DEF TypeOK
  <2>3. ata[s] \in Nat /\ reserve \in Nat
    BY <1>1, <2>1 DEF TypeOK
  <2> QED BY <1>1, <2>1, <2>2, <2>3 DEF Gap
<1>3. CASE Gap(s) < 0
  <2>1. allocated[s] - RebalanceTarget(s) \in 1..ata[s]
    <3> HIDE DEF s
    <3> QED BY <1>2, <1>3
  <2> QED BY <1>1, <2>1 DEF MayRebalance
<1>4. CASE Gap(s) > 0
  <2>1. \A r \in Strategies : Active(r) => Gap(r) >= 0
    <3> SUFFICES ASSUME NEW r \in Strategies, Active(r) PROVE Gap(r) >= 0
      OBVIOUS
    <3>1. Gap(r) \in Int /\ Gap(s) \in Int
      <4> HIDE DEF s
      <4> QED BY <1>1, <1>2, GapType
    <3>2. CASE \A i \in 1..Len(todo) : todo[i][2] # r
      BY <3>1, <3>2 DEF OthersSettled
    <3>3. ASSUME NEW i \in 1..Len(todo), todo[i][2] = r PROVE Gap(r) >= 0
      <4>1. CASE i = 1
        <5>1. r = s
          BY <3>3, <4>1
        <5> HIDE DEF s
        <5> QED BY <1>4, <3>1, <5>1
      <4>2. CASE i # 1
        <5>1. 1 \in 1..Len(todo) /\ 1 < i
          BY <4>2
        <5>2. Gap(s) <= Gap(r)
          BY <3>3, <5>1 DEF InOrder
        <5> HIDE DEF s
        <5> QED BY <1>4, <3>1, <5>2
      <4> QED BY <4>1, <4>2
    <3> QED BY <3>2, <3>3
  <2>2. Gap(s) <= reserve
    <3> HIDE DEF s
    <3> QED BY <1>1, <2>1, ReserveSuffices
  <2>3. RebalanceTarget(s) - allocated[s] \in 1..reserve
    <3> HIDE DEF s
    <3> QED BY <1>2, <1>4, <2>2
  <2> QED BY <1>1, <2>3 DEF MayRebalance
<1>5. Gap(s) < 0 \/ Gap(s) > 0 \/ Gap(s) = 0
  <2> HIDE DEF s
  <2> QED BY <1>2
<1> QED BY <1>1, <1>3, <1>4, <1>5

\* The round goes on: the next transaction is accepted and the rest is in order.
LEMMA RoundAdvances ==
  ASSUME DeskInv, NEW t \in Tabs, RoundOK(t), Advance(t),
         job[t].kind = "rebalance", job[t].calm
  PROVE  RoundOK(t)'
<1>1. /\ t \in Clients /\ JobsOK /\ Running(t) /\ DOMAIN job = Clients /\ JobOK(job[t])
      /\ Inv /\ TypeOK
  BY DeskConstants DEF DeskInv, JobsOK, JobFor, Advance, Inv
<1>2. /\ ~paused /\ \A s \in Strategies : Active(s) => ata[s] >= allocated[s]
      /\ InOrder(job[t].todo) /\ OthersSettled(job[t].todo)
  BY <1>1 DEF RoundOK
<1>3. PICK todo, rest : todo = job[t].todo /\ rest = Tail(job[t].todo)
  OBVIOUS
<1>4. todo \in Seq(Steps) /\ todo # <<>>
  BY <1>1, <1>3 DEF JobOK, Running, StepsOf
<1>5. /\ Len(todo) \in Nat /\ Len(todo) > 0 /\ Head(todo) = todo[1]
      /\ rest \in Seq(Steps) /\ Len(rest) = Len(todo) - 1
      /\ \A i \in 1..Len(rest) : rest[i] = todo[i + 1]
  BY <1>3, <1>4, HeadTailProperties, LenProperties, EmptySeq
<1>6. PICK s : s = todo[1][2]
  OBVIOUS
<1>7. todo[1][1] = "rebalance"
  BY <1>2, <1>3, <1>5 DEF InOrder
<1>8. s \in Strategies /\ Active(s) /\ (MayRebalance(s) \/ Gap(s) = 0)
  BY <1>1, <1>2, <1>3, <1>5, <1>6, RoundIsAccepted
<1>9. SendRebalance(t, s)
  BY <1>3, <1>5, <1>6, <1>7 DEF Advance
<1>10. RebalanceTarget(s) = allocated[s] <=> Gap(s) = 0
  BY <1>1, <1>8, GapType DEF Gap
<1>11. /\ OnClient(t, Continue(t, <<>>), job[t].kind = "crank" /\ faucet = "payer")
       /\ RebalanceStrategy(s) \/ (Gap(s) = 0 /\ UNCHANGED vars)
  BY <1>2, <1>8, <1>9, <1>10 DEF SendRebalance, Send, Ledger, Landed
<1>12. job'[t] = Continue(t, <<>>)
  BY <1>1, <1>11 DEF OnClient
<1>13. /\ job'[t].todo = rest /\ job'[t].state = IF rest = <<>> THEN "done" ELSE "running"
  <2> DEFINE j == Continue(t, <<>>)
  <2>1. <<>> \o Tail(job[t].todo) = rest
    BY <1>3, <1>5, ConcatEmptySeq
  <2>2. <<>> \in Seq(StepsOf(job[t].kind))
    BY EmptySeq
  <2>3. /\ j.todo = <<>> \o Tail(job[t].todo)
        /\ j.state = IF j.todo = <<>> THEN "done" ELSE "running"
    BY <1>1, <2>2, ContinueFacts
  <2>4. job'[t] = j
    BY <1>12
  <2> HIDE DEF j
  <2> QED BY <2>1, <2>3, <2>4
<1>14. /\ status' = status /\ paused' = paused /\ Gap(s)' = 0
       /\ \A r \in Strategies \ {s} : Gap(r)' = Gap(r)
       /\ \A r \in Strategies : Active(r) => ata'[r] >= allocated'[r]
  <2>1. CASE RebalanceStrategy(s)
    <3>1. /\ status' = status /\ weight' = weight /\ paused' = paused
          /\ totalDeposited' = totalDeposited
          /\ allocated'[s] = RebalanceTarget(s)
          /\ ata'[s] - allocated'[s] = ata[s] - allocated[s]
          /\ ata'[s] \in Int /\ allocated'[s] \in Int
          /\ \A r \in Strategies \ {s} : allocated'[r] = allocated[r] /\ ata'[r] = ata[r]
      BY <1>1, <1>8, <2>1, RebalanceBooks
    <3>2. \A r : RebalanceTarget(r)' = RebalanceTarget(r)
      BY <3>1 DEF RebalanceTarget
    <3>3. Gap(s)' = 0
      BY <3>1, <3>2 DEF Gap
    <3>4. \A r \in Strategies \ {s} : Gap(r)' = Gap(r)
      BY <3>1, <3>2 DEF Gap
    <3>5. ata'[s] >= allocated'[s]
      <4>1. ata[s] \in Int /\ allocated[s] \in Int /\ ata[s] >= allocated[s]
        BY <1>1, <1>2, <1>8, Constants DEF TypeOK
      <4> QED BY <3>1, <4>1
    <3> QED BY <1>2, <3>1, <3>3, <3>4, <3>5
  <2>2. CASE Gap(s) = 0 /\ UNCHANGED vars
    <3>1. /\ status' = status /\ weight' = weight /\ paused' = paused /\ ata' = ata
          /\ totalDeposited' = totalDeposited /\ allocated' = allocated
      BY <2>2 DEF vars, tokenVars, strategyVars, configVars
    <3>2. \A r : Gap(r)' = Gap(r)
      BY <3>1 DEF Gap, RebalanceTarget
    <3> QED BY <1>2, <2>2, <3>1, <3>2
  <2> QED BY <1>11, <2>1, <2>2
<1>15. InOrder(rest)' /\ OthersSettled(rest)'
  BY <1>2, <1>3, <1>5, <1>6, <1>14, RestInOrder
<1>16. \A r \in Strategies : Active(r)' <=> Active(r)
  BY <1>14 DEF Active
<1>17. CASE rest = <<>>
  <2>1. Len(rest) = 0 /\ ~Running(t)' /\ job'[t].state = "done"
    BY <1>13, <1>17, EmptySeq DEF Running
  <2>2. \A r \in Strategies : Active(r)' => Gap(r)' = 0
    BY <1>15, <2>1 DEF OthersSettled
  <2> QED BY <2>1, <2>2 DEF RoundOK
<1>18. CASE rest # <<>>
  <2>1. Running(t)'
    BY <1>13, <1>18 DEF Running
  <2>2. InOrder(job[t].todo)' /\ OthersSettled(job[t].todo)'
    BY <1>13, <1>15 DEF InOrder, OthersSettled
  <2>3. ~paused' /\ \A r \in Strategies : Active(r)' => ata'[r] >= allocated'[r]
    BY <1>2, <1>14, <1>16
  <2> QED BY <2>1, <2>2, <2>3 DEF RoundOK
<1> QED BY <1>17, <1>18

\* While the page is still, the round is where it was.
LEMMA RoundStill ==
  ASSUME NEW t \in Tabs, RoundOK(t), Still(t)
  PROVE  RoundOK(t)'
<1>1. /\ job'[t] = job[t] /\ (Running(t)' <=> Running(t))
      /\ status' = status /\ weight' = weight /\ paused' = paused /\ ata' = ata
      /\ totalDeposited' = totalDeposited /\ allocated' = allocated
  BY DEF Still, Running, vars, tokenVars, strategyVars, configVars
<1>2. \A r : (Gap(r)' = Gap(r)) /\ (Active(r)' <=> Active(r))
  BY <1>1 DEF Gap, RebalanceTarget, Active
<1>3. (InOrder(job[t].todo)' <=> InOrder(job[t].todo))
      /\ (OthersSettled(job[t].todo)' <=> OthersSettled(job[t].todo))
  BY <1>1, <1>2 DEF InOrder, OthersSettled
<1> QED BY <1>1, <1>2, <1>3 DEF RoundOK

\* A round starts with every strategy that is off its target, in order.
LEMMA RoundStarts ==
  ASSUME DeskInv, NEW t \in Tabs, StartRebalance(t)
  PROVE  RoundOK(t)'
<1> DEFINE list == DeallocationsFirst(t)
           first == Each("rebalance", list)
           j == [Idle EXCEPT !.kind = "rebalance", !.calm = RebalanceCalm(t), !.todo = first]
<1>1. Start(t, j)
  BY DEF StartRebalance
<1>2. t \in Clients /\ JobsOK /\ ScreensOK /\ Inv /\ TypeOK
  BY DeskConstants DEF DeskInv, Inv
<1> DEFINE S == OffTarget(t)
           before == {e \in S \X S :
                        \/ ShownDelta(t, e[1]) < ShownDelta(t, e[2])
                        \/ ShownDelta(t, e[1]) = ShownDelta(t, e[2]) /\ e[1] < e[2]}
<1>3. /\ S \in SUBSET Strategies /\ \A s \in Strategies : ShownDelta(t, s) \in Int
      /\ RunsThrough(list, S, before)
  BY <1>2, OffTargetOrder
<1>4. /\ list \in Seq(S) /\ Len(list) \in Nat /\ \A i \in 1..Len(list) : list[i] \in S
      /\ \A i, k \in 1..Len(list) : i < k => <<list[i], list[k]>> \in before
      /\ \A x \in S : \E i \in 1..Len(list) : list[i] = x
  BY <1>3, ElementOfSeq, LenProperties DEF RunsThrough
<1>5. \A i, k \in 1..Len(list) :
        i < k => list[i] # list[k] /\ ShownDelta(t, list[i]) <= ShownDelta(t, list[k])
  <2> SUFFICES ASSUME NEW i \in 1..Len(list), NEW k \in 1..Len(list), i < k
               PROVE  list[i] # list[k] /\ ShownDelta(t, list[i]) <= ShownDelta(t, list[k])
    OBVIOUS
  <2> DEFINE a == list[i]
             b == list[k]
  <2>1. /\ ShownDelta(t, a) < ShownDelta(t, b)
           \/ (ShownDelta(t, a) = ShownDelta(t, b) /\ a < b)
        /\ a \in S /\ b \in S
    BY <1>4
  <2>2. ShownDelta(t, a) \in Int /\ ShownDelta(t, b) \in Int /\ a \in Nat /\ b \in Nat
    <3> HIDE DEF a, b, S
    <3> QED BY <1>3, <2>1, DeskConstants
  <2> HIDE DEF a, b
  <2>3. a # b /\ ShownDelta(t, a) <= ShownDelta(t, b)
    BY <2>1, <2>2
  <2> QED BY <2>3 DEF a, b
<1>6. /\ Len(first) = Len(list) /\ \A i \in 1..Len(first) : first[i] = <<"rebalance", list[i]>>
  <2> HIDE DEF list, S
  <2>1. "rebalance" \in OnStrategy
    BY DEF OnStrategy
  <2>2. /\ Len(first) = Len(list)
        /\ \A i \in 1..Len(list) : first[i] = <<"rebalance", list[i]>>
    BY <1>3, <1>4, <2>1, EachFacts
  <2> HIDE DEF first
  <2> QED BY <2>2
<1> HIDE DEF first, list, S, before
<1>7. DOMAIN j = JobFields /\ j.todo = first /\ (j.calm <=> RebalanceCalm(t))
  BY DEF Idle, JobFields
<1> HIDE DEF j
<1>8. /\ job'[t].calm = j.calm /\ job'[t].todo = first
      /\ job'[t].state = "running" /\ UNCHANGED <<vars, besideVars, screen>>
  BY <1>1, <1>2, <1>7, StartedFacts
<1> SUFFICES ASSUME RebalanceCalm(t)
             PROVE  /\ Running(t)' /\ ~paused'
                    /\ \A s \in Strategies : Active(s)' => ata'[s] >= allocated'[s]
                    /\ InOrder(job[t].todo)' /\ OthersSettled(job[t].todo)'
  BY <1>7, <1>8 DEF RoundOK
<1>9. /\ status' = status /\ weight' = weight /\ paused' = paused /\ ata' = ata
      /\ totalDeposited' = totalDeposited /\ allocated' = allocated
  BY <1>8 DEF vars, tokenVars, strategyVars, configVars
<1>10. \A r : (Gap(r)' = Gap(r)) /\ (Active(r)' <=> Active(r))
  BY <1>9 DEF Gap, RebalanceTarget, Active
<1>11. Running(t)' /\ ~paused' /\ \A s \in Strategies : Active(s)' => ata'[s] >= allocated'[s]
  BY <1>8, <1>9, <1>10 DEF RebalanceCalm, Running
<1>12. /\ \A s : ShownDelta(t, s) = Gap(s)
       /\ \A s \in Strategies : s \in S <=> Active(s) /\ Gap(s) # 0
  <2>1. /\ screen[t].vault.total = totalDeposited
        /\ screen[t].strategies.weight = weight /\ screen[t].strategies.status = status
        /\ screen[t].strategies.allocated = allocated
    BY DEF RebalanceCalm, StrategiesShown
  <2>2. \A s : ShownDelta(t, s) = Gap(s)
    BY <2>1 DEF ShownDelta, ShownTarget, Gap, RebalanceTarget
  <2> QED BY <2>1, <2>2 DEF S, OffTarget, ShownActive, Active
<1>13. InOrder(first)
  <2>1. \A i \in 1..Len(first) :
          first[i][1] = "rebalance" /\ first[i][2] = list[i] /\ list[i] \in S
    BY <1>4, <1>6
  <2>2. \A i \in 1..Len(first) : first[i][2] \in Strategies /\ Active(first[i][2])
    BY <1>3, <1>12, <2>1
  <2>3. \A i, k \in 1..Len(first) :
          i < k => first[i][2] # first[k][2] /\ Gap(first[i][2]) <= Gap(first[k][2])
    BY <1>5, <1>6, <1>12, <2>1
  <2> QED BY <2>1, <2>2, <2>3 DEF InOrder
<1>14. OthersSettled(first)
  <2> SUFFICES ASSUME NEW s \in Strategies, Active(s), Gap(s) # 0
               PROVE  \E i \in 1..Len(first) : first[i][2] = s
    BY DEF OthersSettled
  <2>1. s \in S
    BY <1>12
  <2> QED BY <1>4, <1>6, <2>1
<1>15. InOrder(job[t].todo)' /\ OthersSettled(job[t].todo)'
  BY <1>8, <1>10, <1>13, <1>14 DEF InOrder, OthersSettled
<1> QED BY <1>11, <1>15

\* Every step of the whole keeps what is known of a round.
LEMMA RoundStep ==
  ASSUME DeskInv, [DeskNext]_deskVars, NEW t \in Tabs, RoundOK(t)
  PROVE  RoundOK(t)'
<1>1. CASE Upset(t)
  BY <1>1 DEF Upset, RoundOK
<1>2. ASSUME NEW n \in 1..shares[Holder], StartWithdraw(t, n)
      PROVE  RoundOK(t)'
  <2> DEFINE j == [Idle EXCEPT
                     !.kind = "withdraw", !.shares = n, !.calm = WithdrawCalm(t, n),
                     !.todo = <<<<"supply", 0>>, <<"reserve", 0>>, <<"accounts", 0>>,
                                <<"positions", 0>>, <<"withdraw", 0>>>>]
  <2>1. Start(t, j)
    BY <1>2 DEF StartWithdraw
  <2>2. DOMAIN j = JobFields /\ j.kind = "withdraw"
    BY DEF Idle, JobFields
  <2>3. t \in Clients /\ JobsOK
    BY DeskConstants DEF DeskInv
  <2> HIDE DEF j
  <2>4. job'[t].kind = "withdraw"
    BY <2>1, <2>2, <2>3, StartedFacts
  <2> QED BY <2>4 DEF RoundOK
<1>3. CASE Advance(t)
  <2>1. job'[t].kind = job[t].kind /\ job'[t].calm = job[t].calm
    BY <1>3, AdvanceKeepsKind, DeskConstants
  <2>2. CASE job[t].kind = "rebalance" /\ job[t].calm
    BY <1>3, <2>2, RoundAdvances
  <2>3. CASE ~(job[t].kind = "rebalance" /\ job[t].calm)
    BY <2>1, <2>3 DEF RoundOK
  <2> QED BY <2>2, <2>3
<1> QED BY <1>1, <1>2, <1>3, RoundStill, RoundStarts, PageCases

\* A round of rebalancing that nobody comes between is never refused and leaves
\* every active strategy at its target, for any number of strategies, weights and
\* amounts: an account that holds what it is booked at can be cut to its target,
\* and once the cuts are done the reserve holds what the others lack, because
\* all targets together are at most the vault's total.
THEOREM RoundsReachTargets == DeskSpec => []RoundReachesTargets
<1>1. DeskInit => \A t \in Tabs : RoundOK(t)
  <2> SUFFICES ASSUME DeskInit, NEW t \in Tabs PROVE RoundOK(t)
    OBVIOUS
  <2>1. job[t] = Idle
    BY DeskConstants DEF DeskInit
  <2> QED BY <2>1 DEF Idle, RoundOK
<1>2. ASSUME DeskInv, [DeskNext]_deskVars, \A t \in Tabs : RoundOK(t)
      PROVE  \A t \in Tabs : RoundOK(t)'
  BY <1>2, RoundStep
<1>3. DeskInv /\ (\A t \in Tabs : RoundOK(t)) /\ [DeskNext]_deskVars
        => (\A t \in Tabs : RoundOK(t))'
  BY <1>2
<1>4. DeskInv /\ (\A t \in Tabs : RoundOK(t)) => RoundReachesTargets
  <2> SUFFICES ASSUME DeskInv, \A t \in Tabs : RoundOK(t), NEW t \in Tabs,
                      Ended(t, "rebalance")
               PROVE  /\ job[t].state = "done"
                      /\ \A s \in Strategies : Active(s) => allocated[s] = RebalanceTarget(s)
    BY DEF RoundReachesTargets
  <2>1. job[t].state = "done" /\ \A s \in Strategies : Active(s) => Gap(s) = 0
    BY DEF RoundOK, Ended
  <2>2. \A s \in Strategies : Gap(s) = 0 => allocated[s] = RebalanceTarget(s)
    <3>1. TypeOK
      BY DEF DeskInv, Inv
    <3>2. \A s \in Strategies : /\ RebalanceTarget(s) \in 0..totalDeposited
                                /\ allocated[s] \in Nat /\ totalDeposited \in Nat
      BY <3>1, GapType DEF TypeOK
    <3> QED BY <3>2 DEF Gap
  <2> QED BY <2>1, <2>2
<1> QED BY <1>1, <1>3, <1>4, DeskInvariant, PTL DEF DeskSpec
-----------------------------------------------------------------------------
(***************************************************************************)
(* What is handed out is booked.  A script puts the report of a strategy's *)
(* yield behind what it sends there, and nobody comes between but cranks,  *)
(* which do the same.                                                      *)
(***************************************************************************)
\* What a client sends to the ledger is of the kinds of the ledger's own steps.
LEMMA LedgerKinds ==
  ASSUME Inv, LedgerTransaction
  PROVE  \/ Purchase \/ Redemption \/ Movement \/ Settlement
         \/ Administration \/ Switches \/ TokenMovement \/ ShareMovement
<1>1. Nothing \in [Strategies -> Nat] /\ Holder \in Users
  BY DeskConstants DEF Nothing
<1>2. CASE \/ \E amount \in Nat : Deposit(Holder, amount, Nothing)
           \/ \E n \in Nat, pull \in [Strategies -> Nat] : Withdraw(Holder, n, pull)
  BY <1>1, <1>2 DEF Purchase, Redemption
<1>3. ASSUME NEW s \in Strategies,
             \/ RebalanceStrategy(s)
             \/ \E amount \in Nat : AllocateToStrategy(s, amount) \/ DeallocateFromStrategy(s, amount)
      PROVE  Movement
  BY <1>3, MoneyMoves DEF Movement
<1>4. ASSUME NEW s \in Strategies,
             ReportYield(s) \/ \E amount \in Nat : ReportLoss(s, amount)
      PROVE  Settlement
  BY <1>4, SettlementsSettle DEF Settlement
<1>5. ASSUME NEW s \in Strategies,
             \/ CreateStrategy(s) \/ DeactivateStrategy(s)
             \/ \E w \in Nat : SetStrategyWeight(s, w)
      PROVE  Administration
  BY <1>5 DEF Administration
<1>6. CASE (\E p \in BOOLEAN : SetPaused(p)) \/ (\E f \in Nat : SetPerformanceFeeBps(f))
  BY <1>6 DEF Switches
<1>7. CASE Next
  BY <1>7, StepCases
<1> QED BY <1>2, <1>3, <1>4, <1>5, <1>6, <1>7 DEF LedgerTransaction

\* Nor does a transaction of a client's.
LEMMA TransactionsLeaveUncreated ==
  ASSUME DeskInv, NeverCreatedIsEmpty, Transaction
  PROVE  NeverCreatedIsEmpty'
<1>1. Inv
  BY DEF DeskInv
<1>2. CASE LedgerTransaction
  BY <1>1, <1>2, LedgerKinds, KindsLeaveUncreated
<1>3. ASSUME NEW s \in Strategies, NEW amount, TransferIn(s, amount) \/ DelegateTransfer(s, amount)
      PROVE  NeverCreatedIsEmpty'
  <2>1. /\ status' = status /\ Created(s)
        /\ \A r \in Strategies \ {s} : ata'[r] = ata[r]
    BY <1>1, <1>3 DEF TransferIn, MayTransferIn, DelegateTransfer, Active, Created, strategyVars,
                      Inv, TypeOK
  <2> QED BY <2>1 DEF NeverCreatedIsEmpty, Created
<1>4. ASSUME NEW s \in Strategies, NEW amount \in Nat,
             \/ MayMint(s, amount) /\ Mint(s, amount)
             \/ Fund(s, amount)
             \/ RedeemKamino(s, amount) \/ RedeemLulo(s, amount)
             \/ LendTransaction(s, amount)
      PROVE  NeverCreatedIsEmpty'
  BY <1>3, <1>4 DEF Mint, Fund, RedeemKamino, RedeemLulo, LendTransaction
<1>5. ASSUME UNCHANGED vars PROVE NeverCreatedIsEmpty'
  BY <1>5 DEF NeverCreatedIsEmpty, Created, vars, tokenVars, strategyVars
<1>6. CASE (\E amount \in Nat : Accrue(amount)) \/ Claim \/ FaucetTransaction
  BY <1>5, <1>6 DEF Accrue, Claim, FaucetTransaction
<1> QED BY <1>2, <1>4, <1>6 DEF Transaction

\* The steps that send tokens to a strategy, and those of the jobs that hand out
\* yield.  A crank has no step that ends it but a transaction.
Mints == {"mint", "fund"}
YieldKinds == {"crank", "handout", "setup", "agent_setup"}
YieldOps(kind) ==
  {"look", "topup", "fund", "mint", "report", "accrue", "deposit", "create", "weigh",
   "allocate"} \cup (IF kind = "crank" THEN {} ELSE {"tip", "verify"})

\* What is sent to a strategy is reported by a later step of the list.
Reporting(todo, ops) ==
  \A i \in 1..Len(todo) :
    /\ todo[i][1] \in ops
    /\ todo[i][1] \in Mints =>
         \E k \in 1..Len(todo) : i < k /\ todo[k] = <<"report", todo[i][2]>>
\* Or nobody is expected to report it.
Dropping(j) ==
  /\ j.kind # "crank" /\ j.served = {}
  /\ \A i \in 1..Len(j.todo) : j.todo[i][1] \in {"drop", "mint"}

Ahead(j, s) == <<"report", s>> \in ToSet(j.todo)

Shape(c, j) ==
  j.kind \in YieldKinds =>
    /\ c \in Scripts /\ j.served \in SUBSET Strategies
    /\ Reporting(j.todo, YieldOps(j.kind)) \/ Dropping(j)

\* What is in a list is at one of its places.
LEMMA AtPlace ==
  ASSUME NEW S, NEW f \in Seq(S), NEW x
  PROVE  x \in ToSet(f) <=> \E i \in 1..Len(f) : f[i] = x
BY LenProperties DEF ToSet

\* The first step is done: what it sent is still to be reported, and so is the rest.
LEMMA ReportingTail ==
  ASSUME NEW todo \in Seq(Steps), todo # <<>>, NEW ops, Reporting(todo, ops)
  PROVE  /\ Reporting(Tail(todo), ops) /\ Head(todo)[1] \in ops
         /\ Head(todo)[1] \in Mints => <<"report", Head(todo)[2]>> \in ToSet(Tail(todo))
<1> DEFINE rest == Tail(todo)
<1>1. /\ Len(todo) \in Nat /\ Len(todo) > 0 /\ rest \in Seq(Steps) /\ Len(rest) = Len(todo) - 1
      /\ \A i \in 1..Len(rest) : rest[i] = todo[i + 1]
      /\ Head(todo) = todo[1]
  BY HeadTailProperties, LenProperties, EmptySeq
<1> HIDE DEF rest
<1>2. Reporting(rest, ops)
  <2> SUFFICES ASSUME NEW i \in 1..Len(rest)
               PROVE  /\ rest[i][1] \in ops
                      /\ rest[i][1] \in Mints =>
                           \E k \in 1..Len(rest) : i < k /\ rest[k] = <<"report", rest[i][2]>>
    BY DEF Reporting
  <2>1. rest[i] = todo[i + 1] /\ i + 1 \in 1..Len(todo)
    BY <1>1
  <2>2. rest[i][1] \in ops
    BY <2>1 DEF Reporting
  <2>3. ASSUME rest[i][1] \in Mints
        PROVE  \E k \in 1..Len(rest) : i < k /\ rest[k] = <<"report", rest[i][2]>>
    <3>1. PICK k \in 1..Len(todo) : i + 1 < k /\ todo[k] = <<"report", rest[i][2]>>
      BY <2>1, <2>3 DEF Reporting
    <3>2. k - 1 \in 1..Len(rest) /\ i < k - 1
      BY <1>1, <3>1
    <3>3. rest[k - 1] = todo[(k - 1) + 1] /\ (k - 1) + 1 = k
      BY <1>1, <3>2
    <3> QED BY <3>1, <3>2, <3>3
  <2> QED BY <2>2, <2>3
<1>3. ASSUME Head(todo)[1] \in Mints PROVE <<"report", Head(todo)[2]>> \in ToSet(rest)
  <2>1. 1 \in 1..Len(todo)
    BY <1>1
  <2>2. PICK k \in 1..Len(todo) : 1 < k /\ todo[k] = <<"report", Head(todo)[2]>>
    BY <1>1, <1>3, <2>1 DEF Reporting
  <2>3. k - 1 \in 1..Len(rest) /\ (k - 1) + 1 = k
    BY <1>1, <2>2
  <2>4. rest[k - 1] = <<"report", Head(todo)[2]>>
    BY <1>1, <2>2, <2>3
  <2> QED BY <1>1, <2>3, <2>4, AtPlace
<1>4. Head(todo)[1] \in ops
  BY <1>1 DEF Reporting
<1> QED BY <1>2, <1>3, <1>4 DEF rest

\* The rest of a list is all of it but the first.
LEMMA TailKeeps ==
  ASSUME NEW todo \in Seq(Steps), todo # <<>>, NEW x \in ToSet(todo), x # Head(todo)
  PROVE  x \in ToSet(Tail(todo))
<1> DEFINE rest == Tail(todo)
<1>1. /\ Len(todo) \in Nat /\ Len(todo) > 0 /\ rest \in Seq(Steps) /\ Len(rest) = Len(todo) - 1
      /\ \A i \in 1..Len(rest) : rest[i] = todo[i + 1]
      /\ Head(todo) = todo[1]
  BY HeadTailProperties, LenProperties, EmptySeq
<1> HIDE DEF rest
<1>2. PICK i \in 1..Len(todo) : todo[i] = x
  BY AtPlace
<1>3. i - 1 \in 1..Len(rest) /\ (i - 1) + 1 = i
  BY <1>1, <1>2
<1>4. rest[i - 1] = x
  BY <1>1, <1>2, <1>3
<1> QED BY <1>1, <1>3, <1>4, AtPlace DEF rest

\* One list after another: what is sent in either is reported after it.
LEMMA ReportingConcat ==
  ASSUME NEW f \in Seq(Steps), NEW g \in Seq(Steps), NEW ops, Reporting(f, ops), Reporting(g, ops)
  PROVE  /\ Reporting(f \o g, ops)
         /\ \A x : x \in ToSet(f) \/ x \in ToSet(g) => x \in ToSet(f \o g)
<1> DEFINE h == f \o g
<1>1. /\ Len(f) \in Nat /\ Len(g) \in Nat /\ Len(h) = Len(f) + Len(g) /\ h \in Seq(Steps)
      /\ \A i \in 1..Len(f) : h[i] = f[i]
      /\ \A i \in 1..Len(g) : h[Len(f) + i] = g[i]
  BY ConcatProperties, LenProperties
<1> HIDE DEF h
<1>2. \A x : x \in ToSet(f) \/ x \in ToSet(g) => x \in ToSet(h)
  <2> SUFFICES ASSUME NEW x, x \in ToSet(f) \/ x \in ToSet(g) PROVE x \in ToSet(h)
    OBVIOUS
  <2>1. CASE x \in ToSet(f)
    <3>1. PICK i \in 1..Len(f) : f[i] = x
      BY <2>1, AtPlace
    <3>2. i \in 1..Len(h) /\ h[i] = x
      BY <1>1, <3>1
    <3> QED BY <1>1, <3>2, AtPlace
  <2>2. CASE x \in ToSet(g)
    <3>1. PICK i \in 1..Len(g) : g[i] = x
      BY <2>2, AtPlace
    <3>2. Len(f) + i \in 1..Len(h) /\ h[Len(f) + i] = x
      BY <1>1, <3>1
    <3> QED BY <1>1, <3>2, AtPlace
  <2> QED BY <2>1, <2>2
<1>3. Reporting(h, ops)
  <2> SUFFICES ASSUME NEW i \in 1..Len(h)
               PROVE  /\ h[i][1] \in ops
                      /\ h[i][1] \in Mints =>
                           \E k \in 1..Len(h) : i < k /\ h[k] = <<"report", h[i][2]>>
    BY DEF Reporting
  <2>1. CASE i \in 1..Len(f)
    <3>1. h[i] = f[i] /\ f[i][1] \in ops
      BY <1>1, <2>1 DEF Reporting
    <3>2. ASSUME h[i][1] \in Mints
          PROVE  \E k \in 1..Len(h) : i < k /\ h[k] = <<"report", h[i][2]>>
      <4>1. PICK k \in 1..Len(f) : i < k /\ f[k] = <<"report", f[i][2]>>
        BY <2>1, <3>1, <3>2 DEF Reporting
      <4>2. k \in 1..Len(h) /\ h[k] = f[k]
        BY <1>1, <4>1
      <4> QED BY <3>1, <4>1, <4>2
    <3> QED BY <3>1, <3>2
  <2>2. CASE i \notin 1..Len(f)
    <3>1. i - Len(f) \in 1..Len(g) /\ Len(f) + (i - Len(f)) = i
      BY <1>1, <2>2
    <3>2. h[i] = g[i - Len(f)] /\ g[i - Len(f)][1] \in ops
      BY <1>1, <3>1 DEF Reporting
    <3>3. ASSUME h[i][1] \in Mints
          PROVE  \E k \in 1..Len(h) : i < k /\ h[k] = <<"report", h[i][2]>>
      <4>1. PICK k \in 1..Len(g) : i - Len(f) < k /\ g[k] = <<"report", g[i - Len(f)][2]>>
        BY <3>1, <3>2, <3>3 DEF Reporting
      <4>2. Len(f) + k \in 1..Len(h) /\ h[Len(f) + k] = g[k] /\ i < Len(f) + k
        BY <1>1, <4>1
      <4> QED BY <3>2, <4>1, <4>2
    <3> QED BY <3>2, <3>3
  <2> QED BY <2>1, <2>2
<1> QED BY <1>2, <1>3 DEF h

\* What is sent and then reported.
LEMMA ReportedPair ==
  ASSUME NEW ops, NEW op, op \in ops \cap Mints, "report" \in ops, NEW s
  PROVE  /\ Reporting(<<<<op, s>>, <<"report", s>>>>, ops)
         /\ <<"report", s>> \in ToSet(<<<<op, s>>, <<"report", s>>>>)
<1> DEFINE f == <<<<op, s>>, <<"report", s>>>>
<1>1. Len(f) = 2 /\ f[1] = <<op, s>> /\ f[2] = <<"report", s>> /\ DOMAIN f = 1..2
  OBVIOUS
<1> HIDE DEF f
<1>2. Reporting(f, ops)
  BY <1>1 DEF Reporting, Mints
<1>3. <<"report", s>> \in ToSet(f)
  BY <1>1 DEF ToSet
<1> QED BY <1>2, <1>3 DEF f

\* Lists that send nothing.
LEMMA ReportingLists ==
  ASSUME NEW ops
  PROVE  /\ Reporting(<<>>, ops)
         /\ \A op \in ops \ Mints : \A x : Reporting(<<<<op, x>>>>, ops)
         /\ \A op \in ops \ Mints, list \in Seq(Strategies) :
              op \in OnStrategy => Reporting(Each(op, list), ops)
<1>1. Reporting(<<>>, ops)
  BY DEF Reporting
<1>2. \A op \in ops \ Mints : \A x : Reporting(<<<<op, x>>>>, ops)
  BY DEF Reporting
<1>3. ASSUME NEW op \in ops \ Mints, NEW list \in Seq(Strategies), op \in OnStrategy
      PROVE  Reporting(Each(op, list), ops)
  <2>1. /\ Len(Each(op, list)) = Len(list)
        /\ \A i \in 1..Len(list) : Each(op, list)[i] = <<op, list[i]>>
    BY <1>3, EachFacts
  <2> QED BY <2>1 DEF Reporting
<1> QED BY <1>1, <1>2, <1>3

\* Two steps in a row.
LEMMA TwoInRow ==
  ASSUME NEW S, NEW e \in S, NEW f \in S
  PROVE  <<e>> \o <<f>> = <<e, f>>
<1>1. /\ <<e>> \in Seq(S) /\ <<f>> \in Seq(S) /\ <<e, f>> \in Seq(S)
      /\ Len(<<e>>) = 1 /\ Len(<<f>>) = 1 /\ Len(<<e, f>>) = 2
  OBVIOUS
<1>2. /\ Len(<<e>> \o <<f>>) = 2 /\ <<e>> \o <<f>> \in Seq(S)
      /\ (<<e>> \o <<f>>)[1] = e /\ (<<e>> \o <<f>>)[2] = f
  BY <1>1, ConcatProperties
<1>3. \A i \in 1..2 : (<<e>> \o <<f>>)[i] = <<e, f>>[i]
  BY <1>1, <1>2
<1> QED BY <1>1, <1>2, <1>3, SeqEqual

\* And three.
LEMMA ThreeInRow ==
  ASSUME NEW S, NEW e \in S, NEW f \in S, NEW g \in S
  PROVE  <<e, f>> \o <<g>> = <<e>> \o <<f, g>>
<1>1. <<e>> \in Seq(S) /\ <<f>> \in Seq(S) /\ <<g>> \in Seq(S)
  OBVIOUS
<1>2. (<<e>> \o <<f>>) \o <<g>> = <<e>> \o (<<f>> \o <<g>>)
  BY ONLY <1>1, ConcatAssociative
<1> QED BY <1>2, TwoInRow

\* What the steps of such a job leave for the reports still to come, and for whom.
Goes(c, j) ==
  /\ JobFor(c, j) /\ Shape(c, j) /\ j.kind = job[c].kind
  /\ \/ j.state = "refused" /\ j.kind # "crank"
     \/ /\ \A s \in Strategies : Ahead(job[c], s) => Ahead(j, s)
        /\ \A s \in j.served : s \in job[c].served \/ Ahead(j, s)

\* A job that goes on serves the same strategies.
LEMMA ContinueServes ==
  ASSUME JobsOK, NEW c \in Clients, Running(c), NEW steps \in Seq(Steps),
         job[c].kind \in YieldKinds
  PROVE  LET j == Continue(c, steps)
         IN  /\ JobFor(c, j) /\ j.served = job[c].served /\ j.kind = job[c].kind
             /\ j.calm = job[c].calm /\ j.todo = steps \o Tail(job[c].todo)
<1> DEFINE j == Continue(c, steps)
           rest == steps \o Tail(job[c].todo)
           state == IF rest = <<>> THEN "done" ELSE "running"
<1>1. DOMAIN job[c] = JobFields /\ StepsOf(job[c].kind) = Steps
  BY DEF JobsOK, JobFor, JobOK, YieldKinds, StepsOf
<1>2. j.served = job[c].served
  <2>1. j = [job[c] EXCEPT !.todo = rest, !.state = state]
    BY DEF Continue
  <2> HIDE DEF j, rest, state
  <2> QED BY <1>1, <2>1 DEF JobFields
<1>3. /\ JobFor(c, j) /\ j.kind = job[c].kind /\ j.calm = job[c].calm
      /\ j.todo = steps \o Tail(job[c].todo)
  BY <1>1, ContinueFacts
<1> QED BY <1>2, <1>3

\* The same job with another amount, serving others.
LEMMA ServingFacts ==
  ASSUME NEW c, NEW j, JobFor(c, j), NEW k, DOMAIN k = JobFields,
         k.kind = j.kind, k.todo = j.todo, k.state = j.state, k.shares = j.shares,
         k.amount \in Int
  PROVE  JobFor(c, k)
BY DEF JobFor, JobOK

\* With steps put in front of the rest, all that was to be reported still is.
LEMMA PutInFront ==
  ASSUME JobsOK, NEW c \in Clients, Running(c), job[c].kind \in YieldKinds, Shape(c, job[c]),
         NEW steps \in Seq(Steps), Head(job[c].todo)[1] # "report",
         Reporting(job[c].todo, YieldOps(job[c].kind)), Reporting(steps, YieldOps(job[c].kind))
  PROVE  LET j == Continue(c, steps)
         IN  /\ JobFor(c, j) /\ j.kind = job[c].kind /\ j.served = job[c].served
             /\ Reporting(j.todo, YieldOps(job[c].kind))
             /\ \A s : Ahead(job[c], s) \/ <<"report", s>> \in ToSet(steps) => Ahead(j, s)
<1> DEFINE old == job[c]
           j == Continue(c, steps)
           rest == Tail(old.todo)
           ops == YieldOps(old.kind)
<1>1. old.todo \in Seq(Steps) /\ old.todo # <<>> /\ rest \in Seq(Steps)
  <2>1. old.todo \in Seq(StepsOf(old.kind)) /\ old.todo # <<>> /\ StepsOf(old.kind) = Steps
    BY DEF JobsOK, JobFor, JobOK, Running, YieldKinds, StepsOf
  <2> QED BY <2>1, HeadTailProperties
<1>2. JobFor(c, j) /\ j.served = old.served /\ j.kind = old.kind /\ j.todo = steps \o rest
  BY ContinueServes
<1>3. \A s : Ahead(old, s) => <<"report", s>> \in ToSet(rest)
  BY <1>1, TailKeeps DEF Ahead
<1>4. Reporting(rest, ops)
  BY <1>1, ReportingTail
<1> HIDE DEF j, rest
<1>5. /\ Reporting(steps \o rest, ops)
      /\ \A x : x \in ToSet(steps) \/ x \in ToSet(rest) => x \in ToSet(steps \o rest)
  BY <1>1, <1>4, ReportingConcat
<1> QED BY <1>2, <1>3, <1>5 DEF Ahead, j

\* A job that reports nothing goes on to report nothing.
LEMMA DropsOn ==
  ASSUME JobsOK, NEW c \in Clients, Running(c), job[c].kind \in YieldKinds, Dropping(job[c]),
         NEW steps \in Seq(Steps), steps = <<>> \/ \E s : steps = <<<<"mint", s>>>>
  PROVE  LET j == Continue(c, steps)
         IN  /\ JobFor(c, j) /\ j.kind = job[c].kind /\ Dropping(j)
             /\ \A s : ~Ahead(job[c], s)
<1> DEFINE old == job[c]
           j == Continue(c, steps)
           rest == Tail(old.todo)
<1>1. /\ old.todo \in Seq(Steps) /\ old.todo # <<>> /\ rest \in Seq(Steps)
      /\ Len(old.todo) \in Nat /\ Len(rest) = Len(old.todo) - 1
      /\ \A i \in 1..Len(rest) : rest[i] = old.todo[i + 1]
  <2>1. old.todo \in Seq(StepsOf(old.kind)) /\ old.todo # <<>> /\ StepsOf(old.kind) = Steps
    BY DEF JobsOK, JobFor, JobOK, Running, YieldKinds, StepsOf
  <2> QED BY <2>1, HeadTailProperties, LenProperties
<1>2. JobFor(c, j) /\ j.served = old.served /\ j.kind = old.kind /\ j.todo = steps \o rest
  BY ContinueServes
<1>3. \A i \in 1..Len(rest) : rest[i][1] \in {"drop", "mint"}
  BY <1>1 DEF Dropping
<1>4. \A s : ~Ahead(old, s)
  <2> SUFFICES ASSUME NEW s, Ahead(old, s) PROVE FALSE
    OBVIOUS
  <2>1. PICK i \in 1..Len(old.todo) : old.todo[i] = <<"report", s>>
    BY <1>1, AtPlace DEF Ahead
  <2> QED BY <2>1 DEF Dropping
<1> HIDE DEF j, rest
<1>5. \A i \in 1..Len(steps \o rest) : (steps \o rest)[i][1] \in {"drop", "mint"}
  <2>1. CASE steps = <<>>
    BY <1>1, <1>3, <2>1, ConcatEmptySeq
  <2>2. ASSUME NEW s, steps = <<<<"mint", s>>>>
        PROVE  \A i \in 1..Len(steps \o rest) : (steps \o rest)[i][1] \in {"drop", "mint"}
    <3>1. /\ Len(steps) = 1 /\ steps[1] = <<"mint", s>> /\ Len(rest) \in Nat
          /\ Len(steps \o rest) = 1 + Len(rest)
          /\ (steps \o rest)[1] = steps[1]
          /\ \A i \in 1..Len(rest) : (steps \o rest)[1 + i] = rest[i]
      BY <1>1, <2>2, ConcatProperties, LenProperties
    <3> SUFFICES ASSUME NEW i \in 1..Len(steps \o rest)
                 PROVE  (steps \o rest)[i][1] \in {"drop", "mint"}
      OBVIOUS
    <3>2. i = 1 \/ (i - 1 \in 1..Len(rest) /\ 1 + (i - 1) = i)
      BY <3>1
    <3> QED BY <1>3, <3>1, <3>2
  <2> QED BY <2>1, <2>2
<1> QED BY <1>2, <1>4, <1>5 DEF Dropping, j

\* The reads of such a job.
LEMMA RoundReads ==
  ASSUME DeskInv, NEW c \in Clients, Running(c), job[c].kind \in YieldKinds, Shape(c, job[c]),
         LET op == Head(job[c].todo)[1]
             of == Head(job[c].todo)[2]
         IN  \/ op = "look" /\ LookAt(c, of)
             \/ op = "tip" /\ Tip(c, of, TRUE)
             \/ op = "drop" /\ Tip(c, of, FALSE)
             \/ op = "verify" /\ Verify(c)
  PROVE  /\ \E j : Goes(c, j) /\ job' = [job EXCEPT ![c] = j]
         /\ UNCHANGED <<vars, besideVars, screen>>
<1> DEFINE op == Head(job[c].todo)[1]
           s == Head(job[c].todo)[2]
           old == job[c]
           ops == YieldOps(old.kind)
<1>1. /\ JobsOK /\ JobFor(c, old) /\ TypeOK /\ old.todo \in Seq(Steps) /\ old.todo # <<>>
      /\ c \in Scripts /\ old.served \in SUBSET Strategies
      /\ Reporting(old.todo, ops) \/ Dropping(old)
  BY DEF DeskInv, Inv, JobsOK, JobFor, JobOK, Running, YieldKinds, StepsOf, Shape
<1>2. op \in {"look", "tip", "drop", "verify"} /\ (op \in OnStrategy => s \in Strategies)
  <2>1. Head(old.todo) \in Steps
    BY <1>1, HeadTailProperties
  <2> QED BY <2>1, StepFacts
<1>3. IF op = "drop" THEN Dropping(old)
      ELSE Reporting(old.todo, ops) /\ (op \in {"tip", "verify"} => old.kind # "crank")
  <2>1. Len(old.todo) \in Nat /\ 1 \in 1..Len(old.todo) /\ Head(old.todo) = old.todo[1]
    BY <1>1, HeadTailProperties, LenProperties, EmptySeq
  <2>2. Reporting(old.todo, ops) => op \in ops
    BY <2>1 DEF Reporting
  <2>3. Dropping(old) => op \in {"drop", "mint"}
    BY <2>1 DEF Dropping
  <2> QED BY <1>1, <1>2, <2>2, <2>3 DEF YieldOps
<1>4. ASSUME NEW j, Goes(c, j), Read(c, j)
      PROVE  /\ \E k : Goes(c, k) /\ job' = [job EXCEPT ![c] = k]
             /\ UNCHANGED <<vars, besideVars, screen>>
  BY <1>4 DEF Read
<1>5. ASSUME op # "drop", NEW steps \in Seq(Steps), Reporting(steps, ops)
      PROVE  LET j == Continue(c, steps)
             IN  /\ JobFor(c, j) /\ j.kind = old.kind /\ j.served = old.served
                 /\ Reporting(j.todo, ops)
                 /\ \A r : Ahead(old, r) \/ <<"report", r>> \in ToSet(steps) => Ahead(j, r)
  BY <1>1, <1>2, <1>3, <1>5, PutInFront
<1>6. ASSUME op # "drop" PROVE Goes(c, Continue(c, <<>>))
  <2> DEFINE j == Continue(c, <<>>)
  <2>1. <<>> \in Seq(Steps) /\ Reporting(<<>>, ops)
    BY ReportingLists, EmptySeq
  <2>2. /\ JobFor(c, j) /\ j.kind = old.kind /\ j.served = old.served
        /\ Reporting(j.todo, ops) /\ \A r : Ahead(old, r) => Ahead(j, r)
    BY <1>5, <1>6, <2>1
  <2> HIDE DEF j
  <2>3. Goes(c, j)
    BY <1>1, <2>2 DEF Goes, Shape
  <2> QED BY <2>3 DEF j
<1>7. ASSUME old.kind # "crank" PROVE Goes(c, Refused(c))
  <2> DEFINE j == Refused(c)
  <2>1. JobFor(c, j) /\ j.kind = old.kind /\ j.state = "refused" /\ j.todo = <<>>
    BY <1>1, RefusedFacts
  <2>2. j.served = old.served
    <3>1. DOMAIN old = JobFields
      BY <1>1 DEF JobFor, JobOK
    <3> QED BY <3>1 DEF Refused, JobFields
  <2> HIDE DEF j
  <2>3. Goes(c, j)
    BY <1>1, <1>7, <2>1, <2>2, ReportingLists DEF Goes, Shape
  <2> QED BY <2>3 DEF j
<1>8. ASSUME op # "drop", s \in Strategies, NEW steps \in Seq(Steps), Reporting(steps, ops),
             <<"report", s>> \in ToSet(steps), NEW amount \in Int
      PROVE  LET j == Continue(c, steps)
             IN  /\ Goes(c, [j EXCEPT !.amount = amount, !.served = @ \cup {s}])
                 /\ Goes(c, [j EXCEPT !.served = @ \cup {s}])
  <2> DEFINE j == Continue(c, steps)
             some == old.served \cup {s}
             k == [j EXCEPT !.amount = amount, !.served = some]
             l == [j EXCEPT !.served = some]
  <2>1. /\ JobFor(c, j) /\ j.kind = old.kind /\ j.served = old.served
        /\ Reporting(j.todo, ops)
        /\ \A r : Ahead(old, r) \/ <<"report", r>> \in ToSet(steps) => Ahead(j, r)
    BY <1>5, <1>8
  <2>2. /\ k = [j EXCEPT !.amount = amount, !.served = @ \cup {s}]
        /\ l = [j EXCEPT !.served = @ \cup {s}]
    BY <2>1
  <2>3. some \in SUBSET Strategies /\ Ahead(j, s)
    BY <1>1, <1>8, <2>1
  <2> HIDE DEF j, some
  <2>0. /\ JobFor(c, j) /\ amount \in Int
        /\ k = [j EXCEPT !.amount = amount, !.served = some]
        /\ l = [j EXCEPT !.served = some]
    BY <1>8, <2>1
  <2> HIDE DEF k, l
  <2>4. /\ DOMAIN k = JobFields /\ k.kind = j.kind /\ k.todo = j.todo /\ k.served = some
        /\ k.state = j.state /\ k.shares = j.shares /\ k.amount \in Int
        /\ DOMAIN l = JobFields /\ l.kind = j.kind /\ l.todo = j.todo /\ l.served = some
        /\ l.state = j.state /\ l.shares = j.shares /\ l.amount = j.amount /\ j.amount \in Int
    <3>1. DOMAIN j = JobFields /\ j.amount \in Int
      BY <2>0 DEF JobFor, JobOK
    <3> QED BY <2>0, <3>1 DEF JobFields
  <2>10. JobFor(c, k) /\ JobFor(c, l)
    BY ONLY <2>0, <2>4, ServingFacts
  <2>5. \A r \in some : r \in old.served \/ Ahead(j, r)
    BY <2>3 DEF some
  <2>6. Goes(c, k)
    BY <1>1, <2>1, <2>3, <2>4, <2>5, <2>10 DEF Goes, Shape, Ahead
  <2>7. Goes(c, l)
    BY <1>1, <2>1, <2>3, <2>4, <2>5, <2>10 DEF Goes, Shape, Ahead
  <2>8. Goes(c, [j EXCEPT !.amount = amount, !.served = @ \cup {s}])
    BY <2>2, <2>6
  <2>9. Goes(c, [j EXCEPT !.served = @ \cup {s}])
    BY <2>2, <2>7
  <2> QED BY <2>8, <2>9 DEF j
<1> HIDE DEF op, s
<1>9. CASE op = "look" /\ LookAt(c, s)
  <2> DEFINE amount == Portion(allocated[s], YieldBps)
             fund   == IF faucet = "payer" THEN <<<<"mint", s>>>>
                       ELSE <<<<"topup", amount>>, <<"fund", s>>>>
             steps  == fund \o <<<<"report", s>>>>
  <2>0. s \in Strategies
    BY <1>2, <1>9 DEF OnStrategy
  <2>1. amount \in Nat /\ amount \in Int
    <3>1. allocated[s] \in Nat /\ YieldBps \in Nat
      BY <1>1, <2>0, DeskConstants, Constants DEF TypeOK
    <3>2. amount \in Nat
      BY <3>1, AmountTypes
    <3> QED BY <3>2
  <2>2. Read(c, IF Crankable(s)
                  THEN [Continue(c, steps) EXCEPT !.amount = amount, !.served = @ \cup {s}]
                  ELSE Continue(c, <<>>))
    BY <1>9 DEF LookAt
  <2> HIDE DEF amount
  <2>3. /\ steps \in Seq(Steps) /\ Reporting(steps, ops)
        /\ <<"report", s>> \in ToSet(steps)
    <3>1. /\ <<"mint", s>> \in Steps /\ <<"topup", amount>> \in Steps
          /\ <<"fund", s>> \in Steps /\ <<"report", s>> \in Steps
      BY <2>0, <2>1 DEF Steps, OnStrategy, OnAmount
    <3>2. {"mint", "fund", "report", "topup"} \subseteq ops /\ "topup" \notin Mints
          /\ "mint" \in Mints /\ "fund" \in Mints
      BY DEF YieldOps, Mints
    <3>3. ASSUME NEW m \in {"mint", "fund"}
          PROVE  /\ <<<<m, s>>, <<"report", s>>>> \in Seq(Steps)
                 /\ Reporting(<<<<m, s>>, <<"report", s>>>>, ops)
                 /\ <<"report", s>> \in ToSet(<<<<m, s>>, <<"report", s>>>>)
      <4> HIDE DEF steps
      <4>1. <<m, s>> \in Steps /\ m \in ops \cap Mints /\ "report" \in ops
        BY <3>1, <3>2, <3>3
      <4>2. <<<<m, s>>, <<"report", s>>>> \in Seq(Steps)
        BY <3>1, <4>1
      <4>3. /\ Reporting(<<<<m, s>>, <<"report", s>>>>, ops)
            /\ <<"report", s>> \in ToSet(<<<<m, s>>, <<"report", s>>>>)
        BY ONLY <4>1, ReportedPair
      <4> QED BY <4>2, <4>3
    <3>4. CASE faucet = "payer"
      <4>1. fund = <<<<"mint", s>>>>
        BY <3>4
      <4>2. fund \o <<<<"report", s>>>> = <<<<"mint", s>>, <<"report", s>>>>
        BY <3>1, <4>1, TwoInRow
      <4> HIDE DEF fund
      <4> QED BY <3>3, <4>2
    <3>5. CASE faucet # "payer"
      <4> DEFINE f == <<<<"topup", amount>>>>
                 g == <<<<"fund", s>>, <<"report", s>>>>
      <4>1. fund = <<<<"topup", amount>>, <<"fund", s>>>>
        BY <3>5
      <4>2. fund \o <<<<"report", s>>>> = f \o g
        BY <3>1, <4>1, ThreeInRow
      <4>3. f \in Seq(Steps) /\ g \in Seq(Steps) /\ <<"report", s>> \in ToSet(g)
        BY <3>1, <3>3
      <4>4. Reporting(f, ops)
        BY <3>2, ReportingLists
      <4>5. Reporting(g, ops)
        BY <3>3
      <4> HIDE DEF f, g, fund
      <4> QED BY <4>2, <4>3, <4>4, <4>5, ReportingConcat, StepLists
    <3> QED BY <3>4, <3>5
  <2> HIDE DEF steps
  <2>4. Goes(c, [Continue(c, steps) EXCEPT !.amount = amount, !.served = @ \cup {s}])
    BY <1>8, <1>9, <2>0, <2>1, <2>3
  <2> QED BY <1>4, <1>6, <1>9, <2>2, <2>4
<1>10. CASE op = "tip" /\ Tip(c, s, TRUE)
  <2> DEFINE steps == <<<<"mint", s>>, <<"report", s>>>>
  <2>0. s \in Strategies /\ 0 \in Int
    BY <1>2, <1>10 DEF OnStrategy
  <2>1. /\ steps \in Seq(Steps) /\ Reporting(steps, ops) /\ <<"report", s>> \in ToSet(steps)
    <3>1. <<"mint", s>> \in Steps /\ <<"report", s>> \in Steps
      BY <2>0 DEF Steps, OnStrategy
    <3>2. "mint" \in ops \cap Mints /\ "report" \in ops
      BY DEF YieldOps, Mints
    <3> QED BY <3>1, <3>2, ReportedPair
  <2>2. Read(c, IF ~Created(s) THEN Refused(c)
                ELSE IF ~Active(s) THEN Continue(c, <<>>)
                ELSE [Continue(c, steps) EXCEPT !.served = @ \cup {s}])
    BY <1>10 DEF Tip
  <2> HIDE DEF steps
  <2>3. Goes(c, [Continue(c, steps) EXCEPT !.served = @ \cup {s}])
    BY <1>8, <1>10, <2>0, <2>1
  <2>4. Goes(c, Continue(c, <<>>)) /\ Goes(c, Refused(c))
    BY <1>3, <1>6, <1>7, <1>10
  <2> QED BY <1>4, <2>2, <2>3, <2>4
<1>11. CASE op = "drop" /\ Tip(c, s, FALSE)
  <2>0. s \in Strategies /\ Dropping(old) /\ old.kind # "crank"
    BY <1>2, <1>3, <1>11 DEF OnStrategy, Dropping
  <2>1. ASSUME NEW steps \in Seq(Steps), steps = <<>> \/ \E r : steps = <<<<"mint", r>>>>
        PROVE  Goes(c, Continue(c, steps))
    <3> DEFINE j == Continue(c, steps)
    <3>1. JobFor(c, j) /\ j.kind = old.kind /\ Dropping(j) /\ \A r : ~Ahead(old, r)
      BY <1>1, <2>0, <2>1, DropsOn
    <3> HIDE DEF j
    <3>2. Goes(c, j)
      BY <1>1, <3>1 DEF Goes, Shape, Dropping
    <3> QED BY <3>2 DEF j
  <2>2. <<>> \in Seq(Steps) /\ <<<<"mint", s>>>> \in Seq(Steps)
    <3>1. <<"mint", s>> \in Steps
      BY <2>0 DEF Steps, OnStrategy
    <3> QED BY <3>1, StepLists
  <2>3. Goes(c, Continue(c, <<>>)) /\ Goes(c, Continue(c, <<<<"mint", s>>>>)) /\ Goes(c, Refused(c))
    BY <1>7, <2>0, <2>1, <2>2
  <2>4. Read(c, IF ~Created(s) THEN Refused(c)
                ELSE IF ~Active(s) THEN Continue(c, <<>>)
                ELSE Continue(c, <<<<"mint", s>>>>))
    BY <1>11 DEF Tip
  <2> QED BY <1>4, <2>3, <2>4
<1>12. CASE op = "verify" /\ Verify(c)
  <2> DEFINE handed == job[c].amount * Cardinality(job[c].served)
             grown == totalDeposited = job[c].before + handed
  <2>1. Read(c, IF grown THEN Continue(c, <<>>) ELSE Refused(c))
    BY <1>12 DEF Verify
  <2> HIDE DEF grown
  <2>2. Goes(c, Continue(c, <<>>)) /\ Goes(c, Refused(c))
    BY <1>3, <1>6, <1>7, <1>12
  <2> QED BY <1>4, <2>1, <2>2
<1> QED BY <1>9, <1>10, <1>11, <1>12 DEF op, s

\* A strategy's account holds what it is booked at.
InStep(s) == ata[s] = allocated[s]

\* What such a job sends brings no strategy out of step but the one it sends
\* tokens to, and a report brings its strategy into step.
RoundSent(c) ==
  LET next == Head(job[c].todo)
  IN  /\ Landed(c)
      /\ next \in Steps
      /\ \A s \in Strategies :
           InStep(s) \/ next = <<"report", s>> =>
             InStep(s)' \/ (next[1] \in Mints /\ next[2] = s)

\* Its transactions land like that, or it is refused.
LEMMA RoundSends ==
  ASSUME DeskInv, NEW c \in Clients, Advance(c), job[c].kind \in YieldKinds, Shape(c, job[c]),
         Head(job[c].todo)[1] \notin {"look", "tip", "drop", "verify"}
  PROVE  BrokenOff(c, Refused(c)) \/ RoundSent(c)
<1> DEFINE op == Head(job[c].todo)[1]
           of == Head(job[c].todo)[2]
           old == job[c]
           ops == YieldOps(old.kind)
<1>1. /\ JobsOK /\ TypeOK /\ Inv /\ Running(c)
      /\ old.todo \in Seq(Steps) /\ old.todo # <<>>
      /\ Reporting(old.todo, ops) \/ Dropping(old)
  BY DEF Advance, DeskInv, Inv, JobsOK, JobFor, JobOK, Running, YieldKinds, StepsOf, Shape
<1>2. /\ Head(old.todo) \in Steps /\ Head(old.todo) = <<op, of>>
      /\ op \in OnStrategy => of \in Strategies
      /\ op \in OnAmount => of \in Nat
  <2>1. Head(old.todo) \in Steps
    BY <1>1, HeadTailProperties
  <2>2. \A e \in Steps : e = <<e[1], e[2]>>
    BY DEF Steps
  <2> QED BY <2>1, <2>2, StepFacts
<1>3. op \in {"topup", "fund", "mint", "report", "accrue", "deposit", "create", "weigh", "allocate"}
  <2>1. Len(old.todo) \in Nat /\ 1 \in 1..Len(old.todo) /\ Head(old.todo) = old.todo[1]
    BY <1>1, HeadTailProperties, LenProperties, EmptySeq
  <2>2. Reporting(old.todo, ops) => op \in ops
    BY <2>1 DEF Reporting
  <2>3. Dropping(old) => op \in {"drop", "mint"}
    BY <2>1 DEF Dropping
  <2> QED BY <1>1, <2>2, <2>3 DEF YieldOps
<1>4. \/ op = "topup" /\ TopUp(c, of)
      \/ op = "fund" /\ Send(c, MayFund(of, old.amount), Fund(of, old.amount), FALSE)
      \/ /\ op = "mint"
         /\ Send(c, MayMint(of, old.amount), Mint(of, old.amount), old.amount = 0)
      \/ op = "report" /\ SendReport(c, of)
      \/ op = "accrue" /\ Send(c, TRUE, Accrue(of), FALSE)
      \/ /\ op = "deposit"
         /\ Send(c, MayDeposit(Holder, of, Nothing), Ledger(Deposit(Holder, of, Nothing)), FALSE)
      \/ op = "create" /\ Send(c, ~Created(of), Ledger(CreateStrategy(of)), FALSE)
      \/ /\ op = "weigh"
         /\ Send(c, MaySetWeight(of, PlannedWeight),
                 Ledger(SetStrategyWeight(of, PlannedWeight)), FALSE)
      \/ /\ op = "allocate"
         /\ Send(c, MayAllocate(of, Allocation), Ledger(AllocateToStrategy(of, Allocation)), FALSE)
  BY <1>3 DEF Advance
<1> HIDE DEF op, of
<1> DEFINE effect == \A s \in Strategies :
             InStep(s) \/ <<op, of>> = <<"report", s>> =>
               InStep(s)' \/ (op \in Mints /\ of = s)
<1>5. ASSUME BreaksOff(c, Refused(c)), UNCHANGED <<vars, besideVars, screen>>
      PROVE  BrokenOff(c, Refused(c))
  BY <1>5 DEF BrokenOff
<1>6. ASSUME Landed(c), effect PROVE RoundSent(c)
  <2>1. Head(old.todo)[1] = op /\ Head(old.todo)[2] = of
    BY DEF op, of
  <2> QED BY <1>2, <1>6, <2>1 DEF RoundSent
<1>7. ASSUME UNCHANGED <<ata, allocated>>, op # "report" PROVE effect
  BY <1>7 DEF InStep
<1>8. UNCHANGED vars => UNCHANGED <<ata, allocated>>
  BY DEF vars, tokenVars
<1>9. BrokenOff(c, Refused(c)) \/ (Landed(c) /\ effect)
  <2>1. CASE op = "topup" /\ TopUp(c, of)
    <3>1. (Landed(c) /\ UNCHANGED vars) \/ BrokenOff(c, Refused(c))
      BY <1>5, <2>1 DEF TopUp, Send, Claim
    <3> QED BY <1>7, <1>8, <2>1, <3>1
  <2>2. ASSUME op \in Mints, of \in Strategies, NEW amount, TransferIn(of, amount)
        PROVE  effect
    <3>1. /\ allocated' = allocated
          /\ \A s \in Strategies \ {of} : ata'[s] = ata[s]
      BY <1>1, <2>2 DEF TransferIn, TypeOK
    <3> QED BY <2>2, <3>1 DEF InStep, Mints
  <2>3. CASE op = "fund" /\ Send(c, MayFund(of, old.amount), Fund(of, old.amount), FALSE)
    <3>1. of \in Strategies /\ op \in Mints
      BY <1>2, <2>3 DEF OnStrategy, Mints
    <3>2. (Landed(c) /\ TransferIn(of, old.amount)) \/ BrokenOff(c, Refused(c))
      BY <1>5, <2>3 DEF Send, Fund
    <3> QED BY <2>2, <3>1, <3>2
  <2>4. CASE /\ op = "mint"
             /\ Send(c, MayMint(of, old.amount), Mint(of, old.amount), old.amount = 0)
    <3>1. of \in Strategies /\ op \in Mints /\ op # "report"
      BY <1>2, <2>4 DEF OnStrategy, Mints
    <3>2. \/ Landed(c) /\ (TransferIn(of, old.amount) \/ UNCHANGED vars)
          \/ BrokenOff(c, Refused(c))
      BY <1>5, <2>4 DEF Send, Mint
    <3> QED BY <1>7, <1>8, <2>2, <3>1, <3>2
  <2>5. CASE op = "report" /\ SendReport(c, of)
    <3>1. of \in Strategies
      BY <1>2, <2>5 DEF OnStrategy
    <3>2. \/ Landed(c) /\ ReportYield(of)
          \/ Landed(c) /\ UNCHANGED vars /\ ata[of] = allocated[of]
          \/ BrokenOff(c, Refused(c))
      BY <1>5, <2>5 DEF SendReport, Send, Ledger
    <3>3. ASSUME ReportYield(of) PROVE effect
      <4>1. ata' = ata /\ allocated' = [allocated EXCEPT ![of] = ata[of]]
        BY <3>3 DEF ReportYield, Settle, Rebook, tokenVars
      <4>2. allocated'[of] = ata[of] /\ \A s \in Strategies \ {of} : allocated'[s] = allocated[s]
        BY <1>1, <3>1, <4>1 DEF TypeOK
      <4> QED BY <4>1, <4>2 DEF InStep
    <3>4. ASSUME UNCHANGED vars, ata[of] = allocated[of] PROVE effect
      BY <1>8, <3>4 DEF InStep
    <3> QED BY <3>2, <3>3, <3>4
  <2>6. CASE op = "accrue" /\ Send(c, TRUE, Accrue(of), FALSE)
    <3>1. Landed(c) /\ UNCHANGED vars
      BY <2>6 DEF Send, Accrue
    <3> QED BY <1>7, <1>8, <2>6, <3>1
  <2>7. CASE /\ op = "deposit"
             /\ Send(c, MayDeposit(Holder, of, Nothing), Ledger(Deposit(Holder, of, Nothing)), FALSE)
    <3>1. (Landed(c) /\ Deposit(Holder, of, Nothing)) \/ BrokenOff(c, Refused(c))
      BY <1>5, <2>7 DEF Send, Ledger
    <3>2. ASSUME Deposit(Holder, of, Nothing) PROVE effect
      <4> DEFINE push == FanOut(of, Nothing)
      <4>1. /\ ata' = [s \in Strategies |-> ata[s] + push[s]]
            /\ allocated' = [s \in Strategies |-> allocated[s] + push[s]]
        BY <3>2 DEF Deposit
      <4> HIDE DEF push
      <4> QED BY <2>7, <4>1 DEF InStep
    <3> QED BY <3>1, <3>2
  <2>8. CASE op = "create" /\ Send(c, ~Created(of), Ledger(CreateStrategy(of)), FALSE)
    <3>1. (Landed(c) /\ UNCHANGED <<ata, allocated>>) \/ BrokenOff(c, Refused(c))
      BY <1>5, <2>8 DEF Send, Ledger, CreateStrategy, tokenVars
    <3> QED BY <1>7, <2>8, <3>1
  <2>9. CASE /\ op = "weigh"
             /\ Send(c, MaySetWeight(of, PlannedWeight),
                     Ledger(SetStrategyWeight(of, PlannedWeight)), FALSE)
    <3>1. (Landed(c) /\ UNCHANGED <<ata, allocated>>) \/ BrokenOff(c, Refused(c))
      BY <1>5, <2>9 DEF Send, Ledger, SetStrategyWeight, tokenVars
    <3> QED BY <1>7, <2>9, <3>1
  <2>10. CASE /\ op = "allocate"
              /\ Send(c, MayAllocate(of, Allocation), Ledger(AllocateToStrategy(of, Allocation)), FALSE)
    <3>1. (Landed(c) /\ AllocateToStrategy(of, Allocation)) \/ BrokenOff(c, Refused(c))
      BY <1>5, <2>10 DEF Send, Ledger
    <3>2. of \in Strategies
      BY <1>2, <2>10 DEF OnStrategy
    <3>3. ASSUME AllocateToStrategy(of, Allocation) PROVE effect
      <4>1. /\ ata' = [ata EXCEPT ![of] = @ + Allocation]
            /\ allocated' = [allocated EXCEPT ![of] = allocated[of] + Allocation]
        BY <3>3 DEF AllocateToStrategy, ReserveToStrategy, Rebook
      <4>2. /\ ata'[of] = ata[of] + Allocation /\ allocated'[of] = allocated[of] + Allocation
            /\ \A s \in Strategies \ {of} : ata'[s] = ata[s] /\ allocated'[s] = allocated[s]
        BY <1>1, <3>2, <4>1 DEF TypeOK
      <4> QED BY <2>10, <4>2 DEF InStep
    <3> QED BY <3>1, <3>3
  <2> HIDE DEF effect
  <2> QED BY <1>4, <2>1, <2>3, <2>4, <2>5, <2>6, <2>7, <2>8, <2>9, <2>10
<1> HIDE DEF effect
<1> QED BY <1>6, <1>9

-----------------------------------------------------------------------------
(***************************************************************************)
(* What a calm job has served is booked or still to be reported, by itself *)
(* or, among cranks, by another.                                           *)
(***************************************************************************)
BothCranks(c, d) == job[c].kind = "crank" /\ job[d].kind = "crank"
ToReport(c, s) == \E d \in Clients : Ahead(job[d], s) /\ (d = c \/ BothCranks(c, d))
Kept(c) ==
  job[c].kind \in YieldKinds /\ job[c].calm /\ job[c].state # "refused" =>
    \A s \in job[c].served : InStep(s) \/ ToReport(c, s)

YieldInv == NeverCreatedIsEmpty /\ \A c \in Clients : Shape(c, job[c]) /\ Kept(c)

\* A client takes up a job, and nothing else happens; a list that is to hand out
\* yield serves nobody yet, or reports it.
Begun(c) ==
  /\ ~Running(c) /\ UNCHANGED <<ata, allocated>>
  /\ \E j : /\ job' = [job EXCEPT ![c] = j] /\ Shape(c, j)
            /\ j.kind \in YieldKinds =>
                 \A s \in j.served : InStep(s) \/ Ahead(j, s)
\* The transactions of others than these jobs: nobody stays calm.
Stirred ==
  /\ DOMAIN job' = Clients
  /\ \A c \in Clients :
       job'[c].kind \in YieldKinds =>
         /\ ~job'[c].calm /\ job'[c].kind = job[c].kind
         /\ job'[c].todo = job[c].todo /\ job'[c].served = job[c].served
\* A job of another kind goes on by itself.
Apart(c) ==
  /\ job[c].kind \notin YieldKinds /\ UNCHANGED <<ata, allocated>>
  /\ \E j : j.kind \notin YieldKinds /\ job' = [job EXCEPT ![c] = j]

\* A client that does nothing has nothing ahead.
LEMMA OnlyRunningReports ==
  ASSUME JobsOK, NEW c \in Clients, NEW s, Ahead(job[c], s)
  PROVE  Running(c) /\ job[c].state = "running" /\ job[c].todo # <<>>
<1>1. job[c].todo # <<>>
  BY DEF Ahead, ToSet
<1> QED BY <1>1 DEF JobsOK, JobFor, JobOK, Running

\* The shape of a job depends on its kind, its steps and whom it serves.
LEMMA SameShape ==
  ASSUME NEW c, NEW j, NEW k, Shape(c, j),
         k.kind = j.kind, k.todo = j.todo, k.served = j.served
  PROVE  Shape(c, k)
BY DEF Shape, Dropping

\* An overtaken job serves the same strategies.
LEMMA OvertakenServes ==
  ASSUME NEW c, NEW j, JobFor(c, j), NEW crank, Overtaken(j, crank).kind \in YieldKinds
  PROVE  /\ j.state = "running" /\ Overtaken(j, crank).state = "running"
         /\ Overtaken(j, crank).kind = j.kind /\ Overtaken(j, crank).todo = j.todo
         /\ Overtaken(j, crank).served = j.served
         /\ Overtaken(j, crank).calm => j.calm /\ crank /\ j.kind = "crank"
<1>1. DOMAIN j = JobFields
  BY DEF JobFor, JobOK
<1>2. Overtaken(j, crank) # Idle
  BY DEF Idle, YieldKinds
<1>3. j.state = "running" /\ Overtaken(j, crank) = [j EXCEPT !.calm = @ /\ crank /\ j.kind = "crank"]
  BY <1>2 DEF Overtaken
<1>4. Overtaken(j, crank).served = j.served
  BY <1>1, <1>3 DEF JobFields
<1> DEFINE over == Overtaken(j, crank)
<1>5. \/ over = Idle
      \/ /\ j.state = "running" /\ over.state = "running" /\ over.kind = j.kind
         /\ over.todo = j.todo
         /\ over.calm => j.calm /\ crank /\ j.kind = "crank"
  BY OvertakenFacts
<1> HIDE DEF over
<1>6. over # Idle /\ over.served = j.served
  BY <1>2, <1>4 DEF over
<1>7. /\ j.state = "running" /\ over.state = "running" /\ over.kind = j.kind
      /\ over.todo = j.todo /\ over.served = j.served
      /\ over.calm => j.calm /\ crank /\ j.kind = "crank"
  BY ONLY <1>5, <1>6, Zenon
<1> QED BY ONLY <1>7 DEF over

\* A new job.
LEMMA BegunKeeps ==
  ASSUME JobsOK, YieldInv, NEW c \in Clients, Begun(c)
  PROVE  \A d \in Clients : Shape(d, job'[d]) /\ Kept(d)'
<1>1. PICK j : /\ job' = [job EXCEPT ![c] = j] /\ Shape(c, j)
               /\ j.kind \in YieldKinds => \A s \in j.served : InStep(s) \/ Ahead(j, s)
  BY DEF Begun
<1>2. /\ DOMAIN job = Clients /\ job'[c] = j /\ \A d \in Clients \ {c} : job'[d] = job[d]
      /\ \A s : InStep(s) <=> InStep(s)'
      /\ \A s : ~Ahead(job[c], s)
  BY <1>1, OnlyRunningReports DEF JobsOK, Begun, InStep
<1>3. \A d \in Clients : Shape(d, job'[d])
  BY <1>1, <1>2 DEF YieldInv
<1>4. Kept(c)'
  BY <1>1, <1>2 DEF Kept, ToReport
<1>5. ASSUME NEW d \in Clients \ {c} PROVE Kept(d)'
  <2>1. \A s : ToReport(d, s) => ToReport(d, s)'
    BY <1>2 DEF ToReport, BothCranks
  <2>2. Kept(d)
    BY DEF YieldInv
  <2> QED BY <1>2, <2>1, <2>2 DEF Kept
<1> QED BY <1>3, <1>4, <1>5

\* A job reads and goes on.
LEMMA ReadKeeps ==
  ASSUME JobsOK, YieldInv, NEW c \in Clients, Running(c), job[c].kind \in YieldKinds,
         UNCHANGED <<ata, allocated>>,
         NEW j, Goes(c, j), job' = [job EXCEPT ![c] = j], j.calm = job[c].calm
  PROVE  \A d \in Clients : Shape(d, job'[d]) /\ Kept(d)'
<1>1. /\ DOMAIN job = Clients /\ job'[c] = j /\ \A d \in Clients \ {c} : job'[d] = job[d]
      /\ \A s : InStep(s) <=> InStep(s)'
      /\ Shape(c, j) /\ j.kind = job[c].kind
      /\ job[c].state # "refused"
  BY DEF JobsOK, InStep, Goes, Running
<1>2. \A d \in Clients : Shape(d, job'[d])
  BY <1>1 DEF YieldInv
<1>3. ASSUME j.state = "refused", j.kind # "crank", NEW d \in Clients PROVE Kept(d)'
  <2>1. CASE d = c
    BY <1>1, <1>3, <2>1 DEF Kept
  <2>2. CASE d # c
    <3>1. \A s : ToReport(d, s) => ToReport(d, s)'
      BY <1>1, <1>3, <2>2 DEF ToReport, BothCranks
    <3>2. Kept(d) /\ job'[d] = job[d]
      BY <1>1, <2>2 DEF YieldInv
    <3> QED BY <1>1, <3>1, <3>2 DEF Kept
  <2> QED BY <2>1, <2>2
<1>4. ASSUME \A s \in Strategies : Ahead(job[c], s) => Ahead(j, s),
             \A s \in j.served : s \in job[c].served \/ Ahead(j, s), NEW d \in Clients
      PROVE  Kept(d)'
  <2>1. \A s \in Strategies : \A e \in Clients : Ahead(job[e], s) => Ahead(job'[e], s)
    BY <1>1, <1>4
  <2>2. \A s \in Strategies : ToReport(d, s) => ToReport(d, s)'
    BY <1>1, <2>1 DEF ToReport, BothCranks
  <2>3. Kept(d) /\ Shape(d, job'[d])
    BY <1>2 DEF YieldInv
  <2>4. CASE d = c
    <3>1. \A s : Ahead(j, s) => ToReport(c, s)'
      BY <1>1 DEF ToReport
    <3> QED BY <1>1, <1>4, <2>2, <2>3, <2>4, <3>1 DEF Kept, Shape
  <2>5. CASE d # c
    BY <1>1, <2>2, <2>3, <2>5 DEF Kept, Shape
  <2> QED BY <2>4, <2>5
<1> QED BY <1>2, <1>3, <1>4 DEF Goes

\* A transaction of one of these jobs.
LEMMA SendKeeps ==
  ASSUME JobsOK, YieldInv, NEW c \in Clients, Running(c), job[c].kind \in YieldKinds,
         RoundSent(c)
  PROVE  \A d \in Clients : Shape(d, job'[d]) /\ Kept(d)'
<1> DEFINE old == job[c]
           next == Head(job[c].todo)
           mine == Continue(c, <<>>)
           rest == Tail(job[c].todo)
           crank == job[c].kind = "crank" /\ faucet = "payer"
           ops == YieldOps(job[c].kind)
<1>1. /\ DOMAIN job = Clients /\ JobFor(c, old) /\ old.todo \in Seq(Steps) /\ old.todo # <<>>
      /\ old.state # "refused" /\ Shape(c, old) /\ Kept(c)
      /\ \A d \in Clients : JobFor(d, job[d]) /\ Shape(d, job[d]) /\ Kept(d)
  BY DEF JobsOK, JobFor, JobOK, Running, YieldKinds, StepsOf, YieldInv
<1>2. /\ JobFor(c, mine) /\ mine.kind = old.kind /\ mine.served = old.served
      /\ mine.calm = old.calm /\ mine.todo = rest
      /\ rest \in Seq(Steps)
  <2>1. <<>> \o rest = rest /\ rest \in Seq(Steps) /\ <<>> \in Seq(Steps)
    BY <1>1, HeadTailProperties, ConcatEmptySeq
  <2> QED BY <2>1, ContinueServes
<1>3. /\ DOMAIN job' = Clients /\ job'[c] = mine
      /\ \A d \in Clients \ {c} : job'[d] = Overtaken(job[d], crank)
  BY DEF RoundSent, Landed, OnClient
<1>4. /\ next \in Steps
      /\ \A s \in Strategies :
           InStep(s) \/ next = <<"report", s>> =>
             InStep(s)' \/ (next[1] \in Mints /\ next[2] = s)
  BY DEF RoundSent
<1>5. \A s : Ahead(old, s) => next = <<"report", s>> \/ Ahead(mine, s)
  BY <1>1, <1>2, TailKeeps DEF Ahead
<1> HIDE DEF mine, rest
<1>6. Shape(c, mine) /\ (next[1] \in Mints => Ahead(mine, next[2]) \/ Dropping(old))
  <2>1. CASE Reporting(old.todo, ops)
    <3>1. Reporting(rest, ops) /\ (next[1] \in Mints => <<"report", next[2]>> \in ToSet(rest))
      BY <1>1, <2>1, ReportingTail DEF rest
    <3> QED BY <1>1, <1>2, <3>1 DEF Shape, Ahead
  <2>2. CASE Dropping(old)
    <3>1. Dropping(mine)
      <4> <<>> \in Seq(Steps)
        BY EmptySeq
      <4> QED BY <2>2, DropsOn DEF mine
    <3> QED BY <1>1, <1>2, <2>2, <3>1 DEF Shape
  <2> QED BY <1>1, <2>1, <2>2 DEF Shape
<1> HIDE DEF old, next, crank, ops
<1>7. \A d \in Clients \ {c} :
        job'[d].kind \in YieldKinds =>
          /\ job[d].state = "running" /\ job'[d].state = "running"
          /\ job'[d].kind = job[d].kind /\ job'[d].todo = job[d].todo
          /\ job'[d].served = job[d].served
          /\ job'[d].calm => job[d].calm /\ crank /\ job[d].kind = "crank"
  BY <1>1, <1>3, OvertakenServes
<1>8. \A d \in Clients : Shape(d, job'[d])
  <2> SUFFICES ASSUME NEW d \in Clients \ {c}, job'[d].kind \in YieldKinds
               PROVE  Shape(d, job'[d])
    BY <1>3, <1>6 DEF Shape
  <2>1. /\ job'[d].kind = job[d].kind /\ job'[d].todo = job[d].todo
        /\ job'[d].served = job[d].served
    BY <1>7
  <2> QED BY <1>1, <2>1, SameShape
<1>9. ASSUME NEW d \in Clients, job'[d].kind \in YieldKinds, job'[d].calm,
             job'[d].state # "refused", NEW s \in job'[d].served
      PROVE  InStep(s)' \/ ToReport(d, s)'
  <2>1. /\ job'[d].kind = job[d].kind /\ job'[d].served = job[d].served /\ job[d].calm
        /\ job[d].state # "refused"
        /\ d # c => BothCranks(d, c)
    BY <1>1, <1>2, <1>3, <1>7, <1>9 DEF BothCranks, old, crank
  <2>2. s \in Strategies /\ job[d].served # {}
    BY <1>1, <1>9, <2>1 DEF Shape
  <2>3. InStep(s) \/ ToReport(d, s)
    BY <1>1, <1>9, <2>1 DEF Kept
  <2>4. /\ d # c => job'[d].kind = "crank"
        /\ job'[c].kind = job[c].kind
    BY <1>2, <1>3, <2>1 DEF BothCranks, old
  <2>5. ASSUME Ahead(mine, s) PROVE ToReport(d, s)'
    <3>1. Ahead(job'[c], s) /\ (d = c \/ BothCranks(d, c)')
      BY <1>3, <2>1, <2>4, <2>5 DEF BothCranks
    <3> QED BY <3>1 DEF ToReport
  <2>6. ASSUME next[1] \in Mints, next[2] = s PROVE ToReport(d, s)'
    <3>1. ~Dropping(old)
      BY <2>1, <2>2 DEF Dropping, BothCranks, old
    <3> QED BY <1>6, <2>5, <2>6, <3>1
  <2>7. CASE InStep(s)
    BY <1>4, <2>2, <2>6, <2>7
  <2>8. CASE ToReport(d, s)
    <3>1. PICK e \in Clients : Ahead(job[e], s) /\ (e = d \/ BothCranks(d, e))
      BY <2>8 DEF ToReport
    <3>2. CASE e = c
      <4>1. next = <<"report", s>> \/ Ahead(mine, s)
        BY <1>5, <3>1, <3>2 DEF old
      <4> QED BY <1>4, <2>2, <2>5, <2>6, <4>1
    <3>3. CASE e # c
      <4>1. job[e].kind \in YieldKinds /\ job[e].state = "running"
        <5>1. job[e].kind = job[d].kind
          BY <3>1 DEF BothCranks
        <5> QED BY <1>9, <2>1, <3>1, <5>1, OnlyRunningReports
      <4>2. job'[e] = Overtaken(job[e], crank) /\ job'[e].kind = job[e].kind
            /\ job'[e].todo = job[e].todo
        <5>1. job'[e] = Overtaken(job[e], crank)
          BY <1>3, <3>3
        <5>2. Overtaken(job[e], crank) = [job[e] EXCEPT !.calm = @ /\ crank /\ job[e].kind = "crank"]
          BY <4>1 DEF Overtaken
        <5>3. DOMAIN job[e] = JobFields
          BY <1>1 DEF JobFor, JobOK
        <5> QED BY <5>1, <5>2, <5>3 DEF JobFields
      <4>3. Ahead(job'[e], s) /\ (e = d \/ BothCranks(d, e)')
        BY <2>1, <3>1, <4>2 DEF Ahead, BothCranks
      <4> QED BY <4>3 DEF ToReport
    <3> QED BY <3>2, <3>3
  <2> QED BY <2>3, <2>7, <2>8
<1>10. \A d \in Clients : Kept(d)'
  BY <1>9 DEF Kept
<1> QED BY <1>8, <1>10

\* A job breaks off: a crank takes the others' calm with it.
LEMMA BreakKeeps ==
  ASSUME JobsOK, YieldInv, NEW c \in Clients, NEW mine \in {Idle, Refused(c)},
         BrokenOff(c, mine)
  PROVE  \A d \in Clients : Shape(d, job'[d]) /\ Kept(d)'
<1>1. /\ DOMAIN job = Clients /\ DOMAIN job' = Clients /\ job'[c] = mine
      /\ \A d \in Clients \ {c} :
           job'[d] = IF BothCranks(c, d) THEN [job[d] EXCEPT !.calm = FALSE] ELSE job[d]
      /\ \A s : InStep(s) <=> InStep(s)'
  BY DEF JobsOK, BrokenOff, BreaksOff, BothCranks, vars, tokenVars, InStep
<1>2. \A d \in Clients : JobFor(d, job[d]) /\ Shape(d, job[d]) /\ Kept(d)
  BY DEF JobsOK, YieldInv
<1>3. Shape(c, job'[c]) /\ Kept(c)'
  <2>1. CASE mine = Idle
    <3>1. job'[c].kind = "none"
      BY <1>1, <2>1 DEF Idle
    <3> QED BY <3>1 DEF Shape, Kept, YieldKinds
  <2>2. CASE mine = Refused(c)
    <3>1. Refused(c) = [job[c] EXCEPT !.todo = <<>>, !.state = "refused"] /\ DOMAIN job[c] = JobFields
      BY <1>2 DEF Refused, JobFor, JobOK
    <3>2. /\ job'[c].state = "refused" /\ job'[c].kind = job[c].kind
          /\ job'[c].served = job[c].served /\ job'[c].todo = <<>>
      BY <1>1, <2>2, <3>1 DEF JobFields
    <3> QED BY <1>2, <3>2, ReportingLists DEF Shape, Kept
  <2> QED BY <2>1, <2>2
<1>4. ASSUME NEW d \in Clients \ {c}
      PROVE  /\ job'[d].kind = job[d].kind /\ job'[d].todo = job[d].todo
             /\ job'[d].served = job[d].served /\ job'[d].state = job[d].state
             /\ job'[d].calm => job[d].calm /\ ~BothCranks(c, d)
  <2>1. CASE BothCranks(c, d)
    <3>1. DOMAIN job[d] = JobFields /\ job'[d] = [job[d] EXCEPT !.calm = FALSE]
      BY <1>1, <1>2, <2>1 DEF JobFor, JobOK
    <3> QED BY <3>1 DEF JobFields
  <2>2. CASE ~BothCranks(c, d)
    BY <1>1, <2>2
  <2> QED BY <2>1, <2>2
<1>5. ASSUME NEW d \in Clients \ {c} PROVE Shape(d, job'[d]) /\ Kept(d)'
  <2>1. Shape(d, job'[d])
    BY <1>2, <1>4, SameShape
  <2>2. ASSUME ~BothCranks(c, d), NEW s, ToReport(d, s) PROVE ToReport(d, s)'
    <3>1. PICK e \in Clients : Ahead(job[e], s) /\ (e = d \/ BothCranks(d, e))
      BY <2>2 DEF ToReport
    <3>2. e # c
      BY <2>2, <3>1 DEF BothCranks
    <3>3. Ahead(job'[e], s) /\ (e = d \/ BothCranks(d, e)')
      BY <1>4, <3>1, <3>2 DEF Ahead, BothCranks
    <3> QED BY <3>3 DEF ToReport
  <2>3. Kept(d)'
    BY <1>1, <1>2, <1>4, <2>2 DEF Kept
  <2> QED BY <2>1, <2>3
<1> QED BY <1>3, <1>5

\* Steps after which nobody is calm, and steps of other jobs.
LEMMA StirredKeeps ==
  ASSUME YieldInv, Stirred
  PROVE  \A d \in Clients : Shape(d, job'[d]) /\ Kept(d)'
<1> SUFFICES ASSUME NEW d \in Clients PROVE Shape(d, job'[d]) /\ Kept(d)'
  OBVIOUS
<1>1. CASE job'[d].kind \in YieldKinds
  <2>1. /\ ~job'[d].calm /\ job'[d].kind = job[d].kind
        /\ job'[d].todo = job[d].todo /\ job'[d].served = job[d].served
    BY <1>1 DEF Stirred
  <2> QED BY <2>1, SameShape DEF Kept, YieldInv
<1>2. CASE job'[d].kind \notin YieldKinds
  BY <1>2 DEF Shape, Kept
<1> QED BY <1>1, <1>2

\* A job of another kind.
LEMMA ApartKeeps ==
  ASSUME JobsOK, YieldInv, NEW c \in Clients, Apart(c)
  PROVE  \A d \in Clients : Shape(d, job'[d]) /\ Kept(d)'
<1>1. PICK j : j.kind \notin YieldKinds /\ job' = [job EXCEPT ![c] = j]
  BY DEF Apart
<1>2. /\ DOMAIN job = Clients /\ job'[c] = j /\ \A d \in Clients \ {c} : job'[d] = job[d]
      /\ \A s : InStep(s) <=> InStep(s)'
      /\ job[c].kind # "crank"
  BY <1>1 DEF JobsOK, Apart, InStep, YieldKinds
<1>3. Shape(c, job'[c]) /\ Kept(c)'
  BY <1>1, <1>2 DEF Shape, Kept
<1>4. ASSUME NEW d \in Clients \ {c} PROVE Shape(d, job'[d]) /\ Kept(d)'
  <2>1. \A s : ToReport(d, s) => ToReport(d, s)'
    BY <1>2 DEF ToReport, BothCranks
  <2>2. Kept(d) /\ Shape(d, job[d]) /\ job'[d] = job[d]
    BY <1>2 DEF YieldInv
  <2> QED BY <1>2, <2>1, <2>2 DEF Kept
<1> QED BY <1>3, <1>4

-----------------------------------------------------------------------------
(***************************************************************************)
(* How such jobs begin.                                                    *)
(***************************************************************************)
\* A list that starts a job.
LEMMA StartBegins ==
  ASSUME JobsOK, NEW c \in Clients, NEW j, Start(c, j), DOMAIN j = JobFields, Shape(c, j),
         j.kind \in YieldKinds => \A s \in j.served : InStep(s) \/ Ahead(j, s)
  PROVE  Begun(c)
<1> DEFINE k == [j EXCEPT !.state = "running"]
<1>1. /\ job' = [job EXCEPT ![c] = k] /\ ~Running(c) /\ UNCHANGED vars
      /\ k.kind = j.kind /\ k.todo = j.todo /\ k.served = j.served
  BY DEF Start, JobFields
<1> HIDE DEF k
<1>2. Shape(c, k)
  BY <1>1, SameShape
<1> QED BY <1>1, <1>2 DEF Begun, Ahead, vars, tokenVars

\* A page hands out no yield.
LEMMA PageBegins ==
  ASSUME DeskInv, NEW t \in Tabs,
         StartRebalance(t) \/ \E n \in 1..shares[Holder] : StartWithdraw(t, n)
  PROVE  Begun(t)
<1>1. t \in Clients /\ JobsOK
  BY DeskConstants DEF DeskInv
<1>2. ASSUME NEW j, Start(t, j), DOMAIN j = JobFields, j.kind \notin YieldKinds PROVE Begun(t)
  BY <1>1, <1>2, StartBegins DEF Shape
<1>3. CASE StartRebalance(t)
  <2> DEFINE calm == RebalanceCalm(t)
             todo == Each("rebalance", DeallocationsFirst(t))
             j == [Idle EXCEPT !.kind = "rebalance", !.calm = calm, !.todo = todo]
  <2>1. Start(t, j)
    BY <1>3 DEF StartRebalance
  <2> HIDE DEF calm, todo
  <2>2. DOMAIN j = JobFields /\ j.kind = "rebalance"
    BY DEF Idle, JobFields
  <2> HIDE DEF j
  <2> QED BY <1>2, <2>1, <2>2 DEF YieldKinds
<1>4. ASSUME NEW n \in 1..shares[Holder], StartWithdraw(t, n) PROVE Begun(t)
  <2> DEFINE calm == WithdrawCalm(t, n)
             todo == <<<<"supply", 0>>, <<"reserve", 0>>, <<"accounts", 0>>,
                       <<"positions", 0>>, <<"withdraw", 0>>>>
             j == [Idle EXCEPT !.kind = "withdraw", !.shares = n, !.calm = calm, !.todo = todo]
  <2>1. Start(t, j)
    BY <1>4 DEF StartWithdraw
  <2> HIDE DEF calm, todo
  <2>2. DOMAIN j = JobFields /\ j.kind = "withdraw"
    BY DEF Idle, JobFields
  <2> HIDE DEF j
  <2> QED BY <1>2, <2>1, <2>2 DEF YieldKinds
<1> QED BY <1>3, <1>4

\* Each strategy's identifier is in the list of all.
LEMMA EachIsThere ==
  ASSUME NEW list \in Seq(Strategies), NEW op \in OnStrategy, NEW i \in 1..Len(list)
  PROVE  <<op, list[i]>> \in ToSet(Each(op, list))
<1>1. Len(Each(op, list)) = Len(list) /\ Each(op, list)[i] = <<op, list[i]>>
  BY EachFacts
<1>2. Each(op, list) \in Seq(Steps)
  BY EachFacts
<1> QED BY <1>1, <1>2, AtPlace

\* First everything is sent, then everything is reported.
LEMMA MintsThenReports ==
  ASSUME NEW list \in Seq(Strategies), NEW ops, "mint" \in ops, "report" \in ops
  PROVE  LET f == Each("mint", list) \o Each("report", list)
         IN  /\ f \in Seq(Steps) /\ Reporting(f, ops)
             /\ \A i \in 1..Len(list) : <<"report", list[i]>> \in ToSet(f)
<1> DEFINE n == Len(list)
           a == Each("mint", list)
           b == Each("report", list)
           f == a \o b
<1>1. /\ n \in Nat /\ a \in Seq(Steps) /\ b \in Seq(Steps) /\ Len(a) = n /\ Len(b) = n
      /\ \A i \in 1..n : a[i] = <<"mint", list[i]>> /\ b[i] = <<"report", list[i]>>
  <2>1. "mint" \in OnStrategy /\ "report" \in OnStrategy /\ n \in Nat
    BY LenProperties DEF OnStrategy
  <2> QED BY <2>1, EachFacts
<1> HIDE DEF a, b, n
<1>2. /\ f \in Seq(Steps) /\ Len(f) = n + n
      /\ \A i \in 1..n : f[i] = <<"mint", list[i]>> /\ f[n + i] = <<"report", list[i]>>
  <2>1. /\ f \in Seq(Steps) /\ Len(f) = Len(a) + Len(b)
        /\ \A i \in 1..(Len(a) + Len(b)) : f[i] = IF i <= Len(a) THEN a[i] ELSE b[i - Len(a)]
    BY <1>1, ConcatProperties
  <2> HIDE DEF f
  <2>2. ASSUME NEW i \in 1..n
        PROVE  f[i] = <<"mint", list[i]>> /\ f[n + i] = <<"report", list[i]>>
    <3>1. f[i] = a[i]
      BY <1>1, <2>1
    <3>2. f[n + i] = b[(n + i) - n] /\ (n + i) - n = i
      BY <1>1, <2>1
    <3> QED BY <1>1, <3>1, <3>2
  <2> QED BY <1>1, <2>1, <2>2
<1> HIDE DEF f
<1>3. Reporting(f, ops)
  <2> SUFFICES ASSUME NEW i \in 1..Len(f)
               PROVE  /\ f[i][1] \in ops
                      /\ f[i][1] \in Mints =>
                           \E k \in 1..Len(f) : i < k /\ f[k] = <<"report", f[i][2]>>
    BY DEF Reporting
  <2>1. CASE i \in 1..n
    <3>1. f[i] = <<"mint", list[i]>> /\ n + i \in 1..Len(f) /\ i < n + i
          /\ f[n + i] = <<"report", f[i][2]>>
      BY <1>1, <1>2, <2>1
    <3> QED BY <3>1
  <2>2. CASE i \notin 1..n
    <3>1. i - n \in 1..n /\ n + (i - n) = i
      BY <1>1, <1>2, <2>2
    <3>2. f[n + (i - n)] = <<"report", list[i - n]>>
      BY <1>2, <3>1
    <3> QED BY <3>1, <3>2 DEF Mints
  <2> QED BY <2>1, <2>2
<1>4. \A i \in 1..n : <<"report", list[i]>> \in ToSet(f)
  <2> TAKE i \in 1..n
  <2>1. n + i \in 1..Len(f)
    BY <1>1, <1>2
  <2> QED BY <1>2, <2>1, AtPlace
<1> QED BY <1>2, <1>3, <1>4 DEF f, a, b, n

\* Each strategy is sent its tokens and reported, one after the other.
LEMMA MintsAndReports ==
  ASSUME NEW list \in Seq(Strategies), NEW ops, "mint" \in ops, "report" \in ops
  PROVE  LET f == [k \in 1..(2 * Len(list)) |->
                     IF k % 2 = 1 THEN <<"mint", list[(k + 1) \div 2]>>
                     ELSE <<"report", list[k \div 2]>>]
         IN  /\ f \in Seq(Steps) /\ Reporting(f, ops)
             /\ \A i \in 1..Len(list) : <<"report", list[i]>> \in ToSet(f)
<1> DEFINE n == Len(list)
           f == [k \in 1..(2 * n) |->
                   IF k % 2 = 1 THEN <<"mint", list[(k + 1) \div 2]>>
                   ELSE <<"report", list[k \div 2]>>]
<1>1. n \in Nat /\ 2 * n \in Nat /\ \A i \in 1..n : list[i] \in Strategies
  <2>1. n \in Nat /\ \A i \in 1..n : list[i] \in Strategies
    BY LenProperties
  <2> HIDE DEF n
  <2> QED BY <2>1
<1> HIDE DEF n
<1>2. ASSUME NEW k \in 1..(2 * n)
      PROVE  IF k % 2 = 1
             THEN /\ (k + 1) \div 2 \in 1..n /\ k + 1 \in 1..(2 * n) /\ (k + 1) % 2 = 0
                  /\ k < k + 1
             ELSE k \div 2 \in 1..n
  BY <1>1
<1>3. \A i \in 1..n : 2 * i \in 1..(2 * n) /\ (2 * i) % 2 = 0 /\ (2 * i) \div 2 = i
  BY <1>1
<1>4. \A k \in 1..(2 * n) :
        f[k] = IF k % 2 = 1 THEN <<"mint", list[(k + 1) \div 2]>>
               ELSE <<"report", list[k \div 2]>>
  OBVIOUS
<1>5. f \in Seq(Steps) /\ Len(f) = 2 * n
  <2>1. \A k \in 1..(2 * n) : f[k] \in Steps
    <3> SUFFICES ASSUME NEW k \in 1..(2 * n) PROVE f[k] \in Steps
      OBVIOUS
    <3> HIDE DEF f
    <3>1. CASE k % 2 = 1
      <4>1. f[k] = <<"mint", list[(k + 1) \div 2]>> /\ list[(k + 1) \div 2] \in Strategies
        BY <1>1, <1>2, <1>4, <3>1
      <4> QED BY <4>1 DEF Steps, OnStrategy
    <3>2. CASE k % 2 # 1
      <4>1. f[k] = <<"report", list[k \div 2]>> /\ list[k \div 2] \in Strategies
        BY <1>1, <1>2, <1>4, <3>2
      <4> QED BY <4>1 DEF Steps, OnStrategy
    <3> QED BY <3>1, <3>2
  <2>2. f \in [1..(2 * n) -> Steps]
    BY <2>1
  <2> HIDE DEF f
  <2> QED BY <1>1, <2>2, LenProperties
<1> HIDE DEF f
<1>6. Reporting(f, ops)
  <2> SUFFICES ASSUME NEW k \in 1..(2 * n)
               PROVE  /\ f[k][1] \in ops
                      /\ f[k][1] \in Mints =>
                           \E m \in 1..(2 * n) : k < m /\ f[m] = <<"report", f[k][2]>>
    BY <1>5 DEF Reporting
  <2>1. CASE k % 2 = 1
    <3>1. f[k] = <<"mint", list[(k + 1) \div 2]>>
      BY <1>4, <2>1
    <3>2. k + 1 \in 1..(2 * n) /\ k < k + 1 /\ (k + 1) % 2 # 1
      BY <1>2, <2>1
    <3>3. f[k + 1] = <<"report", list[(k + 1) \div 2]>>
      BY <1>4, <3>2
    <3> QED BY <3>1, <3>2, <3>3
  <2>2. CASE k % 2 # 1
    <3>1. f[k] = <<"report", list[k \div 2]>>
      BY <1>4, <2>2
    <3> QED BY <3>1 DEF Mints
  <2> QED BY <2>1, <2>2
<1>7. \A i \in 1..n : <<"report", list[i]>> \in ToSet(f)
  <2> TAKE i \in 1..n
  <2>1. 2 * i \in 1..(2 * n) /\ f[2 * i] = <<"report", list[i]>>
    <3>1. 2 * i \in 1..(2 * n) /\ (2 * i) % 2 # 1 /\ (2 * i) \div 2 = i
      BY <1>3
    <3> QED BY <1>4, <3>1
  <2> QED BY <1>5, <2>1, AtPlace
<1> QED BY <1>5, <1>6, <1>7 DEF f, n

\* The scripts that hand out yield to a vault that is there.
LEMMA YieldBegins ==
  ASSUME DeskInv, NEW c \in Scripts, NEW b \in BOOLEAN,
         \/ StartCrank(c, b) \/ StartSimulate(c, b) \/ StartMintAll(c, b) \/ StartSeed(c)
  PROVE  Begun(c)
<1>1. c \in Clients /\ JobsOK
  BY DeskConstants DEF DeskInv
<1> DEFINE created == {s \in Strategies : Created(s)}
<1>2. \A S \in SUBSET Strategies : ById(S) \in Seq(Strategies)
  <2> SUFFICES ASSUME NEW S \in SUBSET Strategies PROVE ById(S) \in Seq(Strategies)
    OBVIOUS
  <2>1. ById(S) \in Seq(S)
    BY ByIdFacts
  <2> QED BY <2>1, LenProperties
<1>3. ASSUME NEW j, Start(c, j), DOMAIN j = JobFields, j.served = {},
             j.kind \in YieldKinds => Reporting(j.todo, YieldOps(j.kind)) \/ Dropping(j)
      PROVE  Begun(c)
  <2>1. Shape(c, j) /\ \A s \in j.served : FALSE
    BY <1>3 DEF Shape
  <2> QED BY <1>1, <1>3, <2>1, StartBegins
<1>4. ASSUME StartCrank(c, b) PROVE Begun(c)
  <2> DEFINE calm == Unpaused /\ faucet = "payer"
             looks == Each("look", ById(created))
             tail == IF b THEN <<<<"accrue", FixedYield>>>> ELSE <<>>
             todo == looks \o tail
             j == [Idle EXCEPT !.kind = "crank", !.calm = calm, !.todo = todo]
             ops == YieldOps("crank")
  <2>1. Start(c, j)
    BY <1>4 DEF StartCrank
  <2>2. "look" \in ops \ Mints /\ "accrue" \in ops \ Mints /\ "look" \in OnStrategy
    BY DEF YieldOps, Mints, OnStrategy
  <2>3. looks \in Seq(Steps) /\ Reporting(looks, ops)
    BY <1>2, <2>2, EachById, ReportingLists
  <2>4. tail \in Seq(Steps) /\ Reporting(tail, ops)
    <3>1. <<"accrue", FixedYield>> \in Steps
      BY DeskConstants DEF Steps, OnAmount
    <3> QED BY <2>2, <3>1, StepLists, ReportingLists
  <2> HIDE DEF looks, tail
  <2>5. Reporting(todo, ops)
    BY <2>3, <2>4, ReportingConcat
  <2> HIDE DEF calm, todo
  <2>6. /\ DOMAIN j = JobFields /\ j.kind = "crank" /\ j.todo = todo /\ j.served = {}
    BY DEF Idle, JobFields
  <2> HIDE DEF j
  <2> QED BY <1>3, <2>1, <2>5, <2>6
<1>5. ASSUME NEW authority \in BOOLEAN, NEW S \in SUBSET Strategies,
             NEW last \in Seq(Steps), HandOut(c, authority, ById(S), last),
             Reporting(last, YieldOps("handout")), ~authority => last = <<>>
      PROVE  Begun(c)
  <2> DEFINE list == ById(S)
             calm == /\ Unpaused /\ faucet = "payer" /\ \A i \in DOMAIN list : Created(list[i])
                     /\ \A s \in Strategies : Active(s) => ata[s] = allocated[s]
             before == IF last = <<>> THEN 0 ELSE totalDeposited
             op == IF authority THEN "tip" ELSE "drop"
             todo == Each(op, list) \o last
             j == [Idle EXCEPT !.kind = "handout", !.amount = FixedYield, !.before = before,
                               !.calm = calm, !.todo = todo]
             ops == YieldOps("handout")
  <2>1. Start(c, j)
    BY <1>5 DEF HandOut
  <2>2. Reporting(todo, ops) \/ \A i \in 1..Len(todo) : todo[i][1] \in {"drop", "mint"}
    <3>1. CASE authority
      <4>1. "tip" \in ops \ Mints /\ "tip" \in OnStrategy
        BY DEF YieldOps, Mints, OnStrategy
      <4>2. Each("tip", list) \in Seq(Steps) /\ Reporting(Each("tip", list), ops)
        BY <1>2, <4>1, EachById, ReportingLists
      <4>3. todo = Each("tip", list) \o last
        BY <3>1
      <4> HIDE DEF list, todo
      <4> QED BY <1>5, <4>2, <4>3, ReportingConcat
    <3>2. CASE ~authority
      <4>1. /\ list \in Seq(Strategies) /\ "drop" \in OnStrategy /\ last = <<>>
            /\ todo = Each("drop", list) \o <<>>
        BY <1>2, <1>5, <3>2 DEF OnStrategy
      <4> HIDE DEF list, todo
      <4>2. /\ Each("drop", list) \in Seq(Steps) /\ Len(Each("drop", list)) = Len(list)
            /\ \A i \in 1..Len(list) : Each("drop", list)[i] = <<"drop", list[i]>>
        BY <4>1, EachFacts
      <4>3. todo = Each("drop", list)
        BY <4>1, <4>2, ConcatEmptySeq
      <4> QED BY <4>2, <4>3
    <3> QED BY <3>1, <3>2
  <2> HIDE DEF calm, todo, before
  <2>3. /\ DOMAIN j = JobFields /\ j.kind = "handout" /\ j.todo = todo /\ j.served = {}
    BY DEF Idle, JobFields
  <2> HIDE DEF j
  <2>4. Reporting(j.todo, YieldOps(j.kind)) \/ Dropping(j)
    BY <2>2, <2>3 DEF Dropping
  <2> QED BY <1>3, <2>1, <2>3, <2>4
<1>6. Reporting(<<>>, YieldOps("handout")) /\ <<>> \in Seq(Steps) /\ Strategies \in SUBSET Strategies
  BY ReportingLists, EmptySeq
<1>7. ASSUME StartSimulate(c, b) PROVE Begun(c)
  BY <1>5, <1>6, <1>7 DEF StartSimulate
<1>8. ASSUME StartMintAll(c, b) PROVE Begun(c)
  <2> DEFINE last == IF b THEN <<<<"verify", 0>>>> ELSE <<>>
  <2>1. <<"verify", 0>> \in Steps /\ "verify" \in YieldOps("handout") \ Mints
    BY DEF Steps, OnNothing, YieldOps, Mints
  <2>2. last \in Seq(Steps) /\ Reporting(last, YieldOps("handout")) /\ (~b => last = <<>>)
    BY <1>6, <2>1, StepLists, ReportingLists
  <2>3. HandOut(c, b, ById(created), last) /\ created \in SUBSET Strategies
    BY <1>8 DEF StartMintAll
  <2> HIDE DEF last, created
  <2> QED BY <1>5, <2>2, <2>3
<1>9. ASSUME StartSeed(c) PROVE Begun(c)
  <2> DEFINE needed == FixedYield * Cardinality(created)
             todo == <<<<"topup", needed>>>> \o Each("fund", ById(created))
             j == [Idle EXCEPT !.kind = "seed", !.amount = FixedYield, !.todo = todo]
  <2>1. Start(c, j)
    BY <1>9 DEF StartSeed
  <2> HIDE DEF todo
  <2>2. DOMAIN j = JobFields /\ j.kind = "seed" /\ j.served = {}
    BY DEF Idle, JobFields
  <2> HIDE DEF j
  <2> QED BY <1>3, <2>1, <2>2 DEF YieldKinds
<1> QED BY <1>4, <1>7, <1>8, <1>9

\* The scripts that set up a vault, a strategy or the faucet.
LEMMA SetupBegins ==
  ASSUME DeskInv, NeverCreatedIsEmpty, NEW c \in Scripts, NEW b \in BOOLEAN,
         \/ StartAgentSetup(c, b) \/ StartSetup(c) \/ StartMultiSetup(c) \/ StartFaucet(c)
  PROVE  Begun(c)
<1>1. c \in Clients /\ JobsOK /\ Inv
  BY DeskConstants DEF DeskInv
<1> DEFINE order == ById(Strategies)
           ops == YieldOps("setup")
<1>2. /\ order \in Seq(Strategies) /\ \A s \in Strategies : \E i \in 1..Len(order) : order[i] = s
      /\ \A op \in OnStrategy : Each(op, order) \in Seq(Steps)
  BY ByIdFacts, EachById
<1>3. /\ {"create", "weigh", "allocate"} \subseteq ops \ Mints
      /\ {"create", "weigh", "allocate"} \subseteq OnStrategy
      /\ "deposit" \in ops \ Mints /\ {"mint", "report"} \subseteq ops
      /\ <<"deposit", FirstDeposit>> \in Steps
  BY DeskConstants DEF YieldOps, Mints, Steps, OnAmount, OnStrategy
<1> HIDE DEF order, ops
<1>4. \A op \in {"create", "weigh", "allocate"} :
        Each(op, order) \in Seq(Steps) /\ Reporting(Each(op, order), ops)
  BY <1>2, <1>3, ReportingLists
<1>5. <<<<"deposit", FirstDeposit>>>> \in Seq(Steps) /\ Reporting(<<<<"deposit", FirstDeposit>>>>, ops)
  BY <1>3, StepLists, ReportingLists
<1>6. ASSUME NEW steps \in Seq(Steps), Reporting(steps, ops), SetUp(c, steps) PROVE Begun(c)
  <2> DEFINE calm == Unpaused /\ faucet = "payer" /\ FirstDeposit <= wallet[Holder]
             amount == Portion(Allocation, YieldBps)
             begin == <<<<"deposit", FirstDeposit>>>> \o Each("create", order)
             todo == begin \o steps
             j == [Idle EXCEPT !.kind = "setup", !.calm = calm, !.served = Strategies,
                               !.amount = amount, !.todo = todo]
  <2>1. Start(c, j)
    BY <1>6 DEF SetUp, order
  <2>2. begin \in Seq(Steps) /\ Reporting(begin, ops)
    BY <1>4, <1>5, ReportingConcat, StepLists
  <2> HIDE DEF begin
  <2>3. Reporting(todo, ops)
    BY <1>6, <2>2, ReportingConcat
  <2> HIDE DEF calm, todo, amount
  <2>4. DOMAIN j = JobFields /\ j.kind = "setup" /\ j.todo = todo /\ j.served = Strategies
    BY DEF Idle, JobFields
  <2> HIDE DEF j
  <2>5. Shape(c, j)
    BY <2>3, <2>4 DEF Shape, ops
  <2>6. \A s \in Strategies : InStep(s)
    <3>1. \A s \in Strategies : ~Created(s)
      BY <1>6 DEF SetUp
    <3>2. \A s \in Strategies : ata[s] = 0 /\ allocated[s] = 0
      BY <1>1, <3>1 DEF NeverCreatedIsEmpty, Inv, InactiveIsEmpty, Created, Active
    <3> QED BY <3>2 DEF InStep
  <2> QED BY <1>1, <2>1, <2>4, <2>5, <2>6, StartBegins
<1>7. ASSUME StartSetup(c) PROVE Begun(c)
  <2> DEFINE send == Each("mint", order) \o Each("report", order)
             steps == Each("allocate", order) \o Each("mint", order) \o Each("report", order)
  <2>1. send \in Seq(Steps) /\ Reporting(send, ops)
    BY <1>2, <1>3, MintsThenReports
  <2>2. steps = Each("allocate", order) \o send
    <3>1. /\ Each("allocate", order) \in Seq(Steps) /\ Each("mint", order) \in Seq(Steps)
          /\ Each("report", order) \in Seq(Steps)
      BY <1>2 DEF OnStrategy
    <3> QED BY <3>1, ConcatAssociative
  <2>3. SetUp(c, steps)
    BY <1>7 DEF StartSetup, order
  <2> HIDE DEF send, steps
  <2>4. steps \in Seq(Steps) /\ Reporting(steps, ops)
    BY <1>4, <2>1, <2>2, ReportingConcat, StepLists
  <2> QED BY <1>6, <2>3, <2>4
<1>8. ASSUME StartMultiSetup(c) PROVE Begun(c)
  <2> DEFINE pairs == [k \in 1..(2 * Len(order)) |->
                         IF k % 2 = 1 THEN <<"mint", order[(k + 1) \div 2]>>
                         ELSE <<"report", order[k \div 2]>>]
             begin == Each("weigh", order) \o Each("allocate", order)
             steps == begin \o pairs
  <2>1. pairs \in Seq(Steps) /\ Reporting(pairs, ops)
    BY <1>2, <1>3, MintsAndReports
  <2>2. begin \in Seq(Steps) /\ Reporting(begin, ops)
    BY <1>4, ReportingConcat, StepLists
  <2>3. SetUp(c, steps)
    BY <1>8 DEF StartMultiSetup, order
  <2> HIDE DEF pairs, begin
  <2>4. steps \in Seq(Steps) /\ Reporting(steps, ops)
    BY <2>1, <2>2, ReportingConcat, StepLists
  <2> HIDE DEF steps
  <2> QED BY <1>6, <2>3, <2>4
<1>9. ASSUME NEW j, Start(c, j), DOMAIN j = JobFields, j.served = {},
             j.kind \in YieldKinds => Reporting(j.todo, YieldOps(j.kind))
      PROVE  Begun(c)
  <2>1. Shape(c, j) /\ \A s \in j.served : FALSE
    BY <1>9 DEF Shape
  <2> QED BY <1>1, <1>9, <2>1, StartBegins
<1>10. ASSUME StartAgentSetup(c, b) PROVE Begun(c)
  <2> DEFINE free == {s \in Strategies : ~Created(s)}
             next == Least(free)
             calm == /\ Unpaused /\ FirstDeposit <= wallet[Holder]
                     /\ b => totalWeight + PlannedWeight <= BPS
             weigh == IF b THEN <<<<"weigh", next>>>> ELSE <<>>
             begin == <<<<"create", next>>>> \o weigh
             end == <<<<"deposit", FirstDeposit>>, <<"allocate", next>>>>
             todo == begin \o end
             j == [Idle EXCEPT !.kind = "agent_setup", !.calm = calm, !.todo = todo]
  <2>1. Start(c, j) /\ free # {}
    BY <1>10 DEF StartAgentSetup
  <2>2. next \in Strategies
    <3>1. free \in SUBSET Nat /\ free \in SUBSET Strategies
      BY DeskConstants
    <3> HIDE DEF free
    <3>2. PICK s \in free : \A r \in free : s <= r
      BY <2>1, <3>1, LeastNat
    <3>3. next \in free
      BY <3>2 DEF Least
    <3> QED BY <3>1, <3>3
  <2> HIDE DEF next
  <2>3. \A op \in {"create", "weigh", "allocate"} :
          /\ <<op, next>> \in Steps
          /\ <<<<op, next>>>> \in Seq(Steps) /\ Reporting(<<<<op, next>>>>, ops)
    <3> SUFFICES ASSUME NEW op \in {"create", "weigh", "allocate"}
                 PROVE  /\ <<op, next>> \in Steps
                        /\ <<<<op, next>>>> \in Seq(Steps) /\ Reporting(<<<<op, next>>>>, ops)
      OBVIOUS
    <3>1. <<op, next>> \in Steps
      BY <1>3, <2>2 DEF Steps
    <3> QED BY <1>3, <3>1, StepLists, ReportingLists
  <2>4. begin \in Seq(Steps) /\ Reporting(begin, ops)
    <3>1. weigh \in Seq(Steps) /\ Reporting(weigh, ops)
      BY <2>3, StepLists, ReportingLists
    <3> HIDE DEF weigh
    <3> QED BY <2>3, <3>1, ReportingConcat, StepLists
  <2>5. end \in Seq(Steps) /\ Reporting(end, ops)
    <3>1. <<<<"deposit", FirstDeposit>>>> \o <<<<"allocate", next>>>> = end
      BY <1>3, <2>3, TwoInRow
    <3> HIDE DEF end
    <3> QED BY <1>5, <2>3, <3>1, ReportingConcat, StepLists
  <2> HIDE DEF begin, end
  <2>6. Reporting(todo, ops)
    BY <2>4, <2>5, ReportingConcat
  <2> HIDE DEF calm, todo
  <2>7. DOMAIN j = JobFields /\ j.kind = "agent_setup" /\ j.todo = todo /\ j.served = {}
    BY DEF Idle, JobFields
  <2> HIDE DEF j
  <2>8. YieldOps("agent_setup") = ops
    BY DEF YieldOps, ops
  <2> QED BY <1>9, <2>1, <2>6, <2>7, <2>8
<1>11. ASSUME StartFaucet(c) PROVE Begun(c)
  <2> DEFINE todo == <<<<"handover", 0>>, <<"register", 0>>>>
             j == [Idle EXCEPT !.kind = "faucet", !.todo = todo]
  <2>1. Start(c, j)
    BY <1>11 DEF StartFaucet
  <2> HIDE DEF todo
  <2>2. DOMAIN j = JobFields /\ j.kind = "faucet" /\ j.served = {}
    BY DEF Idle, JobFields
  <2> HIDE DEF j
  <2> QED BY <1>9, <2>1, <2>2 DEF YieldKinds
<1> QED BY <1>7, <1>8, <1>10, <1>11

-----------------------------------------------------------------------------
(***************************************************************************)
(* Every step of the whole, and the theorem.                               *)
(***************************************************************************)
\* Everybody's steps are one of these.
LEMMA YieldStepCases ==
  ASSUME DeskInv, YieldInv, DeskNext
  PROVE  \/ \E c \in Clients : /\ Begun(c) /\ UNCHANGED <<vars, besideVars>>
                               /\ c \in Tabs \/ (c \in Scripts /\ ScriptNext(c))
         \/ \E c \in Clients : /\ Running(c) /\ job[c].kind \in YieldKinds /\ Advance(c)
                               /\ \/ RoundSent(c)
                                  \/ /\ UNCHANGED <<ata, allocated>>
                                     /\ \E j : /\ Goes(c, j) /\ j.calm = job[c].calm
                                               /\ job' = [job EXCEPT ![c] = j]
         \/ \E c \in Clients : BrokenOff(c, Idle)
         \/ \E c \in Clients : BrokenOff(c, Refused(c)) /\ Advance(c)
         \/ \E c \in Clients : Apart(c) /\ UNCHANGED <<vars, besideVars>>
         \/ Stirred
         \/ UNCHANGED <<vars, purse, faucet, job>>
<1>1. /\ Tabs \subseteq Clients /\ Scripts \subseteq Clients /\ JobsOK /\ Amounts \subseteq Nat
      /\ NeverCreatedIsEmpty /\ DOMAIN job = Clients /\ \A c \in Clients : JobFor(c, job[c])
  BY DeskConstants, Constants DEF DeskInv, YieldInv, JobsOK
<1>2. /\ UNCHANGED vars => UNCHANGED <<ata, allocated>>
      /\ UNCHANGED besideVars => UNCHANGED <<purse, faucet>>
  BY DEF vars, tokenVars, besideVars
<1> DEFINE Left(d) == /\ ~job'[d].calm /\ job'[d].kind = job[d].kind
                      /\ job'[d].todo = job[d].todo /\ job'[d].served = job[d].served
<1>3. ASSUME NEW d \in Clients, job'[d] = Overtaken(job[d], FALSE), job'[d].kind \in YieldKinds
       PROVE  Left(d)
  <2>1. JobFor(d, job[d]) /\ Overtaken(job[d], FALSE).kind \in YieldKinds
    BY <1>1, <1>3
  <2>2. /\ Overtaken(job[d], FALSE).kind = job[d].kind
        /\ Overtaken(job[d], FALSE).todo = job[d].todo
        /\ Overtaken(job[d], FALSE).served = job[d].served
        /\ Overtaken(job[d], FALSE).calm => FALSE
    BY <2>1, OvertakenServes
  <2> QED BY <1>3, <2>2
<1>4. ASSUME DOMAIN job' = Clients, \A d \in Clients : job'[d].kind \in YieldKinds => Left(d)
       PROVE  Stirred
  BY <1>4 DEF Stirred
<1> HIDE DEF Left
<1>5. ASSUME NEW c \in Clients, NEW mine, mine.kind \notin YieldKinds, OnClient(c, mine, FALSE)
      PROVE  Stirred
  <2>1. /\ DOMAIN job' = Clients /\ job'[c] = mine
        /\ \A d \in Clients \ {c} : job'[d] = Overtaken(job[d], FALSE)
    BY <1>5 DEF OnClient
  <2> QED BY <1>5, <1>3, <1>4, <2>1
<1>6. Idle.kind \notin YieldKinds
  BY DEF Idle, YieldKinds
<1>7. ASSUME NEW t \in Tabs, Clicked(t) PROVE Stirred
  BY <1>1, <1>5, <1>6, <1>7 DEF Clicked
<1>8. ASSUME Disturbed PROVE Stirred
  <2>1. DOMAIN job' = Clients /\ \A d \in Clients : job'[d] = Overtaken(job[d], FALSE)
    BY <1>8 DEF Disturbed
  <2> QED BY <1>3, <1>4, <2>1
<1>9. ASSUME NEW t \in Tabs, TabNext(t)
      PROVE  \/ Begun(t) /\ UNCHANGED <<vars, besideVars>>
             \/ Stirred \/ UNCHANGED <<vars, purse, faucet, job>>
  <2>1. CASE StartRebalance(t) \/ \E n \in 1..shares[Holder] : StartWithdraw(t, n)
    <3>1. UNCHANGED <<vars, besideVars>>
      BY <2>1 DEF StartRebalance, StartWithdraw, Start
    <3> QED BY <2>1, <3>1, PageBegins
  <2>2. CASE RefreshVault(t) \/ RefreshStrategies(t)
    BY <1>2, <2>2 DEF RefreshVault, RefreshStrategies
  <2>3. CASE Clicked(t)
    BY <1>7, <2>3
  <2>4. /\ Amounts \subseteq Nat /\ FeeChoices \subseteq Nat /\ WeightChoices \subseteq Nat
    BY Constants
  <2>5. CASE \/ ClickPause(t) \/ ClickFaucet(t)
             \/ \E f \in FeeChoices : ClickFee(t, f)
             \/ \E amount \in Amounts : ClickDeposit(t, amount)
             \/ \E s \in Strategies :
                  \/ ClickRebalance(t, s) \/ ClickReportYield(t, s) \/ ClickDeactivate(t, s)
                  \/ \E w \in WeightChoices : ClickWeight(t, s, w)
                  \/ \E a \in ToSet(Adapters) : ClickRedeem(t, s, a)
                  \/ \E amount \in Amounts :
                       \/ ClickAllocate(t, s, amount) \/ ClickDeallocate(t, s, amount)
                       \/ ClickReportLoss(t, s, amount)
    BY <2>3, <2>4, <2>5, ClickMoves
  <2> QED BY <1>9, <2>1, <2>2, <2>5 DEF TabNext
<1>10. ASSUME NEW c \in Scripts, ScriptNext(c) PROVE Begun(c) /\ UNCHANGED <<vars, besideVars>>
  <2>1. Begun(c)
    BY <1>1, <1>10, YieldBegins, SetupBegins DEF ScriptNext
  <2>2. UNCHANGED <<vars, besideVars>>
    BY <1>10 DEF ScriptNext, StartCrank, StartSimulate, StartMintAll, HandOut, StartSeed,
                 StartSetup, StartMultiSetup, SetUp, StartAgentSetup, StartFaucet, Start
  <2> QED BY <2>1, <2>2
<1>11. ASSUME NEW c \in Clients, Advance(c), job[c].kind \in YieldKinds
      PROVE  \/ RoundSent(c) \/ BrokenOff(c, Refused(c))
             \/ /\ UNCHANGED <<ata, allocated>>
                /\ \E j : /\ Goes(c, j) /\ j.calm = job[c].calm
                          /\ job' = [job EXCEPT ![c] = j]
  <2> DEFINE op == Head(job[c].todo)[1]
             of == Head(job[c].todo)[2]
  <2>1. Shape(c, job[c]) /\ Running(c) /\ job'[c].calm = job[c].calm
    BY <1>11, AdvanceKeepsKind DEF YieldInv, Advance
  <2>2. CASE op \notin {"look", "tip", "drop", "verify"}
    BY <1>11, <2>1, <2>2, RoundSends
  <2>3. CASE op \in {"look", "tip", "drop", "verify"}
    <3>1. \/ op = "look" /\ LookAt(c, of)
          \/ op = "tip" /\ Tip(c, of, TRUE)
          \/ op = "drop" /\ Tip(c, of, FALSE)
          \/ op = "verify" /\ Verify(c)
      BY <1>11, <2>3 DEF Advance
    <3>2. /\ \E j : Goes(c, j) /\ job' = [job EXCEPT ![c] = j]
          /\ UNCHANGED <<vars, besideVars, screen>>
      BY <1>11, <2>1, <3>1, RoundReads
    <3>3. PICK j : Goes(c, j) /\ job' = [job EXCEPT ![c] = j]
      BY <3>2
    <3>4. j.calm = job[c].calm
      BY <1>1, <2>1, <3>3
    <3> QED BY <1>2, <3>2, <3>3, <3>4
  <2> QED BY <2>2, <2>3
<1>12. ASSUME NEW c \in Clients, Advance(c), job[c].kind \notin YieldKinds
       PROVE  \/ Apart(c) /\ UNCHANGED <<vars, besideVars>>
              \/ Stirred \/ BrokenOff(c, Refused(c))
  <2>1. CASE OwnStep(c)
    BY <1>2, <1>12, <2>1 DEF OwnStep, Follows, Apart
  <2>2. CASE Sent(c)
    <3>1. OnClient(c, Continue(c, <<>>), FALSE)
      BY <1>12, <2>2 DEF Sent, Landed, YieldKinds
    <3>2. Continue(c, <<>>).kind = job[c].kind
      BY <1>1, <1>12, EmptySeq, ContinueFacts DEF Advance
    <3> QED BY <1>5, <1>12, <3>1, <3>2
  <2> QED BY <1>12, <2>1, <2>2, AdvanceMoves
<1>13. ASSUME NEW c \in Clients, Die(c) PROVE BrokenOff(c, Idle)
  BY <1>13 DEF Die, BrokenOff
<1>14. CASE Elsewhere
  <2>1. Disturbed
    BY <1>14 DEF Elsewhere, Others, Ledger, Disturbed, Transaction, LedgerTransaction
  <2> QED BY <1>8, <2>1
<1>15. ASSUME NEW s \in Strategies, NEW amount \in Amounts, Lend(s, amount) PROVE Stirred
  <2>1. amount \in Nat /\ LendTransaction(s, amount)
    BY <1>1, <1>15 DEF Lend, Others, LendTransaction
  <2>2. Transaction
    BY <2>1 DEF Transaction
  <2> QED BY <1>8, <1>15, <2>2 DEF Lend, Others, Disturbed
<1>16. CASE CooldownEnds
  BY <1>2, <1>16 DEF CooldownEnds
<1>17. ASSUME NEW c \in Clients, Advance(c) PROVE Running(c)
  BY <1>17 DEF Advance
<1>18. CASE \E t \in Tabs : TabNext(t)
  BY <1>1, <1>9, <1>18
<1>19. CASE \E c \in Scripts : ScriptNext(c)
  BY <1>1, <1>10, <1>19
<1>20. CASE \E c \in Clients : Advance(c)
  BY <1>11, <1>12, <1>17, <1>20
<1> QED
  BY <1>13, <1>14, <1>15, <1>16, <1>18, <1>19, <1>20 DEF DeskNext

\* None of them sends tokens to a strategy that was never created.
LEMMA UncreatedStep ==
  ASSUME DeskInv, NeverCreatedIsEmpty, [DeskNext]_deskVars
  PROVE  NeverCreatedIsEmpty'
<1>1. UNCHANGED vars => NeverCreatedIsEmpty'
  BY DEF NeverCreatedIsEmpty, Created, vars, tokenVars, strategyVars
<1>2. CASE UNCHANGED deskVars
  BY <1>1, <1>2 DEF deskVars
<1>3. CASE DeskNext
  <2>1. Transaction \/ UNCHANGED vars
    BY <1>3, DeskStepCases
       DEF OwnMove, Sent, Clicked, Refreshed, Disturbed, BrokenOff, CooldownEnds
  <2> QED BY <1>1, <2>1, TransactionsLeaveUncreated
<1> QED BY <1>2, <1>3

\* What is known of the jobs that hand out yield stays true.
LEMMA YieldStep ==
  ASSUME DeskInv, YieldInv, [DeskNext]_deskVars
  PROVE  YieldInv'
<1>1. NeverCreatedIsEmpty'
  BY UncreatedStep DEF YieldInv
<1>2. JobsOK
  BY DEF DeskInv
<1>3. ASSUME UNCHANGED <<ata, allocated, job>>
      PROVE  \A d \in Clients : Shape(d, job'[d]) /\ Kept(d)'
  <2>1. \A s : InStep(s) <=> InStep(s)'
    BY <1>3 DEF InStep
  <2>2. \A d : \A s : ToReport(d, s) <=> ToReport(d, s)'
    BY <1>3 DEF ToReport, BothCranks
  <2> QED BY <1>3, <2>1, <2>2 DEF YieldInv, Kept
<1>4. UNCHANGED vars => UNCHANGED <<ata, allocated>>
  BY DEF vars, tokenVars
<1>5. \A d \in Clients : Shape(d, job'[d]) /\ Kept(d)'
  <2>1. CASE UNCHANGED deskVars
    BY <1>3, <2>1 DEF deskVars, vars, tokenVars
  <2>2. CASE DeskNext
    BY <1>2, <1>3, <1>4, <2>2, YieldStepCases, BegunKeeps, SendKeeps, ReadKeeps, BreakKeeps,
       ApartKeeps, StirredKeeps
  <2> QED BY <2>1, <2>2
<1> QED BY <1>1, <1>5 DEF YieldInv

\* What is known of the yield handed out.
LEMMA YieldFollowed == DeskSpec => []YieldInv
<1>1. DeskInit => YieldInv
  <2> SUFFICES ASSUME DeskInit PROVE YieldInv
    OBVIOUS
  <2>1. \A c \in Clients : job[c].kind = "none"
    BY DEF DeskInit, Idle
  <2>2. \A c \in Clients : Shape(c, job[c]) /\ Kept(c)
    BY <2>1 DEF Shape, Kept, YieldKinds
  <2>3. NeverCreatedIsEmpty
    <3>1. CASE Init
      BY <3>1 DEF Init, Nothing, NeverCreatedIsEmpty
    <3>2. ASSUME NEW at, NEW w, DeskLedger(at, w) PROVE NeverCreatedIsEmpty
      BY <3>2 DEF DeskLedger, NeverCreatedIsEmpty, Created
    <3> QED BY <3>1, <3>2 DEF DeskInit
  <2> QED BY <2>2, <2>3 DEF YieldInv
<1>2. DeskInv /\ YieldInv /\ [DeskNext]_deskVars => YieldInv'
  BY YieldStep
<1> QED BY <1>1, <1>2, DeskInvariant, PTL DEF DeskSpec

-----------------------------------------------------------------------------
(***************************************************************************)
(* Those jobs are refused nothing, unless something is exhausted: what the *)
(* rest of a list asks of the vault is there, or the list makes it.        *)
(***************************************************************************)
Setups == {"setup", "agent_setup"}
OpsOf(kind) ==
  IF kind = "crank" THEN {"look", "mint", "report", "accrue"}
  ELSE IF kind = "handout" THEN {"tip", "drop", "mint", "report", "verify"}
  ELSE {"deposit", "create", "weigh", "allocate"}
         \cup (IF kind = "setup" THEN {"mint", "report"} ELSE {})
Funded(s) == ata[s] >= allocated[s]

\* What the step at place i is about is there, or was made by an earlier one.
Before(todo, i, e) == \E k \in 1..Len(todo) : k < i /\ todo[k] = e
Ready(todo, i) ==
  LET op == todo[i][1]
      s  == todo[i][2]
      made == Before(todo, i, <<"create", s>>)
  IN  /\ op \in {"tip", "drop", "mint"} => Created(s) \/ made
      /\ op \in {"weigh", "allocate", "report"} => Active(s) \/ made
      /\ op \in {"allocate", "report"} => Funded(s)

\* What a setup has planned can be carried out, all of it.
Once == {"deposit", "create", "weigh", "allocate"}
EachOnce(todo) ==
  \A i, k \in 1..Len(todo) : todo[i] = todo[k] /\ todo[i][1] \in Once => i = k
Pending(todo, op) == {s \in Strategies : <<op, s>> \in ToSet(todo)}
Affordable(todo) ==
  \A i \in 1..Len(todo) : todo[i][1] = "deposit" =>
    /\ todo[i][2] = FirstDeposit /\ FirstDeposit <= wallet[Holder]
    /\ \A k \in 1..i : todo[k][1] # "allocate"
Planned(todo) ==
  /\ EachOnce(todo)
  /\ Affordable(todo)
  /\ \A s \in Pending(todo, "create") : ~Created(s)
  /\ \A s \in Pending(todo, "weigh") : weight[s] = 0
  /\ totalWeight + PlannedWeight * Cardinality(Pending(todo, "weigh")) <= BPS
  /\ Allocation * Cardinality(Pending(todo, "allocate"))
       <= reserve + (IF <<"deposit", FirstDeposit>> \in ToSet(todo) THEN FirstDeposit ELSE 0)

\* What has been handed out so far is in the total, but for the strategy in hand,
\* and the strategies still to come are others.
AllInStep == \A s \in Strategies : Active(s) => InStep(s)
Closing(todo, served) ==
  /\ todo # <<>> /\ todo[Len(todo)] = <<"verify", 0>>
  /\ \A i \in 1..(Len(todo) - 1) : todo[i][1] = "tip" /\ todo[i][2] \notin served
  /\ \A i, k \in 1..(Len(todo) - 1) : todo[i] = todo[k] => i = k
InHand(j, s, rest) ==
  /\ Active(s) /\ totalDeposited = j.before + j.amount * (Cardinality(j.served) - 1)
  /\ \/ j.todo = <<<<"mint", s>>, <<"report", s>>>> \o rest /\ AllInStep
     \/ /\ j.todo = <<<<"report", s>>>> \o rest /\ ata[s] = allocated[s] + j.amount
        /\ \A u \in Strategies \ {s} : Active(u) => InStep(u)
Tallied(j) ==
  /\ j.before \in Nat
  /\ \/ /\ Closing(j.todo, j.served) /\ AllInStep
        /\ totalDeposited = j.before + j.amount * Cardinality(j.served)
     \/ \E s \in j.served, rest \in Seq(Steps) :
          Closing(rest, j.served) /\ InHand(j, s, rest)

Sound(j) ==
  /\ ~paused /\ j.amount \in Nat
  /\ j.kind # "agent_setup" => faucet = "payer"
  /\ \A i \in 1..Len(j.todo) : j.todo[i][1] \in OpsOf(j.kind) /\ Ready(j.todo, i)
  /\ j.kind \in Setups => Planned(j.todo)
  /\ j.kind = "handout" => \A s \in Strategies : Active(s) => Funded(s)
  /\ <<"verify", 0>> \in ToSet(j.todo) => Tallied(j)

\* While such a job is calm, it is sound as long as it runs, and it is refused only
\* if something is exhausted.  j is bound to the job, so that what is said of it
\* can be said of a later state.
SoundInv ==
  \A c \in Clients : \A j : j = job[c] /\ j.kind \in YieldKinds /\ j.calm =>
    /\ j.state # "idle"
    /\ j.state = "running" => Sound(j)
    /\ j.state = "refused" => Exhausted(c)

\* The steps of a list but the first.
LEMMA AfterFirst ==
  ASSUME NEW todo \in Seq(Steps), todo # <<>>
  PROVE  /\ Len(todo) \in Nat /\ Len(todo) >= 1 /\ Head(todo) = todo[1] /\ todo[1] \in Steps
         /\ Tail(todo) \in Seq(Steps) /\ Len(Tail(todo)) = Len(todo) - 1
         /\ \A i \in 1..Len(Tail(todo)) :
              i + 1 \in 1..Len(todo) /\ Tail(todo)[i] = todo[i + 1]
         /\ \A i \in 1..Len(todo) : i # 1 =>
              i - 1 \in 1..Len(Tail(todo)) /\ Tail(todo)[i - 1] = todo[i]
<1>1. /\ Len(todo) \in Nat /\ Len(todo) >= 1 /\ Head(todo) = todo[1]
      /\ Tail(todo) \in Seq(Steps) /\ Len(Tail(todo)) = Len(todo) - 1
  BY HeadTailProperties, LenProperties, EmptySeq
<1>2. todo[1] \in Steps
  BY <1>1, LenProperties
<1>3. \A i \in 1..Len(Tail(todo)) : Tail(todo)[i] = todo[i + 1]
  BY HeadTailProperties
<1> QED BY <1>1, <1>2, <1>3

\* What becomes of the first step of such a job: the transaction that lands ...
Accepted(op, s, amount) ==
  /\ UNCHANGED faucet
  /\ \/ /\ UNCHANGED vars
        /\ \/ op \in {"topup", "accrue"}
           \/ op = "mint" /\ amount = 0
           \/ op = "report" /\ InStep(s)
     \/ op \in Mints /\ TransferIn(s, amount)
     \/ op = "report" /\ ReportYield(s)
     \/ op = "deposit" /\ Deposit(Holder, s, Nothing)
     \/ op = "create" /\ CreateStrategy(s)
     \/ op = "weigh" /\ SetStrategyWeight(s, PlannedWeight)
     \/ op = "allocate" /\ AllocateToStrategy(s, Allocation)
\* ... and why one is refused.
Rejected(op, s, amount) ==
  \/ op \in {"topup", "fund"}
  \/ op = "mint" /\ amount # 0 /\ ~MayMint(s, amount)
  \/ op = "report" /\ ~MayReportYield(s) /\ ~(~paused /\ Active(s) /\ InStep(s))
  \/ op = "deposit" /\ ~MayDeposit(Holder, s, Nothing)
  \/ op = "create" /\ Created(s)
  \/ op = "weigh" /\ ~MaySetWeight(s, PlannedWeight)
  \/ op = "allocate" /\ ~MayAllocate(s, Allocation)

\* The step such a job sends next.
LEMMA NextSent ==
  ASSUME DeskInv, NEW c \in Clients, Advance(c), job[c].kind \in YieldKinds, Shape(c, job[c]),
         Head(job[c].todo)[1] \notin {"look", "tip", "drop", "verify"}
  PROVE  LET op == Head(job[c].todo)[1]
             of == Head(job[c].todo)[2]
         IN  /\ Head(job[c].todo) \in Steps /\ Head(job[c].todo) = <<op, of>>
             /\ op \in {"topup", "fund", "mint", "report", "accrue", "deposit", "create",
                        "weigh", "allocate"}
             /\ op \in OnStrategy => of \in Strategies
             /\ op \in OnAmount => of \in Nat
             /\ \/ Landed(c) /\ Accepted(op, of, job[c].amount)
                \/ BrokenOff(c, Refused(c)) /\ Rejected(op, of, job[c].amount)
<1> DEFINE op == Head(job[c].todo)[1]
           of == Head(job[c].todo)[2]
           old == job[c]
           ops == YieldOps(old.kind)
<1>1. /\ old.todo \in Seq(Steps) /\ old.todo # <<>>
      /\ Reporting(old.todo, ops) \/ Dropping(old)
  BY DEF Advance, DeskInv, JobsOK, JobFor, JobOK, Running, YieldKinds, StepsOf, Shape
<1>2. /\ Head(old.todo) \in Steps /\ Head(old.todo) = <<op, of>>
      /\ op \in OnStrategy => of \in Strategies
      /\ op \in OnAmount => of \in Nat
  <2>1. Head(old.todo) \in Steps
    BY <1>1, HeadTailProperties
  <2>2. \A e \in Steps : e = <<e[1], e[2]>>
    BY DEF Steps
  <2> QED BY <2>1, <2>2, StepFacts
<1>3. op \in {"topup", "fund", "mint", "report", "accrue", "deposit", "create", "weigh", "allocate"}
  <2>1. Len(old.todo) \in Nat /\ 1 \in 1..Len(old.todo) /\ Head(old.todo) = old.todo[1]
    BY <1>1, AfterFirst
  <2>2. Reporting(old.todo, ops) => op \in ops
    BY <2>1 DEF Reporting
  <2>3. Dropping(old) => op \in {"drop", "mint"}
    BY <2>1 DEF Dropping
  <2> QED BY <1>1, <2>2, <2>3 DEF YieldOps
<1>4. \/ op = "topup" /\ TopUp(c, of)
      \/ op = "fund" /\ Send(c, MayFund(of, old.amount), Fund(of, old.amount), FALSE)
      \/ /\ op = "mint"
         /\ Send(c, MayMint(of, old.amount), Mint(of, old.amount), old.amount = 0)
      \/ op = "report" /\ SendReport(c, of)
      \/ op = "accrue" /\ Send(c, TRUE, Accrue(of), FALSE)
      \/ /\ op = "deposit"
         /\ Send(c, MayDeposit(Holder, of, Nothing), Ledger(Deposit(Holder, of, Nothing)), FALSE)
      \/ op = "create" /\ Send(c, ~Created(of), Ledger(CreateStrategy(of)), FALSE)
      \/ /\ op = "weigh"
         /\ Send(c, MaySetWeight(of, PlannedWeight),
                 Ledger(SetStrategyWeight(of, PlannedWeight)), FALSE)
      \/ /\ op = "allocate"
         /\ Send(c, MayAllocate(of, Allocation), Ledger(AllocateToStrategy(of, Allocation)), FALSE)
  BY <1>3 DEF Advance
<1> HIDE DEF op, of
<1> DEFINE amount == old.amount
           lands == Landed(c) /\ Accepted(op, of, amount)
           ends == BrokenOff(c, Refused(c)) /\ Rejected(op, of, amount)
<1> SUFFICES lands \/ ends
  BY <1>2, <1>3 DEF op, of
<1>5. UNCHANGED besideVars => UNCHANGED faucet
  BY DEF besideVars
<1>6. BreaksOff(c, Refused(c)) /\ UNCHANGED <<vars, besideVars, screen>> => BrokenOff(c, Refused(c))
  BY DEF BrokenOff
<1>7. CASE op = "topup" /\ TopUp(c, of)
  BY <1>5, <1>6, <1>7 DEF TopUp, Send, Claim, Accepted, Rejected
<1>8. CASE op = "fund" /\ Send(c, MayFund(of, old.amount), Fund(of, old.amount), FALSE)
  BY <1>6, <1>8 DEF Send, Fund, Accepted, Rejected, Mints
<1>9. CASE /\ op = "mint"
           /\ Send(c, MayMint(of, old.amount), Mint(of, old.amount), old.amount = 0)
  BY <1>5, <1>6, <1>9 DEF Send, Mint, Accepted, Rejected, Mints
<1>10. CASE op = "report" /\ SendReport(c, of)
  BY <1>5, <1>6, <1>10 DEF SendReport, Send, Ledger, Accepted, Rejected, InStep
<1>11. CASE op = "accrue" /\ Send(c, TRUE, Accrue(of), FALSE)
  BY <1>11 DEF Send, Accrue, Accepted
<1>12. CASE /\ op = "deposit"
            /\ Send(c, MayDeposit(Holder, of, Nothing), Ledger(Deposit(Holder, of, Nothing)), FALSE)
  BY <1>5, <1>6, <1>12 DEF Send, Ledger, Accepted, Rejected
<1>13. CASE op = "create" /\ Send(c, ~Created(of), Ledger(CreateStrategy(of)), FALSE)
  BY <1>5, <1>6, <1>13 DEF Send, Ledger, Accepted, Rejected
<1>14. CASE /\ op = "weigh"
            /\ Send(c, MaySetWeight(of, PlannedWeight),
                    Ledger(SetStrategyWeight(of, PlannedWeight)), FALSE)
  BY <1>5, <1>6, <1>14 DEF Send, Ledger, Accepted, Rejected
<1>15. CASE /\ op = "allocate"
            /\ Send(c, MayAllocate(of, Allocation), Ledger(AllocateToStrategy(of, Allocation)), FALSE)
  BY <1>5, <1>6, <1>15 DEF Send, Ledger, Accepted, Rejected
<1> QED BY <1>4, <1>7, <1>8, <1>9, <1>10, <1>11, <1>12, <1>13, <1>14, <1>15

\* A transaction of such a job leaves the others what they count on.
Gentle(next) ==
  /\ UNCHANGED <<paused, faucet>>
  /\ \A s \in Strategies :
       /\ Created(s) => Created(s)'
       /\ Active(s) => Active(s)'
       /\ Funded(s) => Funded(s)'
       /\ next = <<"create", s>> => Active(s)'

\* Whatever such a job sends is such a transaction.
LEMMA AcceptedIsGentle ==
  ASSUME Inv, NEW op, NEW of, NEW amount \in Int, Accepted(op, of, amount),
         op \in OnStrategy => of \in Strategies, op \in OnAmount => of \in Nat
  PROVE  Gentle(<<op, of>>)
<1>1. /\ TypeOK /\ ata \in [Strategies -> Nat] /\ allocated \in [Strategies -> Nat]
      /\ status \in [Strategies -> {"none", "active", "inactive"}]
      /\ Allocation \in Nat
  BY Constants, DeskConstants DEF Inv, TypeOK
<1> DEFINE Holds == \A s \in Strategies :
                      /\ Created(s) => Created(s)'
                      /\ Active(s) => Active(s)'
                      /\ Funded(s) => Funded(s)'
                      /\ <<op, of>> = <<"create", s>> => Active(s)'
<1> SUFFICES Holds /\ UNCHANGED paused
  BY DEF Gentle, Accepted
<1>2. ASSUME UNCHANGED status, op # "create",
             \A s \in Strategies : ata[s] >= allocated[s] => ata'[s] >= allocated'[s]
      PROVE  Holds
  BY <1>2 DEF Created, Active, Funded
<1> HIDE DEF Holds
<1>3. CASE UNCHANGED vars /\ op # "create"
  BY <1>2, <1>3 DEF vars, tokenVars, strategyVars, configVars
<1>4. CASE op \in Mints /\ TransferIn(of, amount)
  <2>1. of \in Strategies /\ op # "create"
    BY <1>4 DEF Mints, OnStrategy
  <2>2. /\ amount > 0 /\ ata' = [ata EXCEPT ![of] = @ + amount]
        /\ UNCHANGED <<allocated, status, paused>>
    BY <1>4 DEF TransferIn, MayTransferIn, strategyVars, configVars
  <2>3. \A s \in Strategies : ata'[s] >= ata[s]
    BY <1>1, <2>1, <2>2
  <2> QED BY <1>1, <1>2, <2>1, <2>2, <2>3
<1>5. CASE op = "report" /\ ReportYield(of)
  <2>1. /\ UNCHANGED <<ata, status, paused>>
        /\ allocated' = [allocated EXCEPT ![of] = ata[of]]
    BY <1>5 DEF ReportYield, Settle, Rebook, tokenVars, strategyVars, configVars
  <2>2. \A s \in Strategies : ata[s] >= allocated[s] => ata'[s] >= allocated'[s]
    BY <1>1, <2>1
  <2> QED BY <1>2, <1>5, <2>1, <2>2
<1>6. CASE op = "deposit" /\ Deposit(Holder, of, Nothing)
  <2> DEFINE push == FanOut(of, Nothing)
  <2>1. /\ ata' = [s \in Strategies |-> ata[s] + push[s]]
        /\ allocated' = [s \in Strategies |-> allocated[s] + push[s]]
        /\ UNCHANGED <<status, paused>>
    BY <1>6 DEF Deposit, strategyVars, configVars
  <2>2. push \in [Strategies -> Nat]
    <3>1. Nothing \in [Strategies -> Nat] /\ of \in Nat
      BY <1>6 DEF Nothing, OnAmount
    <3> QED BY <1>1, <1>6, <3>1, DeskConstants, DepositFacts
  <2> HIDE DEF push
  <2>3. \A s \in Strategies : ata[s] >= allocated[s] => ata'[s] >= allocated'[s]
    BY <1>1, <2>1, <2>2
  <2> QED BY <1>2, <1>6, <2>1, <2>3
<1>7. CASE op = "create" /\ CreateStrategy(of)
  <2>1. /\ status' = [status EXCEPT ![of] = "active"] /\ UNCHANGED <<ata, allocated, paused>>
        /\ of \in Strategies
    BY <1>7 DEF CreateStrategy, tokenVars, configVars, OnStrategy
  <2> QED BY <1>1, <2>1 DEF Holds, Created, Active, Funded
<1>8. CASE op = "weigh" /\ SetStrategyWeight(of, PlannedWeight)
  BY <1>2, <1>8 DEF SetStrategyWeight, tokenVars, configVars
<1>9. CASE op = "allocate" /\ AllocateToStrategy(of, Allocation)
  <2>1. /\ ata' = [ata EXCEPT ![of] = @ + Allocation]
        /\ allocated' = [allocated EXCEPT ![of] = allocated[of] + Allocation]
        /\ UNCHANGED <<status, paused>> /\ of \in Strategies
    BY <1>9 DEF AllocateToStrategy, ReserveToStrategy, Rebook, BooksUntouched, strategyVars,
                configVars, OnStrategy
  <2>2. \A s \in Strategies : ata[s] >= allocated[s] => ata'[s] >= allocated'[s]
    BY <1>1, <2>1
  <2> QED BY <1>2, <1>9, <2>1, <2>2
<1> QED BY <1>3, <1>4, <1>5, <1>6, <1>7, <1>8, <1>9 DEF Accepted

\* With nothing moved a sound job stays sound.
LEMMA SoundQuiet ==
  ASSUME UNCHANGED <<vars, faucet>>, NEW j, Sound(j)
  PROVE  Sound(j)'
<1>1. /\ UNCHANGED <<paused, faucet, status, ata, allocated, weight, totalWeight, wallet,
                     reserve, totalDeposited>>
  BY DEF vars, tokenVars, strategyVars, configVars
<1>2. \A s : /\ Created(s)' <=> Created(s)
             /\ Active(s)' <=> Active(s)
             /\ Funded(s)' <=> Funded(s)
             /\ InStep(s)' <=> InStep(s)
  BY <1>1 DEF Created, Active, Funded, InStep
<1>3. \A i : Ready(j.todo, i) => Ready(j.todo, i)'
  BY <1>2 DEF Ready
<1>4. Planned(j.todo) => Planned(j.todo)'
  BY <1>1, <1>2 DEF Planned, Affordable
<1>5. Tallied(j) => Tallied(j)'
  BY <1>1, <1>2 DEF Tallied, InHand, AllInStep
<1> QED BY <1>1, <1>2, <1>3, <1>4, <1>5 DEF Sound

\* The same job with other figures than its steps.
LEMMA SameSound ==
  ASSUME NEW j, NEW k, Sound(j), k.kind = j.kind, k.todo = j.todo, k.amount = j.amount,
         k.served = j.served, k.before = j.before
  PROVE  Sound(k)
BY DEF Sound, Tallied, InHand

\* A crank or a hand-out makes nothing: what it is about is there.
Rounds == {"crank", "handout"}
Fit(e) ==
  /\ e[1] \in {"tip", "drop", "mint"} => Created(e[2])
  /\ e[1] = "report" => Active(e[2]) /\ Funded(e[2])
AllFit(todo, kind) == \A i \in 1..Len(todo) : todo[i][1] \in OpsOf(kind) /\ Fit(todo[i])

\* So each step of one asks only of what there is.
LEMMA RoundsMakeNothing ==
  ASSUME NEW todo, NEW kind \in Rounds
  PROVE  /\ (\A i \in 1..Len(todo) : todo[i][1] \in OpsOf(kind) /\ Ready(todo, i))
              <=> AllFit(todo, kind)
         /\ (\A i \in 1..Len(todo) : todo[i][1] \in OpsOf(kind) /\ Ready(todo, i)')
              <=> AllFit(todo, kind)'
<1>1. \A op \in OpsOf(kind) : op \notin {"create", "weigh", "allocate"}
  BY DEF OpsOf, Rounds
<1>2. ASSUME \A i \in 1..Len(todo) : todo[i][1] \in OpsOf(kind), NEW i \in 1..Len(todo)
      PROVE  /\ Ready(todo, i) <=> Fit(todo[i])
             /\ Ready(todo, i)' <=> Fit(todo[i])'
  <2>1. \A s : ~Before(todo, i, <<"create", s>>)
    BY <1>1, <1>2 DEF Before
  <2> QED BY <1>1, <1>2, <2>1 DEF Ready, Fit
<1> QED BY <1>2 DEF AllFit

\* Another's transaction leaves a crank sound.
LEMMA CrankKeeps ==
  ASSUME NEW next, Gentle(next), NEW j, j.todo \in Seq(Steps), j.kind = "crank", Sound(j)
  PROVE  Sound(j)'
<1>1. "crank" \in Rounds /\ AllFit(j.todo, "crank")
  BY RoundsMakeNothing DEF Sound, Rounds
<1>2. ASSUME NEW i \in 1..Len(j.todo) PROVE Fit(j.todo[i])'
  <2>1. j.todo[i] \in Steps
    BY LenProperties
  <2>2. j.todo[i][1] \in OnStrategy => j.todo[i][2] \in Strategies
    BY <2>1, StepFacts
  <2> QED BY <1>1, <2>2 DEF AllFit, Fit, Gentle, OnStrategy
<1>3. AllFit(j.todo, "crank")'
  BY <1>1, <1>2 DEF AllFit
<1>4. \A i \in 1..Len(j.todo) : j.todo[i][1] \in OpsOf("crank") /\ Ready(j.todo, i)'
  BY <1>1, <1>3, RoundsMakeNothing
<1>5. <<"verify", 0>> \notin ToSet(j.todo)
  <2>1. \A i \in 1..Len(j.todo) : j.todo[i] # <<"verify", 0>>
    BY <1>1 DEF AllFit, OpsOf
  <2> QED BY <2>1, AtPlace
<1>6. ~paused' /\ j.amount \in Nat /\ faucet' = "payer"
  BY DEF Sound, Gentle
<1> QED BY <1>4, <1>5, <1>6 DEF Sound, Setups

\* The first step is done: the rest is as ready as it was.
LEMMA ReadyTail ==
  ASSUME NEW todo \in Seq(Steps), todo # <<>>, Gentle(Head(todo)),
         NEW i \in 1..Len(Tail(todo)), Ready(todo, i + 1)
  PROVE  Ready(Tail(todo), i)'
<1> DEFINE rest == Tail(todo)
           op == rest[i][1]
           s == rest[i][2]
<1>1. /\ i + 1 \in 1..Len(todo) /\ rest[i] = todo[i + 1] /\ Head(todo) = todo[1]
      /\ rest \in Seq(Steps) /\ i \in Nat
  BY AfterFirst
<1>2. op \in OnStrategy => s \in Strategies
  <2>1. rest[i] \in Steps
    BY <1>1, LenProperties
  <2> QED BY <2>1, StepFacts
<1>3. Before(todo, i + 1, <<"create", s>>)
        => Head(todo) = <<"create", s>> \/ Before(rest, i, <<"create", s>>)
  <2> SUFFICES ASSUME NEW k \in 1..Len(todo), k < i + 1, todo[k] = <<"create", s>>, k # 1
               PROVE  Before(rest, i, <<"create", s>>)
    BY <1>1 DEF Before
  <2>1. k - 1 \in 1..Len(rest) /\ rest[k - 1] = todo[k]
    BY AfterFirst
  <2>2. k - 1 < i
    BY <1>1
  <2> QED BY <2>1, <2>2 DEF Before
<1>4. /\ op \in {"tip", "drop", "mint"} => Created(s) \/ Before(todo, i + 1, <<"create", s>>)
      /\ op \in {"weigh", "allocate", "report"} =>
           Active(s) \/ Before(todo, i + 1, <<"create", s>>)
      /\ op \in {"allocate", "report"} => Funded(s)
  BY <1>1 DEF Ready
<1> HIDE DEF rest, op, s
<1>5. ASSUME op \in OnStrategy
      PROVE  /\ Created(s) => Created(s)'
             /\ Active(s) => Active(s)'
             /\ Funded(s) => Funded(s)'
             /\ Head(todo) = <<"create", s>> => Active(s)' /\ Created(s)'
  BY <1>2, <1>5 DEF Gentle, Active, Created
<1>6. /\ op \in {"tip", "drop", "mint"} => Created(s)' \/ Before(rest, i, <<"create", s>>)
      /\ op \in {"weigh", "allocate", "report"} =>
           Active(s)' \/ Before(rest, i, <<"create", s>>)
      /\ op \in {"allocate", "report"} => Funded(s)'
  BY <1>3, <1>4, <1>5 DEF OnStrategy
<1> QED BY <1>6 DEF Ready, rest, op, s

\* What is done once is not to be done again.
LEMMA RestOnce ==
  ASSUME NEW todo \in Seq(Steps), todo # <<>>, EachOnce(todo)
  PROVE  /\ EachOnce(Tail(todo))
         /\ Head(todo)[1] \in Once => Head(todo) \notin ToSet(Tail(todo))
         /\ \A x : x \in ToSet(Tail(todo)) => x \in ToSet(todo)
         /\ \A x : x \in ToSet(todo) /\ x # Head(todo) => x \in ToSet(Tail(todo))
<1> DEFINE rest == Tail(todo)
<1>1. /\ rest \in Seq(Steps) /\ Head(todo) = todo[1] /\ 1 \in 1..Len(todo)
      /\ \A i \in 1..Len(rest) : i + 1 \in 1..Len(todo) /\ rest[i] = todo[i + 1] /\ i \in Nat
  BY AfterFirst
<1>2. \A x : x \in ToSet(rest) => \E i \in 1..Len(rest) : rest[i] = x
  BY <1>1, AtPlace
<1> HIDE DEF rest
<1>3. EachOnce(rest)
  BY <1>1 DEF EachOnce
<1>4. \A i \in 1..Len(rest) : Head(todo)[1] \in Once => rest[i] # Head(todo)
  BY <1>1 DEF EachOnce
<1>5. \A x : x \in ToSet(rest) => x \in ToSet(todo)
  BY <1>1, <1>2, AtPlace
<1> QED BY <1>2, <1>3, <1>4, <1>5, TailKeeps DEF rest

\* What is still to be done with each strategy.
LEMMA PendingTail ==
  ASSUME NEW todo \in Seq(Steps), todo # <<>>, EachOnce(todo), NEW op \in Once,
         NEW s, Head(todo) = <<op, s>>, NEW of \in Once
  PROVE  LET left == Pending(Tail(todo), of)
         IN  /\ Cardinality(left) \in Nat
             /\ of # op => left = Pending(todo, of)
             /\ of = op /\ s \in Strategies =>
                  /\ s \in Pending(todo, of) /\ left = Pending(todo, of) \ {s}
                  /\ Cardinality(Pending(todo, of)) = Cardinality(left) + 1
<1> DEFINE left == Pending(Tail(todo), of)
           all == Pending(todo, of)
<1>1. /\ Head(todo) \notin ToSet(Tail(todo)) /\ Head(todo) \in ToSet(todo)
      /\ \A x : x \in ToSet(Tail(todo)) => x \in ToSet(todo)
      /\ \A x : x \in ToSet(todo) /\ x # Head(todo) => x \in ToSet(Tail(todo))
  BY AfterFirst, AtPlace, RestOnce
<1>2. /\ of # op => left = all
      /\ of = op /\ s \in Strategies => s \in all /\ left = all \ {s}
  BY <1>1 DEF Pending
<1>3. IsFiniteSet(left) /\ IsFiniteSet(all)
  BY Constants, FS_Subset DEF Pending
<1>4. Cardinality(left) \in Nat /\ Cardinality(all) \in Nat
  BY <1>3, FS_CardinalityType
<1>5. of = op /\ s \in Strategies => Cardinality(all) = Cardinality(left) + 1
  BY <1>2, <1>3, <1>4, FS_RemoveElement
<1> QED BY <1>2, <1>4, <1>5

\* The deposit is still to be made before anything is allocated.
LEMMA AffordableTail ==
  ASSUME NEW todo \in Seq(Steps), todo # <<>>, EachOnce(todo), Affordable(todo)
  PROVE  LET rest == Tail(todo)
         IN  /\ Affordable(rest)
             /\ Head(todo)[1] = "deposit" =>
                  /\ Head(todo)[2] = FirstDeposit
                  /\ \A i \in 1..Len(rest) : rest[i][1] # "deposit"
<1> DEFINE rest == Tail(todo)
<1>1. /\ rest \in Seq(Steps) /\ Head(todo) = todo[1] /\ 1 \in 1..Len(todo)
      /\ \A i \in 1..Len(rest) : i + 1 \in 1..Len(todo) /\ rest[i] = todo[i + 1] /\ i \in Nat
      /\ \A i \in 1..Len(todo) : todo[i] \in Steps
  BY AfterFirst, LenProperties
<1>2. \A e \in Steps : e = <<e[1], e[2]>>
  BY DEF Steps
<1> HIDE DEF rest
<1>3. ASSUME NEW i \in 1..Len(rest), rest[i][1] = "deposit"
      PROVE  /\ rest[i][2] = FirstDeposit /\ FirstDeposit <= wallet[Holder]
             /\ \A k \in 1..i : rest[k][1] # "allocate"
  <2>1. /\ todo[i + 1][2] = FirstDeposit /\ FirstDeposit <= wallet[Holder]
        /\ \A k \in 1..(i + 1) : todo[k][1] # "allocate"
    BY <1>1, <1>3 DEF Affordable
  <2>2. \A k \in 1..i : k \in 1..Len(rest) /\ k + 1 \in 1..(i + 1)
    BY <1>1, <1>3, LenProperties
  <2> QED BY <1>1, <2>1, <2>2
<1>4. ASSUME todo[1][1] = "deposit"
      PROVE  /\ todo[1][2] = FirstDeposit
             /\ \A i \in 1..Len(rest) : rest[i][1] # "deposit"
  <2>1. todo[1][2] = FirstDeposit
    BY <1>1, <1>4 DEF Affordable
  <2>2. ASSUME NEW i \in 1..Len(rest), rest[i][1] = "deposit" PROVE FALSE
    <3>1. i + 1 \in 1..Len(todo) /\ todo[i + 1] = rest[i] /\ i \in Nat /\ rest[i][2] = FirstDeposit
      BY <1>1, <1>3, <2>2
    <3>2. todo[i + 1] = todo[1]
      BY <1>1, <1>2, <1>4, <2>1, <2>2, <3>1
    <3>3. i + 1 = 1
      BY <1>1, <1>4, <3>1, <3>2 DEF EachOnce, Once
    <3> QED BY <3>1, <3>3
  <2> QED BY <2>1, <2>2
<1> QED BY <1>1, <1>3, <1>4 DEF Affordable, rest

\* A step that is none of the plan's leaves it as it is.
LEMMA PlanUntouched ==
  ASSUME NEW todo \in Seq(Steps), todo # <<>>, Head(todo)[1] \notin Once, Planned(todo),
         UNCHANGED <<reserve, status, weight, totalWeight>>, wallet'[Holder] = wallet[Holder]
  PROVE  Planned(Tail(todo))'
<1> DEFINE rest == Tail(todo)
<1>1. /\ EachOnce(rest)
      /\ \A op \in Once : \A x : <<op, x>> \in ToSet(rest) <=> <<op, x>> \in ToSet(todo)
  <2>1. EachOnce(todo)
    BY DEF Planned
  <2> QED BY <2>1, RestOnce
<1>2. \A op \in Once : Pending(rest, op) = Pending(todo, op)
  BY <1>1 DEF Pending
<1>3. Affordable(rest)
  BY AffordableTail DEF Planned
<1> HIDE DEF rest
<1>4. /\ \A s \in Pending(rest, "create") : ~Created(s)
      /\ \A s \in Pending(rest, "weigh") : weight[s] = 0
      /\ totalWeight + PlannedWeight * Cardinality(Pending(rest, "weigh")) <= BPS
      /\ Allocation * Cardinality(Pending(rest, "allocate"))
           <= reserve + (IF <<"deposit", FirstDeposit>> \in ToSet(rest) THEN FirstDeposit ELSE 0)
  BY <1>1, <1>2 DEF Planned, Once
<1>5. Planned(rest)'
  BY <1>1, <1>3, <1>4 DEF Planned, Affordable, Created
<1> QED BY <1>5 DEF rest

\* What a transaction of a setup leaves of its plan can still be carried out.
LEMMA PlanGoesOn ==
  ASSUME Inv, NEW todo \in Seq(Steps), todo # <<>>, Planned(todo),
         NEW op, NEW of, Head(todo) = <<op, of>>, NEW amount \in Int, Accepted(op, of, amount),
         op \in {"deposit", "create", "weigh", "allocate", "mint", "report"},
         op \in OnStrategy => of \in Strategies
  PROVE  Planned(Tail(todo))'
<1> DEFINE rest == Tail(todo)
           left(o) == Cardinality(Pending(rest, o))
           coming == IF <<"deposit", FirstDeposit>> \in ToSet(rest) THEN FirstDeposit ELSE 0
           was == IF <<"deposit", FirstDeposit>> \in ToSet(todo) THEN FirstDeposit ELSE 0
<1>1. /\ TypeOK /\ reserve \in Nat /\ weight \in [Strategies -> Nat] /\ totalWeight \in Nat
      /\ wallet \in [Wallets -> Nat] /\ Holder \in Wallets /\ Outside \in Wallets
      /\ Holder # Outside /\ Allocation \in Nat /\ PlannedWeight \in Nat /\ BPS \in Nat
      /\ FirstDeposit \in Nat
      /\ status \in [Strategies -> {"none", "active", "inactive"}]
  <2>1. TypeOK /\ BPS \in Nat
    BY Constants DEF Inv
  <2>2. /\ reserve \in Nat /\ weight \in [Strategies -> Nat] /\ totalWeight \in Nat
        /\ wallet \in [Wallets -> Nat] /\ status \in [Strategies -> {"none", "active", "inactive"}]
    BY <2>1 DEF TypeOK
  <2>3. /\ Holder \in Wallets /\ Outside \in Wallets /\ Holder # Outside
        /\ Allocation \in Nat /\ FirstDeposit \in Nat /\ PlannedWeight \in Nat
    BY DeskConstants, AmountTypes DEF Wallets
  <2> QED BY <2>1, <2>2, <2>3
<1>2. /\ EachOnce(todo) /\ Affordable(todo) /\ Head(todo)[1] = op /\ Head(todo)[2] = of
      /\ \A s \in Pending(todo, "create") : ~Created(s)
      /\ \A s \in Pending(todo, "weigh") : weight[s] = 0
      /\ totalWeight + PlannedWeight * Cardinality(Pending(todo, "weigh")) <= BPS
      /\ Allocation * Cardinality(Pending(todo, "allocate")) <= reserve + was
  BY DEF Planned
<1>3. /\ EachOnce(rest) /\ Affordable(rest)
      /\ op = "deposit" => of = FirstDeposit /\ \A i \in 1..Len(rest) : rest[i][1] # "deposit"
  BY <1>2, RestOnce, AffordableTail
<1>4. \A o \in {"create", "weigh", "allocate"} : left(o) \in Nat
  <2> SUFFICES ASSUME NEW o \in {"create", "weigh", "allocate"} PROVE left(o) \in Nat
    OBVIOUS
  <2>1. IsFiniteSet(Pending(rest, o))
    BY Constants, FS_Subset DEF Pending
  <2> QED BY <2>1, FS_CardinalityType
<1>5. ASSUME op # "deposit" PROVE was = coming
  <2>1. <<"deposit", FirstDeposit>> # Head(todo)
    BY <1>2, <1>5
  <2> QED BY <1>2, <2>1, RestOnce
<1>6. CASE op \in {"mint", "report"}
  <2>1. UNCHANGED <<reserve, status, weight, totalWeight>> /\ wallet'[Holder] = wallet[Holder]
    <3>1. CASE UNCHANGED vars
      BY <3>1 DEF vars, tokenVars, strategyVars
    <3>2. CASE TransferIn(of, amount)
      BY <1>1, <3>2 DEF TransferIn, strategyVars
    <3>3. CASE ReportYield(of)
      BY <3>3 DEF ReportYield, Settle, tokenVars, strategyVars
    <3> QED BY <1>6, <3>1, <3>2, <3>3 DEF Accepted
  <2> QED BY <1>2, <1>6, <2>1, PlanUntouched DEF Once
<1>7. CASE op = "deposit"
  <2> DEFINE push == FanOut(of, Nothing)
  <2>1. Deposit(Holder, of, Nothing) /\ of = FirstDeposit
    BY <1>3, <1>7 DEF Accepted, vars, Mints
  <2>2. /\ reserve' = reserve + of - Total(push)
        /\ UNCHANGED <<status, weight, totalWeight>>
    BY <2>1 DEF Deposit, strategyVars
  <2>3. Total(push) = 0
    <3>1. \A s \in Strategies : Nothing[s] * Portion(of, weight[s]) = 0
      <4> SUFFICES ASSUME NEW s \in Strategies PROVE Nothing[s] * Portion(of, weight[s]) = 0
        OBVIOUS
      <4>1. Portion(of, weight[s]) \in Nat
        BY <1>1, <2>1, AmountTypes
      <4> QED BY <4>1 DEF Nothing
    <3>2. push \in [Strategies -> Nat] /\ \A s \in Strategies : push[s] = 0
      BY <3>1 DEF FanOut
    <3> HIDE DEF push
    <3> QED BY <3>2, Constants, SumZero DEF Total
  <2> HIDE DEF push
  <2>4. reserve' = reserve + FirstDeposit
    BY <1>1, <2>1, <2>2, <2>3
  <2>5. coming = 0
    <3>1. \A i \in 1..Len(rest) : rest[i] # <<"deposit", FirstDeposit>>
      BY <1>3, <1>7
    <3>2. rest \in Seq(Steps)
      BY AfterFirst
    <3> HIDE DEF rest
    <3> QED BY <3>1, <3>2, AtPlace
  <2>6. Pending(rest, "create") = Pending(todo, "create")
        /\ Pending(rest, "weigh") = Pending(todo, "weigh")
        /\ Pending(rest, "allocate") = Pending(todo, "allocate")
    BY <1>2, <1>7, PendingTail DEF Once
  <2>7. was <= FirstDeposit
    BY <1>1
  <2> HIDE DEF rest, was, coming
  <2>8. Allocation * left("allocate") <= reserve' + 0
    BY <1>1, <1>2, <1>4, <2>4, <2>6, <2>7, ProductNat DEF was
  <2>9. Affordable(rest)'
    BY <1>3, <1>7 DEF Affordable
  <2>10. Planned(rest)'
    BY <1>2, <1>3, <2>2, <2>5, <2>6, <2>8, <2>9 DEF Planned, Created, coming
  <2> QED BY <2>10 DEF rest
<1>8. ASSUME op \in {"create", "weigh", "allocate"}
      PROVE  /\ of \in Strategies /\ of \in Pending(todo, op)
             /\ Pending(rest, op) = Pending(todo, op) \ {of}
             /\ Cardinality(Pending(todo, op)) = left(op) + 1
             /\ \A o \in {"create", "weigh", "allocate"} \ {op} :
                  Pending(rest, o) = Pending(todo, o)
             /\ was = coming
  BY <1>2, <1>5, <1>8, PendingTail DEF Once, OnStrategy
<1>9. CASE op = "create"
  <2>1. /\ status' = [status EXCEPT ![of] = "active"]
        /\ UNCHANGED <<reserve, wallet, weight, totalWeight>>
    BY <1>9 DEF Accepted, CreateStrategy, tokenVars, Mints
  <2>2. Affordable(rest)'
    BY <1>3, <2>1 DEF Affordable
  <2> HIDE DEF rest, was, coming
  <2>3. \A s \in Pending(rest, "create") : ~Created(s)'
    <3>1. \A s \in Pending(rest, "create") : s # of /\ s \in Strategies /\ ~Created(s)
      BY <1>2, <1>8, <1>9 DEF Pending
    <3> QED BY <1>1, <2>1, <3>1 DEF Created
  <2>4. /\ Pending(rest, "weigh") = Pending(todo, "weigh")
        /\ Pending(rest, "allocate") = Pending(todo, "allocate")
        /\ was = coming
    BY <1>8, <1>9
  <2>5. Planned(rest)'
    BY <1>2, <1>3, <2>1, <2>2, <2>3, <2>4 DEF Planned, coming
  <2> QED BY <2>5 DEF rest
<1>10. CASE op = "weigh"
  <2>1. /\ weight' = [weight EXCEPT ![of] = PlannedWeight]
        /\ totalWeight' = totalWeight - weight[of] + PlannedWeight
        /\ UNCHANGED <<reserve, wallet, status>>
    BY <1>10 DEF Accepted, SetStrategyWeight, WeightWith, tokenVars, Mints
  <2>2. Affordable(rest)'
    BY <1>3, <2>1 DEF Affordable
  <2> HIDE DEF rest, was, coming
  <2>3. /\ Pending(rest, "weigh") = Pending(todo, "weigh") \ {of}
        /\ Pending(rest, "create") = Pending(todo, "create")
        /\ Pending(rest, "allocate") = Pending(todo, "allocate")
        /\ Cardinality(Pending(todo, "weigh")) = left("weigh") + 1
        /\ was = coming /\ of \in Strategies /\ weight[of] = 0
    BY <1>2, <1>8, <1>10
  <2>4. \A s \in Pending(rest, "weigh") : weight'[s] = 0
    <3>1. \A s \in Pending(rest, "weigh") : s # of /\ s \in Strategies /\ weight[s] = 0
      BY <1>2, <2>3 DEF Pending
    <3> QED BY <1>1, <2>1, <3>1
  <2>5. totalWeight' + PlannedWeight * left("weigh") <= BPS
    <3> DEFINE n == left("weigh")
    <3>1. n \in Nat /\ totalWeight + PlannedWeight * (n + 1) <= BPS
      BY <1>2, <1>4, <2>3
    <3>2. totalWeight' = totalWeight + PlannedWeight
      BY <1>1, <2>1, <2>3
    <3> HIDE DEF n
    <3>3. PlannedWeight * (n + 1) = PlannedWeight * n + PlannedWeight /\ PlannedWeight * n \in Nat
      BY <1>1, <3>1, ProductNat
    <3>4. totalWeight' + PlannedWeight * n <= BPS
      BY <1>1, <3>1, <3>2, <3>3
    <3> QED BY <3>4 DEF n
  <2>6. Planned(rest)'
    BY <1>2, <1>3, <2>1, <2>2, <2>3, <2>4, <2>5 DEF Planned, coming, Created
  <2> QED BY <2>6 DEF rest
<1>11. CASE op = "allocate"
  <2>1. /\ reserve' = reserve - Allocation
        /\ UNCHANGED <<wallet, status, weight, totalWeight>>
    BY <1>11 DEF Accepted, AllocateToStrategy, ReserveToStrategy, BooksUntouched, strategyVars,
                 Mints
  <2>2. Affordable(rest)'
    BY <1>3, <2>1 DEF Affordable
  <2> HIDE DEF rest, was, coming
  <2>3. /\ Pending(rest, "weigh") = Pending(todo, "weigh")
        /\ Pending(rest, "create") = Pending(todo, "create")
        /\ Cardinality(Pending(todo, "allocate")) = left("allocate") + 1
        /\ was = coming
    BY <1>8, <1>11
  <2>4. Allocation * left("allocate") <= reserve' + coming
    <3> DEFINE n == left("allocate")
    <3>1. n \in Nat /\ Allocation * (n + 1) <= reserve + coming /\ coming \in Nat
      BY <1>1, <1>2, <1>4, <2>3 DEF coming
    <3> HIDE DEF n
    <3>2. Allocation * (n + 1) = Allocation * n + Allocation /\ Allocation * n \in Nat
      BY <1>1, <3>1, ProductNat
    <3>3. Allocation * n <= reserve' + coming
      BY <1>1, <2>1, <3>1, <3>2
    <3> QED BY <3>3 DEF n
  <2>5. Planned(rest)'
    BY <1>2, <1>3, <2>1, <2>2, <2>3, <2>4 DEF Planned, coming, Created
  <2> QED BY <2>5 DEF rest
<1> QED BY <1>6, <1>7, <1>9, <1>10, <1>11

\* A list with one or two steps put in front.
LEMMA InFront ==
  ASSUME NEW a \in Steps, NEW b \in Steps, NEW rest \in Seq(Steps)
  PROVE  LET one == <<a>> \o rest
             two == <<a, b>> \o rest
         IN  /\ one \in Seq(Steps) /\ one # <<>> /\ Head(one) = a /\ Tail(one) = rest
             /\ two \in Seq(Steps) /\ two # <<>> /\ Head(two) = a /\ Tail(two) = <<b>> \o rest
             /\ ToSet(one) = {a} \cup ToSet(rest)
             /\ ToSet(two) = {a, b} \cup ToSet(rest)
<1> DEFINE one == <<a>> \o rest
           two == <<a, b>> \o rest
           last == <<b>> \o rest
<1>1. /\ one \in Seq(Steps) /\ Len(one) = Len(rest) + 1 /\ Len(rest) \in Nat
      /\ two \in Seq(Steps) /\ Len(two) = Len(rest) + 2
      /\ last \in Seq(Steps) /\ Len(last) = Len(rest) + 1
  BY ConcatProperties, LenProperties
<1>2. /\ one[1] = a /\ \A i \in 1..Len(rest) : one[i + 1] = rest[i]
      /\ two[1] = a /\ two[2] = b /\ \A i \in 1..Len(rest) : two[i + 2] = rest[i]
      /\ last[1] = b /\ \A i \in 1..Len(rest) : last[i + 1] = rest[i]
  BY ConcatProperties, LenProperties
<1> HIDE DEF one, two, last
<1>3. one # <<>> /\ two # <<>> /\ Head(one) = a /\ Head(two) = a
  BY <1>1, <1>2, EmptySeq, HeadTailProperties
<1>4. ASSUME NEW f \in Seq(Steps), NEW g \in Seq(Steps), f # <<>>, Len(f) = Len(g) + 1,
             \A i \in 1..Len(g) : f[i + 1] = g[i]
      PROVE  Tail(f) = g
  <2>1. Tail(f) \in Seq(Steps) /\ Len(Tail(f)) = Len(g)
        /\ \A i \in 1..Len(g) : Tail(f)[i] = g[i]
    BY <1>4, HeadTailProperties, LenProperties
  <2> QED BY <1>4, <2>1, SeqEqual
<1>5. Tail(one) = rest
  BY <1>1, <1>2, <1>3, <1>4
<1>6. Tail(two) = last
  <2>1. \A i \in 1..Len(last) : two[i + 1] = last[i]
    <3> SUFFICES ASSUME NEW i \in 1..Len(last) PROVE two[i + 1] = last[i]
      OBVIOUS
    <3>1. CASE i = 1
      BY <1>2, <3>1
    <3>2. CASE i # 1
      <4>1. i - 1 \in 1..Len(rest) /\ (i - 1) + 2 = i + 1 /\ (i - 1) + 1 = i
        BY <1>1, <3>2
      <4>2. two[(i - 1) + 2] = last[(i - 1) + 1]
        BY <1>2, <4>1
      <4> QED BY <4>1, <4>2
    <3> QED BY <3>1, <3>2
  <2> QED BY <1>1, <1>3, <1>4, <2>1
<1>7. ASSUME NEW f \in Seq(Steps), f # <<>> PROVE ToSet(f) = {Head(f)} \cup ToSet(Tail(f))
  <2>1. /\ Head(f) = f[1] /\ 1 \in 1..Len(f) /\ Tail(f) \in Seq(Steps)
        /\ \A i \in 1..Len(Tail(f)) : i + 1 \in 1..Len(f) /\ Tail(f)[i] = f[i + 1]
    BY <1>7, AfterFirst
  <2>2. ASSUME NEW x \in ToSet(Tail(f)) PROVE x \in ToSet(f)
    <3>1. PICK i \in 1..Len(Tail(f)) : Tail(f)[i] = x
      BY <2>1, <2>2, AtPlace
    <3> QED BY <2>1, <3>1, AtPlace
  <2>3. Head(f) \in ToSet(f)
    BY <2>1, AtPlace
  <2>4. \A x \in ToSet(f) : x # Head(f) => x \in ToSet(Tail(f))
    BY <1>7, TailKeeps
  <2> QED BY <2>2, <2>3, <2>4
<1>8. last # <<>> /\ Head(last) = b /\ Tail(last) = rest
  <2>1. last # <<>> /\ Head(last) = b
    BY <1>1, <1>2, EmptySeq, HeadTailProperties
  <2> QED BY <1>1, <1>2, <1>4, <2>1
<1>9. /\ ToSet(one) = {a} \cup ToSet(rest)
      /\ ToSet(two) = {a, b} \cup ToSet(rest)
  <2>1. ToSet(one) = {a} \cup ToSet(rest)
    BY <1>1, <1>3, <1>5, <1>7
  <2>2. ToSet(last) = {b} \cup ToSet(rest)
    BY <1>1, <1>7, <1>8
  <2>3. ToSet(two) = {a} \cup ToSet(last)
    BY <1>1, <1>3, <1>6, <1>7
  <2> QED BY <2>1, <2>2, <2>3
<1> QED BY <1>1, <1>3, <1>5, <1>6, <1>9 DEF one, two, last

\* The strategies still to come, with the next one taken.
LEMMA ClosingFacts ==
  ASSUME NEW todo \in Seq(Steps), NEW served, Closing(todo, served)
  PROVE  /\ <<"verify", 0>> \in ToSet(todo)
         /\ \/ Head(todo) = <<"verify", 0>> /\ Tail(todo) = <<>>
            \/ \E s \in Strategies :
                 /\ Head(todo) = <<"tip", s>> /\ s \notin served /\ Closing(Tail(todo), served)
                 /\ Closing(Tail(todo), served \cup {s})
<1> DEFINE rest == Tail(todo)
           n == Len(todo)
<1>1. /\ todo # <<>> /\ todo[n] = <<"verify", 0>>
      /\ \A i \in 1..(n - 1) : todo[i][1] = "tip" /\ todo[i][2] \notin served
      /\ \A i, k \in 1..(n - 1) : todo[i] = todo[k] => i = k
  BY DEF Closing
<1>2. /\ n \in Nat /\ n >= 1 /\ Head(todo) = todo[1] /\ Len(rest) = n - 1 /\ rest \in Seq(Steps)
      /\ \A i \in 1..(n - 1) : rest[i] = todo[i + 1]
      /\ \A i \in 1..n : todo[i] \in Steps
  BY <1>1, AfterFirst, LenProperties
<1>3. <<"verify", 0>> \in ToSet(todo)
  <2>1. n \in 1..n
    BY <1>2
  <2> QED BY <1>1, <2>1, AtPlace
<1>4. CASE n = 1
  <2>1. Head(todo) = <<"verify", 0>>
    BY <1>1, <1>2, <1>4
  <2>2. Tail(todo) = <<>>
    <3>1. Tail(todo) \in Seq(Steps) /\ Len(Tail(todo)) = 0
      BY <1>2, <1>4
    <3> QED BY ONLY <3>1, EmptySeq
  <2> QED BY <1>3, <2>1, <2>2
<1>5. CASE n > 1
  <2> DEFINE s == todo[1][2]
  <2>1. todo[1] \in Steps /\ todo[1][1] = "tip" /\ s \notin served
    BY <1>1, <1>2, <1>5
  <2>2. todo[1] = <<"tip", s>> /\ s \in Strategies
    BY <2>1, StepFacts DEF Steps, OnStrategy
  <2> HIDE DEF rest, n, s
  <2>3. rest # <<>> /\ rest[Len(rest)] = <<"verify", 0>>
    <3>1. n - 1 \in 1..(n - 1) /\ (n - 1) + 1 = n
      BY <1>2, <1>5
    <3>2. rest[n - 1] = todo[n]
      BY <1>2, <3>1
    <3>3. rest # <<>>
      BY <1>2, <1>5, EmptySeq
    <3> QED BY <1>1, <1>2, <3>2, <3>3
  <2>4. ASSUME NEW i \in 1..(Len(rest) - 1)
        PROVE  /\ rest[i] = todo[i + 1] /\ i + 1 \in 1..(n - 1) /\ i + 1 # 1
               /\ rest[i][1] = "tip" /\ rest[i][2] \notin served /\ rest[i][2] # s
    <3>1. i + 1 \in 1..(n - 1) /\ i + 1 # 1 /\ i \in 1..(n - 1) /\ 1 \in 1..(n - 1)
      BY <1>2
    <3>2. /\ rest[i] = todo[i + 1] /\ todo[i + 1][1] = "tip" /\ todo[i + 1][2] \notin served
          /\ todo[i + 1] # todo[1] /\ todo[i + 1] \in Steps
      BY <1>1, <1>2, <3>1
    <3>3. todo[i + 1] = <<"tip", todo[i + 1][2]>>
      BY <3>2 DEF Steps
    <3> QED BY <2>2, <3>1, <3>2, <3>3
  <2>5. \A i, k \in 1..(Len(rest) - 1) : rest[i] = rest[k] => i = k
    <3> SUFFICES ASSUME NEW i \in 1..(Len(rest) - 1), NEW k \in 1..(Len(rest) - 1),
                        rest[i] = rest[k]
                 PROVE  i = k
      OBVIOUS
    <3>1. i + 1 = k + 1
      BY <1>1, <2>4
    <3> QED BY <3>1
  <2>6. Closing(rest, served) /\ Closing(rest, served \cup {s})
    BY <2>3, <2>4, <2>5 DEF Closing
  <2> QED BY <1>2, <1>3, <2>1, <2>2, <2>6 DEF rest, s
<1>6. n = 1 \/ n > 1
  BY <1>2
<1> QED BY <1>4, <1>5, <1>6

\* A list in hand begins with a step that hands out, the others with a read.
LEMMA InHandFirst ==
  ASSUME NEW j, NEW s \in Strategies, NEW rest \in Seq(Steps), InHand(j, s, rest)
  PROVE  \/ Head(j.todo) = <<"mint", s>> /\ Tail(j.todo) = <<<<"report", s>>>> \o rest
         \/ Head(j.todo) = <<"report", s>> /\ Tail(j.todo) = rest
<1>1. <<"mint", s>> \in Steps /\ <<"report", s>> \in Steps
  BY DEF Steps, OnStrategy
<1>2. CASE j.todo = <<<<"mint", s>>, <<"report", s>>>> \o rest
  <2> DEFINE a == <<"mint", s>>
             b == <<"report", s>>
             two == <<a, b>> \o rest
  <2>1. two # <<>> /\ Head(two) = a /\ Tail(two) = <<b>> \o rest
    <3>1. a \in Steps /\ b \in Steps
      BY <1>1
    <3> HIDE DEF a, b
    <3> QED BY <3>1, InFront
  <2> QED BY <1>2, <2>1
<1>3. CASE j.todo = <<<<"report", s>>>> \o rest
  <2> DEFINE b == <<"report", s>>
             one == <<b>> \o rest
  <2>1. one # <<>> /\ Head(one) = b /\ Tail(one) = rest
    <3>1. b \in Steps
      BY <1>1
    <3> HIDE DEF b
    <3> QED BY <3>1, InFront
  <2> QED BY <1>3, <2>1
<1> QED BY <1>2, <1>3 DEF InHand

\* What such a job sends and reports is handed out and in the total.
LEMMA TallySends ==
  ASSUME Inv, NEW j, j.todo \in Seq(Steps), j.amount \in Nat, j.served \in SUBSET Strategies,
         Tallied(j), NEW op \in {"mint", "report"}, NEW of \in Strategies,
         Head(j.todo) = <<op, of>>, Accepted(op, of, j.amount),
         NEW k, k.todo = Tail(j.todo), k.served = j.served, k.amount = j.amount,
         k.before = j.before
  PROVE  Tallied(k)'
<1> DEFINE n == Cardinality(j.served)
           amount == j.amount
           before == j.before
<1>1. /\ ata \in [Strategies -> Nat] /\ allocated \in [Strategies -> Nat]
      /\ totalDeposited \in Nat /\ n \in Nat /\ amount \in Nat /\ before \in Nat
  <2>1. n \in Nat
    BY Constants, FS_Subset, FS_CardinalityType
  <2> QED BY <2>1, Constants DEF Inv, TypeOK, Tallied
<1>2. PICK s \in j.served, rest \in Seq(Steps) : Closing(rest, j.served) /\ InHand(j, s, rest)
  <2>1. ~Closing(j.todo, j.served)
    <3> SUFFICES ASSUME Closing(j.todo, j.served) PROVE FALSE
      OBVIOUS
    <3>1. \/ Head(j.todo) = <<"verify", 0>>
          \/ \E s \in Strategies : Head(j.todo) = <<"tip", s>>
      BY ClosingFacts
    <3> QED BY <3>1
  <2> QED BY <2>1 DEF Tallied
<1>3. /\ s = of /\ s \in Strategies
      /\ \/ op = "mint" /\ Tail(j.todo) = <<<<"report", s>>>> \o rest
         \/ op = "report" /\ Tail(j.todo) = rest
  <2>1. s \in Strategies
    OBVIOUS
  <2>2. \/ Head(j.todo) = <<"mint", s>> /\ Tail(j.todo) = <<<<"report", s>>>> \o rest
        \/ Head(j.todo) = <<"report", s>> /\ Tail(j.todo) = rest
    BY <1>2, <2>1, InHandFirst
  <2> QED BY <2>1, <2>2
<1>4. Active(s) /\ totalDeposited = before + amount * (n - 1)
  BY <1>2 DEF InHand
<1>5. /\ op = "mint" => AllInStep
      /\ op = "report" => /\ ata[s] = allocated[s] + amount
                          /\ \A u \in Strategies \ {s} : Active(u) => InStep(u)
  <2>1. <<"mint", s>> \in Steps /\ <<"report", s>> \in Steps
    BY <1>3 DEF Steps, OnStrategy
  <2> QED BY <1>2, <2>1, InFront DEF InHand
<1>6. UNCHANGED status
  BY DEF Accepted, TransferIn, ReportYield, Settle, vars, strategyVars
<1> HIDE DEF n, amount, before
<1>7. CASE op = "mint"
  <2>1. /\ UNCHANGED <<allocated, totalDeposited>>
        /\ ata'[s] = ata[s] + amount /\ \A u \in Strategies \ {s} : ata'[u] = ata[u]
    <3>1. CASE UNCHANGED vars /\ amount = 0
      BY <1>1, <1>3, <3>1 DEF vars, tokenVars
    <3>2. CASE TransferIn(s, amount)
      BY <1>1, <1>3, <3>2 DEF TransferIn
    <3> QED BY <1>3, <1>7, <3>1, <3>2 DEF Accepted, amount
  <2>2. ata[s] = allocated[s] /\ \A u \in Strategies \ {s} : Active(u) => ata[u] = allocated[u]
    BY <1>3, <1>4, <1>5, <1>7 DEF AllInStep, InStep
  <2>3. /\ ata'[s] = allocated'[s] + amount /\ Active(s)'
        /\ \A u \in Strategies \ {s} : Active(u)' => InStep(u)'
    BY <1>4, <1>6, <2>1, <2>2 DEF Active, InStep
  <2>4. totalDeposited' = before + amount * (n - 1)
    BY <1>4, <2>1
  <2>5. k.todo = <<<<"report", s>>>> \o rest
    BY <1>3, <1>7
  <2>6. InHand(k, s, rest)'
    BY <2>3, <2>4, <2>5 DEF InHand, n, amount, before
  <2> QED BY <1>1, <1>2, <2>6 DEF Tallied, before
<1>8. CASE op = "report"
  <2>1. /\ ata[s] = allocated[s] + amount
        /\ \A u \in Strategies \ {s} : Active(u) => ata[u] = allocated[u]
    BY <1>5, <1>8 DEF InStep
  <2>2. /\ UNCHANGED ata /\ totalDeposited' = totalDeposited + amount
        /\ allocated'[s] = ata[s] /\ \A u \in Strategies \ {s} : allocated'[u] = allocated[u]
    <3>1. CASE UNCHANGED vars /\ InStep(s)
      <4>1. amount = 0
        BY <1>1, <1>3, <2>1, <3>1 DEF InStep
      <4> QED BY <1>1, <3>1, <4>1 DEF vars, tokenVars, InStep
    <3>2. CASE ReportYield(s)
      <4>1. /\ totalDeposited' = totalDeposited + ata[s] - allocated[s]
            /\ allocated' = [allocated EXCEPT ![s] = ata[s]] /\ UNCHANGED ata
        BY <3>2 DEF ReportYield, Settle, Rebook, tokenVars
      <4> QED BY <1>1, <1>3, <2>1, <4>1
    <3> QED BY <1>3, <1>8, <3>1, <3>2 DEF Accepted, Mints
  <2>3. totalDeposited' = before + amount * n
    <3>1. amount * (n - 1) + amount = amount * n
      BY <1>1
    <3>2. amount * n \in Nat /\ amount * (n - 1) \in Int
      BY <1>1, ProductNat
    <3> QED BY <1>1, <1>4, <2>2, <3>1, <3>2
  <2>4. AllInStep'
    BY <1>1, <1>3, <1>6, <2>1, <2>2 DEF AllInStep, InStep, Active
  <2>5. k.todo = rest
    BY <1>3, <1>8
  <2> QED BY <1>1, <1>2, <2>3, <2>4, <2>5 DEF Tallied, n, amount, before
<1> QED BY <1>7, <1>8

\* A transaction of such a job leaves the job sound.
LEMMA SoundSends ==
  ASSUME Inv, NEW j, j.todo \in Seq(Steps), j.todo # <<>>, j.kind \in YieldKinds,
         j.served \in SUBSET Strategies, Sound(j),
         NEW op, NEW of, Head(j.todo) = <<op, of>>, Accepted(op, of, j.amount),
         op \notin {"look", "tip", "drop", "verify"},
         op \in OnStrategy => of \in Strategies, op \in OnAmount => of \in Nat,
         NEW k, k.kind = j.kind, k.todo = Tail(j.todo), k.served = j.served,
         k.amount = j.amount, k.before = j.before
  PROVE  Sound(k)'
<1>1. /\ j.amount \in Nat /\ j.amount \in Int /\ Gentle(<<op, of>>)
  BY AcceptedIsGentle DEF Sound
<1>2. /\ \A i \in 1..Len(j.todo) : j.todo[i][1] \in OpsOf(j.kind) /\ Ready(j.todo, i)
      /\ ~paused' /\ (j.kind # "agent_setup" => faucet' = "payer")
  BY <1>1 DEF Sound, Gentle
<1>3. /\ op \in OpsOf(j.kind) /\ Head(j.todo) = j.todo[1]
      /\ \A i \in 1..Len(k.todo) : i + 1 \in 1..Len(j.todo) /\ k.todo[i] = j.todo[i + 1]
  BY <1>2, AfterFirst
<1>4. \A i \in 1..Len(k.todo) : k.todo[i][1] \in OpsOf(k.kind) /\ Ready(k.todo, i)'
  BY <1>1, <1>2, <1>3, ReadyTail
<1>5. ASSUME k.kind \in Setups PROVE Planned(k.todo)'
  <2>1. op \in {"deposit", "create", "weigh", "allocate", "mint", "report"}
    BY <1>3, <1>5 DEF Setups, OpsOf
  <2>2. Planned(j.todo)
    BY <1>5 DEF Sound
  <2> QED BY <1>1, <2>1, <2>2, PlanGoesOn
<1>6. ASSUME k.kind = "handout"
      PROVE  \A s \in Strategies : Active(s)' => Funded(s)'
  <2>1. op \in {"mint", "report"}
    BY <1>3, <1>6 DEF OpsOf
  <2>2. UNCHANGED status
    BY <2>1 DEF Accepted, TransferIn, ReportYield, Settle, vars, strategyVars
  <2> QED BY <1>1, <1>6, <2>2 DEF Sound, Gentle, Active
<1>7. ASSUME <<"verify", 0>> \in ToSet(k.todo) PROVE Tallied(k)'
  <2>1. k.todo \in Seq(Steps)
    BY AfterFirst
  <2>2. PICK i \in 1..Len(k.todo) : k.todo[i] = <<"verify", 0>>
    BY <1>7, <2>1, AtPlace
  <2>3. "verify" \in OpsOf(j.kind) /\ <<"verify", 0>> \in ToSet(j.todo)
    BY <1>2, <1>3, <2>2, AtPlace
  <2>4. j.kind = "handout"
    BY <2>3 DEF OpsOf, YieldKinds
  <2>5. op \in {"mint", "report"} /\ of \in Strategies
    BY <1>3, <2>4 DEF OpsOf, OnStrategy
  <2>6. Tallied(j)
    BY <2>3 DEF Sound
  <2> QED BY <1>1, <2>5, <2>6, TallySends
<1> QED BY <1>1, <1>2, <1>4, <1>5, <1>6, <1>7 DEF Sound

\* What is known of the rounds makes them sound.
LEMMA RoundIsSound ==
  ASSUME NEW j, j.kind \in Rounds, ~paused, faucet = "payer", j.amount \in Nat,
         AllFit(j.todo, j.kind),
         j.kind = "handout" => \A s \in Strategies : Active(s) => Funded(s),
         <<"verify", 0>> \in ToSet(j.todo) => Tallied(j)
  PROVE  Sound(j)
<1>1. \A i \in 1..Len(j.todo) : j.todo[i][1] \in OpsOf(j.kind) /\ Ready(j.todo, i)
  BY RoundsMakeNothing
<1>2. j.kind \notin Setups
  BY DEF Rounds, Setups
<1> QED BY <1>1, <1>2 DEF Sound

\* Two lists that fit, one after the other.
LEMMA FitConcat ==
  ASSUME NEW f \in Seq(Steps), NEW g \in Seq(Steps), NEW kind,
         AllFit(f, kind), AllFit(g, kind)
  PROVE  AllFit(f \o g, kind)
<1> SUFFICES ASSUME NEW i \in 1..Len(f \o g)
             PROVE  (f \o g)[i][1] \in OpsOf(kind) /\ Fit((f \o g)[i])
  BY DEF AllFit
<1>1. /\ Len(f) \in Nat /\ Len(g) \in Nat /\ Len(f \o g) = Len(f) + Len(g)
      /\ (f \o g)[i] = IF i <= Len(f) THEN f[i] ELSE g[i - Len(f)]
  BY ConcatProperties, LenProperties
<1>2. CASE i <= Len(f)
  <2>1. i \in 1..Len(f) /\ (f \o g)[i] = f[i]
    BY <1>1, <1>2
  <2> QED BY <2>1 DEF AllFit
<1>3. CASE i > Len(f)
  <2>1. i - Len(f) \in 1..Len(g) /\ (f \o g)[i] = g[i - Len(f)]
    BY <1>1, <1>3
  <2> QED BY <2>1 DEF AllFit
<1> QED BY <1>1, <1>2, <1>3

\* What is in two lists is in one of them.
LEMMA InEither ==
  ASSUME NEW f \in Seq(Steps), NEW g \in Seq(Steps), NEW x,
         \A i \in 1..Len(f) : f[i] # x, x \in ToSet(f \o g)
  PROVE  x \in ToSet(g)
<1>1. f \o g \in Seq(Steps)
  BY ConcatProperties
<1>2. PICK i \in 1..Len(f \o g) : (f \o g)[i] = x
  BY <1>1, AtPlace
<1>3. /\ Len(f) \in Nat /\ Len(g) \in Nat /\ Len(f \o g) = Len(f) + Len(g)
      /\ (f \o g)[i] = IF i <= Len(f) THEN f[i] ELSE g[i - Len(f)]
  BY ConcatProperties, LenProperties
<1>4. i - Len(f) \in 1..Len(g) /\ g[i - Len(f)] = x
  BY <1>2, <1>3
<1> QED BY <1>4, AtPlace

\* What a job that goes on keeps.
LEMMA GoingOn ==
  ASSUME JobsOK, NEW c \in Clients, Running(c), job[c].kind \in YieldKinds,
         NEW steps \in Seq(Steps)
  PROVE  LET j == Continue(c, steps)
             rest == steps \o Tail(job[c].todo)
         IN  /\ DOMAIN j = JobFields /\ j.kind = job[c].kind /\ j.todo = rest
             /\ j.before = job[c].before /\ j.amount = job[c].amount
             /\ j.served = job[c].served
             /\ j.state = IF rest = <<>> THEN "done" ELSE "running"
<1> DEFINE rest == steps \o Tail(job[c].todo)
           state == IF rest = <<>> THEN "done" ELSE "running"
           j == Continue(c, steps)
<1>1. DOMAIN job[c] = JobFields /\ j = [job[c] EXCEPT !.todo = rest, !.state = state]
  BY DEF JobsOK, JobFor, JobOK, Continue
<1> HIDE DEF rest, state, j
<1>2. /\ DOMAIN j = JobFields /\ j.kind = job[c].kind /\ j.todo = rest /\ j.state = state
      /\ j.before = job[c].before /\ j.amount = job[c].amount /\ j.served = job[c].served
  BY <1>1 DEF JobFields
<1> QED BY <1>2 DEF j, rest, state

\* ... and with another strategy to serve.
Also(S, s) == S \cup {s}
Serving(c, steps, s) == [Continue(c, steps) EXCEPT !.served = @ \cup {s}]
ServingWith(c, steps, s, amount) ==
  [Continue(c, steps) EXCEPT !.amount = amount, !.served = @ \cup {s}]

\* Such a job serves one more.
LEMMA GoingServing ==
  ASSUME JobsOK, NEW c \in Clients, Running(c), job[c].kind \in YieldKinds,
         NEW steps \in Seq(Steps), NEW s
  PROVE  LET k == Serving(c, steps, s)
             rest == steps \o Tail(job[c].todo)
         IN  /\ k.kind = job[c].kind /\ k.todo = rest /\ k.before = job[c].before
             /\ k.state = IF rest = <<>> THEN "done" ELSE "running"
             /\ k.amount = job[c].amount /\ k.served = Also(job[c].served, s)
<1> DEFINE rest == steps \o Tail(job[c].todo)
           state == IF rest = <<>> THEN "done" ELSE "running"
           j == Continue(c, steps)
           k == Serving(c, steps, s)
<1>1. /\ DOMAIN j = JobFields /\ j.kind = job[c].kind /\ j.todo = rest /\ j.state = state
      /\ j.before = job[c].before /\ j.amount = job[c].amount /\ j.served = job[c].served
  BY GoingOn
<1>2. k = [j EXCEPT !.served = @ \cup {s}]
  BY DEF Serving
<1> HIDE DEF rest, state, j, k
<1>3. /\ k.kind = j.kind /\ k.todo = j.todo /\ k.state = j.state /\ k.before = j.before
      /\ k.amount = j.amount /\ k.served = Also(j.served, s)
  BY <1>1, <1>2 DEF JobFields, Also
<1>4. /\ k.kind = job[c].kind /\ k.todo = rest /\ k.before = job[c].before
      /\ k.state = state
      /\ k.amount = job[c].amount /\ k.served = Also(job[c].served, s)
  BY <1>1, <1>3
<1> QED BY <1>4 DEF k, rest, state

\* And so does a crank, with the amount it has found.
LEMMA GoingServingWith ==
  ASSUME JobsOK, NEW c \in Clients, Running(c), job[c].kind \in YieldKinds,
         NEW steps \in Seq(Steps), NEW s, NEW amount
  PROVE  LET k == ServingWith(c, steps, s, amount)
             rest == steps \o Tail(job[c].todo)
         IN  /\ k.kind = job[c].kind /\ k.todo = rest /\ k.before = job[c].before
             /\ k.state = IF rest = <<>> THEN "done" ELSE "running"
             /\ k.amount = amount
<1> DEFINE rest == steps \o Tail(job[c].todo)
           state == IF rest = <<>> THEN "done" ELSE "running"
           j == Continue(c, steps)
           k == ServingWith(c, steps, s, amount)
<1>1. /\ DOMAIN j = JobFields /\ j.kind = job[c].kind /\ j.todo = rest /\ j.state = state
      /\ j.before = job[c].before /\ j.amount = job[c].amount /\ j.served = job[c].served
  BY GoingOn
<1>2. k = [j EXCEPT !.amount = amount, !.served = @ \cup {s}]
  BY DEF ServingWith
<1> HIDE DEF rest, state, j, k
<1>3. /\ k.kind = j.kind /\ k.todo = j.todo /\ k.state = j.state /\ k.before = j.before
      /\ k.amount = amount
  BY <1>1, <1>2 DEF JobFields
<1>4. /\ k.kind = job[c].kind /\ k.todo = rest /\ k.before = job[c].before
      /\ k.state = state
      /\ k.amount = amount
  BY <1>1, <1>3
<1> QED BY <1>4 DEF k, rest, state

\* A read leaves such a job sound, or done: it is refused nothing.
LEMMA SoundReads ==
  ASSUME DeskInv, NEW c \in Clients, Running(c), job[c].kind \in YieldKinds, Shape(c, job[c]),
         Sound(job[c]),
         LET op == Head(job[c].todo)[1]
             of == Head(job[c].todo)[2]
         IN  \/ op = "look" /\ LookAt(c, of)
             \/ op = "tip" /\ Tip(c, of, TRUE)
             \/ op = "drop" /\ Tip(c, of, FALSE)
             \/ op = "verify" /\ Verify(c)
  PROVE  /\ \E j : /\ job' = [job EXCEPT ![c] = j]
                   /\ j.state \in {"done", "running"}
                   /\ j.state = "running" => Sound(j)
         /\ UNCHANGED <<vars, besideVars, screen>>
<1> DEFINE op == Head(job[c].todo)[1]
           s == Head(job[c].todo)[2]
           old == job[c]
           rest == Tail(job[c].todo)
<1>1. /\ JobsOK /\ TypeOK /\ old.todo \in Seq(Steps) /\ old.todo # <<>>
      /\ old.served \in SUBSET Strategies
  BY DEF DeskInv, Inv, JobsOK, JobFor, JobOK, Running, YieldKinds, StepsOf, Shape
<1>2. /\ op \in {"look", "tip", "drop", "verify"} /\ (op \in OnStrategy => s \in Strategies)
      /\ Head(old.todo) = <<op, s>> /\ (op = "verify" => s = 0)
      /\ Head(old.todo) = old.todo[1] /\ 1 \in 1..Len(old.todo) /\ rest \in Seq(Steps)
      /\ \A i \in 1..Len(rest) : i + 1 \in 1..Len(old.todo) /\ rest[i] = old.todo[i + 1]
  <2>1. old.todo[1] \in Steps /\ old.todo[1] = Head(old.todo)
    BY <1>1, AfterFirst
  <2>2. \A e \in Steps : e = <<e[1], e[2]>> /\ (e[1] = "verify" => e[2] = 0)
    BY DEF Steps, OnNothing, OnStrategy, OnAmount
  <2>3. /\ 1 \in 1..Len(old.todo) /\ rest \in Seq(Steps)
        /\ \A i \in 1..Len(rest) : i + 1 \in 1..Len(old.todo) /\ rest[i] = old.todo[i + 1]
    BY <1>1, AfterFirst
  <2>4. op \in {"look", "tip", "drop", "verify"} /\ (op \in OnStrategy => s \in Strategies)
    BY <2>1, StepFacts
  <2>5. Head(old.todo) = <<op, s>> /\ (op = "verify" => s = 0)
    BY <2>1, <2>2
  <2> QED BY <2>1, <2>3, <2>4, <2>5
<1>3. /\ op \in OpsOf(old.kind) /\ old.kind \in Rounds
      /\ op = "look" => old.kind = "crank"
      /\ op \in {"tip", "drop", "verify"} => old.kind = "handout"
  <2>1. op \in OpsOf(old.kind)
    BY <1>2 DEF Sound
  <2> QED BY <1>2, <2>1 DEF OpsOf, YieldKinds, Rounds
<1>4. /\ AllFit(old.todo, old.kind) /\ ~paused /\ faucet = "payer" /\ old.amount \in Nat
      /\ old.kind = "handout" => \A r \in Strategies : Active(r) => Funded(r)
      /\ <<"verify", 0>> \in ToSet(old.todo) => Tallied(old)
  <2>1. AllFit(old.todo, old.kind)
    BY <1>3, RoundsMakeNothing DEF Sound
  <2> QED BY <1>3, <2>1 DEF Sound, Rounds
<1>5. /\ AllFit(rest, old.kind) /\ Fit(<<op, s>>)
      /\ \A x : x \in ToSet(rest) => x \in ToSet(old.todo)
  <2>1. AllFit(rest, old.kind) /\ Fit(<<op, s>>)
    BY <1>2, <1>4 DEF AllFit
  <2>2. ASSUME NEW x \in ToSet(rest) PROVE x \in ToSet(old.todo)
    <3>1. PICK i \in 1..Len(rest) : rest[i] = x
      BY <1>2, <2>2, AtPlace
    <3> QED BY <1>1, <1>2, <3>1, AtPlace
  <2> QED BY <2>1, <2>2
<1>6. <<>> \o rest = rest /\ <<>> \in Seq(Steps)
  BY <1>2, ConcatEmptySeq
<1> HIDE DEF op, s, rest
<1> DEFINE Goal == /\ \E j : /\ job' = [job EXCEPT ![c] = j]
                             /\ j.state \in {"done", "running"}
                             /\ j.state = "running" => Sound(j)
                   /\ UNCHANGED <<vars, besideVars, screen>>
<1> SUFFICES Goal
  OBVIOUS
<1>7. ASSUME NEW j, Read(c, j), j.state \in {"done", "running"}, j.state = "running" => Sound(j)
      PROVE  Goal
  BY <1>7 DEF Read
<1> HIDE DEF Goal
\* The job goes on with the rest.
<1>8. ASSUME Read(c, Continue(c, <<>>)),
             (rest # <<>> /\ <<"verify", 0>> \in ToSet(rest)) =>
               (/\ Closing(rest, old.served) /\ Tallied(old) /\ AllInStep
                /\ totalDeposited = old.before + old.amount * Cardinality(old.served))
      PROVE  Goal
  <2> DEFINE j == Continue(c, <<>>)
  <2>1. /\ j.kind = old.kind /\ j.todo = rest /\ j.before = old.before
        /\ j.state = IF rest = <<>> THEN "done" ELSE "running"
        /\ j.amount = old.amount /\ j.served = old.served
    BY <1>1, <1>6, GoingOn DEF rest
  <2> HIDE DEF j
  <2>2. ASSUME rest # <<>> PROVE Sound(j)
    <3>1. <<"verify", 0>> \in ToSet(j.todo) => Tallied(j)
      BY <1>8, <2>1, <2>2 DEF Tallied
    <3> QED BY <1>3, <1>4, <1>5, <2>1, <3>1, RoundIsSound
  <2>3. Read(c, j)
    BY <1>8 DEF j
  <2> QED BY <1>7, <2>1, <2>2, <2>3
<1>9. CASE op = "look" /\ LookAt(c, s)
  <2>0. s \in Strategies /\ old.kind = "crank"
    BY <1>2, <1>3, <1>9 DEF OnStrategy
  <2>1. \A todo : AllFit(todo, "crank") => \A i \in 1..Len(todo) : todo[i] # <<"verify", 0>>
    BY DEF AllFit, OpsOf
  <2>2. <<"verify", 0>> \notin ToSet(rest)
    BY <1>2, <1>5, <2>0, <2>1, AtPlace
  <2> DEFINE amount == Portion(allocated[s], YieldBps)
             steps == <<<<"mint", s>>, <<"report", s>>>>
             k == ServingWith(c, steps, s, amount)
  <2>3. amount \in Nat
    <3>1. allocated[s] \in Nat /\ YieldBps \in Nat
      BY <1>1, <2>0, DeskConstants, Constants DEF TypeOK
    <3> QED BY <3>1, AmountTypes
  <2>4. /\ <<"mint", s>> \in Steps /\ <<"report", s>> \in Steps /\ steps \in Seq(Steps)
        /\ <<<<"mint", s>>>> \o <<<<"report", s>>>> = steps
    <3>1. <<"mint", s>> \in Steps /\ <<"report", s>> \in Steps
      BY <2>0 DEF Steps, OnStrategy
    <3> QED BY <3>1, TwoInRow
  <2>5. Read(c, IF Crankable(s) THEN k ELSE Continue(c, <<>>))
    BY <1>4, <1>9, <2>4 DEF LookAt, ServingWith
  <2>6. CASE ~Crankable(s)
    BY <1>8, <2>2, <2>5, <2>6
  <2>7. CASE Crankable(s)
    <3>1. AllFit(steps, "crank")
      <4>1. Created(s) /\ Active(s) /\ Funded(s)
        BY <2>7 DEF Crankable, Created, Active, Funded
      <4> QED BY <4>1 DEF AllFit, Fit, OpsOf
    <3> DEFINE todo == steps \o rest
    <3>2. k.kind = old.kind /\ k.todo = todo /\ k.amount = amount
          /\ k.state = IF todo = <<>> THEN "done" ELSE "running"
      <4> HIDE DEF steps, amount
      <4>1. JobsOK /\ steps \in Seq(Steps)
        BY <1>1, <2>4
      <4>2. k.kind = old.kind /\ k.todo = todo /\ k.amount = amount
        BY <4>1, GoingServingWith DEF rest
      <4>3. k.state = IF steps \o Tail(old.todo) = <<>> THEN "done" ELSE "running"
        BY <4>1, GoingServingWith
      <4> QED BY <4>2, <4>3 DEF rest
    <3>3. AllFit(todo, "crank") /\ todo \in Seq(Steps)
      <4> HIDE DEF steps
      <4> QED BY <1>2, <1>5, <2>0, <2>4, <3>1, FitConcat, ConcatProperties
    <3> HIDE DEF todo, k, amount, steps
    <3>4. <<"verify", 0>> \notin ToSet(todo)
      BY <2>1, <3>3, AtPlace
    <3>5. Sound(k)
      BY <1>3, <1>4, <2>0, <2>3, <3>2, <3>3, <3>4, RoundIsSound
    <3> QED BY <1>7, <2>5, <2>7, <3>2, <3>5
  <2> QED BY <2>6, <2>7
\* What a hand-out that will be verified has found so far.
<1>10. ASSUME op \in {"tip", "drop"}, <<"verify", 0>> \in ToSet(rest)
       PROVE  /\ op = "tip" /\ s \notin old.served
              /\ Closing(rest, old.served) /\ Closing(rest, old.served \cup {s})
              /\ Tallied(old) /\ AllInStep /\ old.before \in Nat
              /\ totalDeposited = old.before + old.amount * Cardinality(old.served)
  <2>1. Tallied(old)
    BY <1>4, <1>5, <1>10
  <2>2. ASSUME NEW r \in old.served, NEW list \in Seq(Steps), InHand(old, r, list) PROVE FALSE
    <3>1. r \in Strategies
      BY <1>1, <2>2
    <3>2. Head(old.todo) = <<"mint", r>> \/ Head(old.todo) = <<"report", r>>
      BY <2>2, <3>1, InHandFirst
    <3> QED BY <1>2, <1>10, <3>2
  <2>3. /\ Closing(old.todo, old.served) /\ AllInStep /\ old.before \in Nat
        /\ totalDeposited = old.before + old.amount * Cardinality(old.served)
    BY <2>1, <2>2 DEF Tallied
  <2>4. \/ Head(old.todo) = <<"verify", 0>>
        \/ \E r \in Strategies :
             /\ Head(old.todo) = <<"tip", r>> /\ r \notin old.served
             /\ Closing(rest, old.served) /\ Closing(rest, old.served \cup {r})
    BY <1>1, <2>3, ClosingFacts DEF rest
  <2>5. PICK r \in Strategies :
          /\ Head(old.todo) = <<"tip", r>> /\ r \notin old.served
          /\ Closing(rest, old.served) /\ Closing(rest, old.served \cup {r})
    <3>1. Head(old.todo) # <<"verify", 0>>
      <4>1. \A e : e = <<"verify", 0>> => e[1] = "verify"
        OBVIOUS
      <4>2. Head(old.todo)[1] # "verify"
        BY <1>10 DEF op
      <4> QED BY <4>1, <4>2
    <3> QED BY <2>4, <3>1
  <2>6. op = "tip" /\ r = s
    BY <1>2, <2>5
  <2> QED BY <2>1, <2>3, <2>5, <2>6
<1>11. CASE op = "tip" /\ Tip(c, s, TRUE)
  <2> DEFINE steps == <<<<"mint", s>>, <<"report", s>>>>
             l == Serving(c, steps, s)
             todo == steps \o rest
  <2>0. s \in Strategies /\ old.kind = "handout" /\ Created(s)
    BY <1>2, <1>3, <1>5, <1>11 DEF OnStrategy, Fit
  <2>1. /\ <<"mint", s>> \in Steps /\ <<"report", s>> \in Steps /\ steps \in Seq(Steps)
    <3>1. <<"mint", s>> \in Steps /\ <<"report", s>> \in Steps
      BY <2>0 DEF Steps, OnStrategy
    <3> QED BY <3>1
  <2>2. Read(c, IF ~Active(s) THEN Continue(c, <<>>) ELSE l)
    BY <1>11, <2>0 DEF Tip, Serving
  <2>3. CASE ~Active(s)
    BY <1>8, <1>10, <1>11, <2>2, <2>3
  <2>4. CASE Active(s)
    <3>1. AllFit(steps, "handout")
      <4>1. Funded(s)
        BY <1>4, <2>0, <2>4
      <4> QED BY <2>0, <2>4, <4>1 DEF AllFit, Fit, OpsOf
    <3>2. /\ l.kind = old.kind /\ l.todo = todo /\ l.amount = old.amount
          /\ l.before = old.before /\ l.served = old.served \cup {s}
          /\ l.state = IF todo = <<>> THEN "done" ELSE "running"
      <4> HIDE DEF steps
      <4>1. JobsOK /\ steps \in Seq(Steps)
        BY <1>1, <2>1
      <4>2. l.served = Also(old.served, s)
        BY <4>1, GoingServing
      <4>3. old.served \cup {s} = Also(old.served, s)
        BY DEF Also
      <4>4. l.kind = old.kind /\ l.todo = todo /\ l.amount = old.amount /\ l.before = old.before
        BY <4>1, GoingServing DEF rest
      <4>5. l.state = IF steps \o Tail(old.todo) = <<>> THEN "done" ELSE "running"
        BY <4>1, GoingServing
      <4> QED BY <4>2, <4>3, <4>4, <4>5 DEF rest
    <3>3. /\ AllFit(todo, "handout") /\ todo \in Seq(Steps)
          /\ <<"verify", 0>> \in ToSet(todo) => <<"verify", 0>> \in ToSet(rest)
      <4>1. \A i \in 1..Len(steps) : steps[i] # <<"verify", 0>>
        OBVIOUS
      <4> HIDE DEF steps
      <4> QED BY <1>2, <1>5, <2>0, <2>1, <3>1, <4>1, FitConcat, InEither, ConcatProperties
    <3> HIDE DEF l
    <3>4. ASSUME <<"verify", 0>> \in ToSet(todo) PROVE Tallied(l)
      <4>1. /\ s \notin old.served
            /\ Closing(rest, old.served \cup {s}) /\ AllInStep /\ old.before \in Nat
            /\ totalDeposited = old.before + old.amount * Cardinality(old.served)
        BY <1>10, <1>11, <3>3, <3>4
      <4>2. Cardinality(l.served) - 1 = Cardinality(old.served)
        <5>1. IsFiniteSet(old.served)
          BY <1>1, Constants, FS_Subset
        <5>2. Cardinality(old.served) \in Nat
              /\ Cardinality(old.served \cup {s}) = Cardinality(old.served) + 1
          BY <4>1, <5>1, FS_CardinalityType, FS_AddElement
        <5> QED BY <3>2, <5>2
      <4>3. InHand(l, s, rest)
        BY <2>4, <3>2, <4>1, <4>2 DEF InHand
      <4>4. s \in l.served /\ Closing(rest, l.served) /\ l.before \in Nat
        BY <3>2, <4>1
      <4> QED BY <1>2, <4>3, <4>4 DEF Tallied
    <3> HIDE DEF todo, steps
    <3>5. Sound(l)
      BY <1>3, <1>4, <2>0, <3>2, <3>3, <3>4, RoundIsSound
    <3> QED BY <1>7, <2>2, <2>4, <3>2, <3>5
  <2> QED BY <2>3, <2>4
<1>12. CASE op = "drop" /\ Tip(c, s, FALSE)
  <2> DEFINE steps == <<<<"mint", s>>>>
             j == Continue(c, steps)
             todo == steps \o rest
  <2>0. s \in Strategies /\ old.kind = "handout" /\ Created(s)
    BY <1>2, <1>3, <1>5, <1>12 DEF OnStrategy, Fit
  <2>1. <<"mint", s>> \in Steps /\ steps \in Seq(Steps)
    <3>1. <<"mint", s>> \in Steps
      BY <2>0 DEF Steps, OnStrategy
    <3> QED BY <3>1
  <2>2. Read(c, IF ~Active(s) THEN Continue(c, <<>>) ELSE j)
    BY <1>12, <2>0 DEF Tip
  <2>3. CASE ~Active(s)
    BY <1>8, <1>10, <1>12, <2>2, <2>3
  <2>4. CASE Active(s)
    <3>1. AllFit(steps, "handout")
      BY <2>0 DEF AllFit, Fit, OpsOf
    <3>2. /\ j.kind = old.kind /\ j.todo = todo /\ j.amount = old.amount
          /\ j.state = IF todo = <<>> THEN "done" ELSE "running"
      <4> HIDE DEF steps
      <4> QED BY <1>1, <2>1, GoingOn DEF rest
    <3>3. /\ AllFit(todo, "handout") /\ todo \in Seq(Steps)
          /\ <<"verify", 0>> \in ToSet(todo) => <<"verify", 0>> \in ToSet(rest)
      <4>1. \A i \in 1..Len(steps) : steps[i] # <<"verify", 0>>
        OBVIOUS
      <4> HIDE DEF steps
      <4> QED BY <1>2, <1>5, <2>0, <2>1, <3>1, <4>1, FitConcat, InEither, ConcatProperties
    <3>4. <<"verify", 0>> \notin ToSet(todo)
      BY <1>10, <1>12, <3>3
    <3> HIDE DEF j, todo, steps
    <3>5. Sound(j)
      BY <1>3, <1>4, <2>0, <3>2, <3>3, <3>4, RoundIsSound
    <3> QED BY <1>7, <2>2, <2>4, <3>2, <3>5
  <2> QED BY <2>3, <2>4
<1>13. CASE op = "verify" /\ Verify(c)
  <2>1. Head(old.todo) = <<"verify", 0>> /\ <<"verify", 0>> \in ToSet(old.todo)
    BY <1>1, <1>2, <1>13, AtPlace
  <2>2. Tallied(old)
    BY <1>4, <2>1
  <2>3. ASSUME NEW r \in old.served, NEW list \in Seq(Steps), InHand(old, r, list) PROVE FALSE
    <3>1. r \in Strategies
      BY <1>1, <2>3
    <3>2. Head(old.todo) = <<"mint", r>> \/ Head(old.todo) = <<"report", r>>
      BY <2>3, <3>1, InHandFirst
    <3> QED BY <2>1, <3>2
  <2>4. /\ Closing(old.todo, old.served)
        /\ totalDeposited = old.before + old.amount * Cardinality(old.served)
    BY <2>2, <2>3 DEF Tallied
  <2>5. rest = <<>>
    <3>1. \/ Tail(old.todo) = <<>>
          \/ \E r \in Strategies : Head(old.todo) = <<"tip", r>>
      BY <1>1, <2>4, ClosingFacts
    <3> QED BY <2>1, <3>1 DEF rest
  <2>6. Read(c, Continue(c, <<>>))
    BY <1>13, <2>4 DEF Verify
  <2> QED BY <1>8, <2>5, <2>6
<1> QED BY <1>9, <1>11, <1>12, <1>13 DEF op, s

\* A list holds at least one of the steps that are in it.
LEMMA PendingCount ==
  ASSUME NEW todo, NEW op, NEW s \in Pending(todo, op)
  PROVE  Cardinality(Pending(todo, op)) \in Nat /\ Cardinality(Pending(todo, op)) >= 1
<1>1. IsFiniteSet(Pending(todo, op))
  BY Constants, FS_Subset DEF Pending
<1>2. /\ Cardinality(Pending(todo, op)) \in Nat
      /\ Cardinality(Pending(todo, op)) = 0 <=> Pending(todo, op) = {}
  BY <1>1, FS_CardinalityType, FS_EmptySet
<1>3. Pending(todo, op) # {}
  OBVIOUS
<1> QED BY <1>2, <1>3

\* A product of a number other than zero.
LEMMA TimesAtLeast ==
  ASSUME NEW x \in Nat, NEW n \in Nat, n >= 1
  PROVE  x <= x * n
<1>1. PICK m \in Nat : n = m + 1
  <2>1. n - 1 \in Nat /\ n = (n - 1) + 1
    OBVIOUS
  <2> QED BY <2>1
<1> QED BY <1>1, ProductNat

\* The tokens of the vault's two kinds of accounts are a u64 together.
LEMMA TokensAreU64 ==
  ASSUME Inv, NEW s \in Strategies
  PROVE  ata[s] + reserve <= MaxU64
<1>1. /\ TypeOK /\ TokensConserved /\ reserve \in Nat /\ ata \in [Strategies -> Nat]
      /\ IsFiniteSet(Strategies) /\ MaxU64 \in Nat
      /\ SumFunctionOnSet(Endowments, Wallets) <= MaxU64
  BY Constants DEF Inv, TypeOK
<1>2. ata[s] <= Total(ata)
  BY <1>1, SumMember DEF Total
<1>3. Total(ata) \in Nat /\ SumFunctionOnSet(wallet, Wallets) \in Nat
  BY <1>1, SumFacts
<1>4. reserve + Total(ata) + SumFunctionOnSet(wallet, Wallets) <= MaxU64
  BY <1>1 DEF TokensConserved
<1> QED BY <1>1, <1>2, <1>3, <1>4

\* A transaction of such a job is refused only if something is exhausted.
LEMMA RefusedIsExhausted ==
  ASSUME DeskInv, NEW c \in Clients, Running(c), job[c].kind \in YieldKinds, Shape(c, job[c]),
         Sound(job[c]),
         NEW op \in {"topup", "fund", "mint", "report", "accrue", "deposit", "create",
                     "weigh", "allocate"},
         NEW of, Head(job[c].todo) = <<op, of>>,
         op \in OnStrategy => of \in Strategies, op \in OnAmount => of \in Nat,
         Rejected(op, of, job[c].amount)
  PROVE  Exhausted(c)
<1> DEFINE old == job[c]
           todo == old.todo
           amount == old.amount
<1>1. /\ todo \in Seq(Steps) /\ todo # <<>>
      /\ Inv /\ TypeOK /\ BesideOK
  BY DEF DeskInv, Inv, JobsOK, JobFor, JobOK, Running, YieldKinds, StepsOf
<1>2. /\ Len(todo) \in Nat /\ Len(todo) >= 1 /\ todo[1] = <<op, of>>
      /\ todo[1][1] = op /\ todo[1][2] = of
  BY <1>1, AfterFirst
<1>3. /\ ~paused /\ amount \in Nat /\ op \in OpsOf(old.kind)
      /\ old.kind # "agent_setup" => faucet = "payer"
      /\ Ready(todo, 1)
      /\ old.kind \in Setups => Planned(todo)
  BY <1>2 DEF Sound
<1>4. /\ op = "mint" => Created(of)
      /\ op \in {"weigh", "allocate", "report"} => Active(of)
      /\ op \in {"allocate", "report"} => Funded(of)
  <2>1. ~Before(todo, 1, <<"create", of>>)
    BY <1>2 DEF Before
  <2> QED BY <1>2, <1>3, <2>1 DEF Ready
<1>5. /\ reserve \in Nat /\ ata \in [Strategies -> Nat] /\ wallet \in [Wallets -> Nat]
      /\ supply \in Nat /\ totalDeposited \in Nat /\ MaxU64 \in Nat
      /\ allocated \in [Strategies -> 0..MaxU64] /\ weight \in [Strategies -> Nat]
      /\ totalWeight \in Nat /\ purse \in Nat /\ wallet[Outside] \in Nat
      /\ wallet[Holder] \in Nat /\ BPS \in Nat /\ PlannedWeight \in Nat
      /\ Allocation \in Nat /\ Allocation > 0 /\ FirstDeposit \in Nat /\ FirstDeposit > 0
  <2>1. /\ reserve \in Nat /\ ata \in [Strategies -> Nat] /\ wallet \in [Wallets -> Nat]
        /\ supply \in Nat /\ totalDeposited \in Nat
        /\ allocated \in [Strategies -> 0..MaxU64] /\ weight \in [Strategies -> Nat]
        /\ totalWeight \in Nat
    BY <1>1 DEF TypeOK
  <2>2. Outside \in Wallets /\ Holder \in Wallets /\ MaxU64 \in Nat /\ BPS \in Nat
    BY Constants, DeskConstants
  <2>3. purse \in Nat
    BY <1>1, <2>1, <2>2 DEF BesideOK
  <2>4. PlannedWeight \in Nat /\ Allocation \in Nat /\ FirstDeposit \in Nat /\ FirstDeposit > 0
    BY DeskConstants, AmountTypes
  <2>5. Allocation > 0
    BY PlansAssumption
  <2> QED BY <2>1, <2>2, <2>3, <2>4, <2>5
<1> HIDE DEF todo, amount
<1>6. /\ op \notin {"topup", "fund"}
      /\ op = "mint" => faucet = "payer"
      /\ op \in {"deposit", "create", "weigh", "allocate"} =>
           old.kind \in Setups /\ Planned(todo)
  BY <1>3 DEF OpsOf, Setups, YieldKinds
<1>7. CASE op = "mint"
  <2>1. amount # 0 /\ ~MayMint(of, amount) /\ Created(of)
    BY <1>4, <1>7 DEF Rejected, amount
  <2>2. amount > 0
    BY <1>3, <2>1
  <2>3. ~(amount <= wallet[Outside] /\ purse <= wallet[Outside] - amount)
    BY <1>6, <1>7, <2>1, <2>2 DEF MayMint, MayReceive, MayTransferIn
  <2>4. amount + purse > wallet[Outside]
    BY <1>3, <1>5, <2>3
  <2> QED BY <2>4 DEF Exhausted, amount
<1>8. CASE op = "report"
  <2>1. ~MayReportYield(of) /\ ~InStep(of) /\ Active(of) /\ Funded(of) /\ of \in Strategies
    BY <1>3, <1>4, <1>8 DEF Rejected, OnStrategy
  <2>2. ata[of] > allocated[of] /\ ata[of] \in Nat /\ allocated[of] \in Nat
    BY <1>5, <2>1 DEF InStep, Funded
  <2>3. totalDeposited + ata[of] - allocated[of] \notin 0..MaxU64
    BY <1>3, <2>1, <2>2 DEF MayReportYield, TotalFits
  <2>4. totalDeposited + ata[of] - allocated[of] > MaxU64
    BY <1>5, <2>2, <2>3
  <2> QED BY <2>1, <2>4 DEF Exhausted
<1>9. CASE op = "deposit"
  <2> DEFINE minted == SharesFor(of, supply, totalDeposited)
             push == FanOut(of, Nothing)
  <2>1. of = FirstDeposit /\ FirstDeposit <= wallet[Holder] /\ ~MayDeposit(Holder, of, Nothing)
    <3>1. Affordable(todo) /\ 1 \in 1..Len(todo) /\ todo[1][1] = "deposit" /\ todo[1][2] = of
      BY <1>2, <1>6, <1>9 DEF Planned, todo
    <3>2. of = FirstDeposit /\ FirstDeposit <= wallet[Holder]
      BY <3>1 DEF Affordable
    <3> QED BY <1>9, <3>2 DEF Rejected
  <2>2. minted \in Nat
    BY <1>5, <2>1, MintKeepsPrice
  <2>3. push \in [Strategies -> Nat] /\ \A s \in Strategies : push[s] = 0
    <3>1. \A s \in Strategies : Nothing[s] * Portion(of, weight[s]) = 0
      <4> SUFFICES ASSUME NEW s \in Strategies PROVE Nothing[s] * Portion(of, weight[s]) = 0
        OBVIOUS
      <4>1. Portion(of, weight[s]) \in Nat
        BY <1>5, <2>1, AmountTypes
      <4> QED BY <4>1 DEF Nothing
    <3> QED BY <3>1 DEF FanOut
  <2> HIDE DEF push, minted
  <2>4. Total(push) = 0
    BY <2>3, Constants, SumZero DEF Total
  <2>5. FanOutFits(of, push) /\ \A s \in Strategies : allocated[s] + push[s] <= MaxU64
    BY <1>5, <2>1, <2>3, <2>4 DEF FanOutFits
  <2>6. \/ ~(minted > 0 /\ minted <= MaxU64 /\ supply + minted <= MaxU64)
        \/ ~(totalDeposited + of <= MaxU64)
    BY <1>3, <1>5, <2>1, <2>5 DEF MayDeposit, minted, push
  <2>7. minted \notin 1..(MaxU64 - supply) \/ totalDeposited + FirstDeposit > MaxU64
    BY <1>5, <2>1, <2>2, <2>6
  <2> QED BY <1>6, <1>9, <2>1, <2>7 DEF Exhausted, minted, Setups
<1>10. CASE op = "create"
  <2>1. of \in Pending(todo, "create")
    BY <1>1, <1>2, <1>10, AtPlace DEF Pending, OnStrategy, todo
  <2>2. ~Created(of)
    BY <1>6, <1>10, <2>1 DEF Planned
  <2> QED BY <1>10, <2>2 DEF Rejected
<1>11. CASE op = "weigh"
  <2> DEFINE n == Cardinality(Pending(todo, "weigh"))
  <2>1. of \in Pending(todo, "weigh")
    BY <1>1, <1>2, <1>11, AtPlace DEF Pending, OnStrategy, todo
  <2>2. weight[of] = 0 /\ totalWeight + PlannedWeight * n <= BPS
    BY <1>6, <1>11, <2>1 DEF Planned
  <2>3. n \in Nat /\ n >= 1
    BY <2>1, PendingCount
  <2> HIDE DEF n
  <2>4. PlannedWeight <= PlannedWeight * n /\ PlannedWeight * n \in Nat
    BY <1>5, <2>3, ProductNat, TimesAtLeast
  <2>5. PlannedWeight <= BPS /\ totalWeight - weight[of] + PlannedWeight <= BPS
    BY <1>5, <2>2, <2>4
  <2> QED BY <1>4, <1>11, <2>5 DEF Rejected, MaySetWeight, WeightFits, WeightWith
<1>12. CASE op = "allocate"
  <2> DEFINE n == Cardinality(Pending(todo, "allocate"))
  <2>1. of \in Pending(todo, "allocate") /\ of \in Strategies
    BY <1>1, <1>2, <1>12, AtPlace DEF Pending, OnStrategy, todo
  <2>2. <<"deposit", FirstDeposit>> \notin ToSet(todo)
    <3> SUFFICES ASSUME <<"deposit", FirstDeposit>> \in ToSet(todo) PROVE FALSE
      OBVIOUS
    <3>1. PICK i \in 1..Len(todo) : todo[i] = <<"deposit", FirstDeposit>>
      BY <1>1, AtPlace DEF todo
    <3>2. Affordable(todo) /\ todo[1][1] = "allocate" /\ 1 \in 1..i
      BY <1>2, <1>6, <1>12, <3>1 DEF Planned, todo
    <3>3. todo[i][1] = "deposit"
      BY <3>1
    <3> QED BY <3>2, <3>3 DEF Affordable
  <2>3. Allocation * n <= reserve
    BY <1>5, <1>6, <1>12, <2>2 DEF Planned
  <2>4. n \in Nat /\ n >= 1
    BY <2>1, PendingCount
  <2> HIDE DEF n
  <2>5. Allocation <= Allocation * n /\ Allocation * n \in Nat
    BY <1>5, <2>4, ProductNat, TimesAtLeast
  <2>6. Allocation <= reserve
    BY <1>5, <2>3, <2>5
  <2>7. allocated[of] + Allocation <= MaxU64
    <3>1. allocated[of] <= ata[of]
      BY <1>4, <1>5, <1>12, <2>1 DEF Funded
    <3>2. ata[of] + reserve <= MaxU64
      BY <1>1, <2>1, TokensAreU64
    <3> QED BY <1>5, <2>1, <2>6, <3>1, <3>2
  <2>8. MayAllocate(of, Allocation)
    BY <1>3, <1>4, <1>5, <1>12, <2>6, <2>7 DEF MayAllocate
  <2> QED BY <1>12, <2>8 DEF Rejected
<1>13. op # "accrue"
  BY DEF Rejected
<1> QED BY <1>6, <1>7, <1>8, <1>9, <1>10, <1>11, <1>12, <1>13

\* What is exhausted stays so while the state does.
LEMMA ExhaustedStays ==
  ASSUME NEW c \in Clients, Exhausted(c), UNCHANGED <<vars, purse>>,
         job'[c].kind = job[c].kind, job'[c].amount = job[c].amount
  PROVE  Exhausted(c)'
<1>1. UNCHANGED <<wallet, totalDeposited, ata, allocated, supply>>
  BY DEF vars, tokenVars, shareVars
<1> QED BY <1>1 DEF Exhausted

\* The operations of a list.
Only(todo, ops) == \A i \in 1..Len(todo) : todo[i][1] \in ops

\* Where the steps of two lists come to stand.
LEMMA Concatenated ==
  ASSUME NEW f \in Seq(Steps), NEW g \in Seq(Steps)
  PROVE  LET h == f \o g
             m == Len(f)
             n == Len(g)
         IN  /\ m \in Nat /\ n \in Nat /\ h \in Seq(Steps) /\ Len(h) = m + n
             /\ \A i \in 1..m : i \in 1..Len(h) /\ h[i] = f[i]
             /\ \A i \in 1..n : m + i \in 1..Len(h) /\ h[m + i] = g[i]
             /\ \A i \in 1..Len(h) :
                  \/ i \in 1..m /\ h[i] = f[i]
                  \/ i > m /\ i - m \in 1..n /\ h[i] = g[i - m]
             /\ \A x : x \in ToSet(h) <=> x \in ToSet(f) \/ x \in ToSet(g)
<1> DEFINE h == f \o g
           m == Len(f)
           n == Len(g)
<1>1. /\ m \in Nat /\ n \in Nat /\ h \in Seq(Steps) /\ Len(h) = m + n
      /\ \A i \in 1..(m + n) : h[i] = IF i <= m THEN f[i] ELSE g[i - m]
  BY ConcatProperties, LenProperties
<1> HIDE DEF h, m, n
<1>2. \A i \in 1..m : i \in 1..Len(h) /\ h[i] = f[i]
  BY <1>1
<1>3. \A i \in 1..n : m + i \in 1..Len(h) /\ h[m + i] = g[i]
  <2> TAKE i \in 1..n
  <2>1. m + i \in 1..(m + n) /\ ~(m + i <= m) /\ (m + i) - m = i
    BY <1>1
  <2> QED BY <1>1, <2>1
<1>4. \A i \in 1..Len(h) : \/ i \in 1..m /\ h[i] = f[i]
                           \/ i > m /\ i - m \in 1..n /\ h[i] = g[i - m]
  <2> TAKE i \in 1..Len(h)
  <2>1. CASE i <= m
    BY <1>1, <2>1
  <2>2. CASE ~(i <= m)
    BY <1>1, <2>2
  <2> QED BY <2>1, <2>2
<1>5. \A x : x \in ToSet(h) <=> x \in ToSet(f) \/ x \in ToSet(g)
  <2> TAKE x
  <2>1. /\ x \in ToSet(h) <=> \E i \in 1..Len(h) : h[i] = x
        /\ x \in ToSet(f) <=> \E i \in 1..m : f[i] = x
        /\ x \in ToSet(g) <=> \E i \in 1..n : g[i] = x
    BY <1>1, AtPlace DEF m, n
  <2> QED BY <1>2, <1>3, <1>4, <2>1
<1> QED BY <1>1, <1>2, <1>3, <1>4, <1>5 DEF h, m, n

\* Two lists of other operations, or about others, after one another.
LEMMA PlanConcat ==
  ASSUME NEW f \in Seq(Steps), NEW g \in Seq(Steps), EachOnce(f), EachOnce(g),
         \A x \in ToSet(f) : x[1] \in Once => x \notin ToSet(g),
         Affordable(f), Affordable(g),
         Only(f, Once \ {"allocate"}) \/ Only(g, (Once \ {"deposit"}) \cup {"mint", "report"})
  PROVE  /\ f \o g \in Seq(Steps) /\ EachOnce(f \o g) /\ Affordable(f \o g)
         /\ \A ops : Only(f, ops) /\ Only(g, ops) => Only(f \o g, ops)
<1> DEFINE h == f \o g
           m == Len(f)
           n == Len(g)
<1>1. /\ m \in Nat /\ n \in Nat /\ h \in Seq(Steps) /\ Len(h) = m + n
      /\ \A i \in 1..m : i \in 1..Len(h) /\ h[i] = f[i]
      /\ \A i \in 1..n : m + i \in 1..Len(h) /\ h[m + i] = g[i]
      /\ \A i \in 1..Len(h) :
           \/ i \in 1..m /\ h[i] = f[i]
           \/ i > m /\ i - m \in 1..n /\ h[i] = g[i - m]
  BY Concatenated
<1> HIDE DEF h, m, n
<1>2. EachOnce(h)
  <2> SUFFICES ASSUME NEW i \in 1..Len(h), NEW k \in 1..Len(h), h[i] = h[k], h[i][1] \in Once
               PROVE  i = k
    BY DEF EachOnce
  <2>1. ASSUME NEW a \in 1..m, NEW b \in 1..n, f[a] = g[b], f[a][1] \in Once PROVE FALSE
    <3>1. f[a] \in ToSet(f) /\ g[b] \in ToSet(g)
      BY AtPlace DEF m, n
    <3> QED BY <2>1, <3>1
  <2>2. CASE i \in 1..m /\ k \in 1..m /\ h[i] = f[i] /\ h[k] = f[k]
    BY <2>2 DEF EachOnce, m
  <2>3. CASE i - m \in 1..n /\ k - m \in 1..n /\ h[i] = g[i - m] /\ h[k] = g[k - m]
    <3>1. i - m = k - m
      BY <2>3 DEF EachOnce, n
    <3> QED BY <1>1, <3>1
  <2>4. CASE i \in 1..m /\ h[i] = f[i] /\ k - m \in 1..n /\ h[k] = g[k - m]
    BY <2>1, <2>4
  <2>5. CASE i - m \in 1..n /\ h[i] = g[i - m] /\ k \in 1..m /\ h[k] = f[k]
    BY <2>1, <2>5
  <2> QED BY <1>1, <2>2, <2>3, <2>4, <2>5
<1>3. Affordable(h)
  <2> SUFFICES ASSUME NEW i \in 1..Len(h), h[i][1] = "deposit"
               PROVE  /\ h[i][2] = FirstDeposit /\ FirstDeposit <= wallet[Holder]
                      /\ \A k \in 1..i : h[k][1] # "allocate"
    BY DEF Affordable
  <2>1. CASE i \in 1..m /\ h[i] = f[i]
    <3>1. /\ f[i][2] = FirstDeposit /\ FirstDeposit <= wallet[Holder]
          /\ \A k \in 1..i : f[k][1] # "allocate"
      BY <2>1 DEF Affordable, m
    <3>2. \A k \in 1..i : k \in 1..m
      BY <1>1, <2>1
    <3> QED BY <1>1, <2>1, <3>1, <3>2
  <2>2. CASE i > m /\ i - m \in 1..n /\ h[i] = g[i - m]
    <3>1. /\ g[i - m][2] = FirstDeposit /\ FirstDeposit <= wallet[Holder]
          /\ \A k \in 1..(i - m) : g[k][1] # "allocate"
      BY <2>2 DEF Affordable, n
    <3>2. Only(f, Once \ {"allocate"})
      <4>1. ~Only(g, (Once \ {"deposit"}) \cup {"mint", "report"})
        BY <2>2 DEF Only, n, Once
      <4> QED BY <4>1
    <3>3. \A k \in 1..m : f[k][1] # "allocate"
      BY <3>2 DEF Only, m
    <3>4. \A k \in 1..i : \/ k \in 1..m /\ h[k] = f[k]
                          \/ k - m \in 1..(i - m) /\ h[k] = g[k - m]
      <4> TAKE k \in 1..i
      <4>1. k \in 1..Len(h)
        BY <1>1
      <4> QED BY <1>1, <4>1
    <3> QED BY <2>2, <3>1, <3>3, <3>4
  <2> QED BY <1>1, <2>1, <2>2
<1>4. ASSUME NEW ops, Only(f, ops), Only(g, ops) PROVE Only(h, ops)
  BY <1>1, <1>4 DEF Only, m, n
<1> QED BY <1>1, <1>2, <1>3, <1>4 DEF h

\* A list of one step.
LEMMA PlanOne ==
  ASSUME NEW e \in Steps,
         e[1] = "deposit" => e[2] = FirstDeposit /\ FirstDeposit <= wallet[Holder]
  PROVE  /\ <<e>> \in Seq(Steps) /\ EachOnce(<<e>>) /\ Affordable(<<e>>)
         /\ \A x : x \in ToSet(<<e>>) <=> x = e
         /\ \A ops : e[1] \in ops => Only(<<e>>, ops)
<1> DEFINE f == <<e>>
<1>1. f \in Seq(Steps) /\ Len(f) = 1 /\ f[1] = e
  OBVIOUS
<1> HIDE DEF f
<1>2. \A x : x \in ToSet(f) <=> x = e
  BY <1>1, AtPlace
<1>3. EachOnce(f) /\ \A ops : e[1] \in ops => Only(f, ops)
  BY <1>1 DEF EachOnce, Only
<1>4. Affordable(f)
  BY <1>1 DEF Affordable
<1> QED BY <1>1, <1>2, <1>3, <1>4 DEF f

\* One step for each of the strategies.
LEMMA PlanEach ==
  ASSUME NEW op \in OnStrategy, NEW S \in SUBSET Strategies
  PROVE  LET f == Each(op, ById(S))
         IN  /\ f \in Seq(Steps) /\ EachOnce(f) /\ Affordable(f)
             /\ \A x : x \in ToSet(f) <=> \E s \in S : x = <<op, s>>
             /\ \A i, k \in 1..Len(f) : f[i] = f[k] => i = k
             /\ \A i \in 1..Len(f) : \E s \in S : f[i] = <<op, s>>
             /\ \A ops : op \in ops => Only(f, ops)
<1> DEFINE list == ById(S)
           f == Each(op, list)
<1>1. /\ list \in Seq(S) /\ list \in Seq(Strategies) /\ Len(list) \in Nat
      /\ \A i \in 1..Len(list) : list[i] \in S /\ list[i] \in Nat
      /\ \A i, j \in 1..Len(list) : i < j => list[i] < list[j]
      /\ \A x \in S : \E i \in 1..Len(list) : list[i] = x
  <2>1. /\ list \in Seq(S)
        /\ \A i, j \in 1..Len(list) : i < j => list[i] < list[j]
        /\ \A x \in S : \E i \in 1..Len(list) : list[i] = x
    BY ByIdFacts
  <2> HIDE DEF list
  <2>2. Len(list) \in Nat /\ \A i \in 1..Len(list) : list[i] \in S
    BY <2>1, LenProperties
  <2>3. list \in Seq(Strategies)
    BY <2>1, LenProperties
  <2> QED BY <2>1, <2>2, <2>3, DeskConstants
<1> HIDE DEF list
<1>2. /\ f \in Seq(Steps) /\ Len(f) = Len(list)
      /\ \A i \in 1..Len(list) : f[i] = <<op, list[i]>>
  BY <1>1, EachFacts
<1> HIDE DEF f
<1>3. \A i \in 1..Len(f) : f[i][1] = op /\ f[i][2] = list[i] /\ \E s \in S : f[i] = <<op, s>>
  BY <1>1, <1>2
<1>4. \A i, k \in 1..Len(f) : f[i] = f[k] => i = k
  <2> SUFFICES ASSUME NEW i \in 1..Len(f), NEW k \in 1..Len(f), f[i] = f[k] PROVE i = k
    OBVIOUS
  <2>1. list[i] = list[k]
    BY <1>3
  <2>2. i \in 1..Len(list) /\ k \in 1..Len(list)
    BY <1>2
  <2>3. ~(i < k) /\ ~(k < i)
    <3>1. /\ i < k => list[i] < list[k]
          /\ k < i => list[k] < list[i]
      BY <1>1, <2>2
    <3>2. list[i] \in Nat /\ list[k] \in Nat
      BY <1>1, <2>2
    <3> QED BY <2>1, <3>1, <3>2
  <2> QED BY <1>1, <2>2, <2>3
<1>5. EachOnce(f) /\ \A ops : op \in ops => Only(f, ops)
  BY <1>3, <1>4 DEF EachOnce, Only
<1>6. Affordable(f)
  BY <1>3 DEF Affordable, OnStrategy
<1>7. \A x : x \in ToSet(f) <=> \E s \in S : x = <<op, s>>
  <2> TAKE x
  <2>1. x \in ToSet(f) <=> \E i \in 1..Len(f) : f[i] = x
    BY <1>2, AtPlace
  <2>2. (\E i \in 1..Len(f) : f[i] = x) => \E s \in S : x = <<op, s>>
    BY <1>3
  <2>3. ASSUME NEW s \in S, x = <<op, s>> PROVE \E i \in 1..Len(f) : f[i] = x
    <3>1. PICK i \in 1..Len(list) : list[i] = s
      BY <1>1
    <3> QED BY <1>2, <2>3, <3>1
  <2> QED BY <2>1, <2>2, <2>3
<1> QED BY <1>2, <1>3, <1>4, <1>5, <1>6, <1>7 DEF f, list

\* What is sent and reported may come again.
LEMMA PlanFree ==
  ASSUME NEW f \in Seq(Steps), Only(f, {"mint", "report"})
  PROVE  /\ EachOnce(f) /\ Affordable(f)
         /\ \A x \in ToSet(f) : x[1] \in {"mint", "report"}
<1>1. EachOnce(f) /\ Affordable(f)
  BY DEF Only, EachOnce, Affordable, Once
<1>2. \A x \in ToSet(f) : x[1] \in {"mint", "report"}
  BY AtPlace DEF Only
<1> QED BY <1>1, <1>2

\* A plan makes its strategies first.
LEMMA ReadyAfter ==
  ASSUME NEW f \in Seq(Steps), NEW g \in Seq(Steps), Only(f, {"deposit", "create"}),
         \A i \in 1..Len(g) :
           \/ g[i][1] = "deposit"
           \/ /\ g[i][1] \in {"weigh", "allocate", "mint", "report"}
              /\ Funded(g[i][2]) /\ <<"create", g[i][2]>> \in ToSet(f)
  PROVE  \A i \in 1..Len(f \o g) : Ready(f \o g, i)
<1> DEFINE h == f \o g
           m == Len(f)
           n == Len(g)
<1>1. /\ m \in Nat /\ n \in Nat /\ h \in Seq(Steps) /\ Len(h) = m + n
      /\ \A i \in 1..m : i \in 1..Len(h) /\ h[i] = f[i]
      /\ \A i \in 1..Len(h) :
           \/ i \in 1..m /\ h[i] = f[i]
           \/ i > m /\ i - m \in 1..n /\ h[i] = g[i - m]
  BY Concatenated
<1> HIDE DEF h, m, n
<1> SUFFICES ASSUME NEW i \in 1..Len(h) PROVE Ready(h, i)
  BY DEF h
<1>2. CASE i \in 1..m /\ h[i] = f[i]
  <2>1. f[i][1] \in {"deposit", "create"}
    BY <1>2 DEF Only, m
  <2>2. h[i][1] \notin {"tip", "drop", "mint", "weigh", "allocate", "report"}
    BY <1>2, <2>1
  <2> QED BY <2>2 DEF Ready
<1>3. CASE i > m /\ i - m \in 1..n /\ h[i] = g[i - m]
  <2> DEFINE e == g[i - m]
  <2>1. \/ e[1] = "deposit"
        \/ /\ e[1] \in {"weigh", "allocate", "mint", "report"}
           /\ Funded(e[2]) /\ <<"create", e[2]>> \in ToSet(f)
    BY <1>3 DEF n
  <2>2. h[i] = e
    BY <1>3
  <2> HIDE DEF e
  <2>3. CASE e[1] = "deposit"
    BY <2>2, <2>3 DEF Ready
  <2>4. CASE Funded(e[2]) /\ <<"create", e[2]>> \in ToSet(f)
    <3>1. PICK k \in 1..m : f[k] = <<"create", e[2]>>
      BY <2>4, AtPlace DEF m
    <3>2. k \in 1..Len(h) /\ h[k] = <<"create", e[2]>>
      BY <1>1, <3>1
    <3>3. k < i
      BY <1>1, <1>3
    <3>4. Before(h, i, <<"create", h[i][2]>>) /\ Funded(h[i][2])
      BY <2>2, <2>4, <3>2, <3>3 DEF Before
    <3> QED BY <3>4 DEF Ready
  <2> QED BY <2>1, <2>3, <2>4
<1> QED BY <1>1, <1>2, <1>3

-----------------------------------------------------------------------------
(***************************************************************************)
(* Such jobs begin sound.                                                  *)
(***************************************************************************)
BegunSound(c) ==
  /\ \E j : /\ job' = [job EXCEPT ![c] = j] /\ j.state = "running"
            /\ j.kind \in YieldKinds /\ j.calm => Sound(j)
  /\ UNCHANGED <<vars, besideVars, screen>>

\* A list that starts a job.
LEMMA StartsSound ==
  ASSUME NEW c \in Clients, NEW j, Start(c, j), DOMAIN j = JobFields,
         j.kind \in YieldKinds /\ j.calm => Sound(j)
  PROVE  BegunSound(c)
<1> DEFINE k == [j EXCEPT !.state = "running"]
<1>1. job' = [job EXCEPT ![c] = k] /\ UNCHANGED <<vars, besideVars, screen>>
  BY DEF Start
<1>2. /\ k.state = "running" /\ k.kind = j.kind /\ k.todo = j.todo /\ k.calm = j.calm
      /\ k.amount = j.amount /\ k.served = j.served /\ k.before = j.before
  BY DEF JobFields
<1> HIDE DEF k
<1>3. k.kind \in YieldKinds /\ k.calm => Sound(k)
  <2> SUFFICES ASSUME Sound(j) PROVE Sound(k)
    BY <1>2
  <2> QED BY <1>2, SameSound
<1> QED BY <1>1, <1>2, <1>3 DEF BegunSound

\* A job of another kind.
LEMMA OthersBeginSound ==
  ASSUME NEW c \in Clients, NEW j, Start(c, j), DOMAIN j = JobFields, j.kind \notin YieldKinds
  PROVE  BegunSound(c)
BY StartsSound

\* A crank begins with a look at each strategy there is.
LEMMA CrankBegins ==
  ASSUME NEW c \in Clients, NEW b \in BOOLEAN, StartCrank(c, b)
  PROVE  BegunSound(c)
<1> DEFINE created == {s \in Strategies : Created(s)}
           calm == Unpaused /\ faucet = "payer"
           looks == Each("look", ById(created))
           tail == IF b THEN <<<<"accrue", FixedYield>>>> ELSE <<>>
           todo == looks \o tail
           j == [Idle EXCEPT !.kind = "crank", !.calm = calm, !.todo = todo]
<1>1. Start(c, j)
  BY DEF StartCrank
<1>2. looks \in Seq(Steps) /\ AllFit(looks, "crank")
  <2>1. /\ looks \in Seq(Steps)
        /\ \A i \in 1..Len(looks) : \E s \in created : looks[i] = <<"look", s>>
    <3>1. "look" \in OnStrategy /\ created \in SUBSET Strategies
      BY DEF OnStrategy
    <3> HIDE DEF created
    <3> QED BY <3>1, PlanEach
  <2> HIDE DEF looks
  <2> QED BY <2>1 DEF AllFit, Fit, OpsOf
<1>3. tail \in Seq(Steps) /\ AllFit(tail, "crank")
  <2>1. <<"accrue", FixedYield>> \in Steps
    BY DeskConstants DEF Steps, OnAmount
  <2>2. AllFit(<<>>, "crank") /\ AllFit(<<<<"accrue", FixedYield>>>>, "crank")
    BY DEF AllFit, Fit, OpsOf
  <2> QED BY <2>1, <2>2, StepLists
<1> HIDE DEF looks, tail
<1>4. todo \in Seq(Steps) /\ AllFit(todo, "crank")
  BY <1>2, <1>3, FitConcat, StepLists
<1> HIDE DEF todo, calm
<1>5. /\ DOMAIN j = JobFields /\ j.kind = "crank" /\ j.todo = todo /\ j.calm = calm
      /\ j.amount = 0
  BY DEF Idle, JobFields
<1> HIDE DEF j
<1>6. <<"verify", 0>> \notin ToSet(todo)
  BY <1>4, AtPlace DEF AllFit, OpsOf
<1>7. j.calm => Sound(j)
  <2> SUFFICES ASSUME calm PROVE Sound(j)
    BY <1>5
  <2>1. ~paused /\ faucet = "payer"
    BY DEF calm, Unpaused
  <2> QED BY <1>4, <1>5, <1>6, <2>1, RoundIsSound DEF Rounds
<1> QED BY <1>1, <1>5, <1>7, StartsSound

\* A hand-out with nothing to verify, or with the total to compare with.
LEMMA HandOutBegins ==
  ASSUME Inv, NEW c \in Clients, NEW authority \in BOOLEAN, NEW S \in SUBSET Strategies,
         NEW last \in {<<>>, <<<<"verify", 0>>>>}, authority \/ last = <<>>,
         HandOut(c, authority, ById(S), last)
  PROVE  BegunSound(c)
<1> DEFINE list == ById(S)
           calm == /\ Unpaused /\ faucet = "payer" /\ \A i \in DOMAIN list : Created(list[i])
                   /\ \A s \in Strategies : Active(s) => ata[s] = allocated[s]
           before == IF last = <<>> THEN 0 ELSE totalDeposited
           op == IF authority THEN "tip" ELSE "drop"
           tips == Each(op, list)
           todo == tips \o last
           j == [Idle EXCEPT !.kind = "handout", !.amount = FixedYield, !.before = before,
                             !.calm = calm, !.todo = todo]
<1>1. Start(c, j)
  BY DEF HandOut
<1>2. op \in {"tip", "drop"} /\ op \in OnStrategy /\ (last # <<>> => op = "tip")
  BY DEF OnStrategy
<1> HIDE DEF op
<1>3. /\ tips \in Seq(Steps)
      /\ \A i \in 1..Len(tips) : \E s \in S : tips[i] = <<op, s>>
      /\ \A i, k \in 1..Len(tips) : tips[i] = tips[k] => i = k
  BY <1>2, PlanEach
<1>4. calm => \A s \in S : Created(s)
  <2> SUFFICES ASSUME calm, NEW s \in S PROVE Created(s)
    OBVIOUS
  <2>1. list \in Seq(S) /\ \E i \in 1..Len(list) : list[i] = s
    BY ByIdFacts
  <2> HIDE DEF list
  <2>2. DOMAIN list = 1..Len(list)
    BY <2>1, LenProperties
  <2> QED BY <2>1, <2>2 DEF calm
<1>5. <<"verify", 0>> \in Steps /\ last \in Seq(Steps) /\ AllFit(last, "handout")
  <2>1. <<"verify", 0>> \in Steps
    BY DEF Steps, OnNothing
  <2>2. AllFit(<<>>, "handout") /\ AllFit(<<<<"verify", 0>>>>, "handout")
    BY DEF AllFit, Fit, OpsOf
  <2> QED BY <2>1, <2>2, StepLists
<1> HIDE DEF tips
<1>6. todo \in Seq(Steps) /\ (calm => AllFit(todo, "handout"))
  <2>1. calm => AllFit(tips, "handout")
    BY <1>2, <1>3, <1>4 DEF AllFit, Fit, OpsOf
  <2> HIDE DEF calm
  <2> QED BY <1>3, <1>5, <2>1, FitConcat, StepLists
<1>7. last = <<>> => <<"verify", 0>> \notin ToSet(todo)
  <2> SUFFICES ASSUME last = <<>>, <<"verify", 0>> \in ToSet(todo) PROVE FALSE
    OBVIOUS
  <2>1. todo = tips
    BY <1>3, ConcatEmptySeq
  <2>2. \E i \in 1..Len(tips) : tips[i] = <<"verify", 0>>
    BY <1>3, <2>1, AtPlace
  <2> QED BY <1>2, <1>3, <2>2
<1>8. last # <<>> => Closing(todo, {})
  <2> SUFFICES ASSUME last # <<>> PROVE Closing(todo, {})
    OBVIOUS
  <2>1. last = <<<<"verify", 0>>>> /\ op = "tip" /\ Len(last) = 1 /\ last[1] = <<"verify", 0>>
    BY <1>2
  <2> DEFINE m == Len(tips)
  <2>2. /\ m \in Nat /\ Len(todo) = m + 1 /\ \A i \in 1..m : todo[i] = tips[i]
        /\ todo[m + 1] = last[1]
    BY <1>3, <1>5, <2>1, Concatenated
  <2> HIDE DEF m, todo
  <2>3. Len(todo) - 1 = m /\ todo[Len(todo)] = <<"verify", 0>> /\ todo # <<>>
    BY <1>6, <2>1, <2>2, EmptySeq
  <2>4. \A i \in 1..m : todo[i][1] = "tip" /\ todo[i][2] \notin {}
    BY <1>3, <2>1, <2>2 DEF m
  <2>5. \A i, k \in 1..m : todo[i] = todo[k] => i = k
    BY <1>3, <2>2 DEF m
  <2> QED BY <2>3, <2>4, <2>5 DEF Closing
<1> HIDE DEF todo
<1>9. /\ DOMAIN j = JobFields /\ j.kind = "handout" /\ j.todo = todo /\ j.calm = calm
      /\ j.amount = FixedYield /\ j.before = before /\ j.served = {}
  BY DEF Idle, JobFields
<1> HIDE DEF j
<1>10. j.calm => Sound(j)
  <2> SUFFICES ASSUME calm PROVE Sound(j)
    BY <1>9
  <2>1. /\ ~paused /\ faucet = "payer" /\ AllInStep
        /\ \A s \in Strategies : Active(s) => Funded(s)
    <3>1. /\ ~paused /\ faucet = "payer"
          /\ \A s \in Strategies : Active(s) => ata[s] = allocated[s]
      BY DEF calm, Unpaused
    <3>2. \A s \in Strategies : ata[s] \in Nat /\ allocated[s] \in Nat
      BY Constants DEF Inv, TypeOK
    <3> QED BY <3>1, <3>2 DEF AllInStep, InStep, Funded
  <2>2. <<"verify", 0>> \in ToSet(j.todo) => Tallied(j)
    <3> SUFFICES ASSUME <<"verify", 0>> \in ToSet(todo) PROVE Tallied(j)
      BY <1>9
    <3>1. last # <<>> /\ Closing(j.todo, j.served)
      BY <1>7, <1>8, <1>9
    <3>2. j.before = totalDeposited /\ totalDeposited \in Nat
      BY <1>9, <3>1 DEF before, Inv, TypeOK
    <3>3. totalDeposited = j.before + j.amount * Cardinality(j.served)
      BY <1>9, <3>2, FS_EmptySet, DeskConstants
    <3> QED BY <2>1, <3>1, <3>2, <3>3 DEF Tallied
  <2>3. FixedYield \in Nat
    BY DeskConstants
  <2> QED BY <1>6, <1>9, <2>1, <2>2, <2>3, RoundIsSound DEF Rounds
<1> HIDE DEF calm
<1> QED BY <1>1, <1>9, <1>10, StartsSound

\* A plan whose strategies are still to be made begins sound.
LEMMA PlanIsSound ==
  ASSUME NEW j, j.kind \in Setups, ~paused, j.amount \in Nat,
         j.kind = "setup" => faucet = "payer",
         Only(j.todo, OpsOf(j.kind)), \A i \in 1..Len(j.todo) : Ready(j.todo, i),
         Planned(j.todo), j.todo \in Seq(Steps)
  PROVE  Sound(j)
<1>1. <<"verify", 0>> \notin ToSet(j.todo)
  <2>1. "verify" \notin OpsOf(j.kind)
    BY DEF Setups, OpsOf
  <2> QED BY <2>1, AtPlace DEF Only
<1>2. j.kind \in {"setup", "agent_setup"} /\ j.kind # "handout"
  BY DEF Setups
<1> QED BY <1>1, <1>2 DEF Sound, Only

\* What the plans have to go by.
LEMMA PlansFit ==
  ASSUME Inv, NeverCreatedIsEmpty
  PROVE  /\ \A s \in Strategies : ~Created(s) => Funded(s) /\ weight[s] = 0
         /\ (\A s \in Strategies : ~Created(s)) => totalWeight = 0
         /\ totalWeight \in 0..BPS /\ reserve \in Nat
         /\ \A S \in SUBSET Strategies :
              /\ Cardinality(S) \in Nat
              /\ PlannedWeight * Cardinality(S) <= BPS
              /\ Allocation * Cardinality(S) <= FirstDeposit
<1>1. /\ TypeOK /\ WeightsWithinCap /\ InactiveIsEmpty /\ BPS \in Nat \ {0}
      /\ IsFiniteSet(Strategies) /\ Allocation \in Nat /\ PlannedWeight \in Nat
      /\ FirstDeposit \in Nat \ {0}
  BY Constants, DeskConstants, AmountTypes DEF Inv
<1>2. \A s \in Strategies : ~Created(s) => Funded(s) /\ weight[s] = 0
  <2> SUFFICES ASSUME NEW s \in Strategies, ~Created(s) PROVE Funded(s) /\ weight[s] = 0
    OBVIOUS
  <2>1. ~Active(s)
    BY DEF Created, Active
  <2>2. ata[s] = 0 /\ allocated[s] = 0 /\ weight[s] = 0
    BY <1>1, <2>1 DEF NeverCreatedIsEmpty, InactiveIsEmpty, WeightsWithinCap
  <2> QED BY <2>2 DEF Funded
<1>3. ASSUME \A s \in Strategies : ~Created(s) PROVE totalWeight = 0
  <2>1. weight \in [Strategies -> Nat] /\ \A s \in Strategies : weight[s] = 0
    BY <1>1, <1>2, <1>3 DEF TypeOK
  <2>2. SumFunctionOnSet(weight, Strategies) = 0
    BY <1>1, <2>1, SumZero
  <2> QED BY <1>1, <2>2 DEF WeightsWithinCap, Total
<1>4. totalWeight \in 0..BPS /\ reserve \in Nat
  BY <1>1 DEF TypeOK
<1>5. ASSUME NEW S \in SUBSET Strategies
      PROVE  /\ Cardinality(S) \in Nat
             /\ PlannedWeight * Cardinality(S) <= BPS
             /\ Allocation * Cardinality(S) <= FirstDeposit
  <2> DEFINE k == Cardinality(S)
             n == Cardinality(Strategies)
  <2>1. k \in Nat /\ n \in Nat /\ k <= n
    BY <1>1, FS_Subset, FS_CardinalityType
  <2>2. n * Allocation <= FirstDeposit
    BY PlansAssumption
  <2> HIDE DEF k, n
  <2>3. /\ k * Allocation <= n * Allocation /\ k * Allocation = Allocation * k
        /\ k * Allocation \in Nat /\ n * Allocation \in Nat
    BY <1>1, <2>1, ProductMono, ProductNat
  <2>4. Allocation * k <= FirstDeposit
    BY <1>1, <2>2, <2>3
  <2>5. PlannedWeight * k <= BPS
    <3> DEFINE a == Allocation * BPS
    <3>1. a \in Nat
      BY <1>1, ProductNat
    <3>2. PlannedWeight * FirstDeposit <= a
      <4> HIDE DEF a
      <4>1. (a \div FirstDeposit) * FirstDeposit <= a
        BY <1>1, <3>1, FloorDivision
      <4> QED BY <4>1 DEF a, PlannedWeight
    <3>3. a * k = (Allocation * k) * BPS
      BY <1>1, <2>1
    <3>4. (Allocation * k) * BPS <= FirstDeposit * BPS
      BY <1>1, <2>1, <2>4, ProductMono, ProductNat
    <3> HIDE DEF a
    <3> DEFINE w == PlannedWeight * FirstDeposit
    <3>5. w \in Nat
      BY <1>1, ProductNat
    <3> HIDE DEF w
    <3>6. w * k <= a * k
      BY <2>1, <3>1, <3>2, <3>5, ProductMono DEF w
    <3>7. w * k = (PlannedWeight * k) * FirstDeposit
      BY <1>1, <2>1 DEF w
    <3> DEFINE p == PlannedWeight * k
               q == FirstDeposit * BPS
    <3>8. p \in Nat /\ q \in Nat /\ a * k \in Nat /\ q = BPS * FirstDeposit
      BY <1>1, <2>1, <3>1, ProductNat
    <3>9. p * FirstDeposit <= q
      <4>1. p * FirstDeposit <= a * k /\ a * k <= q
        BY <3>3, <3>4, <3>6, <3>7
      <4>2. p * FirstDeposit \in Nat
        BY <1>1, <3>8, ProductNat
      <4> HIDE DEF p, q
      <4> QED BY <3>8, <4>1, <4>2
    <3> HIDE DEF p, q
    <3>10. p <= BPS
      BY <1>1, <3>8, <3>9, ProductCancelLeq
    <3> QED BY <3>10 DEF p
  <2> QED BY <2>1, <2>4, <2>5 DEF k
<1> QED BY <1>2, <1>3, <1>4, <1>5

\* A vault of its own, from the first deposit on.
LEMMA SetUpBegins ==
  ASSUME Inv, NeverCreatedIsEmpty, NEW c \in Clients, NEW steps \in Seq(Steps),
         SetUp(c, steps), EachOnce(steps), Affordable(steps),
         Only(steps, {"weigh", "allocate", "mint", "report"})
  PROVE  BegunSound(c)
<1> DEFINE calm == Unpaused /\ faucet = "payer" /\ FirstDeposit <= wallet[Holder]
           amount == Portion(Allocation, YieldBps)
           creates == Each("create", ById(Strategies))
           first == <<<<"deposit", FirstDeposit>>>>
           begin == first \o creates
           todo == begin \o steps
           j == [Idle EXCEPT !.kind = "setup", !.calm = calm, !.served = Strategies,
                             !.amount = amount, !.todo = todo]
<1>1. Start(c, j) /\ \A s \in Strategies : ~Created(s)
  BY DEF SetUp
<1>2. /\ creates \in Seq(Steps) /\ EachOnce(creates) /\ Affordable(creates)
      /\ Only(creates, {"create"}) /\ Only(creates, {"deposit", "create"})
      /\ \A x : x \in ToSet(creates) <=> \E s \in Strategies : x = <<"create", s>>
  <2>1. "create" \in OnStrategy /\ Strategies \in SUBSET Strategies
    BY DEF OnStrategy
  <2> QED BY <2>1, PlanEach
<1> HIDE DEF creates
<1>3. ASSUME calm
      PROVE  /\ first \in Seq(Steps) /\ EachOnce(first) /\ Affordable(first)
             /\ Only(first, {"deposit", "create"})
             /\ \A x : x \in ToSet(first) <=> x = <<"deposit", FirstDeposit>>
  <2> DEFINE e == <<"deposit", FirstDeposit>>
  <2>1. e \in Steps /\ e[1] = "deposit" /\ e[2] = FirstDeposit /\ FirstDeposit <= wallet[Holder]
    BY <1>3, DeskConstants DEF Steps, OnAmount, calm
  <2> HIDE DEF e
  <2>2. /\ <<e>> \in Seq(Steps) /\ EachOnce(<<e>>) /\ Affordable(<<e>>)
        /\ \A x : x \in ToSet(<<e>>) <=> x = e
        /\ \A ops : e[1] \in ops => Only(<<e>>, ops)
    BY <2>1, PlanOne
  <2> QED BY <2>1, <2>2 DEF e
<1> HIDE DEF first, calm
<1>4. ASSUME calm
      PROVE  /\ begin \in Seq(Steps) /\ EachOnce(begin) /\ Affordable(begin)
             /\ Only(begin, {"deposit", "create"})
             /\ \A x : x \in ToSet(begin) <=> x \in ToSet(first) \/ x \in ToSet(creates)
  <2>1. \A x \in ToSet(first) : x \notin ToSet(creates)
    BY <1>2, <1>3, <1>4
  <2>2. Only(creates, (Once \ {"deposit"}) \cup {"mint", "report"})
    BY <1>2 DEF Only, Once
  <2>3. /\ begin \in Seq(Steps) /\ EachOnce(begin) /\ Affordable(begin)
        /\ Only(begin, {"deposit", "create"})
    BY <1>2, <1>3, <1>4, <2>1, <2>2, PlanConcat
  <2>4. \A x : x \in ToSet(begin) <=> x \in ToSet(first) \/ x \in ToSet(creates)
    BY <1>2, <1>3, <1>4, Concatenated
  <2> QED BY <2>3, <2>4
<1> HIDE DEF begin
<1>5. \A x \in ToSet(steps) : x[1] \in {"weigh", "allocate", "mint", "report"}
  BY AtPlace DEF Only
<1>6. ASSUME calm
      PROVE  /\ todo \in Seq(Steps) /\ EachOnce(todo) /\ Affordable(todo)
             /\ Only(todo, OpsOf("setup"))
             /\ \A x : x \in ToSet(todo) <=> x \in ToSet(begin) \/ x \in ToSet(steps)
  <2>1. \A x \in ToSet(begin) : x \notin ToSet(steps)
    <3>1. \A x \in ToSet(begin) : x[1] \in {"deposit", "create"}
      BY <1>4, <1>6, AtPlace DEF Only
    <3> QED BY <1>5, <3>1
  <2>2. Only(steps, (Once \ {"deposit"}) \cup {"mint", "report"}) /\ Only(steps, OpsOf("setup"))
    BY DEF Only, Once, OpsOf
  <2>3. Only(begin, OpsOf("setup"))
    BY <1>4, <1>6 DEF Only, OpsOf
  <2>4. /\ todo \in Seq(Steps) /\ EachOnce(todo) /\ Affordable(todo) /\ Only(todo, OpsOf("setup"))
    BY <1>4, <1>6, <2>1, <2>2, <2>3, PlanConcat
  <2>5. \A x : x \in ToSet(todo) <=> x \in ToSet(begin) \/ x \in ToSet(steps)
    BY <1>4, <1>6, Concatenated
  <2> QED BY <2>4, <2>5
<1>7. ASSUME calm PROVE \A i \in 1..Len(todo) : Ready(todo, i)
  <2>1. ASSUME NEW i \in 1..Len(steps)
        PROVE  /\ steps[i][1] \in {"weigh", "allocate", "mint", "report"}
               /\ Funded(steps[i][2]) /\ <<"create", steps[i][2]>> \in ToSet(begin)
    <3>1. steps[i][1] \in {"weigh", "allocate", "mint", "report"} /\ steps[i] \in Steps
      BY LenProperties DEF Only
    <3>2. steps[i][2] \in Strategies
      BY <3>1, StepFacts DEF OnStrategy
    <3>3. Funded(steps[i][2])
      BY <1>1, <3>2, PlansFit
    <3>4. <<"create", steps[i][2]>> \in ToSet(begin)
      BY <1>2, <1>4, <1>7, <3>2
    <3> QED BY <3>1, <3>3, <3>4
  <2> QED BY <1>4, <1>7, <2>1, ReadyAfter
<1>8. ASSUME calm PROVE Planned(todo)
  <2>1. /\ \A s \in Pending(todo, "create") : ~Created(s)
        /\ \A s \in Pending(todo, "weigh") : weight[s] = 0
    BY <1>1, PlansFit DEF Pending
  <2>2. Pending(todo, "weigh") \in SUBSET Strategies /\ Pending(todo, "allocate") \in SUBSET Strategies
    BY DEF Pending
  <2> DEFINE n == Cardinality(Pending(todo, "weigh"))
             m == Cardinality(Pending(todo, "allocate"))
  <2>3. /\ n \in Nat /\ PlannedWeight * n <= BPS
        /\ m \in Nat /\ Allocation * m <= FirstDeposit
        /\ totalWeight = 0 /\ reserve \in Nat
    BY <1>1, <2>2, PlansFit
  <2> HIDE DEF n, m
  <2>4. <<"deposit", FirstDeposit>> \in ToSet(todo)
    BY <1>3, <1>4, <1>6, <1>8
  <2>5. totalWeight + PlannedWeight * n <= BPS
    BY <2>3, ProductNat, AmountTypes
  <2>6. Allocation * m <= reserve + FirstDeposit
    BY <2>3, ProductNat, DeskConstants
  <2> QED BY <1>6, <1>8, <2>1, <2>4, <2>5, <2>6 DEF Planned, n, m
<1> HIDE DEF todo
<1>9. amount \in Nat
  BY DeskConstants, AmountTypes
<1> HIDE DEF amount
<1>10. /\ DOMAIN j = JobFields /\ j.kind = "setup" /\ j.todo = todo /\ j.calm = calm
       /\ j.amount = amount
  BY DEF Idle, JobFields
<1> HIDE DEF j
<1>11. j.calm => Sound(j)
  <2> SUFFICES ASSUME calm PROVE Sound(j)
    BY <1>10
  <2>1. ~paused /\ faucet = "payer"
    BY DEF calm, Unpaused
  <2>2. /\ Planned(j.todo) /\ Only(j.todo, OpsOf(j.kind)) /\ j.todo \in Seq(Steps)
        /\ \A i \in 1..Len(j.todo) : Ready(j.todo, i)
    BY <1>6, <1>7, <1>8, <1>10
  <2>3. j.kind \in Setups /\ j.amount \in Nat
    BY <1>9, <1>10 DEF Setups
  <2> QED BY <2>1, <2>2, <2>3, PlanIsSound
<1> QED BY <1>1, <1>10, <1>11, StartsSound

\* One more strategy: made, given a weight or not, paid for and allocated to.
LEMMA AgentSetupBegins ==
  ASSUME Inv, NeverCreatedIsEmpty, NEW c \in Clients, NEW b \in BOOLEAN, StartAgentSetup(c, b)
  PROVE  BegunSound(c)
<1> DEFINE free == {s \in Strategies : ~Created(s)}
           next == Least(free)
           calm == /\ Unpaused /\ FirstDeposit <= wallet[Holder]
                   /\ b => totalWeight + PlannedWeight <= BPS
           create == <<<<"create", next>>>>
           weigh == IF b THEN <<<<"weigh", next>>>> ELSE <<>>
           begin == create \o weigh
           deposit == <<<<"deposit", FirstDeposit>>>>
           allocate == <<<<"allocate", next>>>>
           end == <<<<"deposit", FirstDeposit>>, <<"allocate", next>>>>
           todo == begin \o end
           j == [Idle EXCEPT !.kind = "agent_setup", !.calm = calm, !.todo = todo]
<1>1. Start(c, j) /\ free # {}
  BY DEF StartAgentSetup
<1>2. next \in Strategies /\ ~Created(next)
  <2>1. free \in SUBSET Nat
    BY DeskConstants
  <2>2. next \in free
    <3> HIDE DEF free
    <3>1. PICK s \in free : \A r \in free : s <= r
      BY <1>1, <2>1, LeastNat
    <3> QED BY <3>1 DEF Least
  <2> QED BY <2>2
<1> HIDE DEF next
<1>3. Funded(next) /\ weight[next] = 0 /\ totalWeight \in 0..BPS /\ reserve \in Nat
  BY <1>2, PlansFit
<1>4. ASSUME NEW op \in {"create", "weigh", "allocate"}
      PROVE  LET f == <<<<op, next>>>>
             IN  /\ f \in Seq(Steps) /\ EachOnce(f) /\ Affordable(f) /\ Only(f, {op})
                 /\ \A x : x \in ToSet(f) <=> x = <<op, next>>
  <2> DEFINE e == <<op, next>>
  <2>1. e \in Steps /\ e[1] = op /\ e[1] # "deposit"
    BY <1>2 DEF Steps, OnStrategy
  <2> HIDE DEF e
  <2>2. /\ <<e>> \in Seq(Steps) /\ EachOnce(<<e>>) /\ Affordable(<<e>>)
        /\ \A x : x \in ToSet(<<e>>) <=> x = e
        /\ \A ops : e[1] \in ops => Only(<<e>>, ops)
    BY <2>1, PlanOne
  <2> QED BY <2>1, <2>2 DEF e
<1>5. ASSUME calm
      PROVE  /\ deposit \in Seq(Steps) /\ EachOnce(deposit) /\ Affordable(deposit)
             /\ Only(deposit, {"deposit"})
             /\ \A x : x \in ToSet(deposit) <=> x = <<"deposit", FirstDeposit>>
  <2> DEFINE e == <<"deposit", FirstDeposit>>
  <2>1. e \in Steps /\ e[1] = "deposit" /\ e[2] = FirstDeposit /\ FirstDeposit <= wallet[Holder]
    BY <1>5, DeskConstants DEF Steps, OnAmount
  <2> HIDE DEF e
  <2>2. /\ <<e>> \in Seq(Steps) /\ EachOnce(<<e>>) /\ Affordable(<<e>>)
        /\ \A x : x \in ToSet(<<e>>) <=> x = e
        /\ \A ops : e[1] \in ops => Only(<<e>>, ops)
    BY <2>1, PlanOne
  <2> QED BY <2>1, <2>2 DEF e
<1>6. deposit \o allocate = end
  <2> DEFINE x == <<"deposit", FirstDeposit>>
             y == <<"allocate", next>>
  <2>1. x \in Steps /\ y \in Steps
    BY <1>2, DeskConstants DEF Steps, OnStrategy, OnAmount
  <2> HIDE DEF x, y
  <2>2. <<x>> \o <<y>> = <<x, y>>
    BY <2>1, TwoInRow
  <2> QED BY <2>2 DEF x, y
<1>7. /\ create \in Seq(Steps) /\ EachOnce(create) /\ Affordable(create)
      /\ Only(create, {"create"}) /\ \A x : x \in ToSet(create) <=> x = <<"create", next>>
  BY <1>4
<1>8. /\ allocate \in Seq(Steps) /\ EachOnce(allocate) /\ Affordable(allocate)
      /\ Only(allocate, {"allocate"}) /\ \A x : x \in ToSet(allocate) <=> x = <<"allocate", next>>
  BY <1>4
<1>9. /\ weigh \in Seq(Steps) /\ EachOnce(weigh) /\ Affordable(weigh)
      /\ Only(weigh, {"weigh"})
      /\ \A x : x \in ToSet(weigh) <=> b /\ x = <<"weigh", next>>
  <2>1. CASE b
    BY <1>4, <2>1
  <2>2. CASE ~b
    <3>1. weigh = <<>> /\ <<>> \in Seq(Steps) /\ ToSet(<<>>) = {}
      BY <2>2, StepLists DEF ToSet
    <3>2. EachOnce(<<>>) /\ Affordable(<<>>) /\ Only(<<>>, {"weigh"})
      BY DEF EachOnce, Affordable, Only
    <3> QED BY <2>2, <3>1, <3>2
  <2> QED BY <2>1, <2>2
<1> HIDE DEF create, weigh, deposit, allocate, end
<1>10. /\ begin \in Seq(Steps) /\ EachOnce(begin) /\ Affordable(begin)
       /\ Only(begin, {"create", "weigh"})
       /\ \A x : x \in ToSet(begin) <=> x \in ToSet(create) \/ x \in ToSet(weigh)
  <2>1. \A x \in ToSet(create) : x \notin ToSet(weigh)
    BY <1>7, <1>9
  <2>2. Only(create, Once \ {"allocate"}) /\ Only(create, {"create", "weigh"})
    BY <1>7 DEF Only, Once
  <2>3. Only(weigh, {"create", "weigh"})
    BY <1>9 DEF Only
  <2>4. /\ begin \in Seq(Steps) /\ EachOnce(begin) /\ Affordable(begin)
        /\ Only(begin, {"create", "weigh"})
    BY <1>7, <1>9, <2>1, <2>2, <2>3, PlanConcat
  <2> QED BY <1>7, <1>9, <2>4, Concatenated
<1> HIDE DEF begin
<1>11. ASSUME calm
       PROVE  /\ end \in Seq(Steps) /\ EachOnce(end) /\ Affordable(end)
              /\ Only(end, {"deposit", "allocate"})
              /\ \A x : x \in ToSet(end) <=> x \in ToSet(deposit) \/ x \in ToSet(allocate)
  <2>1. \A x \in ToSet(deposit) : x \notin ToSet(allocate)
    BY <1>5, <1>8, <1>11
  <2>2. Only(deposit, Once \ {"allocate"}) /\ Only(deposit, {"deposit", "allocate"})
    BY <1>5, <1>11 DEF Only, Once
  <2>3. Only(allocate, {"deposit", "allocate"})
    BY <1>8 DEF Only
  <2>4. LET f == deposit \o allocate
        IN  /\ f \in Seq(Steps) /\ EachOnce(f) /\ Affordable(f)
            /\ Only(f, {"deposit", "allocate"})
            /\ \A x : x \in ToSet(f) <=> x \in ToSet(deposit) \/ x \in ToSet(allocate)
    <3>1. LET f == deposit \o allocate
          IN  /\ f \in Seq(Steps) /\ EachOnce(f) /\ Affordable(f)
              /\ Only(f, {"deposit", "allocate"})
      BY <1>5, <1>8, <1>11, <2>1, <2>2, <2>3, PlanConcat
    <3> QED BY <1>5, <1>8, <1>11, <3>1, Concatenated
  <2> QED BY <1>6, <2>4
<1>12. ASSUME calm
       PROVE  /\ todo \in Seq(Steps) /\ EachOnce(todo) /\ Affordable(todo)
              /\ Only(todo, OpsOf("agent_setup"))
              /\ \A x : x \in ToSet(todo) <=> x \in ToSet(begin) \/ x \in ToSet(end)
  <2>1. \A x \in ToSet(begin) : x \notin ToSet(end)
    <3>1. \A x \in ToSet(begin) : x[1] \in {"create", "weigh"}
      BY <1>10, AtPlace DEF Only
    <3>2. \A x \in ToSet(end) : x[1] \in {"deposit", "allocate"}
      BY <1>11, <1>12, AtPlace DEF Only
    <3> QED BY <3>1, <3>2
  <2>2. Only(begin, Once \ {"allocate"}) /\ Only(begin, OpsOf("agent_setup"))
    BY <1>10 DEF Only, Once, OpsOf
  <2>3. Only(end, OpsOf("agent_setup"))
    BY <1>11, <1>12 DEF Only, OpsOf
  <2>4. /\ todo \in Seq(Steps) /\ EachOnce(todo) /\ Affordable(todo)
        /\ Only(todo, OpsOf("agent_setup"))
    BY <1>10, <1>11, <1>12, <2>1, <2>2, <2>3, PlanConcat
  <2> QED BY <1>10, <1>11, <1>12, <2>4, Concatenated
<1>13. ASSUME calm PROVE \A i \in 1..Len(todo) : Ready(todo, i)
  <2> DEFINE later == weigh \o end
  <2>1. todo = create \o later
    BY <1>7, <1>9, <1>11, <1>13, ConcatAssociative DEF begin
  <2>2. later \in Seq(Steps) /\ \A x : x \in ToSet(later) <=> x \in ToSet(weigh) \/ x \in ToSet(end)
    BY <1>9, <1>11, <1>13, Concatenated
  <2> HIDE DEF later
  <2>3. ASSUME NEW i \in 1..Len(later)
        PROVE  \/ later[i][1] = "deposit"
               \/ /\ later[i][1] \in {"weigh", "allocate", "mint", "report"}
                  /\ Funded(later[i][2]) /\ <<"create", later[i][2]>> \in ToSet(create)
    <3> DEFINE e == later[i]
    <3>1. e \in ToSet(later)
      BY <2>2, AtPlace
    <3>2. e = <<"weigh", next>> \/ e = <<"deposit", FirstDeposit>> \/ e = <<"allocate", next>>
      BY <1>5, <1>8, <1>9, <1>11, <1>13, <2>2, <3>1
    <3> HIDE DEF e
    <3>3. \/ e[1] = "deposit"
          \/ e[1] \in {"weigh", "allocate", "mint", "report"} /\ e[2] = next
      BY <3>2
    <3>4. <<"create", next>> \in ToSet(create)
      BY <1>7
    <3> QED BY <1>3, <3>3, <3>4 DEF e
  <2>4. Only(create, {"deposit", "create"})
    BY <1>7 DEF Only
  <2> QED BY <1>7, <2>1, <2>2, <2>3, <2>4, ReadyAfter
<1>14. ASSUME calm PROVE Planned(todo)
  <2>1. ASSUME NEW op \in {"create", "weigh", "allocate"}, NEW s \in Pending(todo, op)
        PROVE  s = next /\ (op = "weigh" => b)
    <3> DEFINE e == <<op, s>>
    <3>1. e \in ToSet(todo) /\ e[1] = op /\ e[2] = s
      BY DEF Pending
    <3> HIDE DEF e
    <3>2. \/ e = <<"create", next>>
          \/ b /\ e = <<"weigh", next>>
          \/ e = <<"deposit", FirstDeposit>>
          \/ e = <<"allocate", next>>
      BY <1>5, <1>7, <1>8, <1>9, <1>10, <1>11, <1>12, <1>14, <3>1
    <3> QED BY <3>1, <3>2
  <2>2. /\ \A s \in Pending(todo, "create") : ~Created(s)
        /\ \A s \in Pending(todo, "weigh") : weight[s] = 0
    BY <1>2, <1>3, <2>1
  <2> DEFINE n == Cardinality(Pending(todo, "weigh"))
             m == Cardinality(Pending(todo, "allocate"))
  <2>3. n \in {0, 1} /\ (n = 1 => b)
    <3>1. Pending(todo, "weigh") \in {{}, {next}} /\ (~b => Pending(todo, "weigh") = {})
      BY <2>1
    <3> QED BY <3>1, FS_EmptySet, FS_Singleton
  <2>4. Allocation * m <= FirstDeposit /\ m \in Nat
    <3>1. Pending(todo, "allocate") \in SUBSET Strategies
      BY DEF Pending
    <3> QED BY <3>1, PlansFit
  <2> HIDE DEF n, m
  <2>5. <<"deposit", FirstDeposit>> \in ToSet(todo)
    BY <1>5, <1>11, <1>12, <1>14
  <2>6. totalWeight + PlannedWeight * n <= BPS
    <3>1. BPS \in Nat /\ PlannedWeight \in Nat
      BY Constants, AmountTypes
    <3> QED BY <1>3, <1>14, <2>3, <3>1
  <2>7. Allocation * m <= reserve + FirstDeposit
    BY <1>3, <2>4, ProductNat, DeskConstants
  <2> QED BY <1>12, <1>14, <2>2, <2>5, <2>6, <2>7 DEF Planned, n, m
<1> HIDE DEF todo
<1>15. /\ DOMAIN j = JobFields /\ j.kind = "agent_setup" /\ j.todo = todo /\ j.calm = calm
       /\ j.amount = 0
  BY DEF Idle, JobFields
<1> HIDE DEF j
<1>16. j.calm => Sound(j)
  <2> SUFFICES ASSUME calm PROVE Sound(j)
    BY <1>15
  <2>1. ~paused
    BY DEF Unpaused
  <2>2. /\ Planned(j.todo) /\ Only(j.todo, OpsOf(j.kind)) /\ j.todo \in Seq(Steps)
        /\ \A i \in 1..Len(j.todo) : Ready(j.todo, i)
    BY <1>12, <1>13, <1>14, <1>15
  <2>3. j.kind \in Setups /\ j.amount \in Nat /\ j.kind # "setup"
    BY <1>15 DEF Setups
  <2> QED BY <2>1, <2>2, <2>3, PlanIsSound
<1> HIDE DEF calm
<1> QED BY <1>1, <1>15, <1>16, StartsSound

\* A plan, and the yield after it.
LEMMA PlanThenYield ==
  ASSUME Inv, NeverCreatedIsEmpty, NEW c \in Clients, NEW f \in Seq(Steps),
         NEW g \in Seq(Steps), NEW steps, steps = f \o g, SetUp(c, steps),
         EachOnce(f), Affordable(f), Only(f, {"weigh", "allocate", "mint", "report"}),
         \A x \in ToSet(f) : x[1] \in {"weigh", "allocate"},
         Only(g, {"mint", "report"})
  PROVE  BegunSound(c)
<1>1. EachOnce(g) /\ Affordable(g) /\ \A x \in ToSet(g) : x[1] \in {"mint", "report"}
  BY PlanFree
<1>2. \A x \in ToSet(f) : x[1] \in Once => x \notin ToSet(g)
  BY <1>1
<1>3. /\ Only(g, (Once \ {"deposit"}) \cup {"mint", "report"})
      /\ Only(g, {"weigh", "allocate", "mint", "report"})
  BY DEF Only
<1>4. /\ steps \in Seq(Steps) /\ EachOnce(steps) /\ Affordable(steps)
      /\ Only(steps, {"weigh", "allocate", "mint", "report"})
  BY <1>1, <1>2, <1>3, PlanConcat
<1> QED BY <1>4, SetUpBegins

\* Whatever a script starts, it starts sound.
LEMMA ScriptBeginsSound ==
  ASSUME DeskInv, NeverCreatedIsEmpty, NEW c \in Scripts, ScriptNext(c)
  PROVE  BegunSound(c)
<1>1. c \in Clients /\ Inv
  BY DeskConstants DEF DeskInv
<1> DEFINE order == ById(Strategies)
<1>2. /\ order \in Seq(Strategies)
      /\ \A op \in OnStrategy : /\ Each(op, order) \in Seq(Steps) /\ EachOnce(Each(op, order))
                                /\ Affordable(Each(op, order))
                                /\ \A ops : op \in ops => Only(Each(op, order), ops)
                                /\ \A x \in ToSet(Each(op, order)) : x[1] = op
  <2>1. order \in Seq(Strategies)
    BY ByIdFacts
  <2>2. Strategies \in SUBSET Strategies
    OBVIOUS
  <2> HIDE DEF order
  <2>3. ASSUME NEW op \in OnStrategy
        PROVE  /\ Each(op, order) \in Seq(Steps) /\ EachOnce(Each(op, order))
               /\ Affordable(Each(op, order))
               /\ \A ops : op \in ops => Only(Each(op, order), ops)
               /\ \A x \in ToSet(Each(op, order)) : x[1] = op
    BY <2>2, PlanEach DEF order
  <2> QED BY <2>1, <2>3
<1> HIDE DEF order
<1>3. ASSUME NEW b \in BOOLEAN, StartCrank(c, b) PROVE BegunSound(c)
  BY <1>1, <1>3, CrankBegins
<1>4. ASSUME NEW b \in BOOLEAN, StartSimulate(c, b) PROVE BegunSound(c)
  <2>1. HandOut(c, b, ById(Strategies), <<>>) /\ Strategies \in SUBSET Strategies
    BY <1>4 DEF StartSimulate
  <2> QED BY <1>1, <2>1, HandOutBegins
<1>5. ASSUME NEW b \in BOOLEAN, StartMintAll(c, b) PROVE BegunSound(c)
  <2> DEFINE S == {s \in Strategies : Created(s)}
             last == IF b THEN <<<<"verify", 0>>>> ELSE <<>>
  <2>1. HandOut(c, b, ById(S), last)
    BY <1>5 DEF StartMintAll
  <2>2. S \in SUBSET Strategies /\ last \in {<<>>, <<<<"verify", 0>>>>} /\ (b \/ last = <<>>)
    OBVIOUS
  <2> HIDE DEF S, last
  <2> QED BY <1>1, <2>1, <2>2, HandOutBegins
<1>6. ASSUME NEW b \in BOOLEAN, StartAgentSetup(c, b) PROVE BegunSound(c)
  BY <1>1, <1>6, AgentSetupBegins
<1>7. CASE StartSeed(c)
  <2> DEFINE targets == {s \in Strategies : Created(s)}
             todo == <<<<"topup", FixedYield * Cardinality(targets)>>>> \o Each("fund", ById(targets))
             j == [Idle EXCEPT !.kind = "seed", !.amount = FixedYield, !.todo = todo]
  <2>1. Start(c, j)
    BY <1>7 DEF StartSeed
  <2> HIDE DEF todo
  <2>2. DOMAIN j = JobFields /\ j.kind = "seed"
    BY DEF Idle, JobFields
  <2> HIDE DEF j
  <2> QED BY <1>1, <2>1, <2>2, OthersBeginSound DEF YieldKinds
<1>8. CASE StartFaucet(c)
  <2> DEFINE todo == <<<<"handover", 0>>, <<"register", 0>>>>
             j == [Idle EXCEPT !.kind = "faucet", !.todo = todo]
  <2>1. Start(c, j)
    BY <1>8 DEF StartFaucet
  <2> HIDE DEF todo
  <2>2. DOMAIN j = JobFields /\ j.kind = "faucet"
    BY DEF Idle, JobFields
  <2> HIDE DEF j
  <2> QED BY <1>1, <2>1, <2>2, OthersBeginSound DEF YieldKinds
<1>9. CASE StartSetup(c)
  <2> DEFINE allocates == Each("allocate", order)
             send == Each("mint", order) \o Each("report", order)
             steps == Each("allocate", order) \o Each("mint", order) \o Each("report", order)
  <2>1. /\ allocates \in Seq(Steps) /\ Each("mint", order) \in Seq(Steps)
        /\ Each("report", order) \in Seq(Steps)
    BY <1>2 DEF OnStrategy
  <2>2. steps = allocates \o send
    BY <2>1, ConcatAssociative
  <2>3. SetUp(c, steps)
    BY <1>9 DEF StartSetup, order
  <2>4. send \in Seq(Steps) /\ Only(send, {"mint", "report"})
    <3>1. send \in Seq(Steps) /\ Reporting(send, {"mint", "report"})
      BY <1>2, MintsThenReports
    <3> QED BY <3>1 DEF Only, Reporting
  <2>5. /\ EachOnce(allocates) /\ Affordable(allocates)
        /\ Only(allocates, {"weigh", "allocate", "mint", "report"})
        /\ \A x \in ToSet(allocates) : x[1] = "allocate"
    BY <1>2 DEF OnStrategy
  <2> HIDE DEF steps, send, allocates
  <2> QED BY <1>1, <2>1, <2>2, <2>3, <2>4, <2>5, PlanThenYield
<1>10. CASE StartMultiSetup(c)
  <2> DEFINE pairs == [k \in 1..(2 * Len(order)) |->
                         IF k % 2 = 1 THEN <<"mint", order[(k + 1) \div 2]>>
                         ELSE <<"report", order[k \div 2]>>]
             weighs == Each("weigh", order)
             allocates == Each("allocate", order)
             begin == weighs \o allocates
             steps == begin \o pairs
  <2>1. SetUp(c, steps)
    BY <1>10 DEF StartMultiSetup, order
  <2>2. pairs \in Seq(Steps) /\ Only(pairs, {"mint", "report"})
    <3> DEFINE ops == {"mint", "report"}
    <3>1. "mint" \in ops /\ "report" \in ops
      OBVIOUS
    <3> HIDE DEF ops
    <3>2. pairs \in Seq(Steps) /\ Reporting(pairs, ops)
      BY <1>2, <3>1, MintsAndReports
    <3> HIDE DEF pairs
    <3> QED BY <3>2 DEF Only, Reporting, ops
  <2>3. /\ weighs \in Seq(Steps) /\ EachOnce(weighs) /\ Affordable(weighs)
        /\ Only(weighs, {"weigh", "allocate", "mint", "report"}) /\ Only(weighs, Once \ {"allocate"})
        /\ \A x \in ToSet(weighs) : x[1] = "weigh"
    BY <1>2 DEF OnStrategy, Once
  <2>4. /\ allocates \in Seq(Steps) /\ EachOnce(allocates) /\ Affordable(allocates)
        /\ Only(allocates, {"weigh", "allocate", "mint", "report"})
        /\ \A x \in ToSet(allocates) : x[1] = "allocate"
    BY <1>2 DEF OnStrategy
  <2> HIDE DEF pairs, weighs, allocates
  <2>5. /\ begin \in Seq(Steps) /\ EachOnce(begin) /\ Affordable(begin)
        /\ Only(begin, {"weigh", "allocate", "mint", "report"})
    <3>1. \A x \in ToSet(weighs) : x \notin ToSet(allocates)
      BY <2>3, <2>4
    <3> QED BY <2>3, <2>4, <3>1, PlanConcat
  <2>6. \A x \in ToSet(begin) : x[1] \in {"weigh", "allocate"}
    BY <2>3, <2>4, Concatenated
  <2> HIDE DEF begin, steps
  <2>7. steps = begin \o pairs
    BY DEF steps
  <2> QED BY <1>1, <2>1, <2>2, <2>5, <2>6, <2>7, PlanThenYield
<1> QED BY <1>3, <1>4, <1>5, <1>6, <1>7, <1>8, <1>9, <1>10 DEF ScriptNext

-----------------------------------------------------------------------------
(***************************************************************************)
(* Every step of the whole.                                                *)
(***************************************************************************)
\* What is known of a client's job is true of the next state.
StaysSound(d) ==
  \A k : k = job'[d] /\ k.kind \in YieldKinds /\ k.calm =>
    /\ k.state # "idle"
    /\ k.state = "running" => Sound(k)'
    /\ k.state = "refused" => Exhausted(d)'

\* An overtaken job keeps the figures that are not in its steps.
LEMMA OvertakenKeeps ==
  ASSUME NEW c, NEW j, JobFor(c, j), NEW crank, Overtaken(j, crank).kind \in YieldKinds
  PROVE  Overtaken(j, crank).amount = j.amount /\ Overtaken(j, crank).before = j.before
<1>1. DOMAIN j = JobFields
  BY DEF JobFor, JobOK
<1>2. Overtaken(j, crank) # Idle
  BY DEF Idle, YieldKinds
<1>3. Overtaken(j, crank) = [j EXCEPT !.calm = @ /\ crank /\ j.kind = "crank"]
  BY <1>2 DEF Overtaken
<1> QED BY <1>1, <1>3 DEF JobFields

\* A job that is as it was, in a state that is as it was.
LEMMA StillSound ==
  ASSUME SoundInv, UNCHANGED <<vars, purse, faucet>>, NEW d \in Clients, job'[d] = job[d]
  PROVE  StaysSound(d)
<1> SUFFICES ASSUME NEW k, k = job'[d], k.kind \in YieldKinds, k.calm
             PROVE  /\ k.state # "idle"
                    /\ k.state = "running" => Sound(k)'
                    /\ k.state = "refused" => Exhausted(d)'
  BY DEF StaysSound
<1>1. /\ k.state # "idle"
      /\ k.state = "running" => Sound(k)
      /\ k.state = "refused" => Exhausted(d)
  BY DEF SoundInv
<1>2. k.state = "running" => Sound(k)'
  BY <1>1, SoundQuiet
<1>3. k.state = "refused" => Exhausted(d)'
  BY <1>1, ExhaustedStays
<1> QED BY <1>1, <1>2, <1>3

\* One job changes and nothing else does.
LEMMA AloneSound ==
  ASSUME JobsOK, SoundInv, NEW c \in Clients, UNCHANGED <<vars, purse, faucet>>,
         NEW j, job' = [job EXCEPT ![c] = j],
         j.kind \in YieldKinds /\ j.calm =>
           j.state \in {"done", "running"} /\ (j.state = "running" => Sound(j))
  PROVE  SoundInv'
<1>1. /\ DOMAIN job = Clients /\ job'[c] = j /\ \A d \in Clients \ {c} : job'[d] = job[d]
  BY DEF JobsOK
<1>2. StaysSound(c)
  <2> SUFFICES ASSUME j.kind \in YieldKinds, j.calm
               PROVE  /\ j.state # "idle"
                      /\ j.state = "running" => Sound(j)'
                      /\ j.state = "refused" => Exhausted(c)'
    BY <1>1 DEF StaysSound
  <2>1. j.state = "running" => Sound(j)'
    BY SoundQuiet
  <2> QED BY <2>1
<1>3. \A d \in Clients \ {c} : StaysSound(d)
  BY <1>1, StillSound
<1> QED BY <1>2, <1>3 DEF SoundInv, StaysSound

\* A job breaks off: a crank takes the others' calm with it.
LEMMA BrokenSound ==
  ASSUME JobsOK, SoundInv, NEW c \in Clients, NEW mine, BrokenOff(c, mine), StaysSound(c)
  PROVE  SoundInv'
<1>1. /\ DOMAIN job' = Clients /\ UNCHANGED <<vars, purse, faucet>>
      /\ \A d \in Clients \ {c} :
           \/ job'[d] = job[d]
           \/ job'[d] = [job[d] EXCEPT !.calm = FALSE]
  BY DEF BrokenOff, BreaksOff, besideVars
<1>2. \A d \in Clients \ {c} : StaysSound(d)
  <2> SUFFICES ASSUME NEW d \in Clients \ {c} PROVE StaysSound(d)
    OBVIOUS
  <2>1. CASE job'[d] = job[d]
    BY <1>1, <2>1, StillSound
  <2>2. CASE job'[d] = [job[d] EXCEPT !.calm = FALSE]
    <3>1. job'[d].calm = FALSE
      BY <2>2, UncalmedFacts DEF JobsOK
    <3> QED BY <3>1 DEF StaysSound
  <2> QED BY <1>1, <2>1, <2>2
<1> QED BY <1>2 DEF SoundInv, StaysSound

\* A transaction lands: it leaves its job sound, and the cranks it may run over.
LEMMA LandedSound ==
  ASSUME DeskInv, YieldInv, SoundInv, NEW c \in Clients, Running(c),
         job[c].kind \in YieldKinds, NEW op, NEW of, Head(job[c].todo) = <<op, of>>,
         op \notin {"look", "tip", "drop", "verify"},
         op \in OnStrategy => of \in Strategies, op \in OnAmount => of \in Nat,
         Accepted(op, of, job[c].amount), Landed(c)
  PROVE  SoundInv'
<1> DEFINE mine == Continue(c, <<>>)
           crank == job[c].kind = "crank" /\ faucet = "payer"
           first == <<op, of>>
           old == job[c]
<1>1. /\ job'[c] = mine /\ \A d \in Clients \ {c} : job'[d] = Overtaken(job[d], crank)
  BY DEF Landed, OnClient
<1>2. JobsOK /\ Inv /\ JobFor(c, old) /\ Shape(c, old) /\ old.amount \in Int /\ old.state = "running"
      /\ old.todo # <<>>
  BY DEF DeskInv, JobsOK, JobFor, JobOK, YieldInv, Running
<1>3. Gentle(first)
  BY <1>2, AcceptedIsGentle
<1>4. StaysSound(c)
  <2> SUFFICES ASSUME NEW k, k = job'[c], k.kind \in YieldKinds, k.calm
               PROVE  /\ k.state # "idle"
                      /\ k.state = "running" => Sound(k)'
                      /\ k.state = "refused" => Exhausted(c)'
    BY DEF StaysSound
  <2>1. /\ <<>> \in Seq(Steps) /\ <<>> \o Tail(old.todo) = Tail(old.todo)
        /\ old.todo \in Seq(Steps) /\ old.served \in SUBSET Strategies
    <3>1. old.todo \in Seq(Steps) /\ old.served \in SUBSET Strategies
      BY <1>2 DEF JobFor, JobOK, StepsOf, YieldKinds, Shape
    <3>2. Tail(old.todo) \in Seq(Steps)
      BY <1>2, <3>1, HeadTailProperties
    <3> QED BY <3>1, <3>2, ConcatEmptySeq, EmptySeq
  <2>2. k = mine
    BY <1>1
  <2>3. /\ k.kind = old.kind /\ k.todo = Tail(old.todo)
        /\ k.before = old.before /\ k.amount = old.amount /\ k.served = old.served
        /\ k.state \in {"done", "running"}
    <3>1. /\ mine.kind = old.kind /\ mine.todo = Tail(old.todo)
          /\ mine.before = old.before /\ mine.amount = old.amount
          /\ mine.served = old.served /\ mine.state \in {"done", "running"}
      BY <1>2, <2>1, GoingOn
    <3> QED BY <2>2, <3>1
  <2>4. k.calm = old.calm
    BY <1>2, <2>2 DEF Continue, JobFor, JobOK, JobFields
  <2>5. Sound(old)
    BY <1>2, <2>4 DEF SoundInv
  <2>6. old.kind \in YieldKinds /\ Accepted(op, of, old.amount) /\ Head(old.todo) = <<op, of>>
    OBVIOUS
  <2> HIDE DEF old
  <2>7. Sound(k)'
    BY <1>2, <2>1, <2>3, <2>5, <2>6, SoundSends
  <2> QED BY <2>3, <2>7
<1>5. \A d \in Clients \ {c} : StaysSound(d)
  <2> SUFFICES ASSUME NEW d \in Clients \ {c}, NEW k, k = job'[d], k.kind \in YieldKinds, k.calm
               PROVE  /\ k.state # "idle"
                      /\ k.state = "running" => Sound(k)'
                      /\ k.state = "refused" => Exhausted(d)'
    BY DEF StaysSound
  <2> DEFINE was == job[d]
  <2>1. k = Overtaken(was, crank) /\ JobFor(d, was)
    BY <1>1, <1>2 DEF JobsOK
  <2> HIDE DEF crank
  <2>2. /\ was.state = "running" /\ k.state = "running" /\ k.kind = was.kind
        /\ k.todo = was.todo /\ k.served = was.served /\ was.calm /\ k.kind = "crank"
    BY <2>1, OvertakenServes
  <2>3. k.amount = was.amount /\ k.before = was.before
    BY <2>1, OvertakenKeeps
  <2>4. Sound(was)
    BY <2>2 DEF SoundInv
  <2>5. Sound(k) /\ k.todo \in Seq(Steps)
    <3>1. k.todo \in Seq(Steps)
      BY <2>1, <2>2 DEF JobFor, JobOK, StepsOf
    <3> HIDE DEF was
    <3>2. Sound(k)
      BY <2>2, <2>3, <2>4, SameSound
    <3> QED BY <3>1, <3>2
  <2> HIDE DEF first
  <2>6. Sound(k)'
    BY <1>3, <2>2, <2>5, CrankKeeps
  <2> QED BY <2>2, <2>6
<1> QED BY <1>4, <1>5 DEF SoundInv, StaysSound

\* What is known of the jobs that stay calm stays true.
LEMMA SoundStep ==
  ASSUME DeskInv, YieldInv, SoundInv, [DeskNext]_deskVars
  PROVE  SoundInv'
<1>1. /\ JobsOK /\ NeverCreatedIsEmpty /\ DOMAIN job = Clients
      /\ Tabs \subseteq Clients /\ Scripts \subseteq Clients /\ Tabs \cap Scripts = {}
      /\ UNCHANGED besideVars => UNCHANGED <<purse, faucet>>
  BY DeskConstants, DeskAssumption DEF DeskInv, YieldInv, JobsOK, besideVars
<1>2. ASSUME UNCHANGED <<vars, purse, faucet, job>> PROVE SoundInv'
  <2>1. \A d \in Clients : StaysSound(d)
    BY <1>2, StillSound
  <2> QED BY <2>1 DEF SoundInv, StaysSound
<1>3. ASSUME NEW c \in Clients, UNCHANGED <<vars, besideVars>>,
             NEW j, job' = [job EXCEPT ![c] = j],
             j.kind \in YieldKinds /\ j.calm =>
               j.state \in {"done", "running"} /\ (j.state = "running" => Sound(j))
      PROVE  SoundInv'
  BY <1>1, <1>3, AloneSound
<1>4. ASSUME NEW c \in Clients, Begun(c), UNCHANGED <<vars, besideVars>>, c \in Tabs
      PROVE  SoundInv'
  <2>1. PICK j : job' = [job EXCEPT ![c] = j] /\ Shape(c, j)
    BY <1>4 DEF Begun
  <2>2. j.kind \notin YieldKinds
    BY <1>1, <1>4, <2>1 DEF Shape
  <2> QED BY <1>3, <1>4, <2>1, <2>2
<1>5. ASSUME NEW c \in Scripts, ScriptNext(c) PROVE SoundInv'
  <2>1. BegunSound(c)
    BY <1>1, <1>5, ScriptBeginsSound
  <2>2. PICK j : /\ job' = [job EXCEPT ![c] = j] /\ j.state = "running"
                 /\ j.kind \in YieldKinds /\ j.calm => Sound(j)
    BY <2>1 DEF BegunSound
  <2>3. UNCHANGED <<vars, besideVars>> /\ c \in Clients
    BY <1>1, <2>1 DEF BegunSound
  <2> QED BY <1>3, <2>2, <2>3
<1>6. ASSUME NEW c \in Clients, Running(c), job[c].kind \in YieldKinds, Advance(c)
      PROVE  SoundInv' \/ (BrokenOff(c, Refused(c)) /\ StaysSound(c))
  <2> DEFINE op == Head(job[c].todo)[1]
             of == Head(job[c].todo)[2]
  <2>1. Shape(c, job[c]) /\ (job[c].calm => Sound(job[c])) /\ job'[c].calm = job[c].calm
    BY <1>6, AdvanceKeepsKind DEF YieldInv, SoundInv, Running
  <2>2. CASE op \in {"look", "tip", "drop", "verify"}
    <3>1. \/ op = "look" /\ LookAt(c, of)
          \/ op = "tip" /\ Tip(c, of, TRUE)
          \/ op = "drop" /\ Tip(c, of, FALSE)
          \/ op = "verify" /\ Verify(c)
      BY <1>6, <2>2 DEF Advance
    <3>2. CASE job[c].calm
      <4>1. /\ \E j : /\ job' = [job EXCEPT ![c] = j]
                      /\ j.state \in {"done", "running"}
                      /\ j.state = "running" => Sound(j)
            /\ UNCHANGED <<vars, besideVars, screen>>
        BY <1>6, <2>1, <3>1, <3>2, SoundReads
      <4>2. PICK j : /\ job' = [job EXCEPT ![c] = j]
                     /\ j.state \in {"done", "running"}
                     /\ j.state = "running" => Sound(j)
        BY <4>1
      <4> QED BY <1>3, <4>1, <4>2
    <3>3. CASE ~job[c].calm
      <4>1. /\ \E j : Goes(c, j) /\ job' = [job EXCEPT ![c] = j]
            /\ UNCHANGED <<vars, besideVars, screen>>
        BY <1>6, <2>1, <3>1, RoundReads
      <4>2. PICK j : job' = [job EXCEPT ![c] = j]
        BY <4>1
      <4>3. ~j.calm
        BY <1>1, <2>1, <3>3, <4>2
      <4> QED BY <1>3, <4>1, <4>2, <4>3
    <3> QED BY <3>2, <3>3
  <2>3. CASE op \notin {"look", "tip", "drop", "verify"}
    <3>1. /\ Head(job[c].todo) = <<op, of>>
          /\ op \in {"topup", "fund", "mint", "report", "accrue", "deposit", "create",
                     "weigh", "allocate"}
          /\ op \in OnStrategy => of \in Strategies
          /\ op \in OnAmount => of \in Nat
          /\ \/ Landed(c) /\ Accepted(op, of, job[c].amount)
             \/ BrokenOff(c, Refused(c)) /\ Rejected(op, of, job[c].amount)
      BY <1>6, <2>1, <2>3, NextSent
    <3> HIDE DEF op, of
    <3>2. CASE Landed(c) /\ Accepted(op, of, job[c].amount)
      BY <1>6, <2>3, <3>1, <3>2, LandedSound
    <3>3. CASE BrokenOff(c, Refused(c)) /\ Rejected(op, of, job[c].amount)
      <4> DEFINE mine == Refused(c)
      <4>1. job'[c] = mine /\ UNCHANGED <<vars, purse>>
        BY <1>1, <3>3 DEF BrokenOff, BreaksOff
      <4>2. /\ mine.state = "refused" /\ mine.kind = job[c].kind /\ mine.calm = job[c].calm
            /\ mine.amount = job[c].amount
        BY <1>1, RefusedFacts
      <4> HIDE DEF mine
      <4>3. job[c].calm => Exhausted(c)
        BY <1>6, <2>1, <3>1, <3>3, RefusedIsExhausted
      <4>4. job[c].calm => Exhausted(c)'
        BY <4>1, <4>2, <4>3, ExhaustedStays
      <4>5. StaysSound(c)
        BY <4>1, <4>2, <4>4 DEF StaysSound
      <4> QED BY <3>3, <4>5
    <3> QED BY <3>1, <3>2, <3>3
  <2> QED BY <2>2, <2>3
<1>7. ASSUME NEW c \in Clients, BrokenOff(c, Idle) PROVE SoundInv'
  <2>1. StaysSound(c)
    BY <1>7 DEF StaysSound, BrokenOff, BreaksOff, Idle, YieldKinds
  <2> QED BY <1>1, <1>7, <2>1, BrokenSound
<1>8. ASSUME NEW c \in Clients, BrokenOff(c, Refused(c)), Advance(c) PROVE SoundInv'
  <2>1. CASE job[c].kind \in YieldKinds
    BY <1>1, <1>6, <1>8, <2>1, BrokenSound DEF Advance
  <2>2. CASE job[c].kind \notin YieldKinds
    <3>1. job'[c] = Refused(c) /\ Refused(c).kind = job[c].kind
      BY <1>1, <1>8, RefusedFacts DEF BrokenOff, BreaksOff
    <3>2. StaysSound(c)
      BY <2>2, <3>1 DEF StaysSound
    <3> QED BY <1>1, <1>8, <3>2, BrokenSound
  <2> QED BY <2>1, <2>2
<1>9. ASSUME NEW c \in Clients, Apart(c), UNCHANGED <<vars, besideVars>> PROVE SoundInv'
  <2>1. PICK j : j.kind \notin YieldKinds /\ job' = [job EXCEPT ![c] = j]
    BY <1>9 DEF Apart
  <2> QED BY <1>3, <1>9, <2>1
<1>10. ASSUME Stirred PROVE SoundInv'
  <2>1. \A d \in Clients : StaysSound(d)
    BY <1>10 DEF Stirred, StaysSound
  <2> QED BY <2>1 DEF SoundInv, StaysSound
<1>11. CASE UNCHANGED deskVars
  BY <1>1, <1>2, <1>11 DEF deskVars
<1>12. CASE DeskNext
  <2>1. CASE \E c \in Clients : /\ Begun(c) /\ UNCHANGED <<vars, besideVars>>
                                /\ c \in Tabs \/ (c \in Scripts /\ ScriptNext(c))
    BY <1>4, <1>5, <2>1
  <2>2. CASE \E c \in Clients : Running(c) /\ job[c].kind \in YieldKinds /\ Advance(c)
    <3>1. PICK c \in Clients : Running(c) /\ job[c].kind \in YieldKinds /\ Advance(c)
      BY <2>2
    <3> QED BY <1>6, <1>8, <3>1
  <2>3. CASE \/ \E c \in Clients : BrokenOff(c, Idle)
             \/ \E c \in Clients : BrokenOff(c, Refused(c)) /\ Advance(c)
             \/ \E c \in Clients : Apart(c) /\ UNCHANGED <<vars, besideVars>>
             \/ Stirred
             \/ UNCHANGED <<vars, purse, faucet, job>>
    BY <1>2, <1>7, <1>8, <1>9, <1>10, <2>3
  <2> QED BY <1>12, <2>1, <2>2, <2>3, YieldStepCases
<1> QED BY <1>11, <1>12

\* What is known of the jobs that stay calm.
LEMMA SoundFollowed == DeskSpec => []SoundInv
<1>1. DeskInit => SoundInv
  <2> SUFFICES ASSUME DeskInit PROVE SoundInv
    OBVIOUS
  <2>1. \A c \in Clients : job[c].kind = "none"
    BY DEF DeskInit, Idle
  <2> QED BY <2>1 DEF SoundInv, YieldKinds
<1>2. DeskInv /\ YieldInv /\ SoundInv /\ [DeskNext]_deskVars => SoundInv'
  BY SoundStep
<1> QED BY <1>1, <1>2, YieldFollowed, DeskInvariant, PTL DEF DeskSpec

\* What a crank, a script that hands out yield or a setup has served is in the
\* books once its job is over and nobody came between but cranks that were not
\* broken off, or a run of a script still has its report to send; and such a job
\* is refused only if a limit of the ledger or the operator's purse is reached:
\* whatever the number of strategies, scripts and crashes.
THEOREM YieldGetsBooked == DeskSpec => []YieldIsBooked
<1>1. DeskInv /\ YieldInv /\ SoundInv => YieldIsBooked
  <2> SUFFICES ASSUME DeskInv, YieldInv, SoundInv, NEW c \in Scripts, HandedOut(c)
               PROVE  IF job[c].state = "done"
                      THEN \A s \in job[c].served :
                             \/ ata[s] = allocated[s]
                             \/ \E d \in Scripts : <<"report", s>> \in ToSet(job[d].todo)
                      ELSE Exhausted(c)
    BY DEF YieldIsBooked
  <2>1. c \in Clients /\ job[c].kind \in YieldKinds /\ job[c].calm /\ Kept(c)
    BY DeskConstants DEF HandedOut, Ended, YieldInv, YieldKinds
  <2>2. ASSUME job[c].state = "done", NEW s \in job[c].served
        PROVE  \/ ata[s] = allocated[s]
               \/ \E d \in Scripts : <<"report", s>> \in ToSet(job[d].todo)
    <3>1. InStep(s) \/ ToReport(c, s)
      BY <2>1, <2>2 DEF Kept
    <3>2. ASSUME ToReport(c, s)
          PROVE  \E d \in Scripts : <<"report", s>> \in ToSet(job[d].todo)
      <4>1. PICK d \in Clients : Ahead(job[d], s) /\ (d = c \/ BothCranks(c, d))
        BY <3>2 DEF ToReport
      <4>2. d \in Scripts
        BY <2>1, <4>1 DEF BothCranks, YieldInv, Shape, YieldKinds
      <4> QED BY <4>1, <4>2 DEF Ahead
    <3> QED BY <3>1, <3>2 DEF InStep
  <2>3. ASSUME job[c].state # "done" PROVE Exhausted(c)
    <3>1. job[c].state \in {"idle", "done", "refused"}
      BY <2>1 DEF HandedOut, Ended, Running, DeskInv, JobsOK, JobFor, JobOK
    <3> QED BY <2>1, <2>3, <3>1 DEF SoundInv
  <2> QED BY <2>2, <2>3
<1> QED BY <1>1, YieldFollowed, SoundFollowed, DeskInvariant, PTL
=============================================================================
