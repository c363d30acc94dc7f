---------------------------- MODULE KaminoLooper ----------------------------
(***************************************************************************)
(* The leveraged-lending agent (agent/kamino_looper) on top of the lending *)
(* market.  Every few minutes it reads its strategy's position, decides to *)
(* open a loop, to close it or to hold, and carries the decision out as a  *)
(* sequence of transactions, each awaited before the next is sent.  It     *)
(* keeps nothing between cycles: a step that fails, or a restart, leaves   *)
(* the rest to whatever the next cycle reads from the chain.               *)
(*                                                                         *)
(* The strategy is the participant Looper of MockKamino; cash[Looper] is   *)
(* its token account, which the vault funds and recalls.  A transaction is *)
(* one market instruction; the gateway that forwards it (execute_action)   *)
(* adds refusals only, which TxLost stands for.  A transaction that is not *)
(* confirmed lands at once or never: it expires before the next cycle.     *)
(***************************************************************************)
EXTENDS MockKamino, Sequences

CONSTANTS
  Looper,           \* the owner whose signer the agent commands
  Seed,             \* liquidity the other participants lent beforehand
  Percent,          \* 100: the scale of the ratios below
  TargetLeverage,   \* the configured leverage, 250 for 2.5x
  HFFloor,          \* INTERMEDIATE_HF_FLOOR, 110 for 1.10
  HFWarning,        \* config.hfWarning, 130 for 1.3
  MinIdle,          \* minIdleToOpen
  MaxEvents,        \* bound on what others and the operator do
  MaxFaults         \* bound on lost transactions and failed reads

ASSUME LooperAssumption ==
  /\ Looper \in Owners
  /\ Seed \in 0..MaxU64 /\ MinIdle \in Nat \ {0}
  /\ Percent \in Nat \ {0} /\ TargetLeverage \in Nat /\ TargetLeverage > Percent
  /\ HFFloor \in Nat \ {0} /\ HFWarning \in Nat \ {0}
  /\ MaxEvents \in Nat /\ MaxFaults \in Nat
\* The agent's floor is above the market's minimum and less than twice it; the
\* least balance it opens a loop with is more than one token, and so is its loan.
ASSUME FloorAssumption ==
  /\ HFMin * Percent <= BPS * HFFloor /\ BPS * HFFloor <= 2 * (HFMin * Percent)
  /\ MinIdle >= 2
  /\ MinIdle * (TargetLeverage - Percent) >= Percent /\ MinIdle * Percent >= HFFloor

VARIABLES
  plan,             \* the transactions of this cycle still to be sent
  unwinding,        \* those of the operator's unwind script
  qualifies,        \* a loop clears minLoopNetApyPct under the configured APYs
  book,             \* Strategy.allocated_amount
  recalled,         \* history: tokens the vault took back during a loan
  crossed,          \* history: agent and script have had transactions to send
                    \* at the same time
  events, faults    \* history: how often others acted, how often a step failed

looperVars ==
  <<marketVars, plan, unwinding, qualifies, book, recalled, crossed, events, faults>>

Tx(do, amount) == [do |-> do, amount |-> amount]

\* The vault has its funds in reserve, the others have lent Seed.
LooperInit ==
  \E lender \in Owners \ {Looper} :
    /\ liquid = Seed /\ totalLiquidity = Seed /\ totalCollateral = Seed
    /\ totalBorrowed = 0
    /\ cTokens = [o \in Owners |-> IF o = lender THEN Seed ELSE 0]
    /\ cash = [o \in Owners |-> IF o = Looper THEN 0 ELSE Endowment]
    /\ opened = Owners
    /\ debt = [o \in Owners |-> 0]
    /\ gifts = 0 /\ burnt = 0
    /\ plan = <<>> /\ unwinding = <<>> /\ crossed = FALSE /\ qualifies \in BOOLEAN
    /\ book = 0 /\ recalled = 0 /\ events = 0 /\ faults = 0

-----------------------------------------------------------------------------
(***************************************************************************)
(* The decision of a cycle, from what was read of the chain.               *)
(***************************************************************************)

\* fetchSuppliedLiquidity: the value of the cTokens read.
Supplied(held) ==
  IF held = 0 \/ totalCollateral = 0 \/ totalLiquidity = 0 THEN 0
  ELSE (held * totalLiquidity) \div totalCollateral

\* healthFactor < hfWarning, multiplied out.
Critical(supplied, borrowed) ==
  borrowed > 0 /\ supplied * Percent < HFWarning * borrowed

\* Mutant: a stranded deposit is held like a loop.
MustCloseButOrphans(supplied, borrowed) ==
  \/ Critical(supplied, borrowed)
  \/ ~qualifies /\ (supplied > 0 \/ borrowed > 0)
\* Mutant: the health factor is looked at only when the yield is gone.
MustCloseForYield(supplied, borrowed) ==
  \/ ~qualifies /\ (supplied > 0 \/ borrowed > 0)
  \/ supplied > 0 /\ borrowed = 0
\* The health factor first; then a position no loop justifies any more; then
\* collateral without a loan, which an interrupted opening left behind.
MustClose(supplied, borrowed) ==
  \/ Critical(supplied, borrowed)
  \/ ~qualifies /\ (supplied > 0 \/ borrowed > 0)
  \/ supplied > 0 /\ borrowed = 0

\* Mutant: every idle balance is put to work, position or not.
MayOpenOnTop(idle, supplied, borrowed) == qualifies /\ idle >= MinIdle
MayOpen(idle, supplied, borrowed) ==
  qualifies /\ supplied = 0 /\ borrowed = 0 /\ idle >= MinIdle

\* Mutant: the requested leverage is borrowed in one go.
LoanForLeverage(amount) == (amount * (TargetLeverage - Percent)) \div Percent
\* What is borrowed against a deposit: the requested leverage, capped so that
\* the market's health check passes before the loan is deposited in turn.
LoanFor(amount) ==
  LET requested == (amount * (TargetLeverage - Percent)) \div Percent
      safe      == (amount * Percent) \div HFFloor
  IN  IF requested < safe THEN requested ELSE safe

OpenPlan(amount) ==
  <<Tx("deposit", amount), Tx("borrow", LoanFor(amount)), Tx("deposit", LoanFor(amount))>>

\* Mutant: the conversion rounds down.
TokensWorthDown(amount) == (amount * totalCollateral) \div totalLiquidity
\* Math.ceil(borrowed * C / L) + 1.
TokensWorth(amount) ==
  (amount * totalCollateral + totalLiquidity - 1) \div totalLiquidity + 1

\* Withdraw what the loan takes, repay it, withdraw the rest.
ClosePlan(borrowed, held) ==
  LET repays == borrowed > 0 /\ totalLiquidity > 0 /\ totalCollateral > 0
      first  == IF ~repays THEN 0
                ELSE IF TokensWorth(borrowed) < held THEN TokensWorth(borrowed) ELSE held
  IN  (IF repays THEN <<Tx("withdraw", first), Tx("repay", borrowed)>> ELSE <<>>)
        \o (IF held > first THEN <<Tx("withdraw", held - first)>> ELSE <<>>)

\* The plan of a cycle that read these balances of the strategy.
Decide(idle, held) ==
  LET supplied == Supplied(held)
      borrowed == debt[Looper]
  IN  IF MustClose(supplied, borrowed) THEN ClosePlan(borrowed, held)
      ELSE IF MayOpen(idle, supplied, borrowed) THEN OpenPlan(idle)
      ELSE <<>>

-----------------------------------------------------------------------------
(***************************************************************************)
(* The agent.                                                              *)
(***************************************************************************)

\* Somebody has new transactions to send.
Crossing == crossed' = (crossed \/ (plan' # <<>> /\ unwinding' # <<>>))

Poll ==
  /\ plan = <<>>
  /\ plan' = Decide(cash[Looper], cTokens[Looper])
  /\ UNCHANGED <<marketVars, unwinding, qualifies, book, recalled, events, faults>>
  /\ Crossing

\* A balance that cannot be read counts as zero.
PollMisread ==
  /\ plan = <<>> /\ faults < MaxFaults
  /\ \/ plan' = Decide(0, cTokens[Looper])
     \/ plan' = Decide(cash[Looper], 0)
  /\ faults' = faults + 1
  /\ UNCHANGED <<marketVars, unwinding, qualifies, book, recalled, events>>
  /\ Crossing

\* The market instruction each transaction forwards, signed for the strategy.
KaminoDeposit(tx)  == tx.do = "deposit"  /\ DepositLiquidity(Looper, tx.amount)
KaminoBorrow(tx)   == tx.do = "borrow"   /\ BorrowLiquidity(Looper, tx.amount)
KaminoRepay(tx)    == tx.do = "repay"    /\ RepayLiquidity(Looper, tx.amount)
KaminoWithdraw(tx) == tx.do = "withdraw" /\ RedeemCollateral(Looper, tx.amount)

Execute(tx) ==
  KaminoDeposit(tx) \/ KaminoBorrow(tx) \/ KaminoRepay(tx) \/ KaminoWithdraw(tx)

\* Mutant: a failed transaction is skipped and the next one sent.
OnlyTheFailedStep == Tail(plan)
\* The exception of a failed step ends the cycle.
AfterFailure == <<>>

TxSucceeds ==
  /\ plan # <<>>
  /\ Execute(Head(plan))
  /\ plan' = Tail(plan)
  /\ UNCHANGED <<unwinding, qualifies, book, recalled, crossed, events, faults>>

\* The market has a reason to revert.
Refused(tx) == ~ENABLED Execute(tx)

TxRefused ==
  /\ plan # <<>>
  /\ Refused(Head(plan))
  /\ plan' = AfterFailure
  /\ UNCHANGED <<marketVars, unwinding, qualifies, book, recalled, crossed, events, faults>>

\* No confirmation arrives, whether the transaction took effect or not; or the
\* process dies before or after it is sent.
TxLost ==
  /\ plan # <<>> /\ faults < MaxFaults
  /\ Execute(Head(plan)) \/ UNCHANGED marketVars
  /\ plan' = AfterFailure
  /\ faults' = faults + 1
  /\ UNCHANGED <<unwinding, qualifies, book, recalled, crossed, events>>

AgentStep == Poll \/ TxSucceeds \/ TxRefused

-----------------------------------------------------------------------------
(***************************************************************************)
(* The operator's script that closes a position with the agent's key,      *)
(* whether the agent is running or not (scripts/unwind-kamino-position).   *)
(***************************************************************************)
SomethingToUnwind == cTokens[Looper] > 0 \/ debt[Looper] > 0

\* As the agent closes its loop.
UnwindPlan == ClosePlan(debt[Looper], cTokens[Looper])

StartUnwind ==
  /\ unwinding = <<>>
  /\ SomethingToUnwind
  /\ unwinding' = UnwindPlan
  /\ UNCHANGED <<marketVars, plan, book, recalled>>
  /\ Crossing

UnwindSucceeds ==
  /\ unwinding # <<>>
  /\ Execute(Head(unwinding))
  /\ unwinding' = Tail(unwinding)
  /\ UNCHANGED <<plan, qualifies, book, recalled, crossed, events, faults>>

\* The script ends with the first transaction that fails.
UnwindRefused ==
  /\ unwinding # <<>>
  /\ Refused(Head(unwinding))
  /\ unwinding' = <<>>
  /\ UNCHANGED <<marketVars, plan, qualifies, book, recalled, crossed, events, faults>>

UnwindLost ==
  /\ unwinding # <<>> /\ faults < MaxFaults
  /\ Execute(Head(unwinding)) \/ UNCHANGED marketVars
  /\ unwinding' = <<>>
  /\ faults' = faults + 1
  /\ UNCHANGED <<plan, qualifies, book, recalled, crossed, events>>

UnwindStep == UnwindSucceeds \/ UnwindRefused \/ UnwindLost

-----------------------------------------------------------------------------
(***************************************************************************)
(* The others: the vault that allocates to the strategy and recalls from   *)
(* it, and the participants of the market.                                 *)
(***************************************************************************)
VaultAllocates(amount) ==
  /\ book + amount <= Endowment
  /\ book' = book + amount
  /\ cash' = [cash EXCEPT ![Looper] = @ + amount]
  /\ UNCHANGED <<liquid, reserveVars, cTokens, opened, debt, history, recalled>>

\* Mutant: the books alone decide.
BooksAllowRecall(amount) == amount <= book
CanRecall(amount) == amount <= book /\ amount <= cash[Looper]

VaultRecalls(amount) ==
  /\ CanRecall(amount)
  /\ book' = book - amount
  /\ cash' = [cash EXCEPT ![Looper] = @ - amount]
  /\ recalled' = IF debt[Looper] > 0 THEN recalled + amount ELSE recalled
  /\ UNCHANGED <<liquid, reserveVars, cTokens, opened, debt, history>>

\* The operator starts the agent again with other rates in its environment.
Restart ==
  /\ plan = <<>>
  /\ qualifies' = ~qualifies
  /\ UNCHANGED <<marketVars, plan, unwinding, book, recalled, crossed>>

\* The market's other participants.
OthersTrade(o, amount) ==
  /\ \/ DepositLiquidity(o, amount)
     \/ RedeemCollateral(o, amount)
     \/ BorrowLiquidity(o, amount)
     \/ RepayLiquidity(o, amount)
  /\ UNCHANGED <<book, recalled>>

Event ==
  /\ events < MaxEvents
  /\ events' = events + 1
  /\ \/ Restart
     \/ StartUnwind /\ UNCHANGED qualifies
     \/ \E amount \in Amounts :
          /\ \/ VaultAllocates(amount)
             \/ VaultRecalls(amount)
             \/ SimulateYield(amount) /\ UNCHANGED <<book, recalled>>
             \/ \E o \in Owners \ {Looper} : OthersTrade(o, amount)
          /\ UNCHANGED qualifies
          /\ UNCHANGED <<plan, unwinding, crossed>>
  /\ UNCHANGED faults

LooperNext ==
  AgentStep \/ PollMisread \/ TxLost \/ UnwindStep \/ Event

\* The loop runs for ever and every await returns; nothing obliges the others
\* to act, or a transaction to get lost.
LooperSpec == LooperInit /\ [][LooperNext]_looperVars /\ WF_looperVars(AgentStep)

-----------------------------------------------------------------------------
Planned(do, rest) ==
  LET steps == {i \in DOMAIN rest : rest[i].do = do}
  IN  SumFunctionOnSet([i \in steps |-> rest[i].amount], steps)
Plans(do) == \E i \in DOMAIN plan : plan[i].do = do
NextIs(do) == plan # <<>> /\ Head(plan).do = do

LooperTypeOK ==
  /\ TypeOK
  /\ Len(plan) <= 3 /\ Len(unwinding) <= 3
  /\ \A tx \in Range(plan) \cup Range(unwinding) :
       /\ tx.amount \in Nat
       /\ tx.do \in {"deposit", "borrow", "repay", "withdraw"}
  /\ crossed \in BOOLEAN
  /\ qualifies \in BOOLEAN
  /\ book \in 0..Endowment /\ recalled \in Nat
  /\ events \in 0..MaxEvents /\ faults \in 0..MaxFaults

\* What remains of a plan to close, the agent's or the script's, repays the loan
\* there is and withdraws the cTokens there are.
Closes(rest) ==
  /\ Planned("repay", rest) = debt[Looper]
  /\ Planned("withdraw", rest) = cTokens[Looper]

\* A decision does not go stale while its transactions are sent one by one:
\* whatever the others did since the read, the rest of a closing plan repays
\* the loan there is and withdraws the cTokens there are, and the rest of an
\* opening plan deposits exactly the loan already taken and still to be taken.
\* The agent and the operator's script must not cross.  (A plan that starts by
\* withdrawing nothing comes from a misread balance and is refused whole.)
PlanIsCurrent ==
  ~crossed =>
    /\ Plans("deposit") =>
         debt[Looper] + Planned("borrow", plan) = plan[Len(plan)].amount
    /\ plan # <<>> /\ ~Plans("deposit") /\ Head(plan).amount > 0 => Closes(plan)
    /\ unwinding # <<>> /\ Head(unwinding).amount > 0 => Closes(unwinding)

\* The agent borrows only when it owes nothing: no interrupted, lost or
\* repeated cycle ever takes a second loan on top of the first.
NoSecondLoan ==
  [][debt'[Looper] > debt[Looper] => debt[Looper] = 0]_looperVars

\* The market's own health check (1.05) never refuses the loan the agent asks
\* for after its deposit, however yield and other borrowers moved the reserve:
\* the floor of 1.10 absorbs the rounding of the cTokens.
LoanPassesHealthCheck ==
  NextIs("borrow") /\ ~crossed => HealthyAfterBorrow(Looper, Head(plan).amount)

\* When the repayment is due, the withdrawal before it has brought in enough,
\* at any later redemption rate, unless the vault recalled tokens meanwhile.
RepaymentFunded ==
  NextIs("repay") /\ ~crossed => cash[Looper] + recalled >= Head(plan).amount

InDanger == Critical(Supplied(cTokens[Looper]), debt[Looper])

\* The market could not pay the strategy out.
Illiquid == liquid < Supplied(cTokens[Looper])
Disturbed == recalled > 0 \/ Illiquid \/ crossed

\* A position in danger is eventually out of it, although two transactions may
\* be lost, as long as the market can pay and the vault takes nothing.
Deleverages == InDanger ~> (~InDanger \/ Disturbed)

\* What the configuration asks for: no stranded collateral, no position that
\* no yield justifies, no idle balance worth a loop.
Settled ==
  LET supplied == Supplied(cTokens[Looper])
      borrowed == debt[Looper]
  IN  /\ plan = <<>>
      /\ ~InDanger
      /\ supplied > 0 => qualifies /\ borrowed > 0
      /\ supplied = 0 /\ qualifies => cash[Looper] < MinIdle

\* The agent comes to rest in the position its configuration asks for, from
\* wherever an interrupted cycle left it.
Settles == <>Disturbed \/ <>[]Settled

\* "Safety first - emergency deleverage if HF is critical" (decideAllocation):
\* a loan in danger that the strategy holds the tokens for is repaid.  Closing
\* always withdraws before it repays: when the market cannot pay that
\* withdrawal, or no cTokens are left to withdraw, no cycle reaches the
\* repayment.
FundedLoanIsRepaid ==
  (InDanger /\ cash[Looper] >= debt[Looper]) ~> (~InDanger \/ recalled > 0)
=============================================================================
