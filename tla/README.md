# A verification of the Erebor vault

Erebor is a yield vault on Solana. Depositors buy shares of a vault, the vault's
authority spreads the money over strategies, and an agent holding a strategy's
delegate key works the strategy's tokens in a lending protocol. This directory
models that system in TLA+, checks it with TLC on small instances and proves the
most important results with TLAPS for every value of the constants.

## 1. The system

### Components

| Component | Where | State it keeps | Operations |
|---|---|---|---|
| Vault ledger | `programs/my_project` | reserve and strategy token accounts, share mint, `total_deposited`, `allocated_amount`, weights, pause, fees | deposit, withdraw, allocate, deallocate, rebalance (two forms), report_yield, report_loss, settle_strategy_value, create / weigh / deactivate strategy, set_paused, set_performance_fee_bps |
| Roles and protocol configuration | `programs/my_project` | admin, authority, the pending one of each, governance, treasury, protocol fee, protocol and per-vault token lists | propose / accept, set_treasury, set_protocol_fee_bps, set_governance, add / remove token |
| Action gateway | `execute_action.rs` and the allow-list handlers | `AllowedAction` accounts (cap, cooldown, last execution), delegates and their token approvals | add / remove action, execute_action, update_strategy_delegate |
| Value sources | `settle_strategy_value.rs`, `mock_pyth` | `ValueSource` accounts, price accounts | add / remove source, valuation inside a settlement, set_price |
| Mock Kamino | `programs/mock_kamino` | reserve totals, cToken mint, obligations | deposit, redeem, init_obligation, borrow, repay, simulate_yield |
| Mock Lulo | `programs/mock_lulo` | treasury, positions | deposit, withdraw |
| Kamino looper agent | `agent/kamino_looper` | none of its own: it re-reads the chain every cycle | open and close a leveraged loop in several transactions, emergency deleverage |
| Lulo agent | `agent/lulo` | signal files, poll snapshot | poll cycle, withdraw on signal or deactivation, retries |
| Web application, administrator | `app/src/components/admin`, `hooks`, `lib/strategy-presets` | what each page has read; the job a modal is executing | presets, strategy creation, token panel, editors, role transfer: several transactions each |
| Web application, holder and authority | `app/src/components`, `hooks`, `lib/adapters` | what each page shows | deposit, withdraw with a redeem plan, allocate, rebalance round, yield and loss reports |
| Web application, display | `VaultProvider`, hooks, feed, charts | requests under way, what is shown | reads on timers and on navigation, live feed |
| Operator scripts | `scripts` | none | set up vaults, strategies, lists and sources; crank, mint and report yield; unwind a position; repair |
| Demo faucet | `programs/demo_faucet` | registered mints, cooldown per claimer | register, claim |
| Tests | `tests` | - | state some of the claims that section 5 refutes |

Paths are relative to the repository root; `PROJECT.json` gives the lines.

### Interaction

A Solana instruction runs atomically and a failing one leaves no trace, so
inside a program there is no interleaving finer than an instruction. The hard
behaviour is one level up:

* **Instructions of different signers interleave.** Holders, authority, admin,
  governance, delegates and strangers all act on the same reserve, books and
  token accounts, and nobody sees the others coming.
* **The token accounts are shared with the token program.** Anybody may send
  tokens to the reserve or to a strategy's account, a delegate may take tokens
  from its strategy's account, holders may move or burn shares and cTokens. The
  books are told of none of it.
* **The books lag.** `total_deposited` and `allocated_amount` follow the tokens
  only when somebody settles; in between every handler computes with both the
  stale and the actual number.
* **Agents need several transactions** for one decision. Each may fail, the
  agent may stop in between, and all of them use values read before the first.
* **Pages and scripts act on what they have read.** A page's figures are up to
  two minutes old; its timers refresh different parts of it at different times,
  and answers overtake each other. A job of the console is up to a dozen
  transactions computed from one reading. Two tabs, two script runs, or a page
  and a script work on the same rows.
* **Processes die** between two transactions, or between a transaction and the
  file that says it was done, and are started again from the top.
* **The books depend on the caller**: fan-out lists, auto-pull lists, value
  sources and the accounts a duplicate check looks at are the caller's choice.

### What makes each component correct

* *Ledger.* No token is created or lost; the books balance; only a recognised
  loss lowers the share price; a deposit never eats the liquidity of others; a
  paused vault lets money out and nothing else; the redeemer gets what left the
  books less the capped fee; a strategy that is switched off is worth nothing.
* *Lending market.* Tokens held and lent are tokens owed; the totals are sums
  over participants; the rate is always defined and never falls; nobody makes
  another participant's obligation unhealthy.
* *Gateway and roles.* Whoever may spend a strategy's tokens is the delegate on
  record and nobody once the strategy is inactive; an action is not run faster
  or beyond what the admin allowed; per-vault lists narrow the protocol's.
* *Agents.* A half-executed plan is recognised and finished by a later cycle;
  nothing is executed twice without a failure; an unhealthy position is
  eventually deleveraged, a fresh deposit eventually lent, a signal served.
* *Console.* A page that is up to date is never refused; it leaves what it
  announced and its target has, and nothing it did not announce; no balance is
  counted twice.
* *Scripts.* One that died is simply started again; one that ends well has done
  its work; yield that was minted ends in the books.
* *Forms.* A withdrawal goes through exactly when the accounts listed cover it;
  a rebalancing round ends with every strategy at its target.
* *Display.* What is shown belongs to the page and the wallet shown, at the
  latest after the next timer; once it is ready the feed loses and repeats nothing.

## 2. Modules

| Module | What it is | Source |
|---|---|---|
| `VaultMath` | rounding arithmetic: shares, redemptions, portions, fee split | `deposit.rs`, `withdraw.rs`, `rebalance_strategy.rs` |
| `Pool` | abstract specification: what a holder is promised | - |
| `Vault` | the ledger, one action per instruction | `programs/my_project/src/instructions` |
| `VaultClaims` | statements of docs, comments and tests that TLC refutes | - |
| `MockKamino` | the lending market, one action per instruction | `programs/mock_kamino/src/lib.rs` |
| `KaminoLooper` | the looper agent over `MockKamino`: its cycle, its transactions, their failures | `agent/kamino_looper/src` |
| `MockLulo` | the shared treasury, one action per instruction | `programs/mock_lulo/src/lib.rs` |
| `LuloAgent` | the Lulo agent over `MockLulo`: cycle, decision, retries, signal file, crashes | `agent/lulo/src` |
| `Listings` | the members of a finite set of numbers as a list, for the modules that are proved about | - |
| `StrategyConfig` | the configuration rows of a vault and what an instruction does to them: token lists, allow-list, auto-actions, value sources, delegates, roles, the gateway's cooldown | `programs/my_project`, built by `app/src/hooks`, `lib/strategy-presets` |
| `Console` | the administrator's pages over `StrategyConfig` | `app/src/components/admin`, `hooks`, `lib/strategy-presets` |
| `Scripts` | the operator's scripts beside the console | `scripts` |
| `RedeemPlan` | the redeem planner and its adapters, as functions | `app/src/lib/adapters` |
| `Desk` | forms, authority buttons and yield scripts over `Vault` | `app/src`, `scripts`, `programs/demo_faucet` |
| `Dashboard` | what the pages show while answers come late | `app/src` |
| `MCVault`, `MCKamino`, `MCLooper`, `MCLulo`, `MCConsole`, `MCScripts`, `MCDesk`, `MCDashboard` | model values and bounds for TLC | - |
| `ArithmeticTheorems` | lemmas on sums over finite sets, products, quotients, lists | - |
| `VaultProofs` | theorems about the ledger and its arithmetic | - |
| `KaminoProofs` | theorems about the market, then about the looper's plans and what pays for them | - |
| `LuloProofs` | theorems about the Lulo agent and its treasury | - |
| `ConfigProofs` | theorems about the configuration under console and scripts, and about the pages' jobs | - |
| `ScriptsProofs` | theorems about what the operator's scripts achieve, also when started again | - |
| `DeskProofs` | theorems about forms, rounds, the redeem planner and the yield scripts over the ledger | - |
| `DashboardProofs` | theorems about panels and the live feed | - |

`KaminoLooper` extends `MockKamino`, `LuloAgent` extends `MockLulo`, `Console`
extends `StrategyConfig` and `Scripts` extends `Console`; `Desk` extends `Vault`,
`RedeemPlan` and `Listings`. `Vault` has `Pool` as an instance for the refinement.

### How state and actions correspond

*Vault.* `reserve` and `ata` are SPL balances, `wallet` the balances of every
account outside the program, `shares` and `supply` the share mint;
`totalDeposited`, `allocated`, `weight`, `totalWeight`, `paused` and
`performanceFee` are the account fields of those names, `protocolFee` that of
`ProtocolConfig`. `status` is `is_active` with a third value for a strategy not
created yet. `donated` is a history variable. One successful instruction is one
action; its conjuncts are the handler's `require!`s, account constraints and
checked arithmetic in the code's terms, its assignments the account writes.
Two loops become a relation on their result: the fan-out of `deposit` (the
caller may list a strategy up to `MaxRepeats` times) and the auto-pull of
`withdraw` (`AutoPull`: the accounts emptied by some order of the list, at most
one of them in part). Whether a signer may call is left to the module of the
roles: any call its signer could make is a step. `settle_strategy_value` is
modelled from the value it arrives at, which is any member of `ExternalValues`
on top of the balance: the caller chooses the sources.

*MockKamino.* `liquid` is the supply account, `totalLiquidity`,
`totalCollateral`, `totalBorrowed` the reserve's fields, `cTokens`, `cash` the
participants' balances, `opened` and `debt` the obligations; `gifts` and `burnt`
are history. The `as u64` casts keep the low bits (`Cast`), and repayment uses
`saturating_sub`; that neither ever matters is a result, not an assumption. A
redemption or a loan paid into the reserve's own account is the same step
followed by `TransferIn`, and a deposit crediting somebody else the same step
followed by `TransferCTokens`.

*KaminoLooper.* Extends the market with the agent that commands one of its
participants. `plan` is the rest of the transactions of the current cycle, the
position of the program counter in `openUsdcLoop` or `closeUsdcLoop`; the agent
keeps nothing else. `Poll` reads and decides (`decideAllocation`: `MustClose`,
`MayOpen`), each transaction then succeeds (`TxSucceeds`), is refused by the
market (`TxRefused`) or gets lost with or without its effect (`TxLost`, which is
also a crash and a refusal by the vault's gateway), and any failure drops the
rest of the plan, as the exception does. `PollMisread` is a balance read that
fails and counts as zero. The strategy's token account is `cash[Looper]`, which
the vault fills and recalls (`book` is the allocated amount; settlements do not
change it here). The five reads of a cycle are one step: debt and cTokens of the
strategy change by the agent's own transactions only, and what the others do
between reads they can as well do right after them. `qualifies` stands for the
APY scan, whose inputs are configuration and change with a restart. A lost
transaction that lands does so before the next cycle: it is valid for about a
minute and cycles are five minutes apart. `unwinding` is the rest of the
operator's script that closes the position with the agent's own key
(`unwind-kamino-position.ts`); `crossed` records that it ran while the agent had
a plan. Crossing an opening can leave a bare loan with no cTokens, which no
cycle can repay, so the properties that say how things end except it.

*LuloAgent.* `phase` is the program counter of `pollCycle`: `poll`, `decide`,
`await` (a transaction is out), `unlink` (the signal file is still there),
`down`, `exited`. `snapshot` and `order` are its local variables, `lastBalance`
and `quiet` its memory between cycles, `signal` the file. `Decide` takes the
hard rules in the code's order and then any answer the language model may give
within the prompt's limits (`Follow`). A transaction that got no answer has
landed or not (`AnswerLost`) and is sent again up to `MaxRetries`. `causes` is
history: why the total may differ from what the agent remembers.

*StrategyConfig.* `acct` maps the addresses of the accounts that exist to their
content. An instruction is a record that says who signs in which role and which
accounts it needs, initialises, closes or creates; a transaction applies a
sequence of them, all or none, exactly as initialising an existing address and
closing a missing one fail on chain, and no more of them than fit
(`MaxInstructions`, 64). The rows a strategy can have are those of the actions
the registry knows, the two kinds of auto-action and the slots of sources
(`Catalogue`): that an action is one of the registry's is a bound of the model.
Two rows of a strategy that derive the same
address are the same row. A value source is what it reads and whether it counts,
an action its loss cap, its list check and its cooldown.

*Console.* `page[t]` holds what tab `t` has read (`seen`, `mints`, counts) and
its job: the transactions to send and what the modal announced. A job keeps the
figures of its start, as the code's closures do. `LoadPage`, `RefreshPage` and
the rereads after a transaction follow the hooks. A preset job first revokes and
then builds its additions from rows it reads again (`BuildAdditions`), and some
phases ignore the error inside a confirmation (`FailUnnoticed`). What the modal
previews is not necessarily what its target comes to: the rows of the one preset
that reads the chain may arrive after another target was chosen, and until they do
those of the last one stay. `Previews` lists what may be on the screen under a
target when "Apply" is clicked, and the job follows it. A tab does one thing at a
time. `Successors`, `Governance` and others act in `Elsewhere`.

*Scripts.* One script runs in the shell at a time; each is a sequence of steps
computed when it starts, sent as they are (`Must`) or only if a look right
before shows they are needed (`Needed`). `ScriptDies` ends it anywhere, with the
transaction landed or not. `Overdrawn` is a transaction that the ledger refuses
whatever is configured.

*Desk.* Each transaction is `Vault`'s action; the module says which one is sent,
with which amounts, in which order. A transaction is refused when the guard that
`Vault` names for its instruction (`MayDeposit`, `MayWithdraw`, `MayRebalance` and
so on) is false. `SituationsAssumption` says how strategies may stand when a tab
is opened: no account holds more than it is booked at, the market has the cTokens
of the positions, and the first deposit is one the program accepts. `screen[t]`
has two parts that timers refresh separately. `job[c].calm` records that nobody
else's transaction has landed since a job started, and that what the job needs was
there at its start; what a page or a script promises is claimed of calm jobs.
`Exhausted` lists why a calm script may fail all the same: not enough tokens to
hand out, or a sum beyond a u64; in the run below neither happens.
`PlansAssumption` says of the setups' constants that the first deposit covers the
allocations to all strategies (`scripts/setup-devnet.ts:40-41`, `VAULTS` of
`setup-multi-vaults.ts`). A withdrawal gives up without the supply or the reserve,
but any account balance or position may fail to be read and is then taken for zero
or for nothing: `ReadAccounts` and `ReadPositions` choose which, the history
fields `unseen` and `skipped` of the job keep it, and a job is none the less calm.
The yield scripts mint tokens, which is modelled as `Outside` handing over part of
its endowment; `purse` is the operator's share of it, `faucet` who may mint.

*Dashboard.* A request is answered with the state of some moment after it was
sent and put on the page when it arrives. Data is abstracted to its owner and
the number of that owner's transactions it has seen. Stores whose effect has a
`cancelled` flag drop answers to superseded requests (`Kept`); the provider and
the hooks without one take every answer. Remounting is a choice of the
framework, so `Navigate` admits both. Every effect depends on a program object
made from the wallet (`useVaultProgram.ts:17-32`), so `ChangeWallet` runs all of
them again: the feed is cleared, its subscription dropped and its backfill
repeated. `opened` is where the feed last began and `settled` where it was last
not ready, that is not yet subscribed or still backfilling.

## 3. Runs

Every run is exhaustive within its bounds.

| Run | Module, cfg | Asks |
|---|---|---|
| `vault_ledger` | `MCVault_ledger.cfg` | one holder, two strategies, no fees: books, weights and share price under fan-out and auto-pull, with donations, delegate transfers and settlements in both directions |
| `vault_holders` | `MCVault_holders.cfg` | two holders, one strategy, fees, pause: conservation of tokens, refinement of `Pool` |
| `kamino_market` | `MCKamino_market.cfg` | two participants: accounting, sums, rate, health of obligations |
| `looper_cycles` | `MCLooper_cycles.cfg` | the agent with two failures at any point and four acts of others: plans stay current, one loan at a time, repayments are funded, danger is left, the agent comes to rest |
| `claim_autopull` | `MCVault_autopull.cfg` | refutes "the loop pulls until the gap is closed" |
| `claim_exits` | `MCVault_exits.cfg` | refutes "users can always exit a paused vault" |
| `claim_emergency` | `MCLooper_emergency.cfg` | refutes that a critical position with the tokens to repay is unwound |
| `lulo_cycles` | `MCLulo_cycles.cfg` | the Lulo agent with two failures and three acts of others: treasury, replays, its own actions quiet, deposits lent, signals served |
| `console_jobs` | `MCConsole_jobs.cfg` | two tabs, two jobs of any kind, one disturbance: jobs of a fresh page succeed and do what was announced, sources count once |
| `scripts_shell` | `MCScripts_shell.cfg` | a tab and the shell, two scripts or jobs, one disturbance: reruns, results, the repair, the gateway's cooldown |
| `desk_jobs` | `MCDesk_jobs.cfg` | a page and two script runs over two strategies: withdrawals, redeem plans, rebalancing rounds, yield |
| `dashboard_pages` | `MCDashboard_pages.cfg` | two vaults, two wallets, answers in any order: panels, feed, convergence |

### Bounds, and why they are enough

The constants of the program are parameters: `BPS` (10 000), `VirtualShares`
(1 000 000), `MaxU64`, `HFMin` (10 500). TLC uses small values so that rounding
happens at every amount: with `BPS = 2` and `VirtualShares` 1 or 2 nearly every
division has a remainder, and `MaxU64` of 8 or 10 is within reach of the totals,
so each checked addition and subtraction is met from both sides. In the market
`BPS = 20`, `HFMin = 21` is the real ratio of 1.05.

* `Endowment`, `OutsideSupply`: tokens in circulation; nothing mints the
  vault's token, so they bound the vault's state. `MaxDonated` and `MaxGifts`
  bound transfers that no handler sees.
* `Amounts`: what callers pass; `{1, 2, 3}` reaches whole balances, parts of
  them, and more than there is.
* Two strategies are needed for auto-pull order, for the sum of weights and for
  a strategy listed twice beside another; two holders for dilution and trade of
  shares. The two runs divide these, as both at once do not finish in minutes;
  the proofs cover the combination for any number of each.
* `WeightChoices` without 0 in the ledger run: `deactivate_strategy` clears a
  weight there, and the holders' run has the explicit 0.
* `ExternalValues = {0, 1}` with settlement from any balance yields gains,
  losses and no change. `MaxRepeats = 2` lets a list repeat a strategy, which is
  enough for a fan-out of more than the deposit.

* In the looper's runs the ratios are the defaults of the configuration in
  hundredths (leverage 2.5, floor 1.10, warning 1.3) and amounts are realistic
  in proportion: balances in the hundreds, since nothing enumerates them. Two
  failures reach every pair of half-done plans, and a yield between the read and
  the withdrawal makes the conversion to cTokens inexact. Nobody sends the
  strategy cTokens, so `PlanIsCurrent` can be an equality.

* The Lulo run has one other depositor, so that the treasury is shared; `Supply`
  bounds the yield, `Routine = 2` stands for the 10 quiet cycles between two
  consultations, `MaxRetries = 2`. Two faults are a crash followed by a lost
  answer, in any order; three acts let a signal, an allocation and a recall meet.
* Console and scripts: the console's run has the preset that reads the chain, one
  that does not and "custom", so every kind of late preview occurs; the theorem is
  about all of them. Two jobs (`MaxJobs`) reach every pair, one on top of what
  the other left or at once; one disturbance (`MaxDisturbances`) kills one of
  them or brings one foreign transaction. Two mints, two strategies;
  `MaxSources = 4` stands for the program's 16 with two mints as full as 16 are
  with eight, so running out of slots happens. Chunks have the code's size of
  four. The scripts run has one tab and the presets it needs.
* Desk: one tab and two runs of scripts, two strategies, four situations to start
  from for each (fresh, funded, lent to both protocols, in the market with a
  loan), two of jobs, clicks, acts and crashes in any order (`MaxEvents`), and any
  of the reads of a withdrawal may fail on top. A page may begin with a reserve
  read before the last allocation, so an outdated page needs no event. `BPS = 4`
  makes targets and fees round.
* Dashboard: panels are looked at in groups that share nothing, two events for
  the group of the token mix, four for the others. `FeedLimit = 2` stands for
  20 rows, `BackfillLimit = 1` for 8 signatures, `Attempts = 2` for 4, and at
  most two requests of a store are under way.

TLC does not report deadlock where the system may really stop: users may stop
calling the ledger and the market, jobs and events are bounded in `Console`,
`Scripts`, `Desk` and `Dashboard`, and the Lulo agent ends when its strategy is
inactive and empty. The looper's loop never ends, and there deadlock is checked.

### Fairness

The ledger and the market assume none: nobody is obliged to call a program, and
every property of theirs is about safety. `LooperSpec` assumes weak fairness of
`AgentStep`, the next step of the loop: `while (true)` runs the next cycle
whatever the last one threw, and an awaited transaction returns or throws.
Nothing obliges a transaction to be lost or the others to act, and both are
bounded, so a run in which they do so for ever is not what is claimed about.
`Deleverages` and `Settles` except two situations the agent cannot help: the
market cannot pay the strategy out, or the vault recalled tokens during a loan.

`AgentSpec` assumes weak fairness of the Lulo agent's `LoopStep` alone: the loop
catches every error and sleeps, and each await returns or throws. A crashed
process need not be started again, and both its liveness properties except that.
`DashSpec` assumes that timers fire and that the node answers some request of
every store that has one under way; nothing obliges the page to be left alone,
but navigations are bounded. `Console`, `Scripts` and `Desk` assume none: whether
an administrator clicks is nobody's promise.

## 4. Proofs

TLAPS checks the following for all constants that satisfy the named assumptions:
finite sets of strategies, holders and participants; natural bounds; fees within
`BPS`; and that the supply of a token mint is a u64.

**Ledger.** `VaultProofs!Inv` is inductive: types, `BooksBalance`,
`SharesBacked`, `WeightsWithinCap`, `InactiveIsEmpty`, `TokensConserved`. They
need each other: a withdrawal stays within u64 only because no holder has more
shares than the supply (`SharesBacked`), the book value written by a rebalance
is bounded by `total_deposited` through `BooksBalance`, an auto-pull keeps
`total_deposited` natural because the amount owed is at most the total, and
tokens fit u64 because they are conserved. There is one lemma for each
instruction; sums over strategies and accounts are handled by
`ArithmeticTheorems` (`SumUpdate`, `SumAdd`, `SumMember`).

On top of it `VaultProofs` proves the action properties: that only a
recognised loss lowers the share price (from `MintKeepsPrice`, `BurnKeepsPrice`
and `PriceOfGain`), that a fan-out spends the deposit only,
that the pause holds, that the auto-pull comes last, what a redeemer is paid,
and that the ledger implements `Pool` (each step maps to a `Join`, `Leave`,
`Trade`, `Forfeit`, `Revalue` or a stutter).

**Arithmetic.** `VaultProofs` begins with the handlers' formulas: buying and
redeeming at once never profits and loses a bounded amount, the fee split is
exact, and a deposit buys no share only when the total exceeds the deposit times
the virtual shares. `ArithmeticTheorems` holds what the other modules share, for
lists too: the lists of `Listings` have each member once, in order.

**Market.** `KaminoProofs!Inv` is inductive: types, `LiquidityAccounted`,
`BooksAddUp`, `RateDefined`. That a cToken is worth at least one token is what
keeps the division defined and the casts exact (`DepositRate`, `RedeemRate`);
that the totals are sums is what keeps repayment from saturating. The rate never
falls (`RateStep`), hence the worth of a participant's cTokens does not, hence
(`HealthKept`) nothing but giving up its own collateral makes it unhealthy.

**Looper.** `KaminoProofs!LooperInv` is inductive: the market's invariant, the
types, and for the rest of every plan one of two shapes. `Opening`: the loan
still to take is the deposit that follows it, and until it is taken nothing is
owed. `Closing`: what is still planned repays the debt there is and withdraws
the cTokens there are, unless the head can only be refused. The shapes are
needed because `PlanIsCurrent` compares sums over what is left of a plan with
the position, and a sum alone does not say which transaction comes next
(`OpeningSent`, `ClosingSent`); agent and script are kept apart by `crossed`,
after which only the direction of the debt is claimed. `PlanIsCurrent` and
`NoSecondLoan` follow for any number of participants and of faults, any
leverage and any amounts.

`LoanPassesHealthCheck` and `RepaymentFunded` depend on the numbers: on whether
the distance between the agent's floor on the health factor and the market's
minimum absorbs what rounding takes. `FloorAssumption` states that distance and
the least balance a loop is opened with, as the configuration has them, and the
theorems are for runs in which `RateModest` holds: with the deployed figures,
that one cToken is worth less than about 45 000 tokens. It is worth one at the
start and only interest makes it worth more. In the run a withdrawal of nearly
all of the market followed by a yield leaves the hypothesis, and TLC finds the
two properties to hold there as well. `FundsInv` says that as
long as agent and script have not crossed, redeeming one cToken fewer than there
are would repay the loan (`Backed`), and of each plan that its next transaction
brings in or finds what the repayment after it needs (`HeadFunded`,
`OpeningFunded`). One cToken fewer, because the first withdrawal of a plan to
close is the debt in cTokens rounded up and one more. The invariant survives the
steps of others because the rate never falls, and the agent's own because the
loan is taken against a deposit of at least `MinIdle`.

**Configuration.** `ConfigProofs!ConfigInv` is inductive under whatever
transactions clients send, which is what makes it a statement about the program:
a step of a page or a script changes the accounts by a transaction or not at
all (`PageSends`), and a transaction keeps the invariant instruction by
instruction (`RunKeeps`). The parts are `AccountsOK` (accounts have their fields,
a strategy that exists has been counted by its vault, a row is one its strategy
can have and its strategy exists), `CooldownsOK` (a row with a cooldown that was
used is cooling) and `Apart`: active strategies have different delegates, unless
a caller once left a strategy out of the accounts the duplicate check looks at
(`unlisted`). What ties an instruction to the accounts it derives its addresses
from is `Derived`, which each builder of `StrategyConfig` satisfies. `Run` is a
recursive function of the number of instructions applied; that it is the chain of
its instructions' results is shown first (`RunIsChain`), by choosing the least
number where the chain would break. `DelegatesDistinct` and `CooldownHolds`
follow, for the console alone and with the scripts.

`AppliedAsShown`, that a new strategy ends with exactly the rows announced, and a
change of preset with those of them that were there or that its target has, needs
the jobs as well. `JobsInv` says of a job nobody came between what its remaining
transactions will do (`InProgress`): they close every row the strategy has and
should not keep (`RowsDue`), and initialise, or are still to be built to
initialise, every row it should have and has not; they touch no other. A step of
the job takes off its first transaction and what that one does; a transaction of
anybody else makes the job stale, and the property says nothing of stale jobs; a
timer leaves both alone. The rows of a preset do not depend on the order in which
the mints were read, and a strategy about to be created has no rows
(`AccountsOK`).

`FreshIsNeverRefused` needs more of the transactions that are left: not only what
they do but that each will be accepted where the ones before it have been.
`Ready` says of one instruction that it is accepted now, whether it stands alone
or among others; `Clear` of two that the first leaves alone what the second needs;
a job is `Lined` if all its instructions are ready now and each is clear of
those after it. Then the first transaction goes through and the rest is lined
again (`WorkInv`), so the property is an invariant of lists and the length
of the job does not matter. A preset's revocations and additions are lined
because they concern different rows; the token panel's instructions because they
go to different slots: the slots handed out for the n-th mint are the free slots
2n-1 and 2n (`Handed`, `TurnsApart`), of each strategy for itself. A transaction
takes four instructions (`Chunked`), so `ConsoleAssumption` asks for
`MaxInstructions >= 4`, and the panel's mints come in the order of `Alphabet`, a
list of all mints without repetition.

`PanelPricesOnce` compares a strategy before the panel ran with one after it, so
it has to speak of what accounts will hold: `Will` is what is there or is still
to be initialised, and `Priced` that of the slots a strategy will have used
exactly one counts the mint, unless all will be in use. `PricesInv` keeps this
for every strategy and mint the panel announced, from the moment the list is drawn
up; that no other slot counts the mint rests on the pairs being whole at the
start and on a carrier being read by nobody but the price beside it.

What the panel picks and strings together are `Among` (the entries of a list in a
set) and `FlattenSeq`; the lemmas `AmongLists` and `LinesJoin` and those beside
them say what such lists contain for every length, from their closed forms.

**Scripts.** A script is a list of steps drawn up from what it read, so its
properties are about runs of lists. `Follows` is such a run, given as a function
from the number of steps taken to the accounts; `Sure` says that in any run no
step is refused, `Effective` that after any run the script has done its work. Both
are kept by taking a step off the list, so `RerunInv` and `DoneInv` reduce
`ScriptsRerun` and `DoneMeansDone` to one statement per script about the list it
starts with, from any accounts the invariants allow: whatever an earlier run, a
page or another client has left behind. `RepairRestores` follows the same way:
tearing down and building up are `Mild` (they create no strategy and close only
sources), so each strategy is judged for itself.

What scripts share is that a created strategy has a delegate nobody has:
`NamedInv` says of pages, scripts and accounts that each key used as a delegate is
a chosen one or the one generated for that strategy (`Keypair.generate()`, as in
`scripts/create-strategies.ts:103`). `ScriptsAssumption` says of these that no two
are the same and none is a chosen one. Without `NamedInv`, `create_strategies`
could be refused as a duplicate. It also says (`Secured`) that once the demo key is
the demo vault's administrator the authority is its own or offered to it
(`Promised`): the script offers both roles before it accepts the first, each step
keeps the offer or takes it up (`Keeps`), and no page or other script touches that
vault's roles. That is what `DoneMeansDone` asks of the authority.

**Desk.** `DeskProofs!DeskInv` is inductive: the ledger's `Inv`, `BesideOK` (the
cTokens of all positions are among the market's, the operator's purse is part of
what is outside the program), `ScreensOK` (what pages show are naturals and
weights within `BPS`) and `JobsOK` (each job's remaining steps are of its kind).
A step of any client is one instruction of the ledger or leaves the ledger alone,
so the ledger's invariants hold whatever pages and scripts send
(`DeskKeepsTheBooks`). Four properties say more about a job, and each has an
invariant of its own over `DeskInv`, which follows the job from one read or
transaction to the next and says nothing once another's transaction has come
between:

* `WithdrawIffCovered` from `WithdrawalOK`: the amount the page still finds
  uncovered, at each of its reads, is the amount owed less what it has counted so
  far (`Uncovered`), and exceeds what there is to pull by what it failed to read
  (`Short`). At the end `CoveredIsPulled` relates what the page counted to
  what the program's loop over the same list pulls: while no account holds more
  than it is booked at, the loop drains them in order and reverts exactly if they
  do not suffice.
* `PlanIsExact`, for any list of positions, from the chain of partial plans the
  planner goes through (`ExactFor`): at each position it takes the least of what
  is missing and what that position can give, which is nothing if it was skipped.
  `RedemptionCovers` adds that what the Kamino adapter offers can be redeemed: the
  burn rounded up is covered by the position, pays at least the amount, and no
  cToken of it could be spared.
* `YieldIsBooked` (`YieldGetsBooked`) from `YieldInv` and `SoundInv`. `YieldInv` is
  about the books: in the list of every job that hands out yield, what is sent to a
  strategy is reported at a later place (`Reporting`), or the job serves nobody; and
  each strategy a calm one has served is at its book value or has a report ahead,
  the job's own or, for a crank, any crank's (`ToReport`). That a crank which
  overlaps another may find the other's tokens and report them as its own does no
  harm, but one that breaks off may leave tokens both had counted on, so it ends
  the calm of the others (`BreaksOff`). `SoundInv` is about refusals: a calm job is
  refused only if something is exhausted, and while it runs it is `Sound`. Each
  step left finds the strategy it is about, or an earlier step makes it (`Ready`);
  the rest of a setup can be carried out, its weights, its allocations and its one
  deposit together (`Planned`); and the total a hand-out will compare has grown by
  what it has handed out, but for the strategy in hand (`Tallied`). It holds because
  whatever such a job sends is `Gentle`: it takes nothing away that another crank
  counts on.
* `RoundReachesTargets` from `RoundOK`: what is left of a round is in order of the
  distance to the targets, every strategy not in it is at its target, and the
  accounts still to be cut can pay. That the reserve covers the additions
  (`ReserveSuffices`) needs the whole ledger: targets are rounded down and weights
  sum to at most `BPS`, so all targets together are at most the total
  (`TargetsWithinTotal`), which is the reserve and what is booked (`BooksBalance`).

**Lulo agent.** `LuloProofs!AgentInv` is inductive: `LoansOK` (types of the
treasury and its account), `MemoryOK` (types of the process),
`OrderWithinPosition`, `ServedOnce` and `BalanceKnown`. The last three are what
the safety properties need to survive a step: an order computed from a position
is still within it when it is sent, because nobody else moves that position; a
signal executed and not yet deleted is the one execution in advance of the
faults; and what the agent remembers equals what the strategy owns unless a
cause is on record, at every point of the cycle. From it follow
`TreasuryAccounted`, `SignalReplayBounded`, `OwnActionsAreQuiet` and, as an
action property, `OverdraftHasCause`, for any number of depositors, any
amounts, thresholds and bounds.

**Display.** `DashboardProofs!DashInv` is inductive. For panels it says that a
request under way in a store that drops late answers was sent for the vault and
the wallet that are shown (`FlightInv`), since navigation cancels the others; with
it an answer cannot put somebody else's figures on the page
(`CancellingPanelsAreOwn`). For the feed it says what `FeedIsExact` does not: the
notifications on the wire continue where the delivered ones end (`WireInv`), the
rows are transactions of the page (`RowsInv`), and whatever was delivered outside
the moments in which the feed was getting ready (`Raced`) is listed, older than
the feed, or pushed out of a full one by newer rows (`Passed`). As long as it is
not ready all is raced; a transaction the backfill lists before the subscription
announces it is listed once until then and twice after, never more (`FeedInv`).
Both hold for any number of pages, wallets and requests and any limits.

### Only proved

To keep the runs to what is hard, six properties of the ledger and two of the
market have a theorem and no run: `InactiveIsEmpty`, `DepositKeepsLiquidity`,
`PauseOnlyLetsOut`, `AutoPullIsLastResort`, `RedeemerIsPaid`, `SharesBacked`;
the market's `TypeOK` and `RateDefined`.

### Only model-checked

The refuted claims and all liveness. Every other property of a passing run is
also proved.

The prover has no liveness, and no induction over data with an operator
parameter. Where a proof needs one all the same, it chooses the least number at
which the claim would fail (`RunIsChain`, `PlanIsChain`), a sum over a finite set
is related to its recursion through a counting argument (`SumIsCount`), and a fold
over a list is given by the places of its results. `ENABLED`, which the prover
does not have either, remains where no theorem depends on it: a transaction of the
looper or the Lulo agent is refused when its action is not enabled.

## 5. What the refuted claims show

* `withdraw.rs:131-136` describes an auto-pull that goes on until the gap is
  closed. The loop caps a pull by the balance and then subtracts it from the
  book value with `checked_sub` (line 207): a strategy with yield that is not
  reported yet reverts the withdrawal, and with two such strategies so does
  every order of the list.
* `docs/TEST_PLAN.md:103` says a withdrawal from a paused vault still succeeds.
  Governance may raise the protocol cut above a vault's fee, and then no
  withdrawal of that vault does. The same holds of a new vault, created with the
  default fee, under a protocol fee above it.
* `allocator.ts:46` puts the emergency deleverage first for safety. It closes
  the loop by withdrawing, then repaying. If the deposit of the loan is lost and
  the strategy is the market's main lender, the market cannot pay the withdrawal
  and the loan, whose tokens are idle in the strategy's account, is not repaid
  in that or any later cycle. The same happens with no cTokens left, after three
  failures in a row. Repaying from idle tokens first would resolve both.

### Other disagreements met while modelling

These have no run of their own; the modules contain the behaviour.

*Ledger.* `README.md:70` and `PLAN.md:463` describe a first deposit at 1:1, the
code mints `VIRTUAL_SHARES` shares for each token. `tests/helpers/invariants.ts`
states `total_deposited = reserve + active allocations` for every reachable
state; a transfer of tokens to the reserve breaks it for good, and `BooksBalance`
is what holds. `add_vault_allowed_token.rs:20-23` calls the per-vault list a
subset of the protocol's, which `remove_allowed_token` does not keep.
`accept_admin` leaves `pending_authority` as it is.

*Market.* `mock_kamino/src/lib.rs:32` and `:692` announce a health factor for
"borrows / withdraws"; only borrows have one.

*Lulo agent.* (a) An inactive strategy with tokens lent is to be emptied and the
agent to exit (`monitor.ts:117-128`); `execute_action.rs:32` refuses inactive
strategies, so it never does. (b) `idleBalance` is the token balance less the
lent balance (`monitor.ts:234`), although lent tokens have left the account
(comment at `:180`). (c) A signal written between the execution of the last one
and its deletion is lost. (d) A signal the treasury cannot pay blocks every later
cycle. (e) Its amount is not capped, so it can take what others lent. (f) The
test for transient errors is case-sensitive, and a transaction whose answer was
lost is executed again. (g) After a signal `lastBalance` is the token balance
alone, so the next cycle takes the agent's own withdrawal for an external change,
against the comment at `:199`.

*Console.* The Jupiter preset registers a mint's balance at scale 1 beside its
price, which counts it twice; `useVaultAllowedTokens.ts:300-305` explains why a
carrier must have scale 0. Removing a token looks for its sources at offset 8
(`:377`) instead of 40 and finds none. A source that outlives its pair makes a
later pair read another mint's feed. `ChangePresetModal.tsx:145` promises that one
"can retry", but the retry uses the rows read before and is refused at the first
one already revoked. Nothing cancels the building of its preview (`:58-66`), so
the rows of a target left may arrive under the one chosen: "Apply" then revokes
what those lack and adds of "will add" only what the chosen target has too, so the
strategy ends between two presets though each step was shown. A placeholder
obligation, there "for *detection only*" (`StrategyCard.tsx:70-73`), is what a
preset change writes. A preset of `100` bps loss cap on a deposit refuses a lend
of more than 1% of the book value. `StrategyList.tsx:23-26` and
`WeightEditor.tsx:43-46` say that the program does not cap the sum of weights; it
does.

*Forms.* The planner of `useWithdraw.ts` prepends redemptions to the withdrawal in
one transaction; `execute_action.rs:120-152` refuses that, for the holder is no
delegate and a sibling instruction is present. `WithdrawForm.tsx:28-29` disables
the button when the shown reserve is short, so the planner is reached from
outdated pages only. The planner ignores what the market or the treasury can pay.
A balance it could not read (`useWithdraw.ts:75-77`) counts as zero, so a covered
withdrawal may get redemptions in front and be refused, or go through although the
page found it short. `RedeemFromExternalButton` lets an admin click whom the
gateway refuses.

*Scripts.* `e2e-kamino.ts:643` recalls a balance with unreported yield, more than
the book value, so the test ends there and never reaches its later parts; `:867`
passes seven of nine arguments. `setup-kamino-strategy.ts:34-35` calls itself
idempotent and is not. A `setup-demo-vault` that dies between the two acceptances
leaves the authority with the payer, and its rerun looks at the admin only: it
prints "already admin + authority" (`:233`) and accepts nothing. So
`DoneMeansDone` asks of the authority that it is the demo key's or offered to it.
`create-vault` that dies before its proposals never makes them.
`repair-defi-alpha-value-sources` removes the sources of all mints and restores
one. `mint-defi-alpha` reports failure when a strategy had unreported tokens
before. A `setup-demo-faucet` that dies between handing the mint over and
registering it leaves a mint nobody can use.

*Display.* `VaultProvider` resets "cached state when the URL switches between
vaults", but an answer under way puts the old vault's figures on the new page
until the next timer; `useUserPosition` does the same after a change of wallet.
`VaultAllowedActionsProvider` has no timer, so there a late foreign answer stays.
The feed's backfill replaces rows that the subscription brought meanwhile, or
repeats them: until both are ready, on opening and after each change of wallet,
an event may be lost or shown twice, against the comment at `ActivityFeed.tsx:80`
that the subscription "keeps newer events flowing".

## 6. Not modelled, and the plan

* Prices: age, exponent, staleness and the scaling inside a settlement.
  `StrategyConfig` says which sources can be read and how often a balance
  counts, `Vault` takes every value a settlement can arrive at. The composition
  of the two, with prices as numbers, is the next step.
* The account snapshots around a relayed call and the arithmetic of the loss cap
  in `execute_action`: what a relayed program may do to the accounts. The
  outcome (within the cap or beyond) is a choice of the caller.
* Transfer of governance and of the protocol treasury: nothing modelled depends
  on who holds them.
* Several faucet mints; the change of the amount per claim.
* Scripts that only read (`dump-*`, `read-*`), crank prices, or create tokens
  with their metadata. Pages' layout, charts as pictures, token names, number
  formatting, the demo and test wallets. Generated IDL.
* Mint extension checks (`reject_dangerous_mint_extensions` reads a static
  account). Signer checks outside `StrategyConfig` fix which account an action
  may touch and are otherwise not represented.

Simplifications to know of: a tab does one thing at a time and a refused click
changes nothing; reads sent together (`Promise.all`, chunks of addresses) are one
moment; the node returns every transaction that it has listed for the backfill; every
panel shares one instance of the strategies hook; in `Scripts` the
new-token scenario is signed by governance for the listing and by the admin for
the rest, where the script holds both keys in one.

Next: a settlement with numeric prices shown to stay within what `Vault`
admits.
