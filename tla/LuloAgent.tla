------------------------------ MODULE LuloAgent ------------------------------
(***************************************************************************)
(* The Lulo agent (agent/lulo) over the mock lending program.  It polls    *)
(* its strategy, obeys two hard rules (strategy inactive, withdraw signal  *)
(* file), lends a fresh deposit by itself and otherwise asks a language    *)
(* model.  A decision is one execute_action of the vault, retried when the *)
(* error looks transient.  All it remembers is in memory and lost when the *)
(* process stops; the signal file survives.                                *)
(*                                                                         *)
(* A lost transaction lands at once or never: its blockhash expires within *)
(* a poll interval.  What the model answers is any decision.               *)
(***************************************************************************)
EXTENDS MockLulo

CONSTANTS
  Agent,            \* the strategy whose delegate key the agent holds
  Seed,             \* principal of every other strategy
  Amounts,          \* what others, and the language model, ask for
  MinLend,          \* minLendAmount
  MinDelta,         \* 10_000, the absolute part of MIN_DELTA_THRESHOLD
  PerMille,         \* 1000: the relative part is a thousandth of the total
  Routine,          \* 10, the quiet cycles between two consultations
  MaxRetries,
  MaxEvents,        \* bound on what the others do
  MaxFaults         \* bound on failed reads, lost answers and crashes

ASSUME AgentAssumption ==
  /\ Agent \in Depositors /\ Seed \in Nat
  /\ Amounts \subseteq Nat \ {0} /\ IsFiniteSet(Amounts)
  /\ MinLend \in Nat \ {0} /\ MinDelta \in Nat \ {0} /\ PerMille \in Nat \ {0}
  /\ Routine \in Nat \ {0} /\ MaxRetries \in Nat \ {0}
  /\ MaxEvents \in Nat /\ MaxFaults \in Nat

VARIABLES
  active,           \* Strategy.is_active
  delegated,        \* Strategy.delegate is the agent's key
  book,             \* Strategy.allocated_amount
  signal,           \* the amount in the signal file, 0 when there is none
  phase,            \* where the process is; "down" and "exited" when it is not
  snapshot,         \* [active, tokens] read at the start of the cycle, with the
                    \* causes known by then
  order,            \* the decision being executed: [do, amount, why, total, try]
  lastBalance,      \* state.lastBalance, -1 before the first cycle
  quiet,            \* state.routineCycleCount
  causes,           \* history: why the total may have changed since that read
  served,           \* history: how often the present signal was executed
  events, faults    \* history: how often others acted, how often a step failed

chainVars  == <<luloVars, active, delegated, book>>
memoryVars == <<lastBalance, quiet>>
boundVars  == <<events, faults>>
agentVars  == <<chainVars, signal, phase, snapshot, order, memoryVars,
                causes, served, boundVars>>

NoSnapshot == [active |-> TRUE, tokens |-> 0, causes |-> {}]
NoOrder == [do |-> "HOLD", amount |-> 0, why |-> "none", total |-> 0, try |-> 0]

Order(do, amount, why, total) ==
  [do |-> do, amount |-> amount, why |-> why, total |-> total, try |-> 1]

\* The other strategies lent their Seed beforehand.
AgentInit ==
  /\ LuloInit([d \in Depositors |-> IF d = Agent THEN 0 ELSE Seed])
  /\ active = TRUE /\ delegated = TRUE /\ book = 0
  /\ signal = 0
  /\ phase = "down"
  /\ snapshot = NoSnapshot
  /\ order = NoOrder
  /\ lastBalance = -1 /\ quiet = 0
  /\ causes = {} /\ served = 0 /\ events = 0 /\ faults = 0

-----------------------------------------------------------------------------
(***************************************************************************)
(* A poll cycle.                                                           *)
(***************************************************************************)

\* main(): refuses to start on an inactive strategy or with another key.
Start ==
  /\ phase = "down"
  /\ active /\ delegated
  /\ phase' = "poll"
  /\ UNCHANGED <<chainVars, signal, snapshot, order, memoryVars, causes, served,
                 boundVars>>

\* fetchStrategy and fetchTokenBalance.
ReadStrategy ==
  /\ phase = "poll"
  /\ snapshot' = [active |-> active, tokens |-> held[Agent], causes |-> causes]
  /\ causes' = {}
  /\ phase' = "decide"
  /\ UNCHANGED <<chainVars, signal, order, memoryVars, served, boundVars>>

\* A cycle that threw: the loop goes on, after a longer pause when maxRetries
\* cycles in a row have failed.
CycleFails ==
  /\ phase' = "poll"
  /\ order' = NoOrder /\ snapshot' = NoSnapshot

\* A cycle that returned, remembering this balance.
CycleEnds(balance) ==
  /\ lastBalance' = balance
  /\ phase' = "poll"
  /\ order' = NoOrder /\ snapshot' = NoSnapshot

Send(o) ==
  /\ order' = o
  /\ phase' = "await"
  /\ UNCHANGED <<lastBalance, snapshot>>

Difference(total) == IF total < lastBalance THEN lastBalance - total ELSE total - lastBalance
StateChanged(total) ==
  \/ lastBalance = -1
  \/ /\ Difference(total) >= MinDelta
     /\ Difference(total) * PerMille >= total

\* The deterministic pre-check: all but 5% of the total.
FreshDeposit(total) == snapshot.tokens - (total * 5) \div 100
\* Mutant: the pre-check runs for a changed balance only.
LendsAtOnceIfChanged(lent, total) ==
  lent = 0 /\ FreshDeposit(total) >= MinLend /\ StateChanged(total) /\ lastBalance # -1
LendsAtOnce(lent, total) ==
  lent = 0 /\ snapshot.tokens >= MinLend /\ FreshDeposit(total) >= MinLend

\* Mutant: the model's amount is passed on.
WithdrawableAny(amount, lent) == amount
Withdrawable(amount, lent) == IF amount < lent THEN amount ELSE lent

\* What is lent on advice: the code takes the idle balance to be the token
\* balance less what is lent.
Lendable(amount, lent) ==
  IF amount < snapshot.tokens - lent THEN amount ELSE snapshot.tokens - lent

\* The model said LEND, WITHDRAW or HOLD, failed, or was asked too early.
Follow(lent, total) ==
  \/ \E amount \in Amounts :
       \/ /\ Lendable(amount, lent) >= MinLend
          /\ Send(Order("LEND", Lendable(amount, lent), "advice", total))
       \/ /\ Withdrawable(amount, lent) > 0
          /\ Send(Order("WITHDRAW", Withdrawable(amount, lent), "advice", total))
  \/ CycleEnds(total)

Consults(total) == StateChanged(total) \/ quiet + 1 >= Routine

\* Steps 3 to 5 of a cycle without a hard rule.
Evaluate(lent, total) ==
  \/ /\ LendsAtOnce(lent, total)
     /\ Send(Order("LEND", FreshDeposit(total), "fresh", total))
     /\ UNCHANGED quiet
  \/ /\ ~LendsAtOnce(lent, total)
     /\ quiet' = IF StateChanged(total) THEN quiet
                 ELSE IF quiet + 1 >= Routine THEN 0 ELSE quiet + 1
     /\ IF Consults(total) THEN Follow(lent, total) ELSE CycleEnds(total)

\* Strategy deactivated: withdraw all, then exit.
LeaveProtocol(lent) ==
  /\ IF lent > 0
       THEN Send(Order("WITHDRAW", lent, "inactive", 0))
       ELSE /\ phase' = "exited"
            /\ UNCHANGED <<order, snapshot, lastBalance>>
  /\ UNCHANGED quiet

ServeSignal ==
  /\ Send(Order("WITHDRAW", signal, "signal", 0))
  /\ UNCHANGED quiet

\* Mutant: the signal is looked at only when the balance changed.
DecideQuietly ==
  /\ phase = "decide"
  /\ LET lent == position[Agent]
         total == snapshot.tokens + lent
     IN  IF ~snapshot.active THEN LeaveProtocol(lent)
         ELSE IF signal > 0 /\ StateChanged(total) THEN ServeSignal
         ELSE Evaluate(lent, total)
  /\ UNCHANGED <<chainVars, signal, causes, served, boundVars>>

\* The rest of the cycle up to its transaction, with the position read now.
Decide ==
  /\ phase = "decide"
  /\ LET lent == position[Agent]
         total == snapshot.tokens + lent
     IN  IF ~snapshot.active THEN LeaveProtocol(lent)
         ELSE IF signal > 0 THEN ServeSignal
         ELSE Evaluate(lent, total)
  /\ UNCHANGED <<chainVars, signal, causes, served, boundVars>>

\* An RPC read failed.
ReadFails ==
  /\ phase \in {"poll", "decide"} /\ faults < MaxFaults
  /\ CycleFails
  /\ causes' = causes \cup snapshot.causes
  /\ faults' = faults + 1
  /\ UNCHANGED <<chainVars, signal, lastBalance, quiet, served, events>>

-----------------------------------------------------------------------------
(***************************************************************************)
(* execute_action, and the retries around it.                              *)
(***************************************************************************)

\* The vault lets the delegate of an active strategy through.
Land ==
  /\ active /\ delegated
  /\ \/ order.do = "LEND" /\ DepositPrincipal(Agent, order.amount)
     \/ order.do = "WITHDRAW" /\ WithdrawPrincipal(Agent, order.amount)
  /\ served' = IF order.why = "signal" THEN served + 1 ELSE served
  /\ UNCHANGED <<active, delegated, book>>

Overdraft == IF overdrawn'[Agent] > overdrawn[Agent] THEN {"overdraft"} ELSE {}

Serving == order.why = "signal"
\* Mutant: the balance remembered after lending is the idle one.
AfterOrderIdle ==
  IF Serving THEN phase' = "unlink" /\ UNCHANGED <<lastBalance, order, snapshot>>
  ELSE CycleEnds(snapshot.tokens)
\* A signal still has to be deleted.  Nothing follows the withdrawal from an
\* inactive strategy: the vault refuses it.
AfterOrder ==
  IF Serving THEN phase' = "unlink" /\ UNCHANGED <<lastBalance, order, snapshot>>
  ELSE CycleEnds(order.total)

Confirmed ==
  /\ phase = "await"
  /\ Land
  /\ causes' = causes \cup Overdraft
  /\ AfterOrder
  /\ UNCHANGED <<signal, quiet, boundVars>>

\* A program error is not retried.
Refused ==
  /\ phase = "await"
  /\ ~ENABLED Land
  /\ CycleFails
  /\ causes' = causes \cup snapshot.causes
  /\ UNCHANGED <<chainVars, signal, lastBalance, quiet, served, boundVars>>

\* The answer is lost, whether the transaction landed or not.  An error that
\* looks transient is retried with a new transaction, any other ends the cycle.
AnswerLost ==
  /\ phase = "await" /\ faults < MaxFaults
  /\ Land \/ UNCHANGED <<chainVars, served>>
  /\ \/ /\ order.try < MaxRetries
        /\ order' = [order EXCEPT !.try = @ + 1]
        /\ causes' = causes \cup Overdraft
        /\ UNCHANGED <<phase, snapshot>>
     \/ /\ CycleFails
        /\ causes' = causes \cup Overdraft \cup snapshot.causes
  /\ faults' = faults + 1
  /\ UNCHANGED <<signal, lastBalance, quiet, events>>

\* Mutant: the file is left behind.
SignalAfterServiceKept == signal
SignalAfterService == 0

\* The file is deleted, whatever it says by now.
DeleteSignal ==
  /\ phase = "unlink"
  /\ signal' = SignalAfterService
  /\ served' = IF SignalAfterService = 0 THEN 0 ELSE served
  /\ CycleEnds(snapshot.tokens)
  /\ causes' = causes \cup {"signal"}
  /\ UNCHANGED <<chainVars, quiet, boundVars>>

\* The process is stopped or dies; what it remembered is gone.
Crash ==
  /\ phase \notin {"down", "exited"} /\ faults < MaxFaults
  /\ phase' = "down"
  /\ order' = NoOrder /\ snapshot' = NoSnapshot
  /\ lastBalance' = -1 /\ quiet' = 0
  /\ faults' = faults + 1
  /\ UNCHANGED <<chainVars, signal, causes, served, events>>

LoopStep == ReadStrategy \/ Decide \/ Confirmed \/ Refused \/ DeleteSignal

-----------------------------------------------------------------------------
(***************************************************************************)
(* The others: the vault's authority and admin, the yield crank, and the   *)
(* other strategies of the treasury.                                       *)
(***************************************************************************)
Moved == causes' = causes \cup {"vault"}
InCirculation == TotalOf(held) + treasury

Allocate(amount) ==
  /\ active
  /\ InCirculation + amount <= Supply
  /\ held' = [held EXCEPT ![Agent] = @ + amount]
  /\ book' = book + amount
  /\ Moved
  /\ UNCHANGED <<treasury, position, overdrawn, accrued, active, delegated, signal, served>>

Deallocate(amount) ==
  /\ active
  /\ amount <= book /\ amount <= held[Agent]
  /\ held' = [held EXCEPT ![Agent] = @ - amount]
  /\ book' = book - amount
  /\ Moved
  /\ UNCHANGED <<treasury, position, overdrawn, accrued, active, delegated, signal, served>>

\* A loss is recognised, of lent tokens too.
ReportLoss(amount) ==
  /\ amount <= book
  /\ book' = book - amount
  /\ UNCHANGED <<luloVars, active, delegated, signal, causes, served>>

DeactivateStrategy ==
  /\ active /\ book = 0 /\ held[Agent] = 0
  /\ active' = FALSE
  /\ UNCHANGED <<luloVars, delegated, book, signal, causes, served>>

UpdateDelegate ==
  /\ active
  /\ delegated' = ~delegated
  /\ UNCHANGED <<luloVars, active, book, signal, causes, served>>

\* The authority asks for tokens; an earlier request is overwritten.
WriteSignal(amount) ==
  /\ signal' = amount
  /\ served' = 0
  /\ UNCHANGED <<chainVars, causes>>

YieldAccrues(amount) ==
  /\ AddYield(amount)
  /\ UNCHANGED <<active, delegated, book, signal, causes, served>>

\* Another strategy's delegate.
PeerTrades(d, amount) ==
  /\ DepositPrincipal(d, amount) \/ WithdrawPrincipal(d, amount)
  /\ UNCHANGED <<active, delegated, book, signal, causes, served>>

OthersAct ==
  /\ events < MaxEvents
  /\ events' = events + 1
  /\ \/ DeactivateStrategy \/ UpdateDelegate
     \/ \E amount \in Amounts :
          \/ Allocate(amount) \/ Deallocate(amount) \/ ReportLoss(amount)
          \/ WriteSignal(amount) \/ YieldAccrues(amount)
          \/ \E d \in Depositors \ {Agent} : PeerTrades(d, amount)
  /\ UNCHANGED <<phase, snapshot, order, memoryVars, faults>>

AgentNext ==
  \/ Start \/ LoopStep
  \/ ReadFails \/ AnswerLost \/ Crash
  \/ OthersAct

\* The loop goes on after every error and every await returns; nobody has to
\* start the agent again, and nobody else has to act.
AgentSpec == AgentInit /\ [][AgentNext]_agentVars /\ WF_agentVars(LoopStep)

-----------------------------------------------------------------------------
Phases == {"down", "poll", "decide", "await", "unlink", "exited"}

LuloTypeOK ==
  /\ treasury \in Nat /\ accrued \in Nat
  /\ position \in [Depositors -> Nat]
  /\ held \in [Depositors -> Nat]
  /\ overdrawn \in [Depositors -> Nat]
  /\ {active, delegated} \subseteq BOOLEAN /\ book \in Nat /\ signal \in Nat
  /\ phase \in Phases
  /\ snapshot.tokens \in Nat /\ order.amount \in Nat /\ order.total \in Nat
  /\ order.try \in 0..MaxRetries
  /\ lastBalance \in Nat \cup {-1} /\ quiet \in 0..(Routine - 1)
  /\ causes \subseteq {"vault", "signal", "overdraft"} /\ served \in Nat

\* "The agent's own actions (lend/withdraw) do NOT trigger re-consultation"
\* (monitor.ts:199): a changed total is seen only when the vault moved tokens,
\* also in the middle of a cycle; or after a signal, which leaves the idle
\* balance alone in lastBalance; or after a withdrawal beyond the principal.
OwnActionsAreQuiet ==
  phase = "decide" /\ lastBalance # -1
    /\ StateChanged(snapshot.tokens + position[Agent])
  => causes \cup snapshot.causes # {}

\* The agent takes other depositors' principal from the common treasury only
\* for a signal, whose amount nothing caps, or by sending a withdrawal again
\* whose first answer was lost.
OverdraftHasCause ==
  [][overdrawn'[Agent] > overdrawn[Agent] => order.why = "signal" \/ order.try > 1]_agentVars

\* "Delete the signal file after processing to prevent re-execution"
\* (monitor.ts:139): a signal is executed once, and once more for each crash
\* or lost answer at most.
SignalReplayBounded == served <= 1 + faults

Idle == held[Agent]
Interrupted == ~active \/ ~delegated \/ phase \in {"down", "exited"}

\* A deposit the pre-check covers is lent, although answers get lost and the
\* model may say HOLD for ever.
FreshDepositIsLent ==
  (position[Agent] = 0 /\ Idle - (Idle * 5) \div 100 >= MinLend)
    ~> (position[Agent] > 0 \/ Idle - (Idle * 5) \div 100 < MinLend \/ signal > 0 \/ Interrupted)

\* A signal the treasury can pay is served, whatever the model says and
\* whichever cycles consult it.
SignalIsServed ==
  signal > 0 ~> (signal = 0 \/ treasury < signal \/ Interrupted)
=============================================================================
