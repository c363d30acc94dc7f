----------------------------- MODULE LuloProofs -----------------------------
(***************************************************************************)
(* The books of the lending program and the agent's dealings with them,    *)
(* for every set of strategies, every amount and every number of faults.   *)
(***************************************************************************)
EXTENDS LuloAgent, ArithmeticTheorems

-----------------------------------------------------------------------------
(***************************************************************************)
(* The treasury.                                                           *)
(***************************************************************************)
LoansOK ==
  /\ treasury \in Nat /\ accrued \in Nat
  /\ position \in [Depositors -> Nat]
  /\ held \in [Depositors -> Nat]
  /\ overdrawn \in [Depositors -> Nat]
  /\ TreasuryAccounted

\* One strategy's entry replaced.
Put(f, d, v) == [f EXCEPT ![d] = v]

\* What overwriting one entry does to a total over the strategies.
LEMMA PutFacts ==
  ASSUME NEW f \in [Depositors -> Nat], NEW d \in Depositors, NEW v \in Nat,
         NEW g, g = Put(f, d, v)
  PROVE  /\ g \in [Depositors -> Nat]
         /\ g[d] = v
         /\ \A e \in Depositors \ {d} : g[e] = f[e]
         /\ TotalOf(f) \in Nat
         /\ TotalOf(g) = TotalOf(f) - f[d] + v
<1>1. /\ g \in [Depositors -> Nat]
      /\ g[d] = v
      /\ \A e \in Depositors \ {d} : g[e] = f[e]
  BY DEF Put
<1>2. TotalOf(g) = TotalOf(f) - f[d] + v
  BY <1>1, LuloAssumption, SumUpdate DEF TotalOf
<1>3. TotalOf(f) \in Nat
  BY LuloAssumption, SumType DEF TotalOf
<1> QED BY <1>1, <1>2, <1>3

\* A deposit moves tokens from a strategy into the treasury and its position.
LEMMA DepositStep ==
  ASSUME LoansOK, NEW d \in Depositors, NEW amount \in Nat,
         DepositPrincipal(d, amount)
  PROVE  /\ LoansOK'
         /\ held'[d] = held[d] - amount /\ position'[d] = position[d] + amount
         /\ overdrawn' = overdrawn
         /\ \A e \in Depositors \ {d} : held'[e] = held[e] /\ position'[e] = position[e]
<1> DEFINE h == held[d] - amount
           p == position[d] + amount
<1>1. /\ h \in Nat /\ p \in Nat
      /\ held[d] \in Nat /\ position[d] \in Nat
  BY DEF LoansOK, DepositPrincipal
<1>2. held' = Put(held, d, h) /\ position' = Put(position, d, p)
  BY DEF DepositPrincipal, Put, LoansOK
<1>3. treasury' = treasury + amount /\ overdrawn' = overdrawn /\ accrued' = accrued
  BY DEF DepositPrincipal
<1> HIDE DEF h, p
<1>4. /\ held' \in [Depositors -> Nat] /\ held'[d] = h
      /\ \A e \in Depositors \ {d} : held'[e] = held[e]
  <2>1. held \in [Depositors -> Nat]
    BY DEF LoansOK
  <2>2. held' = Put(held, d, h)
    BY <1>2
  <2> QED BY <1>1, <2>1, <2>2, PutFacts
<1>5. /\ position' \in [Depositors -> Nat] /\ position'[d] = p
      /\ \A e \in Depositors \ {d} : position'[e] = position[e]
      /\ TotalOf(position) \in Nat
      /\ TotalOf(position') = TotalOf(position) - position[d] + p
  <2>1. position \in [Depositors -> Nat]
    BY DEF LoansOK
  <2>2. position' = Put(position, d, p)
    BY <1>2
  <2> QED BY <1>1, <2>1, <2>2, PutFacts
<1>6. TotalOf(overdrawn) \in Nat
  BY LuloAssumption, SumType DEF TotalOf, LoansOK
<1>7. TotalOf(position') = TotalOf(position) + amount
  BY <1>1, <1>5 DEF p
<1>8. treasury' + TotalOf(overdrawn') = TotalOf(position') + accrued'
  BY <1>3, <1>5, <1>6, <1>7 DEF LoansOK, TreasuryAccounted
<1>9. TreasuryAccounted'
  BY <1>8 DEF TreasuryAccounted, TotalOf
<1>10. treasury' \in Nat /\ accrued' \in Nat /\ overdrawn' \in [Depositors -> Nat]
  BY <1>3 DEF LoansOK
<1> QED BY <1>3, <1>4, <1>5, <1>9, <1>10 DEF LoansOK, h, p

\* A withdrawal pays a strategy out of the treasury; what exceeds its position
\* is recorded as overdrawn.
LEMMA WithdrawStep ==
  ASSUME LoansOK, NEW d \in Depositors, NEW amount \in Nat,
         WithdrawPrincipal(d, amount)
  PROVE  /\ LoansOK'
         /\ held'[d] = held[d] + amount
         /\ position'[d] = Saturating(position[d], amount)
         /\ overdrawn'[d] = overdrawn[d] + Saturating(amount, position[d])
         /\ \A e \in Depositors \ {d} :
              /\ held'[e] = held[e] /\ position'[e] = position[e]
              /\ overdrawn'[e] = overdrawn[e]
<1> DEFINE h == held[d] + amount
           p == Saturating(position[d], amount)
           o == overdrawn[d] + Saturating(amount, position[d])
<1>1. /\ held[d] \in Nat /\ position[d] \in Nat /\ overdrawn[d] \in Nat
      /\ h \in Nat /\ p \in Nat /\ o \in Nat
  BY DEF LoansOK, Saturating
<1>2. /\ held' = Put(held, d, h) /\ position' = Put(position, d, p)
      /\ overdrawn' = Put(overdrawn, d, o)
  BY DEF WithdrawPrincipal, PrincipalAfter, Put, LoansOK
<1>3. treasury' = treasury - amount /\ amount <= treasury /\ accrued' = accrued
  BY DEF WithdrawPrincipal
<1>4. o - overdrawn[d] = p - position[d] + amount
  BY <1>1 DEF Saturating
<1> HIDE DEF h, p, o
<1>5. /\ held' \in [Depositors -> Nat] /\ held'[d] = h
      /\ \A e \in Depositors \ {d} : held'[e] = held[e]
  <2>1. held \in [Depositors -> Nat]
    BY DEF LoansOK
  <2>2. held' = Put(held, d, h)
    BY <1>2
  <2> QED BY <1>1, <2>1, <2>2, PutFacts
<1>6. /\ position' \in [Depositors -> Nat] /\ position'[d] = p
      /\ \A e \in Depositors \ {d} : position'[e] = position[e]
      /\ TotalOf(position) \in Nat
      /\ TotalOf(position') = TotalOf(position) - position[d] + p
  <2>1. position \in [Depositors -> Nat]
    BY DEF LoansOK
  <2>2. position' = Put(position, d, p)
    BY <1>2
  <2> QED BY <1>1, <2>1, <2>2, PutFacts
<1>7. /\ overdrawn' \in [Depositors -> Nat] /\ overdrawn'[d] = o
      /\ \A e \in Depositors \ {d} : overdrawn'[e] = overdrawn[e]
      /\ TotalOf(overdrawn) \in Nat
      /\ TotalOf(overdrawn') = TotalOf(overdrawn) - overdrawn[d] + o
  <2>1. overdrawn \in [Depositors -> Nat]
    BY DEF LoansOK
  <2>2. overdrawn' = Put(overdrawn, d, o)
    BY <1>2
  <2> QED BY <1>1, <2>1, <2>2, PutFacts
<1>8. treasury' + TotalOf(overdrawn') = TotalOf(position') + accrued'
  BY <1>1, <1>3, <1>4, <1>6, <1>7 DEF LoansOK, TreasuryAccounted
<1>9. TreasuryAccounted'
  BY <1>8 DEF TreasuryAccounted, TotalOf
<1>10. treasury' \in Nat /\ accrued' \in Nat
  BY <1>3 DEF LoansOK
<1> QED BY <1>5, <1>6, <1>7, <1>9, <1>10 DEF LoansOK, h, p, o

\* Tokens from outside are booked as yield.
LEMMA YieldStep ==
  ASSUME LoansOK, NEW amount \in Nat, AddYield(amount)
  PROVE  LoansOK'
<1>1. TotalOf(overdrawn) \in Nat /\ TotalOf(position) \in Nat
  BY LuloAssumption, SumType DEF TotalOf, LoansOK
<1>2. /\ treasury' = treasury + amount /\ accrued' = accrued + amount
      /\ overdrawn' = overdrawn /\ position' = position /\ held' = held
  BY DEF AddYield
<1>3. treasury' + TotalOf(overdrawn') = TotalOf(position') + accrued'
  BY <1>1, <1>2 DEF LoansOK, TreasuryAccounted
<1>4. TreasuryAccounted'
  BY <1>3 DEF TreasuryAccounted, TotalOf
<1> QED BY <1>2, <1>4 DEF LoansOK

\* Steps that leave the lending program's own state and all totals alone.
LEMMA LoansKept ==
  ASSUME LoansOK, UNCHANGED <<treasury, position, overdrawn, accrued>>,
         held' \in [Depositors -> Nat]
  PROVE  LoansOK'
<1>1. TreasuryAccounted'
  BY DEF LoansOK, TreasuryAccounted, TotalOf
<1> QED BY <1>1 DEF LoansOK

-----------------------------------------------------------------------------
(***************************************************************************)
(* The agent.                                                              *)
(***************************************************************************)
Causes == {"vault", "signal", "overdraft"}
Snapshots == [active : BOOLEAN, tokens : Nat, causes : SUBSET Causes]
Orders == [do : {"LEND", "WITHDRAW", "HOLD"}, amount : Nat,
           why : {"none", "advice", "fresh", "inactive", "signal"},
           total : Nat, try : 0..MaxRetries]

MemoryOK ==
  /\ active \in BOOLEAN /\ delegated \in BOOLEAN /\ book \in Nat /\ signal \in Nat
  /\ phase \in Phases
  /\ snapshot \in Snapshots /\ order \in Orders
  /\ lastBalance \in Nat \cup {-1} /\ quiet \in 0..(Routine - 1)
  /\ causes \subseteq Causes
  /\ served \in Nat /\ faults \in Nat

\* A withdrawal on advice, or from an inactive strategy, is within the position
\* read before it until its first answer: only the agent's own key moves that
\* position.
OrderWithinPosition ==
  phase = "await" =>
    /\ order.try >= 1
    /\ order.do = "WITHDRAW" /\ order.why # "signal" /\ order.try = 1
         => order.amount <= position[Agent]

\* An execution of the signal not yet paid for by a fault is the one whose file
\* is about to be deleted.
ServedOnce == served <= faults + (IF phase = "unlink" THEN 1 ELSE 0)

Wealth == held[Agent] + position[Agent]

\* What the strategy owns is what the agent remembers, or there is a cause for
\* the difference on record.  Between two reads the snapshot and the order
\* stand for it.
BalanceKnown ==
  /\ phase \in {"poll", "down"} /\ lastBalance # -1 /\ causes = {} => Wealth = lastBalance
  /\ phase \in {"decide", "await"} /\ lastBalance # -1 /\ causes \cup snapshot.causes = {}
     => Wealth = lastBalance
  /\ phase = "decide" =>
       /\ causes = {} => snapshot.tokens = held[Agent]
       /\ ~snapshot.active => ~active
  /\ phase = "await" =>
       /\ order.why = "inactive" => ~active
       /\ order.why \notin {"inactive", "signal"} /\ causes = {} => Wealth = order.total

AgentInv ==
  LoansOK /\ MemoryOK /\ OrderWithinPosition /\ ServedOnce /\ BalanceKnown

\* The strategy of the agent has an entry in every book.
LEMMA OwnEntries ==
  ASSUME LoansOK
  PROVE  /\ Agent \in Depositors
         /\ held[Agent] \in Nat /\ position[Agent] \in Nat /\ overdrawn[Agent] \in Nat
         /\ Wealth \in Nat
<1>1. Agent \in Depositors
  BY AgentAssumption
<1>2. held[Agent] \in Nat /\ position[Agent] \in Nat /\ overdrawn[Agent] \in Nat
  BY <1>1 DEF LoansOK
<1> QED BY <1>1, <1>2 DEF Wealth

\* The others lent their Seed, the agent nothing; nothing was overdrawn.
LEMMA InitKeeps ==
  ASSUME AgentInit
  PROVE  AgentInv
<1> DEFINE seeds == [d \in Depositors |-> IF d = Agent THEN 0 ELSE Seed]
<1>1. seeds \in [Depositors -> Nat]
  BY AgentAssumption
<1>2. /\ position = seeds /\ treasury = TotalOf(seeds) /\ accrued = 0
      /\ held = [d \in Depositors |-> 0] /\ overdrawn = [d \in Depositors |-> 0]
  BY DEF AgentInit, LuloInit
<1> HIDE DEF seeds
<1>3. TotalOf(seeds) \in Nat
  BY <1>1, LuloAssumption, SumType DEF TotalOf
<1>4. TotalOf(overdrawn) = 0
  <2>1. overdrawn \in [Depositors -> Nat] /\ \A d \in Depositors : overdrawn[d] = 0
    BY <1>2
  <2> QED BY <2>1, LuloAssumption, SumZero DEF TotalOf
<1>5. LoansOK
  BY <1>1, <1>2, <1>3, <1>4 DEF LoansOK, TreasuryAccounted
<1>6. MemoryOK
  BY AgentAssumption DEF AgentInit, MemoryOK, NoSnapshot, NoOrder, Snapshots, Orders,
     Causes, Phases
<1>7. OrderWithinPosition /\ ServedOnce /\ BalanceKnown
  BY DEF AgentInit, OrderWithinPosition, ServedOnce, BalanceKnown, NoSnapshot
<1> QED BY <1>5, <1>6, <1>7 DEF AgentInv

\* An order that lands: what the strategy owns changes only by an overdraft, and
\* an overdraft is a withdrawal beyond the position.
LEMMA LandFacts ==
  ASSUME AgentInv, Land
  PROVE  /\ LoansOK'
         /\ active /\ active' = active /\ delegated' = delegated /\ book' = book
         /\ served' = IF order.why = "signal" THEN served + 1 ELSE served
         /\ overdrawn'[Agent] > overdrawn[Agent] =>
              order.do = "WITHDRAW" /\ order.amount > position[Agent]
         /\ Overdraft \subseteq Causes
         /\ Overdraft = {} => Wealth' = Wealth
<1>1. Agent \in Depositors /\ order.amount \in Nat /\ LoansOK
  BY AgentAssumption DEF AgentInv, MemoryOK, Orders
<1>2. /\ active /\ active' = active /\ delegated' = delegated /\ book' = book
      /\ served' = IF order.why = "signal" THEN served + 1 ELSE served
  BY DEF Land
<1>3. Overdraft \subseteq Causes
  BY DEF Overdraft, Causes
<1>4. CASE order.do = "LEND" /\ DepositPrincipal(Agent, order.amount)
  <2>1. /\ LoansOK' /\ overdrawn' = overdrawn
        /\ held'[Agent] = held[Agent] - order.amount
        /\ position'[Agent] = position[Agent] + order.amount
    BY <1>1, <1>4, DepositStep
  <2>2. Wealth' = Wealth
    BY <1>1, <2>1, OwnEntries DEF Wealth
  <2>3. ~(overdrawn'[Agent] > overdrawn[Agent])
    BY <1>1, <2>1, OwnEntries
  <2> QED BY <1>2, <1>3, <2>1, <2>2, <2>3
<1>5. CASE order.do = "WITHDRAW" /\ WithdrawPrincipal(Agent, order.amount)
  <2>1. /\ LoansOK'
        /\ held'[Agent] = held[Agent] + order.amount
        /\ position'[Agent] = Saturating(position[Agent], order.amount)
        /\ overdrawn'[Agent] = overdrawn[Agent] + Saturating(order.amount, position[Agent])
    BY <1>1, <1>5, WithdrawStep
  <2>2. CASE order.amount > position[Agent]
    <3>1. overdrawn'[Agent] > overdrawn[Agent]
      BY <1>1, <2>1, <2>2, OwnEntries DEF Saturating
    <3>2. Overdraft # {}
      BY <3>1 DEF Overdraft
    <3> QED BY <1>2, <1>3, <1>5, <2>1, <2>2, <3>2
  <2>3. CASE ~(order.amount > position[Agent])
    <3>1. overdrawn'[Agent] = overdrawn[Agent]
      BY <1>1, <2>1, <2>3, OwnEntries DEF Saturating
    <3>2. ~(overdrawn'[Agent] > overdrawn[Agent])
      BY <1>1, <3>1, OwnEntries
    <3>3. Wealth' = Wealth
      BY <1>1, <2>1, <2>3, OwnEntries DEF Wealth, Saturating
    <3> QED BY <1>2, <1>3, <2>1, <3>2, <3>3
  <2> QED BY <2>2, <2>3
<1> QED BY <1>4, <1>5 DEF Land

\* Steps of the agent that send nothing leave chain and treasury alone.
LEMMA ChainKept ==
  ASSUME LoansOK, UNCHANGED chainVars
  PROVE  LoansOK' /\ Wealth' = Wealth
BY DEF LoansOK, TreasuryAccounted, TotalOf, Wealth, chainVars, luloVars

\* The process is started on an active strategy, without a memory or with one.
LEMMA StartKeeps ==
  ASSUME AgentInv, Start
  PROVE  AgentInv'
<1>1. LoansOK' /\ Wealth' = Wealth
  BY ChainKept DEF AgentInv, Start
<1>2. MemoryOK'
  BY DEF AgentInv, MemoryOK, Start, chainVars, memoryVars, boundVars, Phases
<1>3. OrderWithinPosition' /\ ServedOnce'
  BY DEF AgentInv, MemoryOK, OrderWithinPosition, ServedOnce, Start, boundVars
<1>4. BalanceKnown'
  BY <1>1 DEF AgentInv, BalanceKnown, Start, memoryVars
<1> QED BY <1>1, <1>2, <1>3, <1>4 DEF AgentInv

\* The balance is read, and what has changed it until now goes into the snapshot.
LEMMA ReadKeeps ==
  ASSUME AgentInv, ReadStrategy
  PROVE  AgentInv'
<1>1. LoansOK' /\ Wealth' = Wealth
  BY ChainKept DEF AgentInv, ReadStrategy
<1>2. MemoryOK'
  <2>1. snapshot' \in Snapshots
    BY OwnEntries DEF AgentInv, MemoryOK, ReadStrategy, Snapshots
  <2> QED BY <2>1 DEF AgentInv, MemoryOK, ReadStrategy, chainVars, memoryVars, boundVars,
                      Phases
<1>3. OrderWithinPosition' /\ ServedOnce'
  BY DEF AgentInv, MemoryOK, OrderWithinPosition, ServedOnce, ReadStrategy, boundVars
<1>4. BalanceKnown'
  <2>1. /\ snapshot'.tokens = held[Agent] /\ snapshot'.active = active
        /\ snapshot'.causes = causes /\ causes' = {}
        /\ phase = "poll" /\ phase' = "decide" /\ lastBalance' = lastBalance
        /\ held' = held /\ active' = active
    BY DEF ReadStrategy, chainVars, luloVars, memoryVars
  <2>2. lastBalance' # -1 /\ causes' \cup snapshot'.causes = {} => Wealth' = lastBalance'
    <3> SUFFICES ASSUME lastBalance # -1, causes = {} PROVE Wealth = lastBalance
      BY <1>1, <2>1
    <3> QED BY <2>1 DEF AgentInv, BalanceKnown, ReadStrategy
  <2> QED BY <2>1, <2>2 DEF BalanceKnown
<1> QED BY <1>1, <1>2, <1>3, <1>4 DEF AgentInv

\* What the strategy owns is also what it lent and what it was seen to hold.
LEMMA TotalNat ==
  ASSUME AgentInv
  PROVE  /\ position[Agent] \in Nat /\ snapshot.tokens \in Nat
         /\ snapshot.tokens + position[Agent] \in Nat
         /\ order \in Orders
         /\ phase = "decide" /\ causes = {} => Wealth = snapshot.tokens + position[Agent]
<1>1. position[Agent] \in Nat /\ held[Agent] \in Nat /\ snapshot.tokens \in Nat
  BY OwnEntries DEF AgentInv, MemoryOK, Snapshots
<1>2. phase = "decide" /\ causes = {} => Wealth = snapshot.tokens + position[Agent]
  BY <1>1 DEF AgentInv, BalanceKnown, Wealth
<1> QED BY <1>1, <1>2 DEF AgentInv, MemoryOK

\* A cycle that ends with the total it computed remembers what the strategy owns.
LEMMA EndOfCycleKeeps ==
  ASSUME AgentInv, phase = "decide", UNCHANGED <<chainVars, signal, causes, served, boundVars>>,
         CycleEnds(snapshot.tokens + position[Agent]), quiet' \in 0..(Routine - 1)
  PROVE  AgentInv'
<1>1. LoansOK' /\ Wealth' = Wealth
  BY ChainKept DEF AgentInv
<1>2. /\ phase' = "poll" /\ lastBalance' = snapshot.tokens + position[Agent]
      /\ order' = NoOrder /\ snapshot' = NoSnapshot /\ causes' = causes
      /\ served' = served /\ faults' = faults
  BY DEF CycleEnds, boundVars
<1>3. MemoryOK'
  <2>1. lastBalance' \in Nat
    BY <1>2, TotalNat
  <2>2. snapshot' \in Snapshots /\ order' \in Orders
    BY <1>2, AgentAssumption DEF NoSnapshot, NoOrder, Snapshots, Orders, Causes
  <2> QED BY <1>2, <2>1, <2>2 DEF AgentInv, MemoryOK, chainVars, Phases
<1>4. OrderWithinPosition' /\ ServedOnce'
  BY <1>2 DEF AgentInv, MemoryOK, OrderWithinPosition, ServedOnce
<1>5. BalanceKnown'
  BY <1>1, <1>2, TotalNat DEF BalanceKnown
<1> QED BY <1>1, <1>3, <1>4, <1>5 DEF AgentInv

\* An order that is sent keeps to the position, and its total is the strategy's.
LEMMA SendKeeps ==
  ASSUME AgentInv, phase = "decide", UNCHANGED <<chainVars, signal, causes, served, boundVars>>,
         NEW o \in Orders, Send(o), quiet' \in 0..(Routine - 1),
         o.try = 1,
         o.do = "WITHDRAW" /\ o.why # "signal" => o.amount <= position[Agent],
         o.why = "inactive" => ~active,
         o.why \notin {"inactive", "signal"} => o.total = snapshot.tokens + position[Agent]
  PROVE  AgentInv'
<1>1. LoansOK' /\ Wealth' = Wealth
  BY ChainKept DEF AgentInv
<1>2. /\ phase' = "await" /\ order' = o
      /\ lastBalance' = lastBalance /\ snapshot' = snapshot /\ causes' = causes
      /\ served' = served /\ faults' = faults
      /\ position' = position /\ active' = active
  BY DEF Send, boundVars, chainVars, luloVars
<1>3. MemoryOK'
  BY <1>2 DEF AgentInv, MemoryOK, chainVars, Phases
<1>4. OrderWithinPosition' /\ ServedOnce'
  BY <1>2 DEF AgentInv, MemoryOK, OrderWithinPosition, ServedOnce
<1>5. BalanceKnown'
  <2>1. lastBalance # -1 /\ causes \cup snapshot.causes = {} => Wealth = lastBalance
    BY DEF AgentInv, BalanceKnown
  <2> QED BY <1>1, <1>2, <2>1, TotalNat DEF BalanceKnown
<1> QED BY <1>1, <1>3, <1>4, <1>5 DEF AgentInv

\* The model's advice, clamped to what is lent or held, or no order at all.
LEMMA FollowKeeps ==
  ASSUME AgentInv, phase = "decide", UNCHANGED <<chainVars, signal, causes, served, boundVars>>,
         quiet' \in 0..(Routine - 1),
         Follow(position[Agent], snapshot.tokens + position[Agent])
  PROVE  AgentInv'
<1> DEFINE lent == position[Agent]
           total == snapshot.tokens + lent
<1>1. lent \in Nat /\ total \in Nat /\ snapshot.tokens \in Nat
  BY TotalNat
<1>2. CASE CycleEnds(total)
  BY <1>2, EndOfCycleKeeps
<1>3. ASSUME NEW amount \in Amounts, Lendable(amount, lent) >= MinLend,
             Send(Order("LEND", Lendable(amount, lent), "advice", total))
      PROVE  AgentInv'
  <2> DEFINE o == Order("LEND", Lendable(amount, lent), "advice", total)
  <2>1. Lendable(amount, lent) \in Nat
    BY <1>1, <1>3, AgentAssumption DEF Lendable
  <2>2. o \in Orders /\ o.try = 1 /\ o.do = "LEND" /\ o.why = "advice" /\ o.total = total
    BY <1>1, <2>1, AgentAssumption DEF Order, Orders
  <2> HIDE DEF o
  <2>3. Send(o)
    BY <1>3 DEF o
  <2> QED BY <2>2, <2>3, SendKeeps
<1>4. ASSUME NEW amount \in Amounts, Withdrawable(amount, lent) > 0,
             Send(Order("WITHDRAW", Withdrawable(amount, lent), "advice", total))
      PROVE  AgentInv'
  <2> DEFINE o == Order("WITHDRAW", Withdrawable(amount, lent), "advice", total)
  <2>1. Withdrawable(amount, lent) \in Nat /\ Withdrawable(amount, lent) <= lent
    BY <1>1, <1>4, AgentAssumption DEF Withdrawable
  <2>2. o \in Orders /\ o.try = 1 /\ o.why = "advice" /\ o.total = total /\ o.amount <= lent
    BY <1>1, <2>1, AgentAssumption DEF Order, Orders
  <2> HIDE DEF o
  <2>3. Send(o)
    BY <1>4 DEF o
  <2> QED BY <2>2, <2>3, SendKeeps
<1> QED BY <1>2, <1>3, <1>4 DEF Follow

\* The rest of a cycle: leave the protocol, serve the signal, or evaluate.
LEMMA DecideKeeps ==
  ASSUME AgentInv, Decide
  PROVE  AgentInv'
<1> DEFINE lent == position[Agent]
           total == snapshot.tokens + lent
<1>1. phase = "decide" /\ UNCHANGED <<chainVars, signal, causes, served, boundVars>>
  BY DEF Decide
<1>2. lent \in Nat /\ total \in Nat /\ snapshot.tokens \in Nat /\ signal \in Nat
      /\ quiet \in 0..(Routine - 1)
  BY TotalNat DEF AgentInv, MemoryOK
<1>3. CASE ~snapshot.active /\ LeaveProtocol(lent)
  <2>1. quiet' = quiet
    BY <1>3 DEF LeaveProtocol
  <2>2. CASE lent > 0
    <3> DEFINE o == Order("WITHDRAW", lent, "inactive", 0)
    <3>1. o \in Orders /\ o.try = 1 /\ o.why = "inactive" /\ o.amount = lent
      BY <1>2, AgentAssumption DEF Order, Orders
    <3>2. Send(o)
      BY <1>3, <2>2 DEF LeaveProtocol
    <3> HIDE DEF o
    <3>3. ~active
      BY <1>1, <1>3 DEF AgentInv, BalanceKnown
    <3> QED BY <1>1, <1>2, <2>1, <3>1, <3>2, <3>3, SendKeeps
  <2>3. CASE ~(lent > 0)
    <3>1. /\ phase' = "exited" /\ order' = order /\ snapshot' = snapshot
          /\ lastBalance' = lastBalance
      BY <1>3, <2>3 DEF LeaveProtocol
    <3>2. LoansOK'
      BY <1>1, ChainKept DEF AgentInv
    <3>3. MemoryOK'
      BY <1>1, <2>1, <3>1 DEF AgentInv, MemoryOK, chainVars, boundVars, Phases
    <3>4. OrderWithinPosition' /\ ServedOnce' /\ BalanceKnown'
      BY <1>1, <3>1 DEF AgentInv, MemoryOK, OrderWithinPosition, ServedOnce, BalanceKnown,
         boundVars
    <3> QED BY <3>2, <3>3, <3>4 DEF AgentInv
  <2> QED BY <2>2, <2>3
<1>4. CASE ServeSignal
  <2> DEFINE o == Order("WITHDRAW", signal, "signal", 0)
  <2>1. o \in Orders /\ o.try = 1 /\ o.why = "signal"
    BY <1>2, AgentAssumption DEF Order, Orders
  <2>2. Send(o) /\ quiet' = quiet
    BY <1>4 DEF ServeSignal
  <2> HIDE DEF o
  <2> QED BY <1>1, <1>2, <2>1, <2>2, SendKeeps
<1>5. CASE Evaluate(lent, total)
  <2>1. CASE LendsAtOnce(lent, total) /\ UNCHANGED quiet
               /\ Send(Order("LEND", FreshDeposit(total), "fresh", total))
    <3> DEFINE o == Order("LEND", FreshDeposit(total), "fresh", total)
    <3>1. FreshDeposit(total) \in Nat
      <4>1. (total * 5) \div 100 \in Int
        BY <1>2
      <4> QED BY <1>2, <2>1, <4>1, AgentAssumption DEF FreshDeposit, LendsAtOnce
    <3>2. o \in Orders /\ o.try = 1 /\ o.do = "LEND" /\ o.why = "fresh" /\ o.total = total
      BY <1>2, <3>1, AgentAssumption DEF Order, Orders
    <3> HIDE DEF o
    <3>3. Send(o)
      BY <2>1 DEF o
    <3> QED BY <1>1, <1>2, <2>1, <3>2, <3>3, SendKeeps
  <2>2. CASE /\ quiet' = IF StateChanged(total) THEN quiet
                         ELSE IF quiet + 1 >= Routine THEN 0 ELSE quiet + 1
             /\ IF Consults(total) THEN Follow(lent, total) ELSE CycleEnds(total)
    <3>1. quiet' \in 0..(Routine - 1)
      BY <1>2, <2>2, AgentAssumption
    <3> QED BY <1>1, <2>2, <3>1, FollowKeeps, EndOfCycleKeeps
  <2> QED BY <1>5, <2>1, <2>2 DEF Evaluate
<1> QED BY <1>3, <1>4, <1>5 DEF Decide

\* A confirmed order: its total stays true unless it was a signal or overdrew.
LEMMA ConfirmedKeeps ==
  ASSUME AgentInv, Confirmed
  PROVE  AgentInv'
<1>1. /\ phase = "await" /\ Land /\ causes' = causes \cup Overdraft /\ AfterOrder
      /\ signal' = signal /\ quiet' = quiet /\ faults' = faults
  BY DEF Confirmed, boundVars
<1>2. order \in Orders /\ served \in Nat /\ faults \in Nat /\ served <= faults
  BY <1>1 DEF AgentInv, MemoryOK, ServedOnce
<1>3. CASE Serving
  <2>1. phase' = "unlink" /\ lastBalance' = lastBalance /\ order' = order /\ snapshot' = snapshot
    BY <1>1, <1>3 DEF AfterOrder
  <2>2. MemoryOK'
    BY <1>1, <1>2, <2>1, LandFacts DEF AgentInv, MemoryOK, Phases
  <2>3. OrderWithinPosition' /\ ServedOnce' /\ BalanceKnown'
    BY <1>1, <1>2, <2>1, LandFacts DEF OrderWithinPosition, ServedOnce, BalanceKnown
  <2> QED BY <1>1, <2>2, <2>3, LandFacts DEF AgentInv
<1>4. CASE ~Serving
  <2>1. /\ phase' = "poll" /\ lastBalance' = order.total
        /\ order' = NoOrder /\ snapshot' = NoSnapshot
    BY <1>1, <1>4 DEF AfterOrder, CycleEnds
  <2>2. MemoryOK'
    <3>1. snapshot' \in Snapshots /\ order' \in Orders
      BY <2>1, AgentAssumption DEF NoSnapshot, NoOrder, Snapshots, Orders, Causes
    <3>2. order.total \in Nat
      BY <1>2 DEF Orders
    <3> QED BY <1>1, <1>2, <2>1, <3>1, <3>2, LandFacts DEF AgentInv, MemoryOK, Phases
  <2>3. OrderWithinPosition' /\ ServedOnce'
    BY <1>1, <1>2, <1>4, <2>1, LandFacts DEF OrderWithinPosition, ServedOnce, Serving
  <2>4. BalanceKnown'
    <3> SUFFICES ASSUME causes' = {} PROVE Wealth' = order.total
      BY <2>1 DEF BalanceKnown
    <3>1. causes = {} /\ Overdraft = {}
      BY <1>1
    <3>2. order.why \notin {"inactive", "signal"}
      BY <1>1, <1>4, LandFacts DEF AgentInv, BalanceKnown, Serving
    <3> QED BY <1>1, <3>1, <3>2, LandFacts DEF AgentInv, BalanceKnown
  <2> QED BY <1>1, <2>2, <2>3, <2>4, LandFacts DEF AgentInv
<1> QED BY <1>3, <1>4

\* A failed cycle after which the chain still is as it was: what was known when
\* it began is a cause again.
LEMMA FailedCycleKeeps ==
  ASSUME AgentInv, phase \in {"poll", "decide", "await"}, CycleFails,
         causes' = causes \cup snapshot.causes,
         UNCHANGED <<chainVars, signal, lastBalance, quiet, served>>,
         faults' \in Nat, faults <= faults'
  PROVE  AgentInv'
<1>1. LoansOK' /\ Wealth' = Wealth
  BY ChainKept DEF AgentInv
<1>2. phase' = "poll" /\ order' = NoOrder /\ snapshot' = NoSnapshot
  BY DEF CycleFails
<1>3. MemoryOK'
  <2>1. snapshot' \in Snapshots /\ order' \in Orders
    BY <1>2, AgentAssumption DEF NoSnapshot, NoOrder, Snapshots, Orders, Causes
  <2>2. causes' \subseteq Causes
    BY DEF AgentInv, MemoryOK, Snapshots
  <2> QED BY <1>2, <2>1, <2>2 DEF AgentInv, MemoryOK, chainVars, Phases
<1>4. OrderWithinPosition' /\ ServedOnce'
  BY <1>2 DEF AgentInv, MemoryOK, OrderWithinPosition, ServedOnce
<1>5. BalanceKnown'
  <2>1. lastBalance # -1 /\ causes \cup snapshot.causes = {} => Wealth = lastBalance
    BY DEF AgentInv, BalanceKnown
  <2> QED BY <1>1, <1>2, <2>1 DEF BalanceKnown
<1> QED BY <1>1, <1>3, <1>4, <1>5 DEF AgentInv

\* A lost answer, the transaction landed or not, sent again or given up.
LEMMA AnswerLostKeeps ==
  ASSUME AgentInv, AnswerLost
  PROVE  AgentInv'
<1>1. /\ phase = "await" /\ faults' = faults + 1
      /\ signal' = signal /\ lastBalance' = lastBalance /\ quiet' = quiet
  BY DEF AnswerLost
<1>2. /\ order \in Orders /\ served \in Nat /\ faults \in Nat /\ served <= faults
      /\ snapshot.causes \subseteq Causes /\ causes \subseteq Causes
  BY <1>1 DEF AgentInv, MemoryOK, ServedOnce, Snapshots
<1>3. /\ LoansOK'
      /\ active' = active /\ delegated' = delegated /\ book' = book
      /\ served' \in Nat /\ served' <= faults + 1
      /\ Overdraft \subseteq Causes /\ (Overdraft = {} => Wealth' = Wealth)
  <2>1. CASE Land
    BY <1>2, <2>1, LandFacts
  <2>2. CASE UNCHANGED <<chainVars, served>>
    <3>1. LoansOK' /\ Wealth' = Wealth
      BY <2>2, ChainKept DEF AgentInv
    <3>2. Overdraft \subseteq Causes
      BY DEF Overdraft, Causes
    <3> QED BY <1>2, <2>2, <3>1, <3>2 DEF chainVars
  <2> QED BY <2>1, <2>2 DEF AnswerLost
<1>4. CASE /\ order.try < MaxRetries /\ order' = [order EXCEPT !.try = @ + 1]
           /\ causes' = causes \cup Overdraft /\ UNCHANGED <<phase, snapshot>>
  <2>1. /\ order' \in Orders /\ order'.try = order.try + 1 /\ order'.why = order.why
        /\ order'.total = order.total
    BY <1>2, <1>4, AgentAssumption DEF Orders
  <2>2. order.try >= 1 /\ order.try \in Nat
    BY <1>1, <1>2 DEF AgentInv, OrderWithinPosition, Orders
  <2>3. MemoryOK'
    BY <1>1, <1>2, <1>3, <1>4, <2>1 DEF AgentInv, MemoryOK
  <2>4. OrderWithinPosition' /\ ServedOnce'
    BY <1>1, <1>2, <1>3, <1>4, <2>1, <2>2 DEF OrderWithinPosition, ServedOnce
  <2>5. BalanceKnown'
    <3>1. /\ lastBalance # -1 /\ causes \cup snapshot.causes = {} => Wealth = lastBalance
          /\ order.why = "inactive" => ~active
          /\ order.why \notin {"inactive", "signal"} /\ causes = {} => Wealth = order.total
      BY <1>1 DEF AgentInv, BalanceKnown
    <3>2. phase' = "await" /\ snapshot' = snapshot /\ causes' = causes \cup Overdraft
      BY <1>1, <1>4
    <3> QED BY <1>1, <1>3, <2>1, <3>1, <3>2 DEF BalanceKnown
  <2> QED BY <1>3, <2>3, <2>4, <2>5 DEF AgentInv
<1>5. CASE CycleFails /\ causes' = causes \cup Overdraft \cup snapshot.causes
  <2>1. phase' = "poll" /\ order' = NoOrder /\ snapshot' = NoSnapshot
    BY <1>5 DEF CycleFails
  <2>2. MemoryOK'
    <3>1. snapshot' \in Snapshots /\ order' \in Orders
      BY <2>1, AgentAssumption DEF NoSnapshot, NoOrder, Snapshots, Orders, Causes
    <3> QED BY <1>1, <1>2, <1>3, <1>5, <2>1, <3>1 DEF AgentInv, MemoryOK, Phases
  <2>3. OrderWithinPosition' /\ ServedOnce'
    BY <1>1, <1>2, <1>3, <2>1 DEF OrderWithinPosition, ServedOnce
  <2>4. BalanceKnown'
    <3>1. lastBalance # -1 /\ causes \cup snapshot.causes = {} => Wealth = lastBalance
      BY <1>1 DEF AgentInv, BalanceKnown
    <3> QED BY <1>1, <1>3, <1>5, <2>1, <3>1 DEF BalanceKnown
  <2> QED BY <1>3, <2>2, <2>3, <2>4 DEF AgentInv
<1> QED BY <1>4, <1>5 DEF AnswerLost

\* The file is deleted: what was executed for it no longer counts, and the
\* withdrawal is a cause.
LEMMA DeleteKeeps ==
  ASSUME AgentInv, DeleteSignal
  PROVE  AgentInv'
<1>1. LoansOK'
  BY ChainKept DEF AgentInv, DeleteSignal
<1>2. /\ phase' = "poll" /\ lastBalance' = snapshot.tokens
      /\ order' = NoOrder /\ snapshot' = NoSnapshot
      /\ signal' = 0 /\ served' = 0 /\ causes' = causes \cup {"signal"}
      /\ faults' = faults /\ quiet' = quiet /\ UNCHANGED chainVars
  BY DEF DeleteSignal, SignalAfterService, CycleEnds, boundVars
<1>3. MemoryOK'
  <2>1. snapshot' \in Snapshots /\ order' \in Orders
    BY <1>2, AgentAssumption DEF NoSnapshot, NoOrder, Snapshots, Orders, Causes
  <2>2. snapshot.tokens \in Nat
    BY TotalNat
  <2> QED BY <1>2, <2>1, <2>2 DEF AgentInv, MemoryOK, chainVars, Phases, Causes
<1>4. OrderWithinPosition' /\ ServedOnce' /\ BalanceKnown'
  BY <1>2 DEF AgentInv, MemoryOK, OrderWithinPosition, ServedOnce, BalanceKnown
<1> QED BY <1>1, <1>3, <1>4 DEF AgentInv

\* A process that dies forgets the balance it knew.
LEMMA CrashKeeps ==
  ASSUME AgentInv, Crash
  PROVE  AgentInv'
<1>1. LoansOK'
  BY ChainKept DEF AgentInv, Crash
<1>2. /\ phase' = "down" /\ lastBalance' = -1 /\ quiet' = 0
      /\ order' = NoOrder /\ snapshot' = NoSnapshot /\ faults' = faults + 1
      /\ served' = served /\ UNCHANGED <<chainVars, signal, causes>>
  BY DEF Crash
<1>3. MemoryOK'
  <2>1. snapshot' \in Snapshots /\ order' \in Orders
    BY <1>2, AgentAssumption DEF NoSnapshot, NoOrder, Snapshots, Orders, Causes
  <2> QED BY <1>2, <2>1, AgentAssumption DEF AgentInv, MemoryOK, chainVars, Phases
<1>4. OrderWithinPosition' /\ ServedOnce' /\ BalanceKnown'
  BY <1>2 DEF AgentInv, MemoryOK, OrderWithinPosition, ServedOnce, BalanceKnown
<1> QED BY <1>1, <1>3, <1>4 DEF AgentInv

\* What the others do leaves the process, its order and its position alone, and
\* whatever moves its tokens is on record as a cause.
OthersLeave ==
  /\ LoansOK'
  /\ position'[Agent] = position[Agent]
  /\ overdrawn'[Agent] = overdrawn[Agent]
  /\ (causes' = causes /\ held'[Agent] = held[Agent]) \/ "vault" \in causes'
  /\ causes' \in {causes, causes \cup {"vault"}}
  /\ ~active => ~active'
  /\ active' \in BOOLEAN /\ delegated' \in BOOLEAN /\ book' \in Nat /\ signal' \in Nat
  /\ served' \in {0, served}

\* Each act of the others is of that kind.
LEMMA OthersFacts ==
  ASSUME AgentInv, OthersAct
  PROVE  OthersLeave
<1>1. /\ LoansOK /\ active \in BOOLEAN /\ delegated \in BOOLEAN /\ book \in Nat
      /\ signal \in Nat /\ Agent \in Depositors
      /\ held[Agent] \in Nat /\ position[Agent] \in Nat /\ overdrawn[Agent] \in Nat
  BY OwnEntries DEF AgentInv, MemoryOK
<1>2. CASE DeactivateStrategy \/ UpdateDelegate
  <2>1. UNCHANGED luloVars
    BY <1>2 DEF DeactivateStrategy, UpdateDelegate
  <2>2. LoansOK'
    BY <1>1, <2>1 DEF LoansOK, TreasuryAccounted, TotalOf, luloVars
  <2> QED BY <1>1, <1>2, <2>1, <2>2 DEF OthersLeave, DeactivateStrategy, UpdateDelegate, luloVars
<1>3. ASSUME NEW amount \in Amounts,
             Allocate(amount) \/ Deallocate(amount)
      PROVE  OthersLeave
  <2>1. amount \in Nat
    BY AgentAssumption
  <2>2. PICK v \in Nat : held' = Put(held, Agent, v)
    <3>1. CASE Allocate(amount)
      <4>1. held' = Put(held, Agent, held[Agent] + amount) /\ held[Agent] + amount \in Nat
        BY <1>1, <2>1, <3>1 DEF Allocate, Put, LoansOK
      <4> QED BY <4>1
    <3>2. CASE Deallocate(amount)
      <4>1. held' = Put(held, Agent, held[Agent] - amount) /\ held[Agent] - amount \in Nat
        BY <1>1, <2>1, <3>2 DEF Deallocate, Put, LoansOK
      <4> QED BY <4>1
    <3> QED BY <1>3, <3>1, <3>2
  <2>3. held' \in [Depositors -> Nat]
    BY <1>1, <2>2 DEF Put, LoansOK
  <2>4. UNCHANGED <<treasury, position, overdrawn, accrued>>
    BY <1>3 DEF Allocate, Deallocate
  <2>5. LoansOK'
    BY <1>1, <2>3, <2>4, LoansKept
  <2>6. book' \in Nat
    BY <1>1, <1>3, <2>1 DEF Allocate, Deallocate
  <2> QED BY <1>1, <1>3, <2>4, <2>5, <2>6 DEF OthersLeave, Allocate, Deallocate, Moved
<1>4. ASSUME NEW amount \in Amounts, ReportLoss(amount) \/ WriteSignal(amount)
      PROVE  OthersLeave
  <2>1. amount \in Nat
    BY AgentAssumption
  <2>2. UNCHANGED luloVars
    BY <1>4 DEF ReportLoss, WriteSignal, chainVars
  <2>3. LoansOK'
    BY <1>1, <2>2 DEF LoansOK, TreasuryAccounted, TotalOf, luloVars
  <2>4. book' \in Nat
    BY <1>1, <1>4, <2>1 DEF ReportLoss, WriteSignal, chainVars
  <2>5. held' = held /\ position' = position /\ overdrawn' = overdrawn
    BY <2>2 DEF luloVars
  <2>6. /\ causes' = causes /\ active' = active /\ delegated' = delegated
        /\ signal' \in Nat /\ served' \in {0, served}
    BY <1>1, <1>4, <2>1 DEF ReportLoss, WriteSignal, chainVars
  <2> QED BY <1>1, <2>3, <2>4, <2>5, <2>6 DEF OthersLeave
<1>5. ASSUME NEW amount \in Amounts, YieldAccrues(amount)
      PROVE  OthersLeave
  <2>1. amount \in Nat
    BY AgentAssumption
  <2>2. LoansOK' /\ position' = position /\ held' = held /\ overdrawn' = overdrawn
    BY <1>1, <1>5, <2>1, YieldStep DEF YieldAccrues, AddYield
  <2> QED BY <1>1, <1>5, <2>2 DEF OthersLeave, YieldAccrues
<1>6. ASSUME NEW amount \in Amounts, NEW d \in Depositors \ {Agent}, PeerTrades(d, amount)
      PROVE  OthersLeave
  <2>1. amount \in Nat /\ Agent \in Depositors \ {d} /\ d \in Depositors
    BY <1>1, AgentAssumption
  <2>2. /\ LoansOK' /\ position'[Agent] = position[Agent]
        /\ overdrawn'[Agent] = overdrawn[Agent] /\ held'[Agent] = held[Agent]
    <3>1. CASE DepositPrincipal(d, amount)
      BY <1>1, <2>1, <3>1, DepositStep
    <3>2. CASE WithdrawPrincipal(d, amount)
      BY <1>1, <2>1, <3>2, WithdrawStep
    <3> QED BY <1>6, <3>1, <3>2 DEF PeerTrades
  <2> QED BY <1>1, <1>6, <2>2 DEF OthersLeave, PeerTrades
<1> QED BY <1>2, <1>3, <1>4, <1>5, <1>6 DEF OthersAct

\* The others move the agent's balance only with a cause.
LEMMA OthersKeep ==
  ASSUME AgentInv, OthersAct
  PROVE  AgentInv'
<1>1. UNCHANGED <<phase, snapshot, order, lastBalance, quiet, faults>>
  BY DEF OthersAct, memoryVars
<1>2. OthersLeave
  BY OthersFacts
<1>3. MemoryOK'
  BY <1>1, <1>2 DEF AgentInv, MemoryOK, OthersLeave, Causes
<1>4. OrderWithinPosition' /\ ServedOnce'
  BY <1>1, <1>2 DEF AgentInv, MemoryOK, OrderWithinPosition, ServedOnce, OthersLeave
<1>5. BalanceKnown'
  <2>1. \/ causes' = causes /\ held'[Agent] = held[Agent] /\ Wealth' = Wealth
        \/ causes' # {}
    BY <1>2 DEF OthersLeave, Wealth
  <2>2. ~active => ~active'
    BY <1>2 DEF OthersLeave
  <2> QED BY <1>1, <2>1, <2>2 DEF AgentInv, BalanceKnown
<1> QED BY <1>2, <1>3, <1>4, <1>5 DEF AgentInv, OthersLeave

\* Every step keeps the invariant.
LEMMA NextKeeps ==
  ASSUME AgentInv, [AgentNext]_agentVars
  PROVE  AgentInv'
<1>1. CASE Start
  BY <1>1, StartKeeps
<1>2. CASE ReadStrategy
  BY <1>2, ReadKeeps
<1>3. CASE Decide
  BY <1>3, DecideKeeps
<1>4. CASE Confirmed
  BY <1>4, ConfirmedKeeps
<1>5. CASE Refused
  <2>1. /\ phase = "await" /\ CycleFails /\ causes' = causes \cup snapshot.causes
        /\ UNCHANGED <<chainVars, signal, lastBalance, quiet, served, boundVars>>
    BY <1>5 DEF Refused
  <2>2. faults' \in Nat /\ faults <= faults'
    BY <2>1 DEF boundVars, AgentInv, MemoryOK
  <2> QED BY <2>1, <2>2, FailedCycleKeeps
<1>6. CASE DeleteSignal
  BY <1>6, DeleteKeeps
<1>7. CASE ReadFails
  <2>1. /\ phase \in {"poll", "decide"} /\ CycleFails /\ causes' = causes \cup snapshot.causes
        /\ UNCHANGED <<chainVars, signal, lastBalance, quiet, served>>
        /\ faults' = faults + 1
    BY <1>7 DEF ReadFails
  <2>2. faults' \in Nat /\ faults <= faults'
    BY <2>1 DEF AgentInv, MemoryOK
  <2> QED BY <2>1, <2>2, FailedCycleKeeps
<1>8. CASE AnswerLost
  BY <1>8, AnswerLostKeeps
<1>9. CASE Crash
  BY <1>9, CrashKeeps
<1>10. CASE OthersAct
  BY <1>10, OthersKeep
<1>11. CASE UNCHANGED agentVars
  <2>1. LoansOK' /\ Wealth' = Wealth
    BY <1>11, ChainKept DEF AgentInv, agentVars
  <2>2. MemoryOK'
    BY <1>11 DEF AgentInv, MemoryOK, agentVars, chainVars, memoryVars, boundVars
  <2>3. OrderWithinPosition' /\ ServedOnce' /\ BalanceKnown'
    BY <1>11, <2>1 DEF AgentInv, OrderWithinPosition, ServedOnce, BalanceKnown, agentVars,
       chainVars, luloVars, memoryVars, boundVars
  <2> QED BY <2>1, <2>2, <2>3 DEF AgentInv
<1> QED
  BY <1>1, <1>2, <1>3, <1>4, <1>5, <1>6, <1>7, <1>8, <1>9, <1>10, <1>11
  DEF AgentNext, LoopStep

\* The agent and the lending program always satisfy the invariant.
THEOREM AgentInvariant == AgentSpec => []AgentInv
<1>1. AgentInit => AgentInv
  BY InitKeeps
<1>2. AgentInv /\ [AgentNext]_agentVars => AgentInv'
  BY NextKeeps
<1> QED BY <1>1, <1>2, PTL DEF AgentSpec

\* Every amount stays a natural number and every register in its range,
\* whatever the others do and however many answers are lost.
THEOREM LuloTypes == AgentSpec => []LuloTypeOK
<1>1. AgentInv => LuloTypeOK
  BY DEF AgentInv, LoansOK, MemoryOK, LuloTypeOK, Snapshots, Orders, Causes
<1> QED BY <1>1, AgentInvariant, PTL

\* The shared treasury holds the principals and the yield less the overdrafts,
\* for every set of strategies that draw on it.
THEOREM TreasuryIsAccounted == AgentSpec => []TreasuryAccounted
<1>1. AgentInv => TreasuryAccounted
  BY DEF AgentInv, LoansOK
<1> QED BY <1>1, AgentInvariant, PTL

\* A signal is executed once, and once more for each fault at most, however
\* often the agent crashes between the withdrawal and the deletion of the file.
THEOREM SignalReplayIsBounded == AgentSpec => []SignalReplayBounded
<1>1. AgentInv => SignalReplayBounded
  BY DEF AgentInv, MemoryOK, ServedOnce, SignalReplayBounded
<1> QED BY <1>1, AgentInvariant, PTL

\* A balance that looks changed has a cause on record: for every threshold the
\* agent's own lending and withdrawing never wakes the model.
THEOREM OwnActionsQuiet == AgentSpec => []OwnActionsAreQuiet
<1>1. AgentInv => OwnActionsAreQuiet
  <2> SUFFICES ASSUME AgentInv, phase = "decide", lastBalance # -1,
                      StateChanged(snapshot.tokens + position[Agent]),
                      causes \cup snapshot.causes = {}
               PROVE  FALSE
    BY DEF OwnActionsAreQuiet
  <2>1. snapshot.tokens + position[Agent] = lastBalance
    BY TotalNat DEF AgentInv, BalanceKnown
  <2>2. lastBalance \in Nat
    BY DEF AgentInv, MemoryOK
  <2>3. Difference(snapshot.tokens + position[Agent]) = 0
    BY <2>1, <2>2 DEF Difference
  <2> QED BY <2>3, AgentAssumption DEF StateChanged
<1> QED BY <1>1, AgentInvariant, PTL

\* One step overdraws for a signal or by a retried withdrawal only.
LEMMA OverdraftStep ==
  ASSUME AgentInv, [AgentNext]_agentVars, overdrawn'[Agent] > overdrawn[Agent]
  PROVE  order.why = "signal" \/ order.try > 1
<1>1. overdrawn[Agent] \in Nat
  BY OwnEntries DEF AgentInv
<1>2. CASE phase = "await" /\ Land
  <2>1. order.do = "WITHDRAW" /\ order.amount > position[Agent]
    BY <1>2, LandFacts
  <2>2. order.try \in Nat /\ order.try >= 1 /\ order.amount \in Nat /\ position[Agent] \in Nat
    BY <1>2, OwnEntries DEF AgentInv, OrderWithinPosition, MemoryOK, Orders
  <2>3. order.why # "signal" /\ order.try = 1 => order.amount <= position[Agent]
    BY <1>2, <2>1 DEF AgentInv, OrderWithinPosition
  <2> QED BY <2>1, <2>2, <2>3
<1>3. CASE OthersAct
  <2>1. overdrawn'[Agent] = overdrawn[Agent]
    BY <1>3, OthersFacts DEF OthersLeave
  <2> QED BY <1>1, <2>1
<1>4. CASE overdrawn' = overdrawn
  BY <1>1, <1>4
<1>5. CASE Start \/ ReadStrategy \/ Decide \/ Refused \/ DeleteSignal \/ ReadFails \/ Crash
  <2>1. overdrawn' = overdrawn
    BY <1>5 DEF Start, ReadStrategy, Decide, Refused, DeleteSignal, ReadFails, Crash,
       chainVars, luloVars
  <2> QED BY <1>4, <2>1
<1>6. CASE Confirmed \/ AnswerLost
  BY <1>2, <1>4, <1>6 DEF Confirmed, AnswerLost, chainVars, luloVars
<1>7. CASE UNCHANGED agentVars
  BY <1>4, <1>7 DEF agentVars, chainVars, luloVars
<1> QED BY <1>3, <1>5, <1>6, <1>7 DEF AgentNext, LoopStep

\* Other depositors' principal is taken for a signal or by a retry only, for
\* every number of strategies in the treasury.
THEOREM OverdraftsHaveCause == AgentSpec => OverdraftHasCause
<1>1. AgentInv /\ [AgentNext]_agentVars
        => [overdrawn'[Agent] > overdrawn[Agent] => order.why = "signal" \/ order.try > 1]_agentVars
  BY OverdraftStep
<1> QED BY <1>1, AgentInvariant, PTL DEF AgentSpec, OverdraftHasCause
=============================================================================
