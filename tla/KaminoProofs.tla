---------------------------- MODULE KaminoProofs ----------------------------
(***************************************************************************)
(* The lending market and the agent that loops in it, for every set of     *)
(* participants, every amount and every health-factor minimum, every       *)
(* leverage and every number of faults.                                    *)
(***************************************************************************)
EXTENDS KaminoLooper, ArithmeticTheorems, SequenceTheorems

-----------------------------------------------------------------------------
(***************************************************************************)
(* The market: its books and its rate.                                     *)
(***************************************************************************)
\* The inductive invariant: the total of the obligations keeps the repayment
\* from saturating, the total of the cTokens keeps a redemption within the
\* reserve, and the rate of at least one keeps every cast exact.
Inv == TypeOK /\ LiquidityAccounted /\ BooksAddUp /\ RateDefined

\* One participant's entry replaced; a name keeps EXCEPT out of the goals.
Put(f, o, v) == [f EXCEPT ![o] = v]

\* What overwriting one balance does to a total over the participants.
LEMMA PutFacts ==
  ASSUME NEW f \in [Owners -> Nat], NEW o \in Owners, NEW v \in Nat
  PROVE  /\ Put(f, o, v) \in [Owners -> Nat]
         /\ Put(f, o, v)[o] = v
         /\ \A p \in Owners \ {o} : Put(f, o, v)[p] = f[p]
         /\ Total(f) \in Nat /\ f[o] <= Total(f)
         /\ Total(Put(f, o, v)) = Total(f) - f[o] + v
<1>1. /\ Put(f, o, v) \in [Owners -> Nat]
      /\ Put(f, o, v)[o] = v
      /\ \A p \in Owners \ {o} : Put(f, o, v)[p] = f[p]
  BY DEF Put
<1> DEFINE g == Put(f, o, v)
<1> HIDE DEF g
<1>2. /\ g \in [Owners -> Nat] /\ g[o] = v
      /\ \A p \in Owners \ {o} : g[p] = f[p]
  BY <1>1 DEF g
<1>3. Total(g) = Total(f) - f[o] + v
  BY <1>2, OwnersAssumption, SumUpdate DEF Total
<1>4. Total(f) \in Nat /\ f[o] <= Total(f)
  BY OwnersAssumption, SumType, SumMember DEF Total
<1> QED BY <1>1, <1>3, <1>4 DEF g

\* An entry raised, and an entry lowered, move the total by as much.
LEMMA PutMore ==
  ASSUME NEW f \in [Owners -> Nat], NEW o \in Owners, NEW n \in Nat,
         NEW g, g = Put(f, o, f[o] + n)
  PROVE  /\ g \in [Owners -> Nat] /\ g[o] = f[o] + n
         /\ \A p \in Owners \ {o} : g[p] = f[p]
         /\ Total(g) = Total(f) + n
<1> DEFINE v == f[o] + n
<1>1. v \in Nat /\ f[o] \in Nat
  OBVIOUS
<1> HIDE DEF v
<1>2. g = Put(f, o, v)
  BY DEF v
<1>3. /\ g \in [Owners -> Nat] /\ g[o] = v
      /\ \A p \in Owners \ {o} : g[p] = f[p]
      /\ Total(f) \in Nat
      /\ Total(g) = Total(f) - f[o] + v
  BY <1>1, <1>2, PutFacts
<1>4. Total(g) = Total(f) + n
  BY <1>1, <1>3 DEF v
<1> QED BY <1>3, <1>4 DEF v

\* Taking n from one balance lowers the total by n.
LEMMA PutLess ==
  ASSUME NEW f \in [Owners -> Nat], NEW o \in Owners, NEW n \in Nat, n <= f[o],
         NEW g, g = Put(f, o, f[o] - n)
  PROVE  /\ g \in [Owners -> Nat] /\ g[o] = f[o] - n
         /\ \A p \in Owners \ {o} : g[p] = f[p]
         /\ Total(g) = Total(f) - n
<1> DEFINE v == f[o] - n
<1>1. v \in Nat /\ f[o] \in Nat
  OBVIOUS
<1> HIDE DEF v
<1>2. g = Put(f, o, v)
  BY DEF v
<1>3. /\ g \in [Owners -> Nat] /\ g[o] = v
      /\ \A p \in Owners \ {o} : g[p] = f[p]
      /\ Total(f) \in Nat
      /\ Total(g) = Total(f) - f[o] + v
  BY <1>1, <1>2, PutFacts
<1>4. Total(g) = Total(f) - n
  BY <1>1, <1>3 DEF v
<1> QED BY <1>3, <1>4 DEF v

-----------------------------------------------------------------------------
(***************************************************************************)
(* Exchange rates.                                                         *)
(***************************************************************************)

\* A deposit mints at most as many cTokens as it brings tokens, so the cast is
\* exact, and rounding down leaves the rate at least as high.
LEMMA DepositRate ==
  ASSUME TypeOK, RateDefined, NEW amount \in Nat, totalLiquidity + amount <= MaxU64
  PROVE  /\ CollateralFor(amount) \in 0..amount
         /\ totalCollateral > 0 =>
              /\ CollateralFor(amount) = (amount * totalCollateral) \div totalLiquidity
              /\ (totalLiquidity + amount) * totalCollateral
                   >= totalLiquidity * (totalCollateral + CollateralFor(amount))
<1> DEFINE L == totalLiquidity
           C == totalCollateral
           q == (amount * C) \div L
<1>1. L \in Nat /\ C \in Nat /\ C <= L /\ MaxU64 \in Nat
  BY MarketAssumption DEF TypeOK, RateDefined
<1>2. CASE C = 0
  BY <1>2, <1>1 DEF CollateralFor
<1>3. CASE C # 0
  <2>1. L \in Nat \ {0}
    BY <1>1, <1>3 DEF RateDefined
  <2>2. amount * C \in Nat
    BY <1>1, ProductNat
  <2>3. q \in Nat /\ q * L <= amount * C
    BY <2>1, <2>2, FloorDivision
  <2> DEFINE m == CollateralFor(amount)
  <2>4. m = Cast(q)
    BY <1>3 DEF CollateralFor
  <2> HIDE DEF q, m
  <2>5. amount * C <= amount * L
    BY <1>1
  <2>6. q <= amount
    <3>1. q * L <= amount * L
      <4>1. q * L \in Nat /\ amount * L \in Nat
        BY <1>1, <2>3, ProductNat
      <4> QED BY <4>1, <2>2, <2>3, <2>5
    <3> SUFFICES ASSUME amount < q PROVE FALSE
      BY <2>3
    <3>2. (amount + 1) * L <= q * L
      <4> DEFINE k == amount + 1
      <4>1. k \in Nat /\ k <= q
        BY <2>3
      <4> HIDE DEF k
      <4>2. k * L <= q * L
        BY <4>1, <2>1, <2>3, ProductMono
      <4> QED BY <4>2 DEF k
    <3>3. (amount + 1) * L = amount * L + L
      BY <2>1
    <3>4. amount * L \in Nat /\ q * L \in Nat
      BY <2>1, <2>3, ProductNat
    <3> QED BY <3>1, <3>2, <3>3, <3>4, <2>1
  <2>7. m = q
    BY <2>3, <2>4, <2>6, <1>1 DEF Cast
  <2>8. (L + amount) * C >= L * (C + q)
    BY <1>1, <2>3
  <2> QED BY <2>3, <2>6, <2>7, <2>8 DEF m, q
<1> QED BY <1>2, <1>3

\* A redemption takes no more than the reserve has, so the cast is exact,
\* leaves each remaining cToken worth at least one token, and rounding down
\* leaves the rate at least as high.
LEMMA RedeemRate ==
  ASSUME TypeOK, RateDefined, NEW n \in 1..totalCollateral
  PROVE  /\ LiquidityFor(n) = (n * totalLiquidity) \div totalCollateral
         /\ LiquidityFor(n) \in 0..totalLiquidity
         /\ totalCollateral - n <= totalLiquidity - LiquidityFor(n)
         /\ (totalLiquidity - LiquidityFor(n)) * totalCollateral
              >= totalLiquidity * (totalCollateral - n)
<1> DEFINE L == totalLiquidity
           C == totalCollateral
           q == (n * L) \div C
<1>1. L \in 0..MaxU64 /\ C \in Nat \ {0} /\ C <= L /\ MaxU64 \in Nat /\ n \in Nat /\ n <= C
  BY MarketAssumption DEF TypeOK, RateDefined
<1>2. n * L \in Nat
  BY <1>1, ProductNat
<1>3. q \in Nat /\ q * C <= n * L
  BY <1>1, <1>2, FloorDivision
<1> DEFINE m == LiquidityFor(n)
<1>4. m = Cast(q)
  BY DEF LiquidityFor
<1> HIDE DEF q, m
<1>5. q <= L
  <2>1. n * L <= C * L
    BY <1>1, ProductMono
  <2> SUFFICES ASSUME L + 1 <= q PROVE FALSE
    BY <1>1, <1>3
  <2>2. (L + 1) * C <= q * C
    <3> DEFINE k == L + 1
    <3>1. k \in Nat /\ k <= q
      BY <1>1
    <3> HIDE DEF k
    <3>2. k * C <= q * C
      BY <3>1, <1>1, <1>3, ProductMono
    <3> QED BY <3>2 DEF k
  <2>3. (L + 1) * C = C * L + C
    BY <1>1
  <2>4. q * C \in Nat /\ C * L \in Nat
    BY <1>1, <1>3, ProductNat
  <2> QED BY <2>1, <2>2, <2>3, <2>4, <1>1, <1>2, <1>3
<1>6. m = q
  BY <1>1, <1>3, <1>4, <1>5 DEF Cast
<1>7. (L - q) * C >= L * (C - n)
  BY <1>1, <1>3
<1>8. C - n <= L - q
  <2> DEFINE x == L - q
             y == C - n
  <2>1. x \in Nat /\ y \in Nat
    BY <1>1, <1>3, <1>5
  <2>2. x * C >= L * y
    BY <1>7
  <2>3. y * C <= L * y
    <3>1. C * y <= L * y
      BY <1>1, <2>1, ProductMono
    <3> QED BY <3>1, <1>1, <2>1
  <2> HIDE DEF x, y
  <2>4. SUFFICES ASSUME x < y PROVE FALSE
    BY <2>1 DEF x, y
  <2>5. (x + 1) * C <= y * C
    <3> DEFINE k == x + 1
    <3>1. k \in Nat /\ k <= y
      BY <2>1, <2>4
    <3> HIDE DEF k
    <3>2. k * C <= y * C
      BY <3>1, <2>1, <1>1, ProductMono
    <3> QED BY <3>2 DEF k
  <2>6. (x + 1) * C = x * C + C
    BY <1>1, <2>1
  <2>7. x * C \in Nat /\ y * C \in Nat /\ L * y \in Nat
    BY <1>1, <2>1, ProductNat
  <2> QED BY <2>2, <2>3, <2>5, <2>6, <2>7, <1>1
<1> QED BY <1>1, <1>3, <1>5, <1>6, <1>7, <1>8 DEF m, q

-----------------------------------------------------------------------------
(***************************************************************************)
(* Every instruction preserves the invariant.                              *)
(***************************************************************************)

\* What the invariant says of the numbers, for the solvers.
LEMMA Numbers ==
  ASSUME Inv
  PROVE  /\ liquid \in Nat /\ gifts \in Nat /\ burnt \in Nat /\ MaxU64 \in Nat /\ BPS \in Nat /\ HFMin \in Nat
         /\ totalLiquidity \in Nat /\ totalCollateral \in Nat /\ totalBorrowed \in Nat
         /\ cTokens \in [Owners -> Nat] /\ cash \in [Owners -> Nat] /\ debt \in [Owners -> Nat]
         /\ \A o \in Owners : cTokens[o] <= totalCollateral /\ debt[o] <= totalBorrowed
<1>1. /\ cTokens \in [Owners -> Nat] /\ cash \in [Owners -> Nat]
      /\ debt \in [Owners -> 0..MaxU64] /\ MaxU64 \in Nat
      /\ totalBorrowed = Total(debt) /\ totalCollateral = Total(cTokens) + burnt /\ burnt \in Nat
  BY MarketAssumption DEF Inv, TypeOK, BooksAddUp
<1>2. debt \in [Owners -> Nat]
  BY <1>1
<1>3. \A o \in Owners : cTokens[o] <= Total(cTokens) /\ debt[o] <= Total(debt) /\ Total(cTokens) \in Nat
  BY <1>1, <1>2, OwnersAssumption, SumMember, SumType DEF Total
<1> QED BY <1>1, <1>2, <1>3, MarketAssumption DEF Inv, TypeOK

\* A deposit (deposit_reserve_liquidity_and_obligation_collateral) keeps the invariant.
LEMMA DepositKeeps ==
  ASSUME Inv, NEW o \in Owners, NEW amount \in Nat, DepositLiquidity(o, amount)
  PROVE  Inv'
<1> DEFINE minted == CollateralFor(amount)
<1>1. /\ totalLiquidity + amount <= MaxU64 /\ amount > 0
      /\ totalCollateral + minted <= MaxU64 /\ amount <= cash[o]
      /\ liquid' = liquid + amount
      /\ totalLiquidity' = totalLiquidity + amount
      /\ totalCollateral' = totalCollateral + minted
      /\ cash' = Put(cash, o, cash[o] - amount)
      /\ cTokens' = Put(cTokens, o, cTokens[o] + minted)
      /\ UNCHANGED <<totalBorrowed, opened, debt, history>>
  BY DEF DepositLiquidity, AddFits, Put
<1>2. minted \in 0..amount
  BY <1>1, DepositRate DEF Inv
<1> HIDE DEF minted
<1>3. minted \in Nat
  BY <1>2
<1>4. cash' \in [Owners -> Nat]
  BY <1>1, Numbers, PutLess
<1>5. cTokens' \in [Owners -> Nat] /\ Total(cTokens') = Total(cTokens) + minted
  <2>1. cTokens' = Put(cTokens, o, cTokens[o] + minted)
    BY <1>1
  <2>2. cTokens \in [Owners -> Nat]
    BY Numbers
  <2> QED BY <2>1, <2>2, <1>3, PutMore
<1>7. TypeOK'
  BY <1>1, <1>2, <1>4, <1>5, Numbers DEF TypeOK, Inv, history
<1>8. LiquidityAccounted'
  BY <1>1, Numbers DEF LiquidityAccounted, Inv, history
<1>9. BooksAddUp'
  <2>1. Total(cTokens) \in Nat
    BY Numbers, PutFacts
  <2>2. Total(cTokens)' + burnt' = totalCollateral'
    BY <1>1, <1>5, <2>1, Numbers, <1>3 DEF BooksAddUp, Inv, Total, history
  <2> QED BY <2>2, <1>1 DEF BooksAddUp, Inv, Total, history
<1>10. RateDefined'
  BY <1>1, <1>2, Numbers DEF RateDefined, Inv
<1> QED BY <1>7, <1>8, <1>9, <1>10 DEF Inv

\* A redemption, with no health check, keeps the invariant.
LEMMA RedeemKeeps ==
  ASSUME Inv, NEW o \in Owners, NEW n \in Nat, RedeemCollateral(o, n)
  PROVE  Inv'
<1> DEFINE amount == LiquidityFor(n)
<1>1. /\ n > 0 /\ n <= cTokens[o] /\ n <= totalCollateral /\ amount <= liquid
      /\ liquid' = liquid - amount
      /\ totalLiquidity' = totalLiquidity - amount
      /\ totalCollateral' = totalCollateral - n
      /\ cash' = Put(cash, o, cash[o] + amount)
      /\ cTokens' = Put(cTokens, o, cTokens[o] - n)
      /\ UNCHANGED <<totalBorrowed, opened, debt, history>>
  BY DEF RedeemCollateral, Put
<1>2. n \in 1..totalCollateral
  BY <1>1, Numbers
<1>3. /\ amount \in 0..totalLiquidity
      /\ totalCollateral - n <= totalLiquidity - amount
  BY <1>2, RedeemRate DEF Inv
<1> HIDE DEF amount
<1>4. amount \in Nat
  BY <1>3
<1>5. cash' \in [Owners -> Nat]
  BY <1>1, <1>4, Numbers, PutMore
<1>6. cTokens' \in [Owners -> Nat] /\ Total(cTokens') = Total(cTokens) - n
  BY <1>1, Numbers, PutLess
<1>8. TypeOK'
  BY <1>1, <1>3, <1>5, <1>6, Numbers DEF TypeOK, Inv, history
<1>9. LiquidityAccounted'
  BY <1>1, <1>3, Numbers DEF LiquidityAccounted, Inv, history
<1>10. BooksAddUp'
  <2>1. Total(cTokens) \in Nat
    BY Numbers, PutFacts
  <2>2. Total(cTokens)' + burnt' = totalCollateral'
    BY <1>1, <1>6, <2>1, Numbers DEF BooksAddUp, Inv, Total, history
  <2> QED BY <2>2, <1>1 DEF BooksAddUp, Inv, Total, history
<1>11. RateDefined'
  BY <1>1, <1>2, <1>3, Numbers DEF RateDefined, Inv
<1> QED BY <1>8, <1>9, <1>10, <1>11 DEF Inv

\* A loan keeps the invariant: reserve total and obligation grow alike.
LEMMA BorrowKeeps ==
  ASSUME Inv, NEW o \in Owners, NEW amount \in Nat, BorrowLiquidity(o, amount)
  PROVE  Inv'
<1>1. /\ o \in opened /\ amount <= liquid
      /\ totalBorrowed + amount <= MaxU64 /\ debt[o] + amount <= MaxU64
      /\ liquid' = liquid - amount
      /\ totalBorrowed' = totalBorrowed + amount
      /\ cash' = Put(cash, o, cash[o] + amount)
      /\ debt' = Put(debt, o, debt[o] + amount)
      /\ UNCHANGED <<totalLiquidity, totalCollateral, cTokens, opened, history>>
  BY DEF BorrowLiquidity, AddFits, Put
<1>a. debt' = Put(debt, o, debt[o] + amount)
  BY <1>1
<1>2. debt[o] \in Nat /\ debt[o] + amount \in 0..MaxU64
  BY <1>1, Numbers
<1>3. cash' \in [Owners -> Nat]
  BY <1>1, Numbers, PutMore
<1>4. /\ Total(debt') = Total(debt) + amount
      /\ \A p \in Owners \ {o} : debt'[p] = debt[p]
  <2>1. debt \in [Owners -> Nat]
    BY Numbers
  <2> QED BY <1>a, <2>1, PutMore
<1>5. debt' \in [Owners -> 0..MaxU64]
  BY <1>a, <1>2 DEF Inv, TypeOK, Put
<1>7. TypeOK'
  BY <1>1, <1>3, <1>5, Numbers DEF TypeOK, Inv, history
<1>8. LiquidityAccounted'
  BY <1>1, Numbers DEF LiquidityAccounted, Inv, history
<1>9. BooksAddUp'
  <2>1. Total(debt)' = totalBorrowed'
    BY <1>1, <1>4 DEF BooksAddUp, Inv, Total, history
  <2>2. \A p \in Owners : p \notin opened => debt'[p] = 0
    BY <1>1, <1>4 DEF BooksAddUp, Inv
  <2> QED BY <2>1, <2>2, <1>1 DEF BooksAddUp, Inv, Total, history
<1>10. RateDefined'
  BY <1>1 DEF RateDefined, Inv
<1> QED BY <1>7, <1>8, <1>9, <1>10 DEF Inv

\* The repayment is at most the obligation's debt, and that at most the
\* reserve's, so neither subtraction saturates.
LEMMA RepayKeeps ==
  ASSUME Inv, NEW o \in Owners, NEW amount \in Nat, RepayLiquidity(o, amount)
  PROVE  Inv'
<1> DEFINE repay == Repaid(o, amount)
<1>1. repay \in Nat /\ repay <= debt[o] /\ repay <= totalBorrowed
  BY Numbers DEF Repaid
<1>2. /\ o \in opened /\ repay <= cash[o]
      /\ liquid' = liquid + repay
      /\ totalBorrowed' = SaturatingSub(totalBorrowed, repay)
      /\ cash' = Put(cash, o, cash[o] - repay)
      /\ debt' = Put(debt, o, SaturatingSub(debt[o], repay))
      /\ UNCHANGED <<totalLiquidity, totalCollateral, cTokens, opened, history>>
  BY DEF RepayLiquidity, Put
<1> HIDE DEF repay
<1>3. /\ SaturatingSub(totalBorrowed, repay) = totalBorrowed - repay
      /\ SaturatingSub(debt[o], repay) = debt[o] - repay
  BY <1>1, Numbers DEF SaturatingSub
<1>a. debt' = Put(debt, o, debt[o] - repay)
  BY <1>2, <1>3
<1>4. debt[o] - repay \in 0..MaxU64
  BY <1>1, <1>2, Numbers DEF Inv, TypeOK
<1>5. cash' \in [Owners -> Nat]
  BY <1>1, <1>2, Numbers, PutLess
<1>6. /\ Total(debt') = Total(debt) - repay
      /\ \A p \in Owners \ {o} : debt'[p] = debt[p]
  BY <1>1, <1>a, Numbers, PutLess
<1>7. debt' \in [Owners -> 0..MaxU64]
  BY <1>a, <1>4 DEF Inv, TypeOK, Put
<1>9. TypeOK'
  BY <1>1, <1>2, <1>3, <1>5, <1>7, Numbers DEF TypeOK, Inv, history
<1>10. LiquidityAccounted'
  BY <1>1, <1>2, <1>3, Numbers DEF LiquidityAccounted, Inv, history
<1>11. BooksAddUp'
  <2>1. Total(debt)' = totalBorrowed'
    BY <1>1, <1>2, <1>3, <1>6 DEF BooksAddUp, Inv, Total, history
  <2>2. \A p \in Owners : p \notin opened => debt'[p] = 0
    BY <1>2, <1>6 DEF BooksAddUp, Inv
  <2> QED BY <2>1, <2>2, <1>2 DEF BooksAddUp, Inv, Total, history
<1>12. RateDefined'
  BY <1>2 DEF RateDefined, Inv
<1> QED BY <1>9, <1>10, <1>11, <1>12 DEF Inv

\* Opening an obligation keeps the invariant: it had no debt before.
LEMMA InitObligationKeeps ==
  ASSUME Inv, NEW o \in Owners, InitObligation(o)
  PROVE  Inv'
<1>1. /\ o \notin opened /\ opened' = opened \cup {o}
      /\ debt' = [debt EXCEPT ![o] = 0]
      /\ UNCHANGED <<liquid, reserveVars, cTokens, cash, history>>
  BY DEF InitObligation
<1>2. debt[o] = 0
  BY <1>1 DEF Inv, BooksAddUp
<1>3. debt' = debt
  BY <1>1, <1>2, Numbers
<1>4. TypeOK'
  BY <1>1, <1>3 DEF Inv, TypeOK, reserveVars, history
<1>5. LiquidityAccounted' /\ RateDefined'
  BY <1>1 DEF Inv, LiquidityAccounted, RateDefined, reserveVars, history
<1>6. BooksAddUp'
  BY <1>1, <1>3 DEF Inv, BooksAddUp, Total, reserveVars, history
<1> QED BY <1>4, <1>5, <1>6 DEF Inv

\* A cToken transfer keeps the invariant and takes from its sender only.
LEMMA TransferCTokensKeeps ==
  ASSUME Inv, NEW o \in Owners, NEW p \in Owners, NEW n \in Nat, TransferCTokens(o, p, n)
  PROVE  /\ Inv'
         /\ \A q \in Owners \ {o} : cTokens'[q] >= cTokens[q]
<1> DEFINE less == Put(cTokens, o, cTokens[o] - n)
<1>1. /\ o # p /\ n <= cTokens[o]
      /\ cTokens' = [cTokens EXCEPT ![o] = @ - n, ![p] = @ + n]
      /\ UNCHANGED <<liquid, reserveVars, cash, opened, debt, history>>
  BY DEF TransferCTokens
<1>2. less[p] = cTokens[p] /\ cTokens' = Put(less, p, less[p] + n)
  BY <1>1, Numbers DEF Put
<1>3. less = Put(cTokens, o, cTokens[o] - n)
  OBVIOUS
<1> HIDE DEF less
<1>4. /\ less \in [Owners -> Nat] /\ Total(less) = Total(cTokens) - n
      /\ \A q \in Owners \ {o} : less[q] = cTokens[q]
  BY <1>1, <1>3, Numbers, PutLess
<1>5. /\ cTokens' \in [Owners -> Nat] /\ cTokens'[p] = less[p] + n
      /\ \A q \in Owners \ {p} : cTokens'[q] = less[q]
      /\ Total(cTokens') = Total(less) + n
  BY <1>2, <1>4, PutMore
<1>6. Total(cTokens') = Total(cTokens)
  <2>1. Total(cTokens) \in Nat
    BY Numbers, PutFacts
  <2> QED BY <1>4, <1>5, <2>1
<1>7. TypeOK'
  BY <1>1, <1>5 DEF Inv, TypeOK, reserveVars, history
<1>8. LiquidityAccounted' /\ RateDefined'
  BY <1>1 DEF Inv, LiquidityAccounted, RateDefined, reserveVars, history
<1>9. BooksAddUp'
  BY <1>1, <1>6 DEF Inv, BooksAddUp, Total, reserveVars, history
<1>10. \A q \in Owners \ {o} : cTokens'[q] >= cTokens[q]
  BY <1>2, <1>4, <1>5, Numbers
<1> QED BY <1>7, <1>8, <1>9, <1>10 DEF Inv

\* A plain transfer into the liquidity supply keeps the invariant.
LEMMA GiftKeeps ==
  ASSUME Inv, NEW o \in Owners, NEW amount \in Nat,
         TransferIn(o, amount)
  PROVE  Inv'
<1>1. /\ amount <= cash[o] /\ gifts + amount <= MaxGifts /\ MaxGifts \in Nat
      /\ liquid' = liquid + amount /\ gifts' = gifts + amount
      /\ cash' = Put(cash, o, cash[o] - amount)
      /\ UNCHANGED <<reserveVars, cTokens, opened, debt, burnt>>
  BY MarketAssumption DEF TransferIn, Put
<1>3. cash' \in [Owners -> Nat]
  BY <1>1, Numbers, PutLess
<1>4. TypeOK'
  BY <1>1, <1>3, Numbers DEF Inv, TypeOK, reserveVars, history
<1>5. LiquidityAccounted' /\ RateDefined'
  BY <1>1, Numbers DEF Inv, LiquidityAccounted, RateDefined, reserveVars, history
<1>6. BooksAddUp'
  BY <1>1 DEF Inv, BooksAddUp, Total, reserveVars, history
<1> QED BY <1>4, <1>5, <1>6 DEF Inv

\* Burning leaves the total of the reserve alone: the others redeem at the rate
\* they had.
LEMMA BurnKeeps ==
  ASSUME Inv, NEW o \in Owners, NEW n \in Nat, BurnCTokens(o, n)
  PROVE  Inv'
<1>1. /\ n <= cTokens[o] /\ cTokens' = Put(cTokens, o, cTokens[o] - n)
      /\ burnt' = burnt + n
      /\ UNCHANGED <<liquid, reserveVars, cash, opened, debt, gifts>>
  BY DEF BurnCTokens, Put
<1>2. cTokens' \in [Owners -> Nat] /\ Total(cTokens') = Total(cTokens) - n
  BY <1>1, Numbers, PutLess
<1>3. TypeOK'
  BY <1>1, <1>2, Numbers DEF Inv, TypeOK, reserveVars
<1>4. LiquidityAccounted' /\ RateDefined'
  BY <1>1 DEF Inv, LiquidityAccounted, RateDefined, reserveVars
<1>5. BooksAddUp'
  <2>1. Total(cTokens) \in Nat
    BY Numbers, PutFacts
  <2>2. Total(cTokens)' + burnt' = Total(cTokens) + burnt
    BY <1>1, <1>2, <2>1, Numbers DEF Total
  <2> QED BY <1>1, <2>2 DEF Inv, BooksAddUp, Total, reserveVars
<1> QED BY <1>3, <1>4, <1>5 DEF Inv

\* simulate_yield keeps the invariant.
LEMMA YieldKeeps ==
  ASSUME Inv, NEW amount \in Nat, SimulateYield(amount)
  PROVE  Inv'
<1>1. /\ totalLiquidity + amount <= MaxU64
      /\ liquid' = liquid + amount /\ totalLiquidity' = totalLiquidity + amount
      /\ UNCHANGED <<totalCollateral, totalBorrowed, cTokens, cash, opened, debt, history>>
  BY DEF SimulateYield, AddFits
<1>2. TypeOK' /\ LiquidityAccounted' /\ RateDefined'
  BY <1>1, Numbers DEF Inv, TypeOK, LiquidityAccounted, RateDefined, history
<1>3. BooksAddUp'
  BY <1>1 DEF Inv, BooksAddUp, Total, history
<1> QED BY <1>2, <1>3 DEF Inv

\* The steps of the market, one alternative each.
LEMMA StepCases ==
  ASSUME Inv, [Next]_marketVars
  PROVE  \/ \E o \in Owners : InitObligation(o)
         \/ \E o \in Owners, amount \in Nat : DepositLiquidity(o, amount)
         \/ \E o \in Owners, amount \in Nat : BorrowLiquidity(o, amount)
         \/ \E o \in Owners, amount \in Nat : RepayLiquidity(o, amount)
         \/ \E o \in Owners, amount \in Nat : TransferIn(o, amount)
         \/ \E o \in Owners, n \in Nat : RedeemCollateral(o, n)
         \/ \E o \in Owners, p \in Owners, n \in Nat : TransferCTokens(o, p, n)
         \/ \E o \in Owners, n \in Nat : BurnCTokens(o, n)
         \/ \E amount \in Nat : SimulateYield(amount)
         \/ UNCHANGED marketVars
<1>1. Amounts \subseteq Nat /\ \A o \in Owners : 1..cTokens[o] \subseteq Nat
  BY MarketAssumption, Numbers
<1>2. CASE Next
  <2>1. CASE \E o \in Owners : OwnerStep(o)
    <3>1. PICK o \in Owners : OwnerStep(o)
      BY <2>1
    <3> QED BY <3>1, <1>1 DEF OwnerStep
  <2>2. CASE \E amount \in Amounts : SimulateYield(amount)
    BY <2>2, <1>1
  <2> QED BY <1>2, <2>1, <2>2 DEF Next
<1> QED BY <1>2

\* The reserve starts in the invariant.
LEMMA InvInit == Init => Inv
<1> SUFFICES ASSUME Init PROVE Inv
  OBVIOUS
<1>1. /\ cTokens = [o \in Owners |-> 0] /\ debt = [o \in Owners |-> 0]
      /\ liquid = 0 /\ gifts = 0 /\ burnt = 0 /\ totalLiquidity = 0 /\ totalCollateral = 0
      /\ totalBorrowed = 0 /\ opened = {} /\ cash = [o \in Owners |-> Endowment]
  BY DEF Init
<1>2. TypeOK
  BY <1>1, MarketAssumption DEF TypeOK
<1>3. Total(cTokens) = 0 /\ Total(debt) = 0
  BY <1>1, OwnersAssumption, SumZero DEF Total
<1> QED BY <1>1, <1>2, <1>3 DEF Inv, LiquidityAccounted, BooksAddUp, RateDefined

\* Every instruction of the market keeps the invariant.
LEMMA InvStep == Inv /\ [Next]_marketVars => Inv'
<1> SUFFICES ASSUME Inv, [Next]_marketVars PROVE Inv'
  OBVIOUS
<1>1. CASE UNCHANGED marketVars
  BY <1>1 DEF marketVars, reserveVars, history, Inv, TypeOK, LiquidityAccounted, BooksAddUp,
              RateDefined, Total
<1> QED BY <1>1, StepCases, DepositKeeps, RedeemKeeps, BorrowKeeps, RepayKeeps,
           InitObligationKeeps, TransferCTokensKeeps, GiftKeeps, BurnKeeps, YieldKeeps

\* The invariant holds in every reachable state of the market.
THEOREM MarketInv == Spec => []Inv
BY InvInit, InvStep, PTL DEF Spec

\* Every total stays a u64 and every account balance a natural number.
THEOREM MarketTypeOK == Spec => []TypeOK
<1>1. Inv => TypeOK
  BY DEF Inv
<1> QED BY <1>1, MarketInv, PTL

\* Tokens in the supply account and tokens lent out add up to what the reserve
\* owes its depositors and what was given to it, whatever the instructions do.
THEOREM MarketLiquidityAccounted == Spec => []LiquidityAccounted
<1>1. Inv => LiquidityAccounted
  BY DEF Inv
<1> QED BY <1>1, MarketInv, PTL

\* The reserve's totals are the sums over obligations and cToken holders, so
\* the saturating subtractions of a repayment never hide a difference.
THEOREM MarketBooksAddUp == Spec => []BooksAddUp
<1>1. Inv => BooksAddUp
  BY DEF Inv
<1> QED BY <1>1, MarketInv, PTL

\* No division by zero and no truncating cast, in any order of instructions.
THEOREM MarketRateDefined == Spec => []RateDefined
<1>1. Inv => RateDefined
  BY DEF Inv
<1> QED BY <1>1, MarketInv, PTL

-----------------------------------------------------------------------------
(***************************************************************************)
(* The rate, and the health it gives an obligation.                        *)
(***************************************************************************)

\* No step lowers the redemption rate.
LEMMA RateStep ==
  ASSUME Inv, [Next]_marketVars
  PROVE  totalCollateral > 0 =>
           totalLiquidity' * totalCollateral >= totalLiquidity * totalCollateral'
<1>1. totalLiquidity \in Nat /\ totalCollateral \in Nat
  BY Numbers
<1>2. ASSUME UNCHANGED <<totalLiquidity, totalCollateral>>
      PROVE  totalLiquidity' * totalCollateral >= totalLiquidity * totalCollateral'
  <2>1. totalLiquidity * totalCollateral \in Nat
    BY <1>1, ProductNat
  <2> QED BY <1>2, <2>1
<1>3. CASE \E o \in Owners, amount \in Nat : DepositLiquidity(o, amount)
  <2>1. PICK o \in Owners, amount \in Nat : DepositLiquidity(o, amount)
    BY <1>3
  <2>2. /\ totalLiquidity + amount <= MaxU64
        /\ totalLiquidity' = totalLiquidity + amount
        /\ totalCollateral' = totalCollateral + CollateralFor(amount)
    BY <2>1 DEF DepositLiquidity, AddFits
  <2>3. totalCollateral > 0 =>
          (totalLiquidity + amount) * totalCollateral
            >= totalLiquidity * (totalCollateral + CollateralFor(amount))
    BY <2>2, DepositRate DEF Inv
  <2> QED BY <2>2, <2>3
<1>4. CASE \E o \in Owners, n \in Nat : RedeemCollateral(o, n)
  <2>1. PICK o \in Owners, n \in Nat : RedeemCollateral(o, n)
    BY <1>4
  <2>2. /\ n \in 1..totalCollateral
        /\ totalLiquidity' = totalLiquidity - LiquidityFor(n)
        /\ totalCollateral' = totalCollateral - n
    BY <2>1, <1>1 DEF RedeemCollateral
  <2>3. (totalLiquidity - LiquidityFor(n)) * totalCollateral
          >= totalLiquidity * (totalCollateral - n)
    BY <2>2, RedeemRate DEF Inv
  <2> QED BY <2>2, <2>3
<1>5. CASE \E amount \in Nat : SimulateYield(amount)
  <2>1. PICK amount \in Nat : SimulateYield(amount)
    BY <1>5
  <2>2. totalLiquidity' = totalLiquidity + amount /\ totalCollateral' = totalCollateral
    BY <2>1 DEF SimulateYield
  <2>3. totalLiquidity * totalCollateral <= (totalLiquidity + amount) * totalCollateral
    <3> DEFINE more == totalLiquidity + amount
    <3>1. more \in Nat /\ totalLiquidity <= more
      BY <1>1
    <3> HIDE DEF more
    <3>2. totalLiquidity * totalCollateral <= more * totalCollateral
      BY <1>1, <3>1, ProductMono
    <3> QED BY <3>2 DEF more
  <2>4. /\ totalLiquidity * totalCollateral \in Nat
        /\ (totalLiquidity + amount) * totalCollateral \in Nat
    BY <1>1, ProductNat
  <2> QED BY <2>2, <2>3, <2>4
<1>6. CASE \/ \E o \in Owners : InitObligation(o)
           \/ \E o \in Owners, amount \in Nat : BorrowLiquidity(o, amount)
           \/ \E o \in Owners, amount \in Nat : RepayLiquidity(o, amount)
           \/ \E o \in Owners, amount \in Nat : TransferIn(o, amount)
           \/ \E o \in Owners, p \in Owners, n \in Nat : TransferCTokens(o, p, n)
           \/ \E o \in Owners, n \in Nat : BurnCTokens(o, n)
           \/ UNCHANGED marketVars
  <2>1. UNCHANGED <<totalLiquidity, totalCollateral>>
    BY <1>6 DEF InitObligation, BorrowLiquidity, RepayLiquidity, TransferIn,
                TransferCTokens, BurnCTokens, reserveVars, marketVars
  <2> QED BY <1>2, <2>1
<1> QED BY <1>3, <1>4, <1>5, <1>6, StepCases

\* Rounding never takes from the cTokens already out: neither a deposit nor a
\* redemption, in any order, makes one worth less.
THEOREM MarketRateNeverFalls == Spec => RateNeverFalls
<1>1. Inv /\ [Next]_marketVars =>
        [totalCollateral > 0 =>
           totalLiquidity' * totalCollateral >= totalLiquidity * totalCollateral']_marketVars
  BY RateStep
<1> QED BY <1>1, MarketInv, PTL DEF Spec, RateNeverFalls

\* At a rate that does not fall, no fewer cTokens are worth no less.
LEMMA WorthMono ==
  ASSUME NEW n \in Nat, NEW n2 \in Nat, n <= n2,
         NEW L \in Nat, NEW L2 \in Nat, NEW C \in Nat \ {0}, NEW C2 \in Nat \ {0},
         L * C2 <= L2 * C
  PROVE  (n * L) \div C <= (n2 * L2) \div C2
<1> DEFINE x == L * C2
           y == L2 * C
           a == n * L
           b == n2 * L2
<1>1. x \in Nat /\ y \in Nat /\ a \in Nat /\ b \in Nat /\ x <= y
  BY ProductNat
<1>2. a * C2 = x * n /\ b * C = y * n2
  OBVIOUS
<1> HIDE DEF x, y, a, b
<1>3. x * n <= y * n
  BY <1>1, ProductMono
<1>4. n * y <= n2 * y
  BY <1>1, ProductMono
<1>5. y * n = n * y /\ y * n2 = n2 * y
  BY <1>1
<1>6. a * C2 <= b * C
  <2>1. x * n \in Nat /\ n * y \in Nat /\ n2 * y \in Nat
    BY <1>1, ProductNat
  <2> QED BY <1>2, <1>3, <1>4, <1>5, <2>1
<1>7. a \div C <= b \div C2
  BY <1>1, <1>6, QuotientMono
<1> QED BY <1>7 DEF a, b

\* A covered debt that does not grow stays covered by a value that does not shrink.
LEMMA CoverMono ==
  ASSUME NEW v \in Nat, NEW v2 \in Nat, v <= v2,
         NEW d \in Nat \ {0}, NEW d2 \in Nat \ {0}, d2 <= d
  PROVE  (v * BPS) \div d <= (v2 * BPS) \div d2
<1>1. BPS \in Nat
  BY MarketAssumption
<1> DEFINE a == v * BPS
           b == v2 * BPS
<1>2. a \in Nat /\ b \in Nat /\ a <= b
  BY <1>1, ProductNat, ProductMono
<1> HIDE DEF a, b
<1>3. a * d2 <= b * d2
  BY <1>2, ProductMono
<1>4. d2 * b <= d * b
  BY <1>2, ProductMono
<1>5. a * d2 <= b * d
  <2>1. b * d2 = d2 * b /\ b * d = d * b
    BY <1>2
  <2>2. a * d2 \in Nat /\ d2 * b \in Nat /\ d * b \in Nat
    BY <1>2, ProductNat
  <2> QED BY <1>3, <1>4, <2>1, <2>2
<1>6. a \div d <= b \div d2
  BY <1>2, <1>5, QuotientMono
<1> QED BY <1>6 DEF a, b

\* Across steps that do not lower the rate, the cTokens of a participant that
\* gives none up cover what they covered.
LEMMA CoverKept ==
  ASSUME Inv, Inv', NEW o \in Owners, cTokens'[o] >= cTokens[o],
         NEW d \in Nat \ {0}, NEW d2 \in Nat \ {0}, d2 <= d,
         totalCollateral > 0, Covers(o, d),
         totalLiquidity' * totalCollateral >= totalLiquidity * totalCollateral'
  PROVE  /\ totalCollateral' > 0
         /\ (CollateralValue(o)' * BPS) \div d2 >= HFMin
<1>1. /\ cTokens[o] \in Nat /\ totalLiquidity \in Nat
      /\ totalCollateral \in Nat /\ HFMin \in Nat \ {0} /\ BPS \in Nat
  BY Numbers, MarketAssumption
<1>2. /\ cTokens'[o] \in Nat /\ totalLiquidity' \in Nat
      /\ totalCollateral' \in Nat /\ cTokens'[o] <= totalCollateral'
  <2>1. /\ cTokens' \in [Owners -> Nat]
        /\ totalLiquidity' \in Nat /\ totalCollateral' \in Nat
        /\ totalCollateral' = Total(cTokens') + burnt' /\ burnt' \in Nat
    BY MarketAssumption DEF Inv, TypeOK, BooksAddUp, Total
  <2>2. cTokens'[o] <= Total(cTokens') /\ Total(cTokens') \in Nat
    BY <2>1, OwnersAssumption, SumMember, SumType DEF Total
  <2> QED BY <2>1, <2>2
<1> DEFINE v  == CollateralValue(o)
           v2 == (cTokens'[o] * totalLiquidity') \div totalCollateral'
<1>4. v = (cTokens[o] * totalLiquidity) \div totalCollateral
  BY DEF CollateralValue
<1>5. v \in Nat
  BY <1>1, <1>4, ProductNat, FloorDivision
<1>6. (v * BPS) \div d >= HFMin
  BY DEF Covers
<1>7. cTokens[o] # 0
  <2> SUFFICES ASSUME cTokens[o] = 0 PROVE FALSE
    OBVIOUS
  <2>1. cTokens[o] * totalLiquidity = 0
    BY <1>1
  <2>2. v = 0
    BY <1>1, <1>4, <2>1
  <2> HIDE DEF v
  <2>3. v * BPS = 0
    BY <1>1, <2>2
  <2> QED BY <1>1, <1>6, <2>3
<1>8. totalCollateral' > 0
  BY <1>1, <1>2, <1>7
<1>9. totalLiquidity * totalCollateral' <= totalLiquidity' * totalCollateral
  <2>1. totalLiquidity' * totalCollateral \in Nat /\ totalLiquidity * totalCollateral' \in Nat
    BY <1>1, <1>2, ProductNat
  <2> QED BY <2>1
<1>10. v <= v2
  <2> DEFINE n  == cTokens[o]
             n2 == cTokens'[o]
             L2 == totalLiquidity'
             C2 == totalCollateral'
  <2>1. /\ n \in Nat /\ n2 \in Nat /\ n <= n2 /\ L2 \in Nat /\ C2 \in Nat \ {0}
        /\ totalCollateral \in Nat \ {0} /\ totalLiquidity \in Nat
    BY <1>1, <1>2, <1>8
  <2>a. totalLiquidity * C2 <= L2 * totalCollateral
    BY <1>9
  <2> HIDE DEF n, n2, L2, C2
  <2>2. (n * totalLiquidity) \div totalCollateral <= (n2 * L2) \div C2
    BY <2>1, <2>a, WorthMono
  <2> QED BY <1>4, <2>2 DEF n, n2, L2, C2
<1>11. v2 \in Nat
  BY <1>2, <1>8, ProductNat, FloorDivision
<1>12. CollateralValue(o)' = v2
  BY DEF CollateralValue
<1> HIDE DEF v, v2
<1>13. (v2 * BPS) \div d2 >= HFMin
  <2>1. (v * BPS) \div d <= (v2 * BPS) \div d2
    BY <1>5, <1>10, <1>11, CoverMono
  <2>2. (v * BPS) \div d \in Nat /\ (v2 * BPS) \div d2 \in Nat
    BY <1>1, <1>5, <1>11, ProductNat, FloorDivision
  <2> QED BY <1>1, <1>6, <2>1, <2>2
<1> QED BY <1>8, <1>12, <1>13

\* A participant that keeps its cTokens and borrows no more stays healthy in
\* every step of anybody.
LEMMA HealthKept ==
  ASSUME Inv, Inv', [Next]_marketVars, NEW o \in Owners,
         Healthy(o), cTokens'[o] >= cTokens[o], debt'[o] <= debt[o]
  PROVE  Healthy(o)'
<1> SUFFICES ASSUME debt'[o] > 0 PROVE totalCollateral' > 0 /\ Covers(o, debt[o])'
  BY DEF Healthy
<1>1. debt[o] \in Nat /\ debt'[o] \in Nat
  <2>1. debt' \in [Owners -> 0..MaxU64] /\ MaxU64 \in Nat
    BY MarketAssumption DEF Inv, TypeOK
  <2> QED BY <2>1, Numbers
<1>2. debt[o] > 0 /\ totalCollateral > 0 /\ Covers(o, debt[o])
  BY <1>1 DEF Healthy
<1>3. totalLiquidity' * totalCollateral >= totalLiquidity * totalCollateral'
  BY <1>2, RateStep
<1> DEFINE d  == debt[o]
           d2 == debt'[o]
<1>4. d \in Nat \ {0} /\ d2 \in Nat \ {0} /\ d2 <= d /\ Covers(o, d)
  BY <1>1, <1>2
<1> HIDE DEF d, d2
<1>5. totalCollateral' > 0 /\ (CollateralValue(o)' * BPS) \div d2 >= HFMin
  BY <1>2, <1>3, <1>4, CoverKept
<1> QED BY <1>5 DEF Covers, d2

\* Debt grows only by its owner's borrowing, which is checked against the whole
\* of the new debt.
LEMMA DebtStep ==
  ASSUME Inv, [Next]_marketVars, NEW o \in Owners
  PROVE  \/ debt'[o] <= debt[o]
         \/ \E amount \in Nat : BorrowLiquidity(o, amount)
<1>1. debt \in [Owners -> Nat]
  BY Numbers
<1>2. ASSUME NEW p \in Owners, NEW amount \in Nat, BorrowLiquidity(p, amount), p # o
      PROVE  debt'[o] <= debt[o]
  BY <1>1, <1>2 DEF BorrowLiquidity
<1>3. ASSUME NEW p \in Owners, NEW amount \in Nat, RepayLiquidity(p, amount)
      PROVE  debt'[o] <= debt[o]
  <2>1. Repaid(p, amount) \in Nat
    BY <1>1 DEF Repaid
  <2>2. SaturatingSub(debt[p], Repaid(p, amount)) <= debt[p]
    BY <1>1, <2>1 DEF SaturatingSub
  <2>3. debt' = Put(debt, p, SaturatingSub(debt[p], Repaid(p, amount)))
    BY <1>3 DEF RepayLiquidity, Put
  <2>4. \/ debt'[o] = debt[o]
        \/ o = p /\ debt'[o] = SaturatingSub(debt[p], Repaid(p, amount))
    BY <1>1, <2>3 DEF Put
  <2> QED BY <1>1, <2>2, <2>4
<1>4. ASSUME NEW p \in Owners, InitObligation(p)
      PROVE  debt'[o] <= debt[o]
  BY <1>1, <1>4 DEF InitObligation
<1>5. CASE \/ \E p \in Owners, amount \in Nat : DepositLiquidity(p, amount)
           \/ \E p \in Owners, n \in Nat : RedeemCollateral(p, n)
           \/ \E p \in Owners, amount \in Nat : TransferIn(p, amount)
           \/ \E p \in Owners, q \in Owners, n \in Nat : TransferCTokens(p, q, n)
           \/ \E p \in Owners, n \in Nat : BurnCTokens(p, n)
           \/ \E amount \in Nat : SimulateYield(amount)
           \/ UNCHANGED marketVars
  <2>1. debt' = debt
    BY <1>5 DEF DepositLiquidity, RedeemCollateral, TransferIn, TransferCTokens,
                BurnCTokens, SimulateYield, marketVars
  <2> QED BY <1>1, <2>1
<1> QED BY <1>2, <1>3, <1>4, <1>5, StepCases

\* Nothing but giving up its own collateral makes a healthy obligation
\* unhealthy: prices here only rise, and borrowing stops at the minimum.
THEOREM MarketOnlyOwnerWeakens == Spec => OnlyOwnerWeakens
<1>1. ASSUME Inv, Inv', [Next]_marketVars, NEW o \in Owners,
             Healthy(o), cTokens'[o] >= cTokens[o]
      PROVE  Healthy(o)'
  <2>1. CASE debt'[o] <= debt[o]
    BY <1>1, <2>1, HealthKept
  <2>2. CASE \E amount \in Nat : BorrowLiquidity(o, amount)
    <3>1. PICK amount \in Nat : BorrowLiquidity(o, amount)
      BY <2>2
    <3>2. /\ totalCollateral > 0 /\ Covers(o, debt[o] + amount)
          /\ UNCHANGED <<totalLiquidity, totalCollateral, cTokens>>
          /\ debt'[o] = debt[o] + amount
      BY <1>1, <3>1, Numbers DEF BorrowLiquidity, HealthyAfterBorrow
    <3>3. Covers(o, debt[o])'
      BY <3>2 DEF Covers, CollateralValue
    <3> QED BY <3>2, <3>3 DEF Healthy
  <2> QED BY <1>1, <2>1, <2>2, DebtStep
<1>2. Inv /\ Inv' /\ [Next]_marketVars =>
        [\A o \in Owners :
           Healthy(o) /\ cTokens'[o] >= cTokens[o] => Healthy(o)']_marketVars
  BY <1>1
<1> QED BY <1>2, MarketInv, PTL DEF Spec, OnlyOwnerWeakens

-----------------------------------------------------------------------------
(***************************************************************************)
(* The looping agent's plans: what a decision still has to send fits the   *)
(* position it will be applied to, and can be paid for.  First, sums over  *)
(* the transactions of a plan.                                             *)
(***************************************************************************)
Dos == {"deposit", "borrow", "repay", "withdraw"}
Txs == [do : Dos, amount : Nat]

\* The indices from S on which a transaction does what is asked.
StepsIn(do, rest, S) == {i \in S : rest[i].do = do}
AmountsIn(do, rest, S) ==
  SumFunctionOnSet([i \in StepsIn(do, rest, S) |-> rest[i].amount], StepsIn(do, rest, S))

\* What step i adds to the amount planned.
At(do, rest, i) ==
  IF i \in DOMAIN rest /\ rest[i].do = do THEN rest[i].amount ELSE 0

\* A step adds a natural number, if any.
LEMMA AtNat ==
  ASSUME NEW do, NEW rest \in Seq(Txs), NEW i
  PROVE  At(do, rest, i) \in Nat
<1>1. i \in DOMAIN rest => rest[i] \in Txs
  OBVIOUS
<1>2. i \in DOMAIN rest => rest[i].amount \in Nat
  BY <1>1 DEF Txs
<1> QED BY <1>2 DEF At

\* One index more or less: the amount changes by what its step does.
LEMMA AmountsSkip ==
  ASSUME NEW do, NEW rest \in Seq(Txs), NEW S, S \subseteq DOMAIN rest, IsFiniteSet(S), NEW i
  PROVE  /\ AmountsIn(do, rest, S) \in Nat
         /\ i \in S =>
              AmountsIn(do, rest, S) = At(do, rest, i) + AmountsIn(do, rest, S \ {i})
<1> DEFINE T == StepsIn(do, rest, S)
           f == [j \in T |-> rest[j].amount]
<1>1. \A j \in DOMAIN rest : rest[j] \in Txs
  OBVIOUS
<1>2. IsFiniteSet(T) /\ f \in [T -> Nat]
  BY <1>1, FS_Subset DEF StepsIn, Txs
<1>3. StepsIn(do, rest, S \ {i}) = T \ {i}
  BY DEF StepsIn
<1>4. AmountsIn(do, rest, S) = SumFunctionOnSet(f, T)
  BY DEF AmountsIn
<1>5. [j \in T \ {i} |-> rest[j].amount] = [j \in T \ {i} |-> f[j]]
  OBVIOUS
<1>6. AmountsIn(do, rest, S \ {i}) = SumFunctionOnSet([j \in T \ {i} |-> f[j]], T \ {i})
  BY <1>3, <1>5 DEF AmountsIn
<1>7. i \in T => i \in S /\ i \in DOMAIN rest /\ f[i] = At(do, rest, i)
  BY DEF StepsIn, At
<1>8. i \in S /\ i \notin T => At(do, rest, i) = 0
  BY DEF StepsIn, At
<1> HIDE DEF T
<1>9. SumFunctionOnSet(f, T) \in Nat
  <2> HIDE DEF f
  <2> QED BY <1>2, SumType
<1>10. CASE i \in T
  <2> HIDE DEF f
  <2>1. SumFunctionOnSet(f, T) = f[i] + SumFunctionOnSet([j \in T \ {i} |-> f[j]], T \ {i})
    BY <1>2, <1>10, SumSplit
  <2> QED BY <2>1, <1>4, <1>6, <1>7, <1>9, <1>10
<1>11. CASE i \notin T
  <2>1. T \ {i} = T /\ [j \in T \ {i} |-> f[j]] = f
    BY <1>11
  <2> HIDE DEF f
  <2>2. AmountsIn(do, rest, S \ {i}) = SumFunctionOnSet(f, T)
    BY <2>1, <1>6
  <2> QED BY <2>2, <1>4, <1>8, <1>9, <1>11
<1> QED BY <1>10, <1>11

\* What is planned from step k on.
From(do, rest, k) == AmountsIn(do, rest, {i \in DOMAIN rest : i >= k})

\* It is what step k does and what is planned after it.
LEMMA FromStep ==
  ASSUME NEW do, NEW rest \in Seq(Txs), NEW k \in Nat
  PROVE  From(do, rest, k) = At(do, rest, k) + From(do, rest, k + 1)
<1> DEFINE S == {i \in DOMAIN rest : i >= k}
<1>1. DOMAIN rest = 1..Len(rest) /\ Len(rest) \in Nat
  OBVIOUS
<1>2. IsFiniteSet(DOMAIN rest)
  BY <1>1, FS_Interval
<1>3. S \subseteq DOMAIN rest /\ IsFiniteSet(S)
  BY <1>2, FS_Subset
<1>4. S \ {k} = {i \in DOMAIN rest : i >= k + 1}
  BY <1>1
<1>5. k \notin S => S \ {k} = S /\ At(do, rest, k) = 0
  BY <1>1 DEF At
<1>6. From(do, rest, k) = AmountsIn(do, rest, S)
  BY DEF From
<1>7. From(do, rest, k + 1) = AmountsIn(do, rest, S \ {k})
  BY <1>4 DEF From
<1> HIDE DEF S
<1>8. /\ AmountsIn(do, rest, S) \in Nat
      /\ k \in S =>
           AmountsIn(do, rest, S) = At(do, rest, k) + AmountsIn(do, rest, S \ {k})
  BY <1>3, AmountsSkip
<1>9. CASE k \in S
  BY <1>6, <1>7, <1>8, <1>9
<1>10. CASE k \notin S
  <2>1. From(do, rest, k) = From(do, rest, k + 1) /\ From(do, rest, k) \in Nat
    BY <1>5, <1>6, <1>7, <1>8, <1>10
  <2> QED BY <1>5, <1>10, <2>1
<1> QED BY <1>9, <1>10

\* A plan of at most three transactions, summed step by step.
LEMMA PlannedIs ==
  ASSUME NEW do, NEW rest \in Seq(Txs), Len(rest) <= 3
  PROVE  Planned(do, rest) = At(do, rest, 1) + At(do, rest, 2) + At(do, rest, 3)
<1>1. DOMAIN rest = 1..Len(rest) /\ Len(rest) \in Nat
  OBVIOUS
<1>2. {i \in DOMAIN rest : i >= 1} = DOMAIN rest
  BY <1>1
<1>3. Planned(do, rest) = From(do, rest, 1)
  BY <1>2 DEF Planned, From, AmountsIn, StepsIn
<1>4. From(do, rest, 4) = 0
  <2>1. {i \in DOMAIN rest : i >= 4} = {}
    BY <1>1
  <2> DEFINE none == StepsIn(do, rest, {})
             g == [i \in none |-> rest[i].amount]
  <2>2. none = {}
    BY DEF StepsIn
  <2>3. From(do, rest, 4) = SumFunctionOnSet(g, none)
    BY <2>1 DEF From, AmountsIn
  <2>4. g \in [none -> Nat] /\ \A s \in none : g[s] = 0
    BY <2>2
  <2>5. IsFiniteSet(none)
    BY <2>2, FS_EmptySet
  <2> HIDE DEF none, g
  <2>6. SumFunctionOnSet(g, none) = 0
    BY <2>4, <2>5, SumZero
  <2> QED BY <2>3, <2>6
<1>5. /\ From(do, rest, 1) = At(do, rest, 1) + From(do, rest, 2)
      /\ From(do, rest, 2) = At(do, rest, 2) + From(do, rest, 3)
      /\ From(do, rest, 3) = At(do, rest, 3) + From(do, rest, 4)
  <2>1. 1 + 1 = 2 /\ 2 + 1 = 3 /\ 3 + 1 = 4
    OBVIOUS
  <2> DEFINE next(k) == k + 1
  <2>2. \A k \in Nat : From(do, rest, k) = At(do, rest, k) + From(do, rest, next(k))
    BY FromStep
  <2>3. next(1) = 2 /\ next(2) = 3 /\ next(3) = 4
    BY <2>1
  <2> HIDE DEF next
  <2> QED BY <2>2, <2>3
<1>6. At(do, rest, 1) \in Nat /\ At(do, rest, 2) \in Nat /\ At(do, rest, 3) \in Nat
  BY AtNat
<1>7. From(do, rest, 3) = At(do, rest, 3)
  BY <1>4, <1>5, <1>6
<1>8. From(do, rest, 2) = At(do, rest, 2) + At(do, rest, 3)
  BY <1>5, <1>6, <1>7
<1> DEFINE a == At(do, rest, 1)
           b == At(do, rest, 2)
           c == At(do, rest, 3)
<1>9. a \in Nat /\ b \in Nat /\ c \in Nat /\ Planned(do, rest) = a + (b + c)
  BY <1>3, <1>5, <1>6, <1>8
<1> HIDE DEF a, b, c
<1>10. Planned(do, rest) = a + b + c
  BY <1>9
<1> QED BY <1>10 DEF a, b, c

\* The head of a plan and what is left once it is sent.
LEMMA TailFacts ==
  ASSUME NEW p \in Seq(Txs), p # <<>>
  PROVE  /\ Len(p) \in Nat \ {0} /\ Head(p) = p[1] /\ p[1] \in Txs
         /\ Tail(p) \in Seq(Txs) /\ Len(Tail(p)) = Len(p) - 1
         /\ \A i \in 1..Len(Tail(p)) : Tail(p)[i] = p[i + 1] /\ p[i + 1] \in Txs
         /\ Len(p) = 1 => Tail(p) = <<>>
<1>1. /\ Len(p) \in Nat \ {0} /\ Head(p) = p[1] /\ p[1] \in Txs
      /\ Tail(p) \in Seq(Txs) /\ Len(Tail(p)) = Len(p) - 1
      /\ \A i \in 1..Len(Tail(p)) : Tail(p)[i] = p[i + 1]
  OBVIOUS
<1>2. \A i \in 1..Len(Tail(p)) : p[i + 1] \in Txs
  BY <1>1
<1>3. Len(p) = 1 => Tail(p) = <<>>
  <2>1. \A q \in Seq(Txs) : Len(q) = 0 => q = <<>>
    OBVIOUS
  <2>2. Len(p) = 1 => Len(Tail(p)) = 0
    BY <1>1
  <2> QED BY <1>1, <2>1, <2>2
<1> QED BY <1>1, <1>2, <1>3

\* Sending the head takes its amount off what is planned.
LEMMA PlannedTail ==
  ASSUME NEW do, NEW p \in Seq(Txs), p # <<>>, Len(p) <= 3
  PROVE  /\ Planned(do, p) = At(do, p, 1) + Planned(do, Tail(p))
         /\ Planned(do, Tail(p)) \in Nat
<1> DEFINE q == Tail(p)
<1>1. /\ q \in Seq(Txs) /\ Len(q) <= 3 /\ Len(q) = Len(p) - 1 /\ Len(p) \in Nat \ {0}
      /\ \A i \in 1..Len(q) : q[i] = p[i + 1]
  <2>1. /\ q \in Seq(Txs) /\ Len(q) = Len(p) - 1 /\ Len(p) \in Nat \ {0}
        /\ \A i \in 1..Len(q) : q[i] = p[i + 1]
    BY TailFacts
  <2> HIDE DEF q
  <2> QED BY <2>1
<1>2. DOMAIN p = 1..Len(p) /\ DOMAIN q = 1..Len(q)
  OBVIOUS
<1>3. 1 + 1 = 2 /\ 2 + 1 = 3
  OBVIOUS
<1> HIDE DEF q
<1>4. At(do, q, 1) = At(do, p, 2)
  BY <1>1, <1>2, <1>3 DEF At
<1>5. At(do, q, 2) = At(do, p, 3)
  BY <1>1, <1>2, <1>3 DEF At
<1>6. At(do, q, 3) = 0
  BY <1>1, <1>2 DEF At
<1>7. /\ Planned(do, p) = At(do, p, 1) + At(do, p, 2) + At(do, p, 3)
      /\ Planned(do, q) = At(do, q, 1) + At(do, q, 2) + At(do, q, 3)
  BY <1>1, PlannedIs
<1> DEFINE a == At(do, p, 1)
           b == At(do, p, 2)
           c == At(do, p, 3)
<1>8. a \in Nat /\ b \in Nat /\ c \in Nat
  BY AtNat
<1>9. Planned(do, p) = a + b + c /\ Planned(do, q) = b + c + 0
  BY <1>4, <1>5, <1>6, <1>7, Zenon
<1> HIDE DEF a, b, c
<1>10. Planned(do, p) = a + Planned(do, q) /\ Planned(do, q) \in Nat
  BY <1>8, <1>9
<1> QED BY <1>10 DEF a, q

-----------------------------------------------------------------------------
(***************************************************************************)
(* The inductive invariant.  A plan is the rest of an opening or the rest  *)
(* of a closing; owed and held are the position it will meet, x whether    *)
(* the agent and the script have crossed.                                  *)
(***************************************************************************)

\* What is left of an opening: the loan to take is the deposit to follow, and
\* until it is taken nothing is owed.
Opening(p, owed, x) ==
  /\ p[Len(p)].do = "deposit"
  /\ Len(p) = 2 => p[1].do = "borrow" /\ p[1].amount = p[2].amount
  /\ Len(p) = 3 =>
       p[1].do = "deposit" /\ p[2].do = "borrow" /\ p[2].amount = p[3].amount
  /\ Len(p) > 1 => owed = 0
  /\ Len(p) = 1 => x \/ owed = p[1].amount

\* What is left of a closing: unless its head can only be refused, it clears
\* the position.
Closing(p, owed, held, x) ==
  /\ \A i \in 1..Len(p) : p[i].do \in {"repay", "withdraw"}
  /\ ~x /\ p[1].amount > 0 =>
       Planned("repay", p) = owed /\ Planned("withdraw", p) = held

PlanFits(p, owed, held, x) ==
  p # <<>> => Opening(p, owed, x) \/ Closing(p, owed, held, x)
UnwindFits(p, owed, held, x) == p # <<>> => Closing(p, owed, held, x)

Tallies ==
  /\ crossed \in BOOLEAN /\ qualifies \in BOOLEAN
  /\ book \in 0..Endowment /\ recalled \in Nat
  /\ events \in 0..MaxEvents /\ faults \in 0..MaxFaults

Sendable(p) == p \in Seq(Txs) /\ Len(p) <= 3

LooperInv ==
  /\ Inv /\ Tallies
  /\ Sendable(plan) /\ Sendable(unwinding)
  /\ PlanFits(plan, debt[Looper], cTokens[Looper], crossed)
  /\ UnwindFits(unwinding, debt[Looper], cTokens[Looper], crossed)
  /\ ~crossed => plan = <<>> \/ unwinding = <<>>

\* Sending the head of a closing leaves a closing.
LEMMA ClosingSent ==
  ASSUME NEW p, Sendable(p), p # <<>>, p[1].amount > 0,
         NEW owed \in Nat, NEW held \in Nat, NEW x \in BOOLEAN, Closing(p, owed, held, x),
         NEW owed2 \in Nat, NEW held2 \in Nat,
         p[1].do = "repay" =>
           (p[1].amount <= owed => owed2 = owed - p[1].amount) /\ held2 = held,
         p[1].do = "withdraw" => owed2 = owed /\ held2 = held - p[1].amount
  PROVE  Closing(Tail(p), owed2, held2, x)
<1>1. /\ p \in Seq(Txs) /\ Len(p) <= 3 /\ p[1] \in Txs /\ Len(p) \in Nat \ {0}
      /\ Len(Tail(p)) = Len(p) - 1
      /\ \A i \in 1..Len(Tail(p)) : Tail(p)[i] = p[i + 1]
  BY TailFacts DEF Sendable
<1>2. \A i \in 1..Len(Tail(p)) : Tail(p)[i].do \in {"repay", "withdraw"}
  BY <1>1 DEF Closing
<1>3. p[1].do \in {"repay", "withdraw"} /\ p[1].amount \in Nat
  BY <1>1 DEF Closing, Txs
<1>4. DOMAIN p = 1..Len(p)
  BY <1>1
<1>5. ASSUME ~x
      PROVE  Planned("repay", Tail(p)) = owed2 /\ Planned("withdraw", Tail(p)) = held2
  <2>1. Planned("repay", p) = owed /\ Planned("withdraw", p) = held
    BY <1>5 DEF Closing
  <2>2. /\ Planned("repay", p) = At("repay", p, 1) + Planned("repay", Tail(p))
        /\ Planned("withdraw", p) = At("withdraw", p, 1) + Planned("withdraw", Tail(p))
        /\ Planned("repay", Tail(p)) \in Nat /\ Planned("withdraw", Tail(p)) \in Nat
    BY <1>1, PlannedTail
  <2>3. CASE p[1].do = "repay"
    <3>1. At("repay", p, 1) = p[1].amount /\ At("withdraw", p, 1) = 0
      BY <1>1, <1>4, <2>3 DEF At
    <3> QED BY <1>3, <2>1, <2>2, <2>3, <3>1
  <2>4. CASE p[1].do = "withdraw"
    <3>1. At("withdraw", p, 1) = p[1].amount /\ At("repay", p, 1) = 0
      BY <1>1, <1>4, <2>4 DEF At
    <3> QED BY <1>3, <2>1, <2>2, <2>4, <3>1
  <2> QED BY <1>3, <2>3, <2>4
<1> QED BY <1>2, <1>5 DEF Closing

\* Sending the head of an opening leaves an opening, or nothing.
LEMMA OpeningSent ==
  ASSUME NEW p, Sendable(p), p # <<>>, NEW x \in BOOLEAN,
         NEW owed \in Nat, Opening(p, owed, x), NEW owed2 \in Nat,
         p[1].do = "deposit" => owed2 = owed,
         p[1].do = "borrow" => owed2 = owed + p[1].amount
  PROVE  Tail(p) # <<>> => Opening(Tail(p), owed2, x)
<1> DEFINE q == Tail(p)
<1>1. /\ Len(p) \in 1..3 /\ q \in Seq(Txs) /\ Len(q) = Len(p) - 1
      /\ \A i \in 1..Len(q) : q[i] = p[i + 1] /\ p[i + 1] \in Txs
      /\ Len(p) = 1 => q = <<>>
  <2>1. /\ p \in Seq(Txs) /\ Len(p) <= 3 /\ Len(p) \in Nat \ {0}
        /\ q \in Seq(Txs) /\ Len(q) = Len(p) - 1
        /\ \A i \in 1..Len(q) : q[i] = p[i + 1] /\ p[i + 1] \in Txs
        /\ Len(p) = 1 => q = <<>>
    BY TailFacts DEF Sendable
  <2> HIDE DEF q
  <2> QED BY <2>1
<1>2. 1 + 1 = 2 /\ 2 + 1 = 3
  OBVIOUS
<1> HIDE DEF q
<1>3. CASE Len(p) = 1
  BY <1>1, <1>3 DEF q
<1>4. CASE Len(p) = 2
  <2>1. q[1] = p[2] /\ Len(q) = 1 /\ p[2].amount \in Nat
    BY <1>1, <1>2, <1>4 DEF Txs
  <2>2. p[2].do = "deposit" /\ p[1].do = "borrow" /\ p[1].amount = p[2].amount /\ owed = 0
    BY <1>4 DEF Opening
  <2>3. owed2 = q[1].amount
    BY <2>1, <2>2
  <2>4. Opening(q, owed2, x)
    BY <2>1, <2>2, <2>3 DEF Opening
  <2> QED BY <2>4 DEF q
<1>5. CASE Len(p) = 3
  <2>1. q[1] = p[2] /\ q[2] = p[3] /\ Len(q) = 2
    BY <1>1, <1>2, <1>5
  <2>2. /\ p[3].do = "deposit" /\ p[2].do = "borrow" /\ p[2].amount = p[3].amount
        /\ owed = 0 /\ p[1].do = "deposit"
    BY <1>5 DEF Opening
  <2>3. owed2 = 0
    BY <2>2
  <2>4. Opening(q, owed2, x)
    BY <2>1, <2>2, <2>3 DEF Opening
  <2> QED BY <2>4 DEF q
<1> QED BY <1>1, <1>3, <1>4, <1>5

\* Once crossed, a closing need not fit any position.
LEMMA ClosingCrossed ==
  ASSUME NEW p, NEW owed, NEW held, NEW x \in BOOLEAN, Closing(p, owed, held, x),
         NEW owed2, NEW held2, NEW y \in BOOLEAN, y \/ (owed2 = owed /\ held2 = held /\ (x => y))
  PROVE  Closing(p, owed2, held2, y)
BY DEF Closing

-----------------------------------------------------------------------------
(***************************************************************************)
(* A decision fits the position it was taken from.                         *)
(***************************************************************************)

\* The position is made of natural numbers, and cTokens need liquidity.
LEMMA Position ==
  ASSUME Inv
  PROVE  /\ debt[Looper] \in Nat /\ cTokens[Looper] \in Nat /\ cash[Looper] \in Nat
         /\ totalLiquidity \in Nat /\ totalCollateral \in Nat
         /\ cTokens[Looper] > 0 => totalCollateral > 0 /\ totalLiquidity > 0
<1>1. Looper \in Owners
  BY LooperAssumption
<1>2. totalCollateral > 0 => totalLiquidity > 0
  BY DEF Inv, RateDefined
<1> QED BY <1>1, <1>2, Numbers

\* What a closing withdraws first is not nothing.
LEMMA TokensWorthFacts ==
  ASSUME Inv, NEW amount \in Nat, totalLiquidity > 0
  PROVE  TokensWorth(amount) \in Nat \ {0}
<1> DEFINE a == amount * totalCollateral + totalLiquidity - 1
           q == a \div totalLiquidity
<1>1. totalLiquidity \in Nat \ {0} /\ amount * totalCollateral \in Nat
  BY Position, ProductNat
<1>2. a \in Nat
  BY <1>1
<1>3. TokensWorth(amount) = q + 1
  BY DEF TokensWorth
<1> HIDE DEF a
<1>4. q \in Nat
  BY <1>1, <1>2, FloorDivision
<1> HIDE DEF q
<1> QED BY <1>3, <1>4

\* A third transaction after two.
LEMMA Joined ==
  ASSUME NEW a \in Txs, NEW b \in Txs, NEW c \in Txs
  PROVE  LET p == <<a, b>> \o <<c>>
         IN  p \in Seq(Txs) /\ Len(p) = 3 /\ p[1] = a /\ p[2] = b /\ p[3] = c
<1> DEFINE s == <<a, b>>
           t == <<c>>
           p == s \o t
<1>1. /\ s \in Seq(Txs) /\ t \in Seq(Txs) /\ Len(s) = 2 /\ Len(t) = 1
      /\ s[1] = a /\ s[2] = b /\ t[1] = c
  OBVIOUS
<1> HIDE DEF s, t
<1>2. /\ p \in Seq(Txs) /\ Len(p) = Len(s) + Len(t)
      /\ \A i \in 1 .. Len(s) + Len(t) : p[i] = IF i <= Len(s) THEN s[i] ELSE t[i - Len(s)]
  BY <1>1, ConcatProperties
<1> HIDE DEF p
<1>3. Len(p) = 3 /\ p[1] = s[1] /\ p[2] = s[2] /\ p[3] = t[3 - 2]
  BY <1>1, <1>2
<1>4. 3 - 2 = 1
  OBVIOUS
<1> QED BY <1>1, <1>2, <1>3, <1>4 DEF p, s, t

\* A plan to close withdraws the cTokens there are and repays the loan there
\* is, or starts by withdrawing nothing when the cTokens were misread.
LEMMA CloseFits ==
  ASSUME Inv, NEW held \in {0, cTokens[Looper]}, NEW x \in BOOLEAN
  PROVE  LET p == ClosePlan(debt[Looper], held)
         IN  /\ Sendable(p)
             /\ p # <<>> => Closing(p, debt[Looper], cTokens[Looper], x)
<1> DEFINE owed   == debt[Looper]
           has    == cTokens[Looper]
           repays == owed > 0 /\ totalLiquidity > 0 /\ totalCollateral > 0
           worth  == TokensWorth(owed)
           first  == IF ~repays THEN 0 ELSE IF worth < held THEN worth ELSE held
           clears == IF repays THEN <<Tx("withdraw", first), Tx("repay", owed)>> ELSE <<>>
           rest   == IF held > first THEN <<Tx("withdraw", held - first)>> ELSE <<>>
           p      == ClosePlan(owed, held)
<1>1. /\ owed \in Nat /\ has \in Nat /\ held \in Nat
      /\ has > 0 => totalCollateral > 0 /\ totalLiquidity > 0
  BY Position
<1>2. repays => worth \in Nat \ {0}
  BY <1>1, TokensWorthFacts
<1>3. p = clears \o rest
  BY DEF ClosePlan
<1> HIDE DEF owed, has, worth, p, clears, rest
<1>4. CASE ~repays
  <2>1. CASE held = 0
    <3>1. clears = <<>> /\ rest = <<>>
      BY <1>4, <2>1 DEF clears, rest
    <3>2. p = <<>>
      BY <1>3, <3>1, EmptySeq, ConcatEmptySeq
    <3> QED BY <3>2 DEF Sendable, p, owed
  <2>2. CASE held # 0
    <3>0. clears = <<>> /\ rest = <<Tx("withdraw", held)>>
      <4>1. first = 0 /\ held > first /\ held - first = held
        BY <1>1, <1>4, <2>2
      <4> HIDE DEF first
      <4> QED BY <1>4, <4>1 DEF clears, rest
    <3>a. rest \in Seq(Txs)
      BY <1>1, <3>0 DEF Tx, Txs, Dos
    <3>1. p = <<Tx("withdraw", held)>>
      BY <1>3, <3>0, <3>a, ConcatEmptySeq
    <3>2. owed = 0 /\ held = has
      BY <1>1, <1>4, <2>2 DEF has
    <3>3. /\ p \in Seq(Txs) /\ Len(p) = 1 /\ DOMAIN p = 1..1
          /\ p[1].do = "withdraw" /\ p[1].amount = held
      BY <1>1, <3>1 DEF Tx, Txs, Dos
    <3>4. /\ At("withdraw", p, 1) = held /\ At("repay", p, 1) = 0
          /\ At("withdraw", p, 2) = 0 /\ At("repay", p, 2) = 0
          /\ At("withdraw", p, 3) = 0 /\ At("repay", p, 3) = 0
      BY <3>3 DEF At
    <3>5. Planned("repay", p) = 0 /\ Planned("withdraw", p) = held
      BY <1>1, <3>3, <3>4, PlannedIs
    <3>6. Sendable(p) /\ Closing(p, owed, has, x)
      BY <3>2, <3>3, <3>5 DEF Sendable, Closing
    <3> QED BY <3>6 DEF p, owed, has
  <2> QED BY <2>1, <2>2
<1>5. CASE repays
  <2>1. first \in Nat /\ first <= held /\ (held # 0 => first > 0)
    BY <1>1, <1>2, <1>5
  <2>2. CASE held = first
    <3> HIDE DEF first, repays
    <3>0. clears = <<Tx("withdraw", held), Tx("repay", owed)>> /\ rest = <<>>
      BY <1>1, <1>5, <2>2 DEF clears, rest
    <3>a. clears \in Seq(Txs)
      BY <1>1, <3>0 DEF Tx, Txs, Dos
    <3>1. p = <<Tx("withdraw", held), Tx("repay", owed)>>
      BY <1>3, <3>0, <3>a, ConcatEmptySeq
    <3>3. /\ p \in Seq(Txs) /\ Len(p) = 2 /\ DOMAIN p = 1..2
          /\ p[1].do = "withdraw" /\ p[1].amount = held
          /\ p[2].do = "repay" /\ p[2].amount = owed
      BY <1>1, <3>1 DEF Tx, Txs, Dos
    <3>4. /\ At("withdraw", p, 1) = held /\ At("repay", p, 1) = 0
          /\ At("withdraw", p, 2) = 0 /\ At("repay", p, 2) = owed
          /\ At("withdraw", p, 3) = 0 /\ At("repay", p, 3) = 0
      BY <3>3 DEF At
    <3>b. p \in Seq(Txs) /\ Len(p) <= 3
      BY <3>3
    <3>5. Planned("repay", p) = owed /\ Planned("withdraw", p) = held
      <4>1. /\ Planned("repay", p) = At("repay", p, 1) + At("repay", p, 2) + At("repay", p, 3)
            /\ Planned("withdraw", p) =
                 At("withdraw", p, 1) + At("withdraw", p, 2) + At("withdraw", p, 3)
        BY <3>b, PlannedIs
      <4>2. Planned("repay", p) = 0 + owed + 0 /\ Planned("withdraw", p) = held + 0 + 0
        BY <3>4, <4>1
      <4> QED BY <1>1, <4>2
    <3>6. held > 0 => held = has
      BY DEF has
    <3>7. Sendable(p) /\ Closing(p, owed, has, x)
      BY <3>3, <3>5, <3>6 DEF Sendable, Closing
    <3> QED BY <3>7 DEF p, owed, has
  <2>3. CASE held # first
    <3>0. held > first /\ held - first \in Nat /\ held = has
      BY <1>1, <2>1, <2>3 DEF has
    <3> HIDE DEF first, repays
    <3>2. p = <<Tx("withdraw", first), Tx("repay", owed)>> \o <<Tx("withdraw", held - first)>>
      BY <1>3, <1>5, <3>0 DEF clears, rest
    <3>1. /\ Tx("withdraw", first) \in Txs /\ Tx("repay", owed) \in Txs
          /\ Tx("withdraw", held - first) \in Txs
      BY <1>1, <2>1, <3>0 DEF Tx, Txs, Dos
    <3>a. /\ p \in Seq(Txs) /\ Len(p) = 3 /\ p[1] = Tx("withdraw", first)
          /\ p[2] = Tx("repay", owed) /\ p[3] = Tx("withdraw", held - first)
      BY <3>1, <3>2, Joined
    <3>3. /\ p \in Seq(Txs) /\ Len(p) = 3 /\ DOMAIN p = 1..3
          /\ p[1].do = "withdraw" /\ p[1].amount = first
          /\ p[2].do = "repay" /\ p[2].amount = owed
          /\ p[3].do = "withdraw" /\ p[3].amount = held - first
      BY <3>a DEF Tx
    <3>4. /\ At("withdraw", p, 1) = first /\ At("repay", p, 1) = 0
          /\ At("withdraw", p, 2) = 0 /\ At("repay", p, 2) = owed
          /\ At("withdraw", p, 3) = held - first /\ At("repay", p, 3) = 0
      BY <3>3 DEF At
    <3>b. p \in Seq(Txs) /\ Len(p) <= 3
      BY <3>3
    <3>5. Planned("repay", p) = owed /\ Planned("withdraw", p) = held
      <4>1. /\ Planned("repay", p) = At("repay", p, 1) + At("repay", p, 2) + At("repay", p, 3)
            /\ Planned("withdraw", p) =
                 At("withdraw", p, 1) + At("withdraw", p, 2) + At("withdraw", p, 3)
        BY <3>b, PlannedIs
      <4>2. Planned("repay", p) = 0 + owed + 0 /\ Planned("withdraw", p) = first + 0 + (held - first)
        BY <3>4, <4>1
      <4> QED BY <1>1, <2>1, <4>2
    <3>7. Sendable(p) /\ Closing(p, owed, has, x)
      BY <3>0, <3>3, <3>5 DEF Sendable, Closing
    <3> QED BY <3>7 DEF p, owed, has
  <2> QED BY <2>2, <2>3
<1> QED BY <1>4, <1>5

\* A plan to open is made when nothing is owed, and deposits what it borrows.
LEMMA OpenFits ==
  ASSUME Inv, debt[Looper] = 0, NEW idle \in Nat, NEW x \in BOOLEAN
  PROVE  Sendable(OpenPlan(idle)) /\ Opening(OpenPlan(idle), debt[Looper], x)
<1> DEFINE loan == LoanFor(idle)
           p    == OpenPlan(idle)
<1>1. loan \in Nat
  <2>1. /\ Percent \in Nat \ {0} /\ HFFloor \in Nat \ {0}
        /\ TargetLeverage - Percent \in Nat
    BY LooperAssumption
  <2> DEFINE more == TargetLeverage - Percent
  <2> HIDE DEF more
  <2>2. more \in Nat
    BY <2>1 DEF more
  <2>3. idle * more \in Nat /\ idle * Percent \in Nat
    BY <2>1, <2>2, ProductNat
  <2>4. (idle * more) \div Percent \in Nat /\ (idle * Percent) \div HFFloor \in Nat
    BY <2>1, <2>3, FloorDivision
  <2> QED BY <2>4 DEF LoanFor, more
<1>2. p = <<Tx("deposit", idle), Tx("borrow", loan), Tx("deposit", loan)>>
  BY DEF OpenPlan
<1> HIDE DEF loan, p
<1>3. /\ p \in Seq(Txs) /\ Len(p) = 3
      /\ p[1].do = "deposit" /\ p[2].do = "borrow" /\ p[3].do = "deposit"
      /\ p[2].amount = loan /\ p[3].amount = loan
  BY <1>1, <1>2 DEF Tx, Txs, Dos
<1>4. Sendable(p) /\ Opening(p, debt[Looper], x)
  BY <1>3 DEF Sendable, Opening
<1> QED BY <1>4 DEF p

\* Whatever was misread, the plan of a cycle fits.
LEMMA DecideFits ==
  ASSUME Inv, NEW idle \in Nat, NEW held \in {0, cTokens[Looper]}, NEW x \in BOOLEAN
  PROVE  LET p == Decide(idle, held)
         IN  Sendable(p) /\ PlanFits(p, debt[Looper], cTokens[Looper], x)
<1> DEFINE p == Decide(idle, held)
           supplied == Supplied(held)
           borrowed == debt[Looper]
<1>1. CASE MustClose(supplied, borrowed)
  <2>1. p = ClosePlan(debt[Looper], held)
    BY <1>1 DEF Decide
  <2> HIDE DEF p
  <2>2. Sendable(p) /\ (p # <<>> => Closing(p, debt[Looper], cTokens[Looper], x))
    BY <2>1, CloseFits
  <2> QED BY <2>2 DEF PlanFits, p
<1>2. CASE ~MustClose(supplied, borrowed) /\ MayOpen(idle, supplied, borrowed)
  <2>1. p = OpenPlan(idle) /\ debt[Looper] = 0
    BY <1>2 DEF Decide, MayOpen
  <2> HIDE DEF p
  <2>2. Sendable(p) /\ Opening(p, debt[Looper], x)
    BY <2>1, OpenFits
  <2> QED BY <2>2 DEF PlanFits, p
<1>3. CASE ~MustClose(supplied, borrowed) /\ ~MayOpen(idle, supplied, borrowed)
  <2>1. p = <<>>
    BY <1>3 DEF Decide
  <2> QED BY <2>1 DEF PlanFits, Sendable
<1> QED BY <1>1, <1>2, <1>3

-----------------------------------------------------------------------------
(***************************************************************************)
(* What steps do to the strategy's position.                               *)
(***************************************************************************)

\* A transaction of the strategy moves its debt and its cTokens by its amount.
LEMMA ExecuteFacts ==
  ASSUME Inv, NEW tx \in Txs, Execute(tx)
  PROVE  /\ Inv' /\ tx.amount > 0
         /\ tx.do = "deposit" => debt'[Looper] = debt[Looper]
         /\ tx.do = "borrow" => debt'[Looper] = debt[Looper] + tx.amount
         /\ tx.do = "repay" =>
              /\ tx.amount <= debt[Looper] => debt'[Looper] = debt[Looper] - tx.amount
              /\ debt'[Looper] <= debt[Looper] /\ cTokens'[Looper] = cTokens[Looper]
         /\ tx.do = "withdraw" =>
              /\ debt'[Looper] = debt[Looper]
              /\ cTokens'[Looper] = cTokens[Looper] - tx.amount
<1> DEFINE n == tx.amount
<1>1. n \in Nat /\ tx.do \in Dos
  BY DEF Txs
<1>2. Looper \in Owners /\ debt \in [Owners -> Nat] /\ cTokens \in [Owners -> Nat]
  BY LooperAssumption, Numbers
<1>3. CASE KaminoDeposit(tx)
  <2>1. tx.do = "deposit" /\ DepositLiquidity(Looper, n)
    BY <1>3 DEF KaminoDeposit
  <2>2. n > 0 /\ debt' = debt
    BY <2>1 DEF DepositLiquidity
  <2> HIDE DEF n
  <2>3. Inv'
    BY <1>1, <1>2, <2>1, DepositKeeps
  <2> QED BY <2>1, <2>2, <2>3 DEF n
<1>4. CASE KaminoBorrow(tx)
  <2>1. tx.do = "borrow" /\ BorrowLiquidity(Looper, n)
    BY <1>4 DEF KaminoBorrow
  <2>2. n > 0 /\ debt'[Looper] = debt[Looper] + n
    BY <1>2, <2>1 DEF BorrowLiquidity
  <2> HIDE DEF n
  <2>3. Inv'
    BY <1>1, <1>2, <2>1, BorrowKeeps
  <2> QED BY <2>1, <2>2, <2>3 DEF n
<1>5. CASE KaminoRepay(tx)
  <2>1. tx.do = "repay" /\ RepayLiquidity(Looper, n)
    BY <1>5 DEF KaminoRepay
  <2> DEFINE repay == Repaid(Looper, n)
             left  == SaturatingSub(debt[Looper], repay)
  <2>2. n > 0 /\ cTokens' = cTokens /\ debt' = Put(debt, Looper, left)
    BY <2>1 DEF RepayLiquidity, Put
  <2>3. left <= debt[Looper] /\ (n <= debt[Looper] => left = debt[Looper] - n)
    BY <1>1, <1>2 DEF SaturatingSub, Repaid
  <2> HIDE DEF n, left
  <2>4. debt'[Looper] = left
    BY <1>2, <2>2 DEF Put
  <2>5. Inv'
    BY <1>1, <1>2, <2>1, RepayKeeps
  <2> QED BY <2>1, <2>2, <2>3, <2>4, <2>5 DEF n
<1>6. CASE KaminoWithdraw(tx)
  <2>1. tx.do = "withdraw" /\ RedeemCollateral(Looper, n)
    BY <1>6 DEF KaminoWithdraw
  <2>2. n > 0 /\ debt' = debt /\ cTokens' = Put(cTokens, Looper, cTokens[Looper] - n)
    BY <2>1 DEF RedeemCollateral, Put
  <2> HIDE DEF n
  <2>3. cTokens'[Looper] = cTokens[Looper] - n
    BY <1>2, <2>2 DEF Put
  <2>4. Inv'
    BY <1>1, <1>2, <2>1, RedeemKeeps
  <2> QED BY <2>1, <2>2, <2>3, <2>4 DEF n
<1> QED BY <1>3, <1>4, <1>5, <1>6 DEF Execute

\* Tokens that come and go outside the market leave its books alone.
LEMMA CashKeeps ==
  ASSUME Inv, cash' \in [Owners -> Nat],
         UNCHANGED <<liquid, reserveVars, cTokens, opened, debt, history>>
  PROVE  Inv'
<1>1. TypeOK'
  BY DEF Inv, TypeOK, reserveVars, history
<1>2. LiquidityAccounted' /\ RateDefined'
  BY DEF Inv, LiquidityAccounted, RateDefined, reserveVars, history
<1>3. BooksAddUp'
  BY DEF Inv, BooksAddUp, Total, reserveVars, history
<1> QED BY <1>1, <1>2, <1>3 DEF Inv

\* Another participant's instruction is not the strategy's.
LEMMA TradeFacts ==
  ASSUME Inv, NEW o \in Owners \ {Looper}, NEW amount \in Nat, OthersTrade(o, amount)
  PROVE  /\ Inv'
         /\ debt'[Looper] = debt[Looper] /\ cTokens'[Looper] = cTokens[Looper]
         /\ UNCHANGED <<book, recalled>>
<1>1. /\ Looper \in Owners /\ o # Looper /\ o \in Owners
      /\ debt \in [Owners -> Nat] /\ cTokens \in [Owners -> Nat]
  BY LooperAssumption, Numbers
<1>2. CASE DepositLiquidity(o, amount)
  <2>1. /\ debt' = debt
        /\ cTokens' = [cTokens EXCEPT ![o] = @ + CollateralFor(amount)]
    BY <1>2 DEF DepositLiquidity
  <2> QED BY <1>1, <1>2, <2>1, DepositKeeps DEF OthersTrade
<1>3. CASE RedeemCollateral(o, amount)
  <2>1. debt' = debt /\ cTokens' = [cTokens EXCEPT ![o] = @ - amount]
    BY <1>3 DEF RedeemCollateral
  <2> QED BY <1>1, <1>3, <2>1, RedeemKeeps DEF OthersTrade
<1>4. CASE BorrowLiquidity(o, amount)
  <2>1. cTokens' = cTokens /\ debt' = [debt EXCEPT ![o] = @ + amount]
    BY <1>4 DEF BorrowLiquidity
  <2> QED BY <1>1, <1>4, <2>1, BorrowKeeps DEF OthersTrade
<1>5. CASE RepayLiquidity(o, amount)
  <2>1. /\ cTokens' = cTokens
        /\ debt' = [debt EXCEPT ![o] = SaturatingSub(@, Repaid(o, amount))]
    BY <1>5 DEF RepayLiquidity
  <2> QED BY <1>1, <1>5, <2>1, RepayKeeps DEF OthersTrade
<1> QED BY <1>2, <1>3, <1>4, <1>5 DEF OthersTrade

\* The vault moves tokens and its book value only.
LEMMA VaultFacts ==
  ASSUME Inv, Tallies, NEW amount \in Nat, VaultAllocates(amount) \/ VaultRecalls(amount)
  PROVE  /\ Inv' /\ UNCHANGED <<debt, cTokens>>
         /\ book' \in 0..Endowment /\ recalled' \in Nat
<1>1. /\ Looper \in Owners /\ cash \in [Owners -> Nat] /\ Endowment \in Nat
      /\ book \in 0..Endowment /\ recalled \in Nat
  BY LooperAssumption, MarketAssumption, Numbers DEF Tallies
<1>2. CASE VaultAllocates(amount)
  <2>1. /\ book + amount <= Endowment /\ book' = book + amount
        /\ cash' = [cash EXCEPT ![Looper] = @ + amount]
        /\ UNCHANGED <<liquid, reserveVars, cTokens, opened, debt, history, recalled>>
    BY <1>2 DEF VaultAllocates
  <2>2. cash' \in [Owners -> Nat]
    BY <1>1, <2>1
  <2>3. Inv'
    BY <2>1, <2>2, CashKeeps
  <2> QED BY <1>1, <2>1, <2>3
<1>3. CASE VaultRecalls(amount)
  <2>1. /\ amount <= book /\ amount <= cash[Looper] /\ book' = book - amount
        /\ cash' = [cash EXCEPT ![Looper] = @ - amount]
        /\ recalled' = IF debt[Looper] > 0 THEN recalled + amount ELSE recalled
        /\ UNCHANGED <<liquid, reserveVars, cTokens, opened, debt, history>>
    BY <1>3 DEF VaultRecalls, CanRecall
  <2>2. cash' \in [Owners -> Nat]
    BY <1>1, <2>1
  <2>3. Inv'
    BY <2>1, <2>2, CashKeeps
  <2> QED BY <1>1, <2>1, <2>3
<1> QED BY <1>2, <1>3

-----------------------------------------------------------------------------
(***************************************************************************)
(* Every step preserves the invariant.                                     *)
(***************************************************************************)

\* What fits a position fits it still when agent and script cross.
LEMMA FitsKept ==
  ASSUME NEW p, NEW owed, NEW held, NEW x \in BOOLEAN, NEW y \in BOOLEAN, x => y
  PROVE  /\ PlanFits(p, owed, held, x) => PlanFits(p, owed, held, y)
         /\ UnwindFits(p, owed, held, x) => UnwindFits(p, owed, held, y)
<1>1. Opening(p, owed, x) => Opening(p, owed, y)
  BY DEF Opening
<1>2. Closing(p, owed, held, x) => Closing(p, owed, held, y)
  BY ClosingCrossed
<1> QED BY <1>1, <1>2 DEF PlanFits, UnwindFits

\* After they crossed, a plan fits any position that owes no more.
LEMMA FitsCrossed ==
  ASSUME NEW p, NEW owed \in Nat, NEW held, NEW owed2 \in Nat, NEW held2
  PROVE  /\ PlanFits(p, owed, held, TRUE) /\ owed2 <= owed => PlanFits(p, owed2, held2, TRUE)
         /\ UnwindFits(p, owed, held, TRUE) => UnwindFits(p, owed2, held2, TRUE)
<1>1. Opening(p, owed, TRUE) /\ owed2 <= owed => Opening(p, owed2, TRUE)
  BY DEF Opening
<1>2. Closing(p, owed, held, TRUE) => Closing(p, owed2, held2, TRUE)
  BY ClosingCrossed
<1> QED BY <1>1, <1>2 DEF PlanFits, UnwindFits

\* A transaction of the agent, whether the rest of the plan follows or not.
LEMMA AgentSends ==
  ASSUME LooperInv, plan # <<>>, Execute(Head(plan)),
         plan' = Tail(plan) \/ plan' = <<>>, UNCHANGED <<unwinding, crossed>>, Tallies'
  PROVE  LooperInv' /\ (debt'[Looper] <= debt[Looper] \/ debt[Looper] = 0)
<1> DEFINE owed  == debt[Looper]
           held  == cTokens[Looper]
           owed2 == debt'[Looper]
           held2 == cTokens'[Looper]
<1>1. /\ Sendable(plan) /\ PlanFits(plan, owed, held, crossed) /\ crossed \in BOOLEAN
      /\ UnwindFits(unwinding, owed, held, crossed) /\ Sendable(unwinding) /\ Inv
      /\ ~crossed => unwinding = <<>>
  BY DEF LooperInv, Tallies
<1>2. /\ Head(plan) = plan[1] /\ plan[1] \in Txs /\ plan \in Seq(Txs) /\ Len(plan) \in 1..3
      /\ Tail(plan) \in Seq(Txs) /\ Len(Tail(plan)) = Len(plan) - 1
  <2>1. plan \in Seq(Txs) /\ Len(plan) <= 3
    BY <1>1 DEF Sendable
  <2>2. /\ Head(plan) = plan[1] /\ plan[1] \in Txs /\ Len(plan) \in Nat \ {0}
        /\ Tail(plan) \in Seq(Txs) /\ Len(Tail(plan)) = Len(plan) - 1
    BY <2>1, TailFacts
  <2> QED BY <2>1, <2>2
<1> DEFINE tx == plan[1]
<1>3. /\ Inv' /\ tx.amount > 0
      /\ tx.do = "deposit" => owed2 = owed
      /\ tx.do = "borrow" => owed2 = owed + tx.amount
      /\ tx.do = "repay" =>
           /\ tx.amount <= owed => owed2 = owed - tx.amount
           /\ owed2 <= owed /\ held2 = held
      /\ tx.do = "withdraw" => owed2 = owed /\ held2 = held - tx.amount
  BY <1>1, <1>2, ExecuteFacts
<1>4. owed \in Nat /\ held \in Nat /\ owed2 \in Nat /\ held2 \in Nat
  <2>1. Looper \in Owners /\ MaxU64 \in Nat
    BY LooperAssumption, MarketAssumption
  <2> QED BY <1>1, <1>3, <2>1, Position DEF Inv, TypeOK
<1>5. Sendable(plan')
  <2>1. Sendable(Tail(plan))
    BY <1>2 DEF Sendable
  <2>2. Sendable(<<>>)
    BY DEF Sendable
  <2> QED BY <2>1, <2>2
<1>6. UnwindFits(unwinding', owed2, held2, crossed')
  <2>1. CASE crossed
    BY <1>1, <1>4, <2>1, FitsCrossed
  <2>2. CASE ~crossed
    BY <1>1, <2>2 DEF UnwindFits
  <2> QED BY <2>1, <2>2
<1> HIDE DEF owed, held, owed2, held2
<1>7. PlanFits(Tail(plan), owed2, held2, crossed)
  <2>1. CASE Opening(plan, owed, crossed)
    <3>1. Tail(plan) # <<>> => Opening(Tail(plan), owed2, crossed)
      BY <1>1, <1>3, <1>4, <2>1, OpeningSent
    <3> QED BY <3>1 DEF PlanFits
  <2>2. CASE Closing(plan, owed, held, crossed)
    <3>1. Closing(Tail(plan), owed2, held2, crossed)
      BY <1>1, <1>3, <1>4, <2>2, ClosingSent
    <3> QED BY <3>1 DEF PlanFits
  <2> QED BY <1>1, <2>1, <2>2 DEF PlanFits
<1>8. PlanFits(plan', owed2, held2, crossed')
  BY <1>7 DEF PlanFits
<1>9. owed2 <= owed \/ owed = 0
  <2>1. CASE Opening(plan, owed, crossed)
    <3>1. CASE tx.do = "borrow"
      <4>1. Len(plan) > 1
        BY <1>2, <2>1, <3>1 DEF Opening
      <4> QED BY <2>1, <4>1 DEF Opening
    <3>2. CASE tx.do = "deposit"
      BY <1>3, <1>4, <3>2
    <3>3. tx.do \in {"deposit", "borrow"}
      BY <1>2, <2>1 DEF Opening
    <3> QED BY <3>1, <3>2, <3>3
  <2>2. CASE Closing(plan, owed, held, crossed)
    <3>1. tx.do \in {"repay", "withdraw"}
      BY <1>2, <2>2 DEF Closing
    <3>2. tx.do = "repay" => owed2 <= owed
      BY <1>3, <1>4
    <3> QED BY <1>3, <1>4, <3>1, <3>2
  <2> QED BY <1>1, <2>1, <2>2 DEF PlanFits
<1> QED BY <1>1, <1>3, <1>5, <1>6, <1>8, <1>9 DEF LooperInv, owed, owed2, held2

\* A transaction of the operator's script.
LEMMA ScriptSends ==
  ASSUME LooperInv, unwinding # <<>>, Execute(Head(unwinding)),
         unwinding' = Tail(unwinding) \/ unwinding' = <<>>,
         UNCHANGED <<plan, crossed>>, Tallies'
  PROVE  LooperInv' /\ debt'[Looper] <= debt[Looper]
<1> DEFINE owed  == debt[Looper]
           held  == cTokens[Looper]
           owed2 == debt'[Looper]
           held2 == cTokens'[Looper]
           p     == unwinding
<1>1. /\ Sendable(plan) /\ PlanFits(plan, owed, held, crossed) /\ crossed \in BOOLEAN
      /\ Closing(p, owed, held, crossed) /\ Sendable(p) /\ Inv
      /\ ~crossed => plan = <<>>
  BY DEF LooperInv, Tallies, UnwindFits
<1>2. /\ Head(p) = p[1] /\ p[1] \in Txs /\ p \in Seq(Txs) /\ Len(p) \in 1..3
      /\ Tail(p) \in Seq(Txs) /\ Len(Tail(p)) = Len(p) - 1
  <2>1. p \in Seq(Txs) /\ Len(p) <= 3
    BY <1>1 DEF Sendable
  <2>2. /\ Head(p) = p[1] /\ p[1] \in Txs /\ Len(p) \in Nat \ {0}
        /\ Tail(p) \in Seq(Txs) /\ Len(Tail(p)) = Len(p) - 1
    BY <2>1, TailFacts
  <2> QED BY <2>1, <2>2
<1> DEFINE tx == p[1]
<1>3. /\ Inv' /\ tx.amount > 0
      /\ tx.do = "repay" =>
           /\ tx.amount <= owed => owed2 = owed - tx.amount
           /\ owed2 <= owed /\ held2 = held
      /\ tx.do = "withdraw" => owed2 = owed /\ held2 = held - tx.amount
  BY <1>1, <1>2, ExecuteFacts
<1>4. owed \in Nat /\ held \in Nat /\ owed2 \in Nat /\ held2 \in Nat
  <2>1. Looper \in Owners /\ MaxU64 \in Nat
    BY LooperAssumption, MarketAssumption
  <2> QED BY <1>1, <1>3, <2>1, Position DEF Inv, TypeOK
<1>5. Sendable(unwinding')
  <2>1. Sendable(Tail(p))
    BY <1>2 DEF Sendable
  <2>2. Sendable(<<>>)
    BY DEF Sendable
  <2> QED BY <2>1, <2>2
<1>6. owed2 <= owed
  <2>1. tx.do \in {"repay", "withdraw"}
    BY <1>1, <1>2 DEF Closing
  <2> QED BY <1>3, <1>4, <2>1
<1>7. PlanFits(plan', owed2, held2, crossed')
  <2>1. CASE crossed
    BY <1>1, <1>4, <1>6, <2>1, FitsCrossed
  <2>2. CASE ~crossed
    BY <1>1, <2>2 DEF PlanFits
  <2> QED BY <2>1, <2>2
<1> HIDE DEF owed, held, owed2, held2
<1>8. Closing(Tail(p), owed2, held2, crossed)
  <2> HIDE DEF p
  <2> QED BY <1>1, <1>2, <1>3, <1>4, ClosingSent, EmptySeq
<1>9. UnwindFits(unwinding', owed2, held2, crossed')
  BY <1>8 DEF UnwindFits
<1> QED BY <1>1, <1>3, <1>5, <1>6, <1>7, <1>9 DEF LooperInv, owed, owed2, held2

\* A step that leaves the strategy's position alone, and at most drops a plan.
LEMMA QuietKeeps ==
  ASSUME LooperInv, Inv', Tallies', UNCHANGED crossed,
         debt'[Looper] = debt[Looper], cTokens'[Looper] = cTokens[Looper],
         plan' = plan \/ plan' = <<>>, unwinding' = unwinding \/ unwinding' = <<>>
  PROVE  LooperInv'
<1>1. Sendable(plan') /\ Sendable(unwinding')
  <2>1. Sendable(<<>>)
    BY DEF Sendable
  <2> QED BY <2>1 DEF LooperInv
<1>2. PlanFits(plan', debt'[Looper], cTokens'[Looper], crossed')
  BY DEF LooperInv, PlanFits
<1>3. UnwindFits(unwinding', debt'[Looper], cTokens'[Looper], crossed')
  BY DEF LooperInv, UnwindFits
<1>4. ~crossed' => plan' = <<>> \/ unwinding' = <<>>
  BY DEF LooperInv
<1> QED BY <1>1, <1>2, <1>3, <1>4 DEF LooperInv

\* What the mark of a crossing records.
LEMMA CrossingFacts ==
  ASSUME crossed \in BOOLEAN, Crossing
  PROVE  /\ crossed' \in BOOLEAN /\ (crossed => crossed')
         /\ ~crossed' => plan' = <<>> \/ unwinding' = <<>>
BY DEF Crossing

\* Nothing happens at the market.
LEMMA MarketStays ==
  ASSUME Inv, UNCHANGED marketVars
  PROVE  Inv' /\ UNCHANGED <<debt, cTokens>>
<1>1. Inv'
  BY InvStep
<1> QED BY <1>1 DEF marketVars

\* A decision of the agent, on balances read right or wrong.
LEMMA PollKeeps ==
  ASSUME LooperInv, NEW idle \in Nat, NEW held \in {0, cTokens[Looper]},
         plan' = Decide(idle, held), UNCHANGED marketVars, UNCHANGED unwinding,
         Crossing, Tallies'
  PROVE  LooperInv' /\ UNCHANGED debt
<1>1. /\ Inv /\ crossed \in BOOLEAN /\ Sendable(unwinding)
      /\ UnwindFits(unwinding, debt[Looper], cTokens[Looper], crossed)
  BY DEF LooperInv, Tallies
<1>2. /\ crossed' \in BOOLEAN /\ (crossed => crossed')
      /\ ~crossed' => plan' = <<>> \/ unwinding' = <<>>
  BY <1>1, CrossingFacts
<1>3. Inv' /\ UNCHANGED <<debt, cTokens>>
  BY <1>1, MarketStays
<1> DEFINE p == Decide(idle, held)
           y == crossed'
<1>4. y \in BOOLEAN /\ (crossed => y)
  BY <1>2
<1> HIDE DEF y
<1>5. Sendable(p) /\ PlanFits(p, debt[Looper], cTokens[Looper], y)
  BY <1>1, <1>4, DecideFits
<1>6. UnwindFits(unwinding, debt[Looper], cTokens[Looper], y)
  BY <1>1, <1>4, FitsKept
<1> HIDE DEF p
<1>7. /\ Sendable(plan') /\ PlanFits(plan', debt'[Looper], cTokens'[Looper], crossed')
      /\ Sendable(unwinding')
      /\ UnwindFits(unwinding', debt'[Looper], cTokens'[Looper], crossed')
  BY <1>1, <1>3, <1>5, <1>6 DEF p, y
<1> QED BY <1>2, <1>3, <1>7 DEF LooperInv

\* The operator starts the script.
LEMMA UnwindKeeps ==
  ASSUME LooperInv, StartUnwind, UNCHANGED marketVars, Tallies'
  PROVE  LooperInv' /\ UNCHANGED debt
<1>1. /\ Inv /\ crossed \in BOOLEAN /\ Sendable(plan)
      /\ PlanFits(plan, debt[Looper], cTokens[Looper], crossed)
  BY DEF LooperInv, Tallies
<1>2. /\ plan' = plan /\ unwinding' = ClosePlan(debt[Looper], cTokens[Looper])
      /\ crossed' \in BOOLEAN /\ (crossed => crossed')
      /\ ~crossed' => plan' = <<>> \/ unwinding' = <<>>
  BY <1>1, CrossingFacts DEF StartUnwind, UnwindPlan
<1>3. Inv' /\ UNCHANGED <<debt, cTokens>>
  BY <1>1, MarketStays
<1> DEFINE p == ClosePlan(debt[Looper], cTokens[Looper])
           y == crossed'
<1>4. y \in BOOLEAN /\ (crossed => y)
  BY <1>2
<1> HIDE DEF y
<1>5. Sendable(p) /\ (p # <<>> => Closing(p, debt[Looper], cTokens[Looper], y))
  BY <1>1, <1>4, CloseFits
<1>6. PlanFits(plan, debt[Looper], cTokens[Looper], y)
  BY <1>1, <1>4, FitsKept
<1> HIDE DEF p
<1>7. /\ Sendable(plan') /\ PlanFits(plan', debt'[Looper], cTokens'[Looper], crossed')
      /\ Sendable(unwinding')
      /\ UnwindFits(unwinding', debt'[Looper], cTokens'[Looper], crossed')
  BY <1>1, <1>2, <1>3, <1>5, <1>6 DEF p, y, UnwindFits
<1> QED BY <1>2, <1>3, <1>7 DEF LooperInv

\* The vault, the market's other participants and the operator.
LEMMA EventKeeps ==
  ASSUME LooperInv, Event
  PROVE  LooperInv' /\ debt'[Looper] = debt[Looper]
<1>1. /\ Inv /\ Tallies /\ MaxEvents \in Nat
      /\ events' = events + 1 /\ events < MaxEvents /\ faults' = faults
  BY LooperAssumption DEF LooperInv, Event
<1>2. events' \in 0..MaxEvents
  BY <1>1 DEF Tallies
<1>3. CASE Restart
  <2>1. /\ UNCHANGED marketVars /\ qualifies' \in BOOLEAN
        /\ UNCHANGED <<plan, unwinding, book, recalled, crossed>>
    BY <1>3 DEF Restart
  <2>2. Inv' /\ UNCHANGED <<debt, cTokens>>
    BY <1>1, <2>1, MarketStays
  <2>3. Tallies'
    BY <1>1, <1>2, <2>1 DEF Tallies
  <2> QED BY <2>1, <2>2, <2>3, QuietKeeps
<1>4. CASE StartUnwind /\ UNCHANGED qualifies
  <2>1. UNCHANGED marketVars /\ UNCHANGED <<book, recalled>> /\ crossed' \in BOOLEAN
    BY <1>1, <1>4, CrossingFacts DEF StartUnwind, Tallies
  <2>2. Tallies'
    BY <1>1, <1>2, <1>4, <2>1 DEF Tallies
  <2> QED BY <1>4, <2>1, <2>2, UnwindKeeps
<1>5. ASSUME NEW amount \in Amounts,
             \/ VaultAllocates(amount)
             \/ VaultRecalls(amount)
             \/ SimulateYield(amount) /\ UNCHANGED <<book, recalled>>
             \/ \E o \in Owners \ {Looper} : OthersTrade(o, amount),
             UNCHANGED qualifies, UNCHANGED <<plan, unwinding, crossed>>
      PROVE  LooperInv' /\ debt'[Looper] = debt[Looper]
  <2>1. amount \in Nat
    BY MarketAssumption
  <2>2. /\ Inv' /\ debt'[Looper] = debt[Looper] /\ cTokens'[Looper] = cTokens[Looper]
        /\ book' \in 0..Endowment /\ recalled' \in Nat
    <3>1. CASE VaultAllocates(amount) \/ VaultRecalls(amount)
      BY <1>1, <2>1, <3>1, VaultFacts
    <3>2. CASE SimulateYield(amount) /\ UNCHANGED <<book, recalled>>
      <4>1. UNCHANGED <<debt, cTokens>>
        BY <3>2 DEF SimulateYield
      <4>2. Inv'
        BY <1>1, <2>1, <3>2, YieldKeeps
      <4> QED BY <1>1, <3>2, <4>1, <4>2 DEF Tallies
    <3>3. CASE \E o \in Owners \ {Looper} : OthersTrade(o, amount)
      <4>1. /\ Inv' /\ debt'[Looper] = debt[Looper] /\ cTokens'[Looper] = cTokens[Looper]
            /\ UNCHANGED <<book, recalled>>
        BY <1>1, <2>1, <3>3, TradeFacts
      <4> QED BY <1>1, <4>1 DEF Tallies
    <3> QED BY <1>5, <3>1, <3>2, <3>3
  <2>3. Tallies'
    BY <1>1, <1>2, <1>5, <2>2 DEF Tallies
  <2> QED BY <1>5, <2>2, <2>3, QuietKeeps
<1> QED BY <1>3, <1>4, <1>5 DEF Event

\* One case per step of the agent, the script and the others.
LEMMA LooperStep ==
  ASSUME LooperInv, [LooperNext]_looperVars
  PROVE  LooperInv' /\ (debt'[Looper] <= debt[Looper] \/ debt[Looper] = 0)
<1>1. /\ Inv /\ Tallies /\ MaxFaults \in Nat
      /\ cash[Looper] \in Nat /\ debt[Looper] \in Nat /\ cTokens[Looper] \in Nat
  BY LooperAssumption, Position DEF LooperInv
<1> DEFINE Same == UNCHANGED <<qualifies, book, recalled, events>>
           Fault == faults < MaxFaults /\ faults' = faults + 1
<1>2. Same /\ (Fault \/ UNCHANGED faults) /\ crossed' \in BOOLEAN => Tallies'
  BY <1>1 DEF Tallies
<1>3. CASE Poll
  <2>1. /\ plan' = Decide(cash[Looper], cTokens[Looper]) /\ Crossing
        /\ UNCHANGED marketVars /\ UNCHANGED unwinding /\ Same /\ UNCHANGED faults
    BY <1>3 DEF Poll
  <2>2. crossed' \in BOOLEAN
    BY <1>1, <2>1, CrossingFacts DEF Tallies
  <2>3. LooperInv' /\ UNCHANGED debt
    BY <1>1, <1>2, <2>1, <2>2, PollKeeps
  <2> QED BY <1>1, <2>3
<1>4. CASE PollMisread
  <2>1. /\ \E idle \in Nat, held \in {0, cTokens[Looper]} : plan' = Decide(idle, held)
        /\ Crossing /\ UNCHANGED marketVars /\ UNCHANGED unwinding /\ Same /\ Fault
    BY <1>1, <1>4 DEF PollMisread
  <2>2. crossed' \in BOOLEAN
    BY <1>1, <2>1, CrossingFacts DEF Tallies
  <2>3. LooperInv' /\ UNCHANGED debt
    BY <1>2, <2>1, <2>2, PollKeeps
  <2> QED BY <1>1, <2>3
<1>5. CASE TxSucceeds
  <2>1. /\ plan # <<>> /\ Execute(Head(plan)) /\ plan' = Tail(plan)
        /\ UNCHANGED <<unwinding, crossed>> /\ Same /\ UNCHANGED faults
    BY <1>5 DEF TxSucceeds
  <2>2. Tallies'
    BY <1>1, <1>2, <2>1 DEF Tallies
  <2> QED BY <2>1, <2>2, AgentSends
<1>6. CASE TxRefused \/ UnwindRefused
  <2>1. /\ plan' = plan \/ plan' = <<>>
        /\ unwinding' = unwinding \/ unwinding' = <<>>
        /\ UNCHANGED marketVars /\ UNCHANGED crossed /\ Same /\ UNCHANGED faults
    BY <1>6 DEF TxRefused, UnwindRefused, AfterFailure
  <2>2. Tallies' /\ Inv' /\ UNCHANGED <<debt, cTokens>>
    BY <1>1, <1>2, <2>1, MarketStays DEF Tallies
  <2> QED BY <1>1, <2>1, <2>2, QuietKeeps
<1>7. CASE TxLost
  <2>1. /\ plan # <<>> /\ (Execute(Head(plan)) \/ UNCHANGED marketVars) /\ plan' = <<>>
        /\ UNCHANGED <<unwinding, crossed>> /\ Same /\ Fault
    BY <1>7 DEF TxLost, AfterFailure
  <2>2. Tallies'
    BY <1>1, <1>2, <2>1 DEF Tallies
  <2>3. CASE Execute(Head(plan))
    BY <2>1, <2>2, <2>3, AgentSends
  <2>4. CASE UNCHANGED marketVars
    <3>1. Inv' /\ UNCHANGED <<debt, cTokens>>
      BY <1>1, <2>4, MarketStays
    <3> QED BY <1>1, <2>1, <2>2, <3>1, QuietKeeps
  <2> QED BY <2>1, <2>3, <2>4
<1>8. CASE UnwindSucceeds
  <2>1. /\ unwinding # <<>> /\ Execute(Head(unwinding)) /\ unwinding' = Tail(unwinding)
        /\ UNCHANGED <<plan, crossed>> /\ Same /\ UNCHANGED faults
    BY <1>8 DEF UnwindSucceeds
  <2>2. Tallies'
    BY <1>1, <1>2, <2>1 DEF Tallies
  <2> QED BY <2>1, <2>2, ScriptSends
<1>9. CASE UnwindLost
  <2>1. /\ unwinding # <<>> /\ unwinding' = <<>>
        /\ Execute(Head(unwinding)) \/ UNCHANGED marketVars
        /\ UNCHANGED <<plan, crossed>> /\ Same /\ Fault
    BY <1>9 DEF UnwindLost
  <2>2. Tallies'
    BY <1>1, <1>2, <2>1 DEF Tallies
  <2>3. CASE Execute(Head(unwinding))
    BY <2>1, <2>2, <2>3, ScriptSends
  <2>4. CASE UNCHANGED marketVars
    <3>1. Inv' /\ UNCHANGED <<debt, cTokens>>
      BY <1>1, <2>4, MarketStays
    <3> QED BY <1>1, <2>1, <2>2, <3>1, QuietKeeps
  <2> QED BY <2>1, <2>3, <2>4
<1>10. CASE Event
  <2>1. LooperInv' /\ debt'[Looper] = debt[Looper]
    BY <1>10, EventKeeps
  <2> QED BY <1>1, <2>1
<1>11. CASE UNCHANGED looperVars
  <2>1. /\ UNCHANGED marketVars
        /\ UNCHANGED <<plan, unwinding, crossed>> /\ Same /\ UNCHANGED faults
    BY <1>11 DEF looperVars
  <2>2. Tallies' /\ Inv' /\ UNCHANGED <<debt, cTokens>>
    BY <1>1, <1>2, <2>1, MarketStays DEF Tallies
  <2> QED BY <1>1, <2>1, <2>2, QuietKeeps
<1> QED BY <1>3, <1>4, <1>5, <1>6, <1>7, <1>8, <1>9, <1>10, <1>11
        DEF LooperNext, AgentStep, UnwindStep

\* The agent starts without plans and without a position.
LEMMA LooperInitInv == LooperInit => LooperInv
<1> SUFFICES ASSUME LooperInit PROVE LooperInv
  OBVIOUS
<1> USE LooperAssumption, MarketAssumption
<1>1. PICK lender \in Owners \ {Looper} :
        /\ liquid = Seed /\ totalLiquidity = Seed /\ totalCollateral = Seed
        /\ totalBorrowed = 0
        /\ cTokens = [o \in Owners |-> IF o = lender THEN Seed ELSE 0]
        /\ cash = [o \in Owners |-> IF o = Looper THEN 0 ELSE Endowment]
        /\ opened = Owners
        /\ debt = [o \in Owners |-> 0]
        /\ gifts = 0 /\ burnt = 0
        /\ plan = <<>> /\ unwinding = <<>> /\ crossed = FALSE /\ qualifies \in BOOLEAN
        /\ book = 0 /\ recalled = 0 /\ events = 0 /\ faults = 0
  BY DEF LooperInit
<1>2. TypeOK /\ LiquidityAccounted /\ RateDefined
  BY <1>1 DEF TypeOK, LiquidityAccounted, RateDefined
<1>3. Total(debt) = 0
  BY <1>1, OwnersAssumption, SumZero DEF Total
<1>4. Total(cTokens) = Seed
  <2> DEFINE none == [o \in Owners |-> 0]
  <2>1. none \in [Owners -> Nat] /\ Total(none) = 0 /\ none[lender] = 0
    BY OwnersAssumption, SumZero DEF Total
  <2>2. cTokens = Put(none, lender, Seed) /\ Seed \in Nat
    BY <1>1 DEF Put
  <2> HIDE DEF none
  <2>3. Total(Put(none, lender, Seed)) = Total(none) - none[lender] + Seed
    BY <2>1, <2>2, PutFacts
  <2> QED BY <2>1, <2>2, <2>3
<1>5. Inv
  BY <1>1, <1>2, <1>3, <1>4 DEF Inv, BooksAddUp
<1>6. Tallies /\ Sendable(plan) /\ Sendable(unwinding)
  <2>1. Sendable(<<>>)
    BY DEF Sendable
  <2>2. crossed \in BOOLEAN /\ qualifies \in BOOLEAN
    BY <1>1, Zenon
  <2>3. book \in 0..Endowment /\ recalled \in Nat
    BY <1>1
  <2>4. events \in 0..MaxEvents /\ faults \in 0..MaxFaults
    BY <1>1
  <2>5. Tallies
    BY <2>2, <2>3, <2>4 DEF Tallies
  <2> QED BY <1>1, <2>1, <2>5
<1>7. PlanFits(plan, debt[Looper], cTokens[Looper], crossed)
  BY <1>1 DEF PlanFits
<1>8. UnwindFits(unwinding, debt[Looper], cTokens[Looper], crossed)
  BY <1>1 DEF UnwindFits
<1> QED BY <1>1, <1>5, <1>6, <1>7, <1>8 DEF LooperInv

\* Plans fit the position they meet, in every reachable state.
THEOREM LooperInvariant == LooperSpec => []LooperInv
<1>1. LooperInv /\ [LooperNext]_looperVars => LooperInv'
  BY LooperStep
<1> QED BY <1>1, LooperInitInv, PTL DEF LooperSpec

\* Every reachable state of the agent is well typed: no plan is longer than
\* three transactions, no book value leaves what the vault has.
THEOREM LooperTypes == LooperSpec => []LooperTypeOK
<1>1. LooperInv => LooperTypeOK
  <2> SUFFICES ASSUME LooperInv PROVE LooperTypeOK
    OBVIOUS
  <2>1. ASSUME NEW p, Sendable(p), NEW tx \in Range(p)
        PROVE  tx.amount \in Nat /\ tx.do \in {"deposit", "borrow", "repay", "withdraw"}
    <3>1. tx \in Txs
      BY <2>1 DEF Range, Sendable
    <3> QED BY <3>1 DEF Txs, Dos
  <2>2. Sendable(plan) /\ Sendable(unwinding) /\ TypeOK /\ Tallies
    BY DEF LooperInv, Inv
  <2>3. Len(plan) <= 3 /\ Len(unwinding) <= 3
    BY <2>2 DEF Sendable
  <2>4. \A tx \in Range(plan) \cup Range(unwinding) :
          tx.amount \in Nat /\ tx.do \in {"deposit", "borrow", "repay", "withdraw"}
    BY <2>1, <2>2
  <2> QED BY <2>2, <2>3, <2>4 DEF LooperTypeOK, Tallies
<1> QED BY <1>1, LooperInvariant, PTL

\* What an opening still has to borrow, with what is owed, is its last deposit.
LEMMA OpeningIsCurrent ==
  ASSUME NEW p, Sendable(p), p # <<>>, NEW owed \in Nat, Opening(p, owed, FALSE)
  PROVE  owed + Planned("borrow", p) = p[Len(p)].amount
<1>1. /\ p \in Seq(Txs) /\ Len(p) \in 1..3 /\ DOMAIN p = 1..Len(p)
      /\ p[Len(p)].do = "deposit" /\ Len(p) <= 3
  <2>1. p \in Seq(Txs) /\ Len(p) <= 3 /\ p[Len(p)].do = "deposit"
    BY DEF Sendable, Opening
  <2>2. Len(p) \in Nat \ {0} /\ DOMAIN p = 1..Len(p)
    BY <2>1, EmptySeq, LenProperties
  <2> QED BY <2>1, <2>2
<1>2. \A i \in 1..Len(p) : p[i].amount \in Nat
  <2>1. \A i \in 1..Len(p) : p[i] \in Txs
    BY <1>1, ElementOfSeq
  <2> QED BY <2>1 DEF Txs
<1>3. Planned("borrow", p) = At("borrow", p, 1) + At("borrow", p, 2) + At("borrow", p, 3)
  BY <1>1, PlannedIs
<1>4. CASE Len(p) = 1
  <2>1. At("borrow", p, 1) = 0 /\ At("borrow", p, 2) = 0 /\ At("borrow", p, 3) = 0
    BY <1>1, <1>4 DEF At
  <2>2. owed = p[1].amount
    BY <1>4 DEF Opening
  <2> QED BY <1>2, <1>3, <1>4, <2>1, <2>2
<1>5. CASE Len(p) = 2
  <2>1. p[1].do = "borrow" /\ p[1].amount = p[2].amount /\ owed = 0
    BY <1>5 DEF Opening
  <2>2. /\ At("borrow", p, 1) = p[2].amount
        /\ At("borrow", p, 2) = 0 /\ At("borrow", p, 3) = 0
    BY <1>1, <1>5, <2>1 DEF At
  <2>3. p[2].amount \in Nat
    BY <1>2, <1>5
  <2> QED BY <1>3, <1>5, <2>1, <2>2, <2>3
<1>6. CASE Len(p) = 3
  <2>1. p[1].do = "deposit" /\ p[2].do = "borrow" /\ p[2].amount = p[3].amount /\ owed = 0
    BY <1>6 DEF Opening
  <2>2. /\ At("borrow", p, 1) = 0 /\ At("borrow", p, 2) = p[3].amount
        /\ At("borrow", p, 3) = 0
    BY <1>1, <1>6, <2>1 DEF At
  <2>3. p[3].amount \in Nat
    BY <1>2, <1>6
  <2> QED BY <1>3, <1>6, <2>1, <2>2, <2>3
<1> QED BY <1>1, <1>4, <1>5, <1>6

\* A decision does not go stale while its transactions are sent one by one,
\* whoever else trades in between, for plans and positions of any size.
THEOREM PlanStaysCurrent == LooperSpec => []PlanIsCurrent
<1>1. LooperInv => PlanIsCurrent
  <2> SUFFICES ASSUME LooperInv, ~crossed PROVE PlanIsCurrent
    BY DEF PlanIsCurrent
  <2> DEFINE owed == debt[Looper]
             held == cTokens[Looper]
  <2>1. /\ Sendable(plan) /\ PlanFits(plan, owed, held, FALSE) /\ owed \in Nat
        /\ UnwindFits(unwinding, owed, held, FALSE) /\ crossed = FALSE
    BY Position DEF LooperInv, Tallies
  <2>2. plan # <<>> =>
          /\ Head(plan) = plan[1] /\ Len(plan) \in 1..3 /\ DOMAIN plan = 1..Len(plan)
    <3> SUFFICES ASSUME plan # <<>>
                 PROVE  /\ Head(plan) = plan[1] /\ Len(plan) \in 1..3
                        /\ DOMAIN plan = 1..Len(plan)
      OBVIOUS
    <3>1. plan \in Seq(Txs) /\ Len(plan) <= 3
      BY <2>1 DEF Sendable
    <3>2. Len(plan) \in Nat \ {0} /\ Head(plan) = plan[1] /\ DOMAIN plan = 1..Len(plan)
      BY <3>1, TailFacts, LenProperties
    <3> QED BY <3>1, <3>2
  <2>3. ASSUME plan # <<>>, Opening(plan, owed, FALSE)
        PROVE  Plans("deposit") /\ owed + Planned("borrow", plan) = plan[Len(plan)].amount
    <3>1. Plans("deposit")
      BY <2>2, <2>3 DEF Plans, Opening
    <3> HIDE DEF owed
    <3> QED BY <2>1, <2>3, <3>1, OpeningIsCurrent
  <2>4. ASSUME plan # <<>>, Closing(plan, owed, held, FALSE)
        PROVE  ~Plans("deposit") /\ (Head(plan).amount > 0 => Closes(plan))
    BY <2>2, <2>4 DEF Plans, Closing, Closes
  <2>5. Plans("deposit") => plan # <<>>
    BY DEF Plans
  <2>6. unwinding # <<>> /\ Head(unwinding).amount > 0 => Closes(unwinding)
    <3> SUFFICES ASSUME unwinding # <<>>, Head(unwinding).amount > 0
                 PROVE  Closes(unwinding)
      OBVIOUS
    <3>1. Head(unwinding) = unwinding[1]
      BY DEF LooperInv, Sendable
    <3> QED BY <2>1, <3>1 DEF UnwindFits, Closing, Closes
  <2>7. /\ Plans("deposit") => owed + Planned("borrow", plan) = plan[Len(plan)].amount
        /\ plan # <<>> /\ ~Plans("deposit") /\ Head(plan).amount > 0 => Closes(plan)
    BY <2>1, <2>3, <2>4, <2>5 DEF PlanFits
  <2> QED BY <2>6, <2>7 DEF PlanIsCurrent
<1> QED BY <1>1, LooperInvariant, PTL

\* No interrupted, lost or repeated cycle, no misread balance and no crossing
\* with the operator's script makes the agent borrow on top of a loan.
THEOREM LoanIsSingle == LooperSpec => NoSecondLoan
<1>1. LooperInv /\ [LooperNext]_looperVars =>
        [debt'[Looper] > debt[Looper] => debt[Looper] = 0]_looperVars
  <2> SUFFICES ASSUME LooperInv, [LooperNext]_looperVars, debt'[Looper] > debt[Looper]
               PROVE  debt[Looper] = 0
    OBVIOUS
  <2>1. LooperInv' /\ (debt'[Looper] <= debt[Looper] \/ debt[Looper] = 0)
    BY LooperStep
  <2>2. debt[Looper] \in Nat /\ debt'[Looper] \in Nat
    <3>1. Looper \in Owners /\ MaxU64 \in Nat
      BY LooperAssumption, MarketAssumption
    <3> QED BY <2>1, <3>1 DEF LooperInv, Inv, TypeOK
  <2> QED BY <2>1, <2>2
<1> QED BY <1>1, LooperInvariant, PTL DEF LooperSpec, NoSecondLoan

-----------------------------------------------------------------------------
(***************************************************************************)
(* Loans and repayments are funded.  Both theorems ask that a cToken is    *)
(* never worth so much that rounding to whole cTokens matters against the  *)
(* least balance a loop is opened with.                                    *)
(***************************************************************************)

\* What the agent's floor on the health factor leaves above the market's.
Room == BPS * HFFloor - HFMin * Percent

\* With the deployed figures (HF_MIN 1.05, floor 1.10, minIdleToOpen 1 000 000):
\* one cToken is worth less than 45 000 tokens.
RateModest ==
  totalCollateral > 0 =>
    (totalLiquidity + totalCollateral) * (BPS * HFFloor) <= MinIdle * totalCollateral * Room

\* The tokens at hand, with those the vault took back, repay the loan.
Paid == cash[Looper] + recalled >= debt[Looper]
\* Redeeming n cTokens brings in enough to repay the loan.
Yields(n) == cTokens[Looper] > 0 /\ debt[Looper] * totalCollateral <= n * totalLiquidity
\* One cToken fewer than there are would do: what a plan to close withdraws
\* first is rounded up and one more.
Backed == Paid \/ Yields(cTokens[Looper] - 1)

\* The next transaction of a closing leaves, or finds, the loan paid for.
HeadFunded(p) ==
  p # <<>> /\ p[1].amount > 0 =>
    /\ p[1].do = "withdraw" => Paid \/ Yields(p[1].amount)
    /\ p[1].do = "repay" => Paid

\* What an opening knows before each of its transactions.
OpeningFunded(p) ==
  p # <<>> =>
    /\ p[1].do = "deposit" /\ Len(p) = 3 =>
         /\ p[1].amount >= MinIdle
         /\ p[2].amount > 0 /\ p[2].amount * HFFloor <= p[1].amount * Percent
    /\ p[1].do = "borrow" =>
         p[1].amount > 0 /\ cTokens[Looper] >= 2 /\ Covers(Looper, p[1].amount)
    /\ p[1].do = "deposit" /\ Len(p) = 1 => cTokens[Looper] >= 2

\* The inductive invariant: as long as agent and script have not crossed, the
\* loan can be repaid and each plan can be paid for.
FundsInv ==
  ~crossed => Backed /\ HeadFunded(plan) /\ HeadFunded(unwinding) /\ OpeningFunded(plan)

\* The step does not lower the redemption rate.
RateHolds ==
  totalCollateral > 0 =>
    totalLiquidity' * totalCollateral >= totalLiquidity * totalCollateral'

\* What is worth d at a rate stays worth d at a rate that is no lower.
LEMMA RatioKept ==
  ASSUME NEW d \in Nat, NEW k \in Nat, NEW L \in Nat \ {0}, NEW L2 \in Nat,
         NEW C \in Nat, NEW C2 \in Nat, d * C <= k * L, L * C2 <= L2 * C
  PROVE  d * C2 <= k * L2
<1> DEFINE x == d * C2
           y == k * L2
           a == L * C2
           b == L2 * C
           e == d * C
           f == k * L
<1>1. /\ x \in Nat /\ y \in Nat /\ a \in Nat /\ b \in Nat /\ e \in Nat /\ f \in Nat
      /\ a <= b /\ e <= f
  BY ProductNat
<1>2. x * L = a * d /\ b * d = e * L2 /\ f * L2 = y * L
  OBVIOUS
<1> HIDE DEF x, y, a, b, e, f
<1>3. a * d <= b * d /\ e * L2 <= f * L2
  BY <1>1, ProductMono
<1>4. x * L \in Nat /\ y * L \in Nat /\ a * d \in Nat /\ e * L2 \in Nat
  BY <1>1, ProductNat
<1>5. x * L <= y * L
  BY <1>2, <1>3, <1>4
<1>6. x <= y
  BY <1>1, <1>5, ProductCancelLeq
<1> QED BY <1>1, <1>6 DEF x, y

\* Depositing the loan: two cTokens and those it buys, less one, are worth it.
LEMMA LoanRedeposited ==
  ASSUME NEW l \in Nat, NEW L \in Nat \ {0}, NEW C \in Nat, NEW n \in Nat, n >= 2,
         NEW m \in Nat, m = (l * C) \div L
  PROVE  l * (C + m) <= (n + m - 1) * (L + l)
<1> DEFINE a == l * C
           b == (m + 1) * L
<1>1. a \in Nat
  BY ProductNat
<1> HIDE DEF a
<1>2. a < b
  BY <1>1, FloorDivision DEF a
<1>3. b \in Nat
  <2> DEFINE k == m + 1
  <2>1. k \in Nat
    OBVIOUS
  <2> HIDE DEF k
  <2>2. k * L \in Nat
    BY <2>1, ProductNat
  <2> QED BY <2>2 DEF k
<1>4. l * (C + m) = a + l * m
  <2>1. \A i \in Nat : l * (C + i) = l * C + l * i
    OBVIOUS
  <2> QED BY <2>1 DEF a
<1>5. (m + 1) * (L + l) = b + l * m + l
  OBVIOUS
<1>6. l * m \in Nat
  BY ProductNat
<1>7. (m + 1) * (L + l) <= (n + m - 1) * (L + l)
  <2> DEFINE x == m + 1
             y == n + m - 1
             z == L + l
  <2>1. x \in Nat /\ y \in Nat /\ z \in Nat /\ x <= y
    OBVIOUS
  <2> HIDE DEF x, y, z
  <2>2. x * z <= y * z
    BY <2>1, ProductMono
  <2> QED BY <2>2 DEF x, y, z
<1>8. (n + m - 1) * (L + l) \in Nat /\ l * (C + m) \in Nat
  <2> DEFINE y == n + m - 1
             z == L + l
             w == C + m
  <2>1. y \in Nat /\ z \in Nat /\ w \in Nat
    OBVIOUS
  <2> HIDE DEF y, z, w
  <2>2. y * z \in Nat /\ l * w \in Nat
    BY <2>1, ProductNat
  <2> QED BY <2>2 DEF y, z, w
<1> HIDE DEF b
<1> QED BY <1>1, <1>2, <1>3, <1>4, <1>5, <1>6, <1>7, <1>8

\* What n cTokens, m of them new, are worth after a deposit of a tokens: all of
\* it but a token and the rounding of one cToken.
LEMMA DepositWorth ==
  ASSUME NEW a \in Nat, NEW L \in Nat \ {0}, NEW C \in Nat \ {0}, NEW m \in Nat,
         m = (a * C) \div L, NEW n \in Nat, n >= m, NEW L2 \in Nat, NEW C2 \in Nat \ {0},
         L * C2 <= L2 * C, NEW v \in Nat, v = (n * L2) \div C2
  PROVE  a * C <= v * C + C + L
<1>1. a * C < (m + 1) * L
  <2>1. a * C \in Nat
    BY ProductNat
  <2> QED BY <2>1, FloorDivision
<1>2. n * L2 < (v + 1) * C2
  <2>1. n * L2 \in Nat
    BY ProductNat
  <2> QED BY <2>1, FloorDivision
<1> DEFINE x == m * L
           y == (v + 1) * C
<1>3. x \in Nat /\ y \in Nat
  <2> DEFINE k == v + 1
  <2>1. k \in Nat
    OBVIOUS
  <2> HIDE DEF k
  <2>2. k * C \in Nat /\ x \in Nat
    BY <2>1, ProductNat
  <2> QED BY <2>2 DEF k
<1>4. x * C2 <= y * C2
  <2> DEFINE p == L * C2
             q == L2 * C
             r == n * L2
             s == (v + 1) * C2
  <2>1. /\ p \in Nat /\ q \in Nat /\ r \in Nat /\ s \in Nat /\ p <= q /\ r <= s
    <3> DEFINE k == v + 1
    <3>1. k \in Nat
      OBVIOUS
    <3> HIDE DEF k
    <3>2. k * C2 \in Nat /\ p \in Nat /\ q \in Nat /\ r \in Nat
      BY <3>1, ProductNat
    <3>3. s \in Nat
      BY <3>2 DEF k
    <3> QED BY <1>2, <3>2, <3>3
  <2>2. x * C2 = p * m /\ q * m = L2 * C * m /\ r * C = L2 * C * n /\ s * C = y * C2
    OBVIOUS
  <2>3. L2 * C * m = m * q /\ L2 * C * n = n * q
    OBVIOUS
  <2> HIDE DEF x, y, p, q, r, s
  <2>4. p * m <= q * m /\ r * C <= s * C /\ m * q <= n * q
    BY <2>1, ProductMono
  <2>5. p * m \in Nat /\ q * m \in Nat /\ r * C \in Nat /\ s * C \in Nat /\ m * q \in Nat /\ n * q \in Nat
    BY <2>1, ProductNat
  <2> QED BY <2>2, <2>3, <2>4, <2>5
<1> HIDE DEF x, y
<1>5. x <= y
  BY <1>3, <1>4, ProductCancelLeq
<1>6. (m + 1) * L = x + L /\ y = v * C + C
  BY DEF x, y
<1>7. a * C \in Nat
  BY ProductNat
<1> QED BY <1>1, <1>3, <1>5, <1>6, <1>7

\* A loan within the agent's floor is within the market's minimum, when the
\* deposit lost at most a token and the rounding of one cToken.
LEMMA FloorCovers ==
  ASSUME NEW a \in Nat, a >= MinIdle, NEW l \in Nat \ {0}, l * HFFloor <= a * Percent,
         NEW v \in Nat, NEW L \in Nat, NEW C \in Nat \ {0},
         \/ a <= v
         \/ /\ a * C <= v * C + C + L
            /\ (L + C) * (BPS * HFFloor) <= MinIdle * C * Room
  PROVE  (v * BPS) \div l >= HFMin
<1> DEFINE K == BPS * HFFloor
           M == HFMin * Percent
           R == K - M
<1>1. /\ K \in Nat /\ M \in Nat /\ M <= K /\ R \in Nat /\ K = M + R /\ Room = R
      /\ BPS \in Nat /\ HFFloor \in Nat \ {0} /\ HFMin \in Nat /\ Percent \in Nat
      /\ MinIdle \in Nat
  <2>1. /\ BPS \in Nat /\ HFFloor \in Nat \ {0} /\ HFMin \in Nat /\ Percent \in Nat
        /\ MinIdle \in Nat
    BY MarketAssumption, LooperAssumption
  <2>2. K \in Nat /\ M \in Nat /\ M <= K /\ Room = R
    BY <2>1, ProductNat, FloorAssumption DEF Room
  <2> HIDE DEF K, M
  <2> QED BY <2>1, <2>2
<1>2. a * M <= v * K
  <2>1. CASE a <= v
    <3> HIDE DEF K, M, R
    <3>1. a * K <= v * K /\ M * a <= K * a
      BY <1>1, <2>1, ProductMono
    <3>2. a * K = K * a /\ a * M = M * a
      BY <1>1
    <3>3. a * M \in Nat /\ a * K \in Nat /\ v * K \in Nat
      BY <1>1, ProductNat
    <3> QED BY <3>1, <3>2, <3>3
  <2>2. CASE /\ a * C <= v * C + C + L
             /\ (L + C) * K <= MinIdle * C * Room
    <3> DEFINE aC == a * C
               vC == v * C
               T  == L + C
               iC == MinIdle * C
    <3>1. aC \in Nat /\ vC \in Nat /\ T \in Nat /\ iC \in Nat /\ iC <= aC /\ aC <= vC + T
      <4>1. iC <= aC
        BY <1>1, ProductMono
      <4> QED BY <1>1, <2>2, <4>1, ProductNat
    <3>2. T * K <= iC * R
      BY <1>1, <2>2
    <3> DEFINE u == vC + T
    <3>3. u \in Nat /\ aC <= u
      BY <3>1
    <3>4. aC * M = (a * M) * C /\ vC * K = (v * K) * C
      <4> HIDE DEF K, M
      <4> QED BY <1>1
    <3> HIDE DEF K, M, R, aC, vC, T, iC, u
    <3>5. aC * K <= u * K /\ iC * R <= aC * R
      BY <1>1, <3>1, <3>3, ProductMono
    <3>6. u * K = vC * K + T * K
      BY <1>1, <3>1 DEF u
    <3>7. aC * K = aC * M + aC * R
      BY <1>1, <3>1
    <3>8. /\ aC * K \in Nat /\ u * K \in Nat /\ iC * R \in Nat /\ aC * R \in Nat
          /\ vC * K \in Nat /\ T * K \in Nat /\ aC * M \in Nat
      BY <1>1, <3>1, <3>3, ProductNat
    <3>9. aC * M <= vC * K
      BY <3>2, <3>5, <3>6, <3>7, <3>8
    <3>10. (a * M) * C <= (v * K) * C
      BY <3>4, <3>9
    <3> DEFINE aM == a * M
               vK == v * K
    <3>11. aM \in Nat /\ vK \in Nat /\ aM * C <= vK * C
      BY <1>1, <3>10, ProductNat
    <3> HIDE DEF aM, vK
    <3>12. aM <= vK
      BY <3>11, ProductCancelLeq
    <3> QED BY <3>12 DEF aM, vK
  <2> QED BY <2>1, <2>2
<1>3. HFMin * l <= v * BPS
  <2> DEFINE x == HFMin * l
             y == v * BPS
             s == l * HFFloor
             t == a * Percent
  <2>1. x \in Nat /\ y \in Nat /\ s \in Nat /\ t \in Nat /\ s <= t
    BY <1>1, ProductNat
  <2>2. x * HFFloor = s * HFMin /\ t * HFMin = a * M /\ y * HFFloor = v * K
    BY <1>1
  <2> HIDE DEF x, y, s, t, K, M
  <2>3. s * HFMin <= t * HFMin
    BY <1>1, <2>1, ProductMono
  <2>4. /\ s * HFMin \in Nat /\ t * HFMin \in Nat /\ x * HFFloor \in Nat /\ y * HFFloor \in Nat
    BY <1>1, <2>1, ProductNat
  <2>5. x * HFFloor <= y * HFFloor
    BY <1>2, <2>2, <2>3, <2>4
  <2>6. x <= y
    BY <1>1, <2>1, <2>5, ProductCancelLeq
  <2> QED BY <2>6 DEF x, y
<1> DEFINE y == v * BPS
<1>4. y \in Nat /\ HFMin * l <= y
  BY <1>1, <1>3, ProductNat
<1> HIDE DEF y
<1>5. HFMin <= y \div l
  BY <1>1, <1>4, FloorReaches
<1>6. y \div l \in Nat
  BY <1>4, FloorDivision
<1> QED BY <1>1, <1>5, <1>6 DEF y

\* Such a deposit buys two cTokens at least.
LEMMA DepositBuysTwo ==
  ASSUME NEW a \in Nat, a >= MinIdle, NEW L \in Nat \ {0}, NEW C \in Nat \ {0},
         (L + C) * (BPS * HFFloor) <= MinIdle * C * Room
  PROVE  (a * C) \div L >= 2
<1> DEFINE K == BPS * HFFloor
           M == HFMin * Percent
           T == L + C
           i == MinIdle * C
           e == a * C
<1>1. BPS \in Nat \ {0} /\ HFFloor \in Nat \ {0} /\ HFMin \in Nat /\ Percent \in Nat /\ MinIdle \in Nat
  BY MarketAssumption, LooperAssumption
<1>2. K \in Nat \ {0} /\ M \in Nat /\ M <= K /\ K <= 2 * M /\ Room = K - M
  BY <1>1, ProductNat, FloorAssumption DEF Room
<1>3. T \in Nat \ {0} /\ i \in Nat /\ e \in Nat /\ i <= e /\ T = L + C
  BY <1>1, ProductNat, ProductMono
<1>4. T * K <= i * Room
  OBVIOUS
<1> HIDE DEF K, M, T, i, e
<1>5. 2 * Room <= K /\ Room \in Nat
  BY <1>2
<1>6. T * K \in Nat \ {0}
  BY <1>2, <1>3
<1>7. Room # 0
  <2> SUFFICES ASSUME Room = 0 PROVE FALSE
    OBVIOUS
  <2>1. i * Room = 0
    BY <1>3
  <2> QED BY <1>4, <1>6, <2>1
<1>8. (2 * T) * Room <= i * Room
  <2> DEFINE r == 2 * Room
  <2>1. r \in Nat /\ r <= K
    BY <1>5
  <2>2. (2 * T) * Room = r * T /\ K * T = T * K
    BY <1>2, <1>3, <1>5
  <2> HIDE DEF r
  <2>3. r * T <= K * T
    BY <1>2, <1>3, <2>1, ProductMono
  <2>4. r * T \in Nat /\ K * T \in Nat /\ i * Room \in Nat
    BY <1>2, <1>3, <1>5, <2>1, ProductNat
  <2> QED BY <1>4, <2>2, <2>3, <2>4
<1>9. 2 * T <= i
  <2> DEFINE t == 2 * T
  <2>1. t \in Nat /\ t * Room <= i * Room
    BY <1>3, <1>8
  <2> HIDE DEF t
  <2>2. t <= i
    BY <1>3, <1>5, <1>7, <2>1, ProductCancelLeq
  <2> QED BY <2>2 DEF t
<1>10. 2 * L <= e
  BY <1>3, <1>9
<1>11. 2 <= e \div L /\ e \div L \in Nat
  BY <1>3, <1>10, FloorReaches, FloorDivision
<1> QED BY <1>11 DEF e

-----------------------------------------------------------------------------
(***************************************************************************)
(* A decision is funded.                                                   *)
(***************************************************************************)

\* The loan of an opening is something, and within the agent's floor.
LEMMA LoanWithinFloor ==
  ASSUME NEW idle \in Nat, idle >= MinIdle
  PROVE  LoanFor(idle) \in Nat \ {0} /\ LoanFor(idle) * HFFloor <= idle * Percent
<1> DEFINE more == TargetLeverage - Percent
           r    == (idle * more) \div Percent
           s    == (idle * Percent) \div HFFloor
<1>1. /\ Percent \in Nat \ {0} /\ HFFloor \in Nat \ {0} /\ MinIdle \in Nat /\ more \in Nat
      /\ MinIdle * more >= Percent /\ MinIdle * Percent >= HFFloor
  BY LooperAssumption, FloorAssumption
<1>2. LoanFor(idle) = IF r < s THEN r ELSE s
  BY DEF LoanFor
<1> HIDE DEF more
<1> DEFINE im == idle * more
           ip == idle * Percent
<1>3. im \in Nat /\ ip \in Nat /\ Percent <= im /\ HFFloor <= ip
  <2>1. MinIdle * more <= im /\ MinIdle * Percent <= ip
    BY <1>1, ProductMono
  <2>2. im \in Nat /\ ip \in Nat /\ MinIdle * more \in Nat /\ MinIdle * Percent \in Nat
    BY <1>1, ProductNat
  <2> QED BY <1>1, <2>1, <2>2
<1> HIDE DEF im, ip
<1>4. r = im \div Percent /\ s = ip \div HFFloor
  BY DEF im, ip
<1>5. /\ r \in Nat /\ s \in Nat /\ s * HFFloor <= ip
      /\ 1 <= r /\ 1 <= s
  BY <1>1, <1>3, <1>4, FloorDivision, FloorReaches
<1> HIDE DEF r, s
<1>6. r < s => r * HFFloor <= s * HFFloor
  BY <1>1, <1>5, ProductMono
<1>7. r * HFFloor \in Nat /\ s * HFFloor \in Nat
  BY <1>1, <1>5, ProductNat
<1> QED BY <1>2, <1>3, <1>5, <1>6, <1>7 DEF ip

\* What a plan to close withdraws first repays the loan, or nothing does.
LEMMA CloseFunded ==
  ASSUME Inv, Backed, recalled \in Nat, NEW held \in {0, cTokens[Looper]}
  PROVE  HeadFunded(ClosePlan(debt[Looper], held))
<1> DEFINE owed   == debt[Looper]
           has    == cTokens[Looper]
           repays == owed > 0 /\ totalLiquidity > 0 /\ totalCollateral > 0
           worth  == TokensWorth(owed)
           first  == IF ~repays THEN 0 ELSE IF worth < held THEN worth ELSE held
           clears == IF repays THEN <<Tx("withdraw", first), Tx("repay", owed)>> ELSE <<>>
           rest   == IF held > first THEN <<Tx("withdraw", held - first)>> ELSE <<>>
           p      == ClosePlan(owed, held)
<1>1. /\ owed \in Nat /\ has \in Nat /\ held \in Nat /\ cash[Looper] \in Nat
      /\ totalLiquidity \in Nat /\ totalCollateral \in Nat
      /\ has > 0 => totalCollateral > 0 /\ totalLiquidity > 0
  BY Position
<1>2. p = clears \o rest
  BY DEF ClosePlan
<1>3. CASE ~repays
  <2>1. clears = <<>> /\ first = 0
    BY <1>3
  <2> HIDE DEF first, clears, p, rest
  <2>2. CASE held = 0
    <3>1. rest = <<>>
      BY <2>1, <2>2 DEF rest
    <3>2. p = <<>>
      BY <1>2, <2>1, <3>1
    <3> QED BY <3>2 DEF HeadFunded, p, owed
  <2>3. CASE held # 0
    <3>1. owed = 0
      BY <1>1, <1>3, <2>3
    <3>2. Paid
      BY <1>1, <3>1 DEF Paid
    <3> QED BY <3>2 DEF HeadFunded
  <2> QED BY <2>2, <2>3
<1>4. CASE repays
  <2>1. worth \in Nat \ {0}
    BY <1>1, <1>4, TokensWorthFacts
  <2> HIDE DEF worth
  <2>2. first \in Nat /\ first <= held /\ (first = worth \/ first = held)
    BY <1>1, <1>4, <2>1
  <2>3. clears = <<Tx("withdraw", first), Tx("repay", owed)>>
    BY <1>4
  <2> HIDE DEF first, clears, rest, p, repays
  <2>4. p[1] = Tx("withdraw", first)
    <3>1. CASE held > first
      <4>1. rest = <<Tx("withdraw", held - first)>>
        BY <3>1 DEF rest
      <4>2. /\ Tx("withdraw", first) \in Txs /\ Tx("repay", owed) \in Txs
            /\ Tx("withdraw", held - first) \in Txs
        BY <1>1, <2>2, <3>1 DEF Tx, Txs, Dos
      <4> QED BY <1>2, <2>3, <4>1, <4>2, Joined
    <3>2. CASE ~(held > first)
      <4>1. rest = <<>>
        BY <3>2 DEF rest
      <4>2. clears \in Seq(Txs) /\ clears[1] = Tx("withdraw", first)
        BY <1>1, <2>2, <2>3 DEF Tx, Txs, Dos
      <4>3. p = clears
        BY <1>2, <4>1, <4>2, ConcatEmptySeq
      <4> QED BY <4>2, <4>3
    <3> QED BY <3>1, <3>2
  <2>5. p[1].do = "withdraw" /\ p[1].amount = first
    BY <2>4 DEF Tx
  <2>6. ASSUME first > 0
        PROVE  Paid \/ Yields(first)
    <3>1. held = has /\ has > 0
      BY <1>1, <2>2, <2>6
    <3>2. CASE first = worth
      <4> DEFINE a == owed * totalCollateral
                 c == (a + totalLiquidity - 1) \div totalLiquidity
      <4>1. a \in Nat /\ totalLiquidity \in Nat \ {0}
        BY <1>1, <3>1, ProductNat
      <4>2. worth = c + 1
        BY DEF worth, TokensWorth
      <4> HIDE DEF a
      <4>3. c \in Nat /\ c * totalLiquidity >= a
        BY <4>1, CeilingDivision
      <4> HIDE DEF c
      <4>4. c * totalLiquidity <= worth * totalLiquidity
        BY <2>1, <4>1, <4>2, <4>3, ProductMono
      <4>5. c * totalLiquidity \in Nat /\ worth * totalLiquidity \in Nat
        BY <2>1, <4>1, <4>3, ProductNat
      <4>6. a <= worth * totalLiquidity
        BY <4>1, <4>3, <4>4, <4>5
      <4> QED BY <3>1, <3>2, <4>6 DEF Yields, a, owed, has
    <3>3. CASE first = held
      <4>1. CASE Paid
        BY <4>1
      <4>2. CASE Yields(has - 1)
        <5> DEFINE less == has - 1
        <5>1. less \in Nat /\ less <= has
          BY <1>1, <3>1
        <5>2. owed * totalCollateral <= less * totalLiquidity
          BY <4>2 DEF Yields
        <5> HIDE DEF less
        <5>3. less * totalLiquidity <= has * totalLiquidity
          BY <1>1, <5>1, ProductMono
        <5>4. /\ owed * totalCollateral \in Nat /\ less * totalLiquidity \in Nat
              /\ has * totalLiquidity \in Nat
          BY <1>1, <5>1, ProductNat
        <5>5. owed * totalCollateral <= has * totalLiquidity
          BY <5>2, <5>3, <5>4
        <5> QED BY <3>1, <3>3, <5>5 DEF Yields
      <4> QED BY <4>1, <4>2 DEF Backed
    <3> QED BY <2>2, <3>2, <3>3
  <2> QED BY <2>5, <2>6 DEF HeadFunded, p, owed
<1> QED BY <1>3, <1>4

\* Whatever was misread, the plan of a cycle is funded.
LEMMA DecideFunded ==
  ASSUME Inv, Backed, recalled \in Nat, NEW idle \in Nat, NEW held \in {0, cTokens[Looper]}
  PROVE  HeadFunded(Decide(idle, held)) /\ OpeningFunded(Decide(idle, held))
<1> DEFINE p == Decide(idle, held)
           supplied == Supplied(held)
           borrowed == debt[Looper]
<1>1. CASE MustClose(supplied, borrowed)
  <2>1. p = ClosePlan(debt[Looper], held)
    BY <1>1 DEF Decide
  <2> HIDE DEF p
  <2>2. HeadFunded(p)
    BY <2>1, CloseFunded
  <2>3. p # <<>> => Closing(p, debt[Looper], cTokens[Looper], FALSE) /\ Sendable(p)
    BY <2>1, CloseFits
  <2>4. p # <<>> => p[1].do \in {"repay", "withdraw"}
    <3> SUFFICES ASSUME p # <<>> PROVE p[1].do \in {"repay", "withdraw"}
      OBVIOUS
    <3>1. 1 \in 1..Len(p)
      BY <2>3, TailFacts DEF Sendable
    <3> QED BY <2>3, <3>1 DEF Closing
  <2> QED BY <2>2, <2>4 DEF OpeningFunded, p
<1>2. CASE ~MustClose(supplied, borrowed) /\ MayOpen(idle, supplied, borrowed)
  <2>1. p = OpenPlan(idle) /\ idle >= MinIdle
    BY <1>2 DEF Decide, MayOpen
  <2> HIDE DEF p
  <2> DEFINE loan == LoanFor(idle)
  <2>2. loan \in Nat \ {0} /\ loan * HFFloor <= idle * Percent
    BY <2>1, LoanWithinFloor
  <2>3. p = <<Tx("deposit", idle), Tx("borrow", loan), Tx("deposit", loan)>>
    BY <2>1 DEF OpenPlan
  <2> HIDE DEF loan
  <2>4. /\ p # <<>> /\ Len(p) = 3 /\ p[1].do = "deposit" /\ p[1].amount = idle
        /\ p[2].amount = loan
    BY <2>3 DEF Tx
  <2> QED BY <2>1, <2>2, <2>4 DEF HeadFunded, OpeningFunded, p
<1>3. CASE ~MustClose(supplied, borrowed) /\ ~MayOpen(idle, supplied, borrowed)
  <2>1. p = <<>>
    BY <1>3 DEF Decide
  <2> QED BY <2>1 DEF HeadFunded, OpeningFunded
<1> QED BY <1>1, <1>2, <1>3

-----------------------------------------------------------------------------
(***************************************************************************)
(* Every step keeps loans and repayments funded.                           *)
(***************************************************************************)

\* A loan paid for backs every plan to close.
LEMMA PaidSuffices ==
  ASSUME Paid
  PROVE  Backed /\ HeadFunded(plan) /\ HeadFunded(unwinding)
BY DEF Backed, HeadFunded

\* Sending the head of a closing leaves the loan paid for.
LEMMA ClosingPays ==
  ASSUME Inv, recalled \in Nat, UNCHANGED recalled, NEW tx \in Txs, Execute(tx),
         tx.do \in {"repay", "withdraw"},
         tx.do = "withdraw" => Paid \/ Yields(tx.amount),
         tx.do = "repay" => Paid
  PROVE  Paid'
<1> DEFINE n == tx.amount
<1>1. n \in Nat /\ Looper \in Owners /\ recalled \in Nat /\ recalled' = recalled
  BY LooperAssumption DEF Txs
<1>2. /\ debt[Looper] \in Nat /\ cTokens[Looper] \in Nat /\ cash[Looper] \in Nat
      /\ totalLiquidity \in Nat /\ totalCollateral \in Nat
      /\ cash \in [Owners -> Nat] /\ debt \in [Owners -> Nat]
  BY Position, Numbers
<1>3. CASE KaminoRepay(tx)
  <2>1. tx.do = "repay" /\ RepayLiquidity(Looper, n)
    BY <1>3 DEF KaminoRepay
  <2> DEFINE repay == Repaid(Looper, n)
             left  == SaturatingSub(debt[Looper], repay)
  <2>2. /\ repay <= cash[Looper] /\ cash' = Put(cash, Looper, cash[Looper] - repay)
        /\ debt' = Put(debt, Looper, left)
    BY <2>1 DEF RepayLiquidity, Put
  <2>3. repay \in Nat /\ left = debt[Looper] - repay
    BY <1>1, <1>2 DEF SaturatingSub, Repaid
  <2> HIDE DEF repay, left
  <2>4. debt'[Looper] = left /\ cash'[Looper] = cash[Looper] - repay
    BY <1>1, <1>2, <2>2 DEF Put
  <2>5. Paid
    BY <2>1
  <2> QED BY <1>1, <1>2, <2>3, <2>4, <2>5 DEF Paid
<1>4. CASE KaminoWithdraw(tx)
  <2>1. tx.do = "withdraw" /\ RedeemCollateral(Looper, n)
    BY <1>4 DEF KaminoWithdraw
  <2> DEFINE out == LiquidityFor(n)
  <2>2. /\ n > 0 /\ n <= totalCollateral /\ debt' = debt
        /\ cash' = Put(cash, Looper, cash[Looper] + out)
    BY <2>1 DEF RedeemCollateral, Put
  <2>3. n \in 1..totalCollateral
    BY <1>1, <1>2, <2>2
  <2>4. out = (n * totalLiquidity) \div totalCollateral /\ out \in 0..totalLiquidity
    <3> HIDE DEF n
    <3> QED BY <2>3, RedeemRate DEF Inv
  <2> HIDE DEF out
  <2>5. cash'[Looper] = cash[Looper] + out
    BY <1>1, <1>2, <2>2 DEF Put
  <2>6. CASE Paid
    BY <1>1, <1>2, <2>2, <2>4, <2>5, <2>6 DEF Paid
  <2>7. CASE Yields(n)
    <3> DEFINE a == n * totalLiquidity
    <3>1. a \in Nat /\ debt[Looper] * totalCollateral <= a
      BY <1>1, <1>2, <2>7, ProductNat DEF Yields
    <3>2. out = a \div totalCollateral
      BY <2>4
    <3> HIDE DEF a
    <3>3. debt[Looper] <= out
      BY <1>2, <2>3, <3>1, <3>2, FloorReaches
    <3> QED BY <1>1, <1>2, <2>2, <2>4, <2>5, <3>3 DEF Paid
  <2> QED BY <2>1, <2>6, <2>7
<1>5. ~KaminoDeposit(tx) /\ ~KaminoBorrow(tx)
  BY DEF KaminoDeposit, KaminoBorrow
<1> QED BY <1>3, <1>4, <1>5 DEF Execute

\* A loan taken when nothing is owed is at hand.
LEMMA BorrowPays ==
  ASSUME Inv, recalled \in Nat, UNCHANGED recalled, NEW tx \in Txs, Execute(tx),
         tx.do = "borrow", debt[Looper] = 0
  PROVE  Paid' /\ cTokens' = cTokens
<1> DEFINE n == tx.amount
<1>1. n \in Nat /\ Looper \in Owners /\ recalled' = recalled
  BY LooperAssumption DEF Txs
<1>2. cash[Looper] \in Nat /\ cash \in [Owners -> Nat] /\ debt \in [Owners -> Nat]
  BY Position, Numbers
<1>3. BorrowLiquidity(Looper, n)
  BY DEF Execute, KaminoDeposit, KaminoBorrow, KaminoRepay, KaminoWithdraw
<1>4. /\ cash' = Put(cash, Looper, cash[Looper] + n)
      /\ debt' = Put(debt, Looper, debt[Looper] + n) /\ cTokens' = cTokens
  BY <1>3 DEF BorrowLiquidity, Put
<1> HIDE DEF n
<1>5. cash'[Looper] = cash[Looper] + n /\ debt'[Looper] = debt[Looper] + n
  BY <1>1, <1>2, <1>4 DEF Put
<1> QED BY <1>1, <1>2, <1>4, <1>5 DEF Paid

\* What a deposit of the strategy does to the reserve and to its cTokens.
LEMMA DepositFacts ==
  ASSUME Inv, NEW tx \in Txs, Execute(tx), tx.do = "deposit"
  PROVE  /\ Inv' /\ debt' = debt
         /\ CollateralFor(tx.amount) \in Nat
         /\ cTokens'[Looper] = cTokens[Looper] + CollateralFor(tx.amount)
         /\ totalLiquidity' = totalLiquidity + tx.amount
         /\ totalCollateral' = totalCollateral + CollateralFor(tx.amount)
         /\ cash'[Looper] \in Nat
         /\ totalCollateral = 0 => CollateralFor(tx.amount) = tx.amount
         /\ totalCollateral > 0 =>
              CollateralFor(tx.amount) = (tx.amount * totalCollateral) \div totalLiquidity
         /\ RateHolds
<1> DEFINE n == tx.amount
           m == CollateralFor(n)
<1>1. n \in Nat /\ Looper \in Owners
  BY LooperAssumption DEF Txs
<1>2. cTokens \in [Owners -> Nat] /\ cash \in [Owners -> Nat]
  BY Numbers
<1>3. DepositLiquidity(Looper, n)
  BY DEF Execute, KaminoDeposit, KaminoBorrow, KaminoRepay, KaminoWithdraw
<1>4. /\ debt' = debt /\ totalLiquidity' = totalLiquidity + n /\ totalCollateral' = totalCollateral + m
      /\ cTokens' = Put(cTokens, Looper, cTokens[Looper] + m)
      /\ totalLiquidity + n <= MaxU64
  BY <1>3 DEF DepositLiquidity, AddFits, Put
<1>5. totalCollateral = 0 => m = n
  BY DEF CollateralFor
<1> HIDE DEF n
<1>6. Inv'
  BY <1>1, <1>3, DepositKeeps
<1>7. /\ m \in 0..n
      /\ totalCollateral > 0 =>
           /\ m = (n * totalCollateral) \div totalLiquidity
           /\ (totalLiquidity + n) * totalCollateral >= totalLiquidity * (totalCollateral + m)
  BY <1>1, <1>4, DepositRate DEF Inv
<1> HIDE DEF m
<1>8. cTokens'[Looper] = cTokens[Looper] + m
  BY <1>1, <1>2, <1>4 DEF Put
<1>9. m \in Nat
  BY <1>1, <1>7
<1>10. cash'[Looper] \in Nat
  BY <1>1, <1>6 DEF Inv, TypeOK
<1>11. RateHolds
  BY <1>4, <1>7 DEF RateHolds
<1> QED BY <1>4, <1>5, <1>6, <1>7, <1>8, <1>9, <1>10, <1>11 DEF n, m

\* Once the loan is deposited in turn, redeeming repays it.
LEMMA RedepositBacks ==
  ASSUME Inv, NEW tx \in Txs, Execute(tx), tx.do = "deposit",
         debt[Looper] = tx.amount, cTokens[Looper] >= 2
  PROVE  Backed'
<1> DEFINE l == tx.amount
           m == CollateralFor(l)
           n == cTokens[Looper]
           L == totalLiquidity
           C == totalCollateral
<1>1. /\ l \in Nat /\ n \in Nat /\ n >= 2 /\ C \in Nat \ {0} /\ L \in Nat \ {0}
  BY Position DEF Txs
<1>2. /\ debt' = debt /\ m \in Nat /\ cTokens'[Looper] = n + m
      /\ totalLiquidity' = L + l /\ totalCollateral' = C + m
      /\ m = (l * C) \div L
  BY <1>1, DepositFacts
<1> HIDE DEF l, m, n, L, C
<1>3. l * (C + m) <= (n + m - 1) * (L + l)
  BY <1>1, <1>2, LoanRedeposited
<1>4. debt'[Looper] = l
  BY <1>2 DEF l
<1>5. cTokens'[Looper] > 0
  BY <1>1, <1>2
<1>6. debt'[Looper] * totalCollateral' <= (cTokens'[Looper] - 1) * totalLiquidity'
  <2>1. totalCollateral' = C + m /\ totalLiquidity' = L + l
    BY <1>2
  <2>2. cTokens'[Looper] - 1 = n + m - 1
    BY <1>1, <1>2
  <2>3. debt'[Looper] * totalCollateral' = l * (C + m)
    BY <1>4, <2>1, Zenon
  <2>4. (cTokens'[Looper] - 1) * totalLiquidity' = (n + m - 1) * (L + l)
    BY <2>1, <2>2, Zenon
  <2> QED BY <1>3, <2>3, <2>4, Zenon
<1> QED BY <1>5, <1>6 DEF Backed, Yields

\* After the first deposit the market lends what the plan asks for next.
LEMMA FirstDepositCovers ==
  ASSUME Inv, RateModest, NEW tx \in Txs, Execute(tx), tx.do = "deposit",
         tx.amount >= MinIdle,
         NEW l \in Nat \ {0}, l * HFFloor <= tx.amount * Percent
  PROVE  /\ cTokens'[Looper] >= 2
         /\ (CollateralValue(Looper)' * BPS) \div l >= HFMin
<1> DEFINE a == tx.amount
           m == CollateralFor(a)
           n == cTokens[Looper] + m
           L == totalLiquidity
           C == totalCollateral
           L2 == totalLiquidity'
           C2 == totalCollateral'
           v == (n * L2) \div C2
<1>1. /\ a \in Nat /\ cTokens[Looper] \in Nat /\ C \in Nat /\ L \in Nat
      /\ MinIdle \in Nat /\ MinIdle >= 2 /\ a >= MinIdle
      /\ l * HFFloor <= a * Percent /\ Looper \in Owners
  BY Position, LooperAssumption, FloorAssumption DEF Txs
<1>2. /\ Inv' /\ m \in Nat /\ cTokens'[Looper] = n
      /\ L2 = L + a /\ C2 = C + m
      /\ C = 0 => m = a
      /\ C > 0 => m = (a * C) \div L
      /\ C > 0 => L2 * C >= L * C2
  BY DepositFacts DEF RateHolds
<1>3. C > 0 => L > 0
  BY DEF Inv, RateDefined
<1>4. CollateralValue(Looper)' = v
  BY <1>2 DEF CollateralValue
<1>5. C > 0 => (L + C) * (BPS * HFFloor) <= MinIdle * C * Room
  BY DEF RateModest
<1>6. n \in Nat /\ n >= m
  <2> HIDE DEF m
  <2> QED BY <1>1, <1>2
<1> HIDE DEF a, m, n, L, C
<1>7. m >= 2
  <2>1. CASE C = 0
    BY <1>1, <1>2, <2>1
  <2>2. CASE C # 0
    <3>1. (a * C) \div L >= 2
      <4>1. L \in Nat \ {0} /\ C \in Nat \ {0}
        BY <1>1, <1>3, <2>2
      <4>2. (L + C) * (BPS * HFFloor) <= MinIdle * C * Room
        BY <1>5, <4>1
      <4> QED BY <1>1, <4>1, <4>2, DepositBuysTwo
    <3> QED BY <1>1, <1>2, <2>2, <3>1
  <2> QED BY <2>1, <2>2
<1>8. L2 \in Nat /\ C2 \in Nat \ {0}
  BY <1>1, <1>2, <1>7
<1> HIDE DEF L2, C2
<1>9. n * L2 \in Nat /\ v \in Nat
  BY <1>6, <1>8, ProductNat, FloorDivision
<1> HIDE DEF v
<1>10. (v * BPS) \div l >= HFMin
  <2>1. CASE C = 0
    <3>1. a * C2 <= n * L2
      <4>1. C2 = a /\ a <= n /\ a <= L2
        BY <1>1, <1>2, <1>6, <2>1
      <4>2. a * a <= n * a /\ a * n <= L2 * n
        BY <1>1, <1>6, <1>8, <4>1, ProductMono
      <4>3. a * a \in Nat /\ n * a \in Nat /\ L2 * n \in Nat
        BY <1>1, <1>6, <1>8, ProductNat
      <4>4. n * a = a * n /\ n * L2 = L2 * n
        BY <1>1, <1>6, <1>8
      <4> QED BY <4>1, <4>2, <4>3, <4>4
    <3>2. a <= v
      BY <1>1, <1>8, <1>9, <3>1, FloorReaches DEF v
    <3> DEFINE one == 1
    <3>3. one \in Nat \ {0}
      OBVIOUS
    <3> HIDE DEF one
    <3> QED BY <1>1, <1>9, <3>2, <3>3, FloorCovers
  <2>2. CASE C # 0
    <3>1. C \in Nat \ {0} /\ L \in Nat \ {0} /\ m = (a * C) \div L /\ L * C2 <= L2 * C
      <4>1. L2 * C \in Nat /\ L * C2 \in Nat
        BY <1>1, <1>8, ProductNat
      <4> QED BY <1>1, <1>2, <1>3, <2>2, <4>1
    <3>2. a * C <= v * C + C + L
      <4>1. v = (n * L2) \div C2
        BY DEF v
      <4> QED BY <1>1, <1>2, <1>6, <1>8, <1>9, <3>1, <4>1, DepositWorth
    <3>3. (L + C) * (BPS * HFFloor) <= MinIdle * C * Room
      BY <1>1, <1>5, <2>2
    <3> QED BY <1>1, <1>9, <3>1, <3>2, <3>3, FloorCovers
  <2> QED BY <2>1, <2>2
<1>11. n >= 2
  BY <1>2, <1>6, <1>7
<1> QED BY <1>2, <1>4, <1>10, <1>11

\* A transaction of the agent.
LEMMA AgentFunds ==
  ASSUME LooperInv, FundsInv, RateModest, plan # <<>>, Execute(Head(plan)), LooperInv',
         plan' = Tail(plan) \/ plan' = <<>>, UNCHANGED <<unwinding, crossed, recalled>>
  PROVE  FundsInv'
<1> SUFFICES ASSUME ~crossed
             PROVE  /\ Backed' /\ HeadFunded(plan)' /\ HeadFunded(unwinding)'
                    /\ OpeningFunded(plan)'
  BY DEF FundsInv
<1> DEFINE owed == debt[Looper]
           held == cTokens[Looper]
           tx   == plan[1]
           q    == Tail(plan)
<1>1. /\ Inv /\ Sendable(plan) /\ recalled \in Nat /\ recalled' = recalled
      /\ Opening(plan, owed, FALSE) \/ Closing(plan, owed, held, FALSE)
      /\ unwinding' = <<>>
  <2>1. crossed = FALSE
    BY DEF LooperInv, Tallies
  <2> QED BY <2>1 DEF LooperInv, Tallies, PlanFits
<1>2. /\ plan \in Seq(Txs) /\ Len(plan) \in 1..3 /\ Head(plan) = tx /\ tx \in Txs
      /\ q \in Seq(Txs) /\ Len(q) = Len(plan) - 1
      /\ \A i \in 1..Len(q) : q[i] = plan[i + 1] /\ plan[i + 1] \in Txs
      /\ Len(plan) = 1 => q = <<>>
  <2>1. plan \in Seq(Txs) /\ Len(plan) <= 3
    BY <1>1 DEF Sendable
  <2>2. /\ Head(plan) = tx /\ tx \in Txs /\ Len(plan) \in Nat \ {0}
        /\ q \in Seq(Txs) /\ Len(q) = Len(plan) - 1
        /\ \A i \in 1..Len(q) : q[i] = plan[i + 1] /\ plan[i + 1] \in Txs
        /\ Len(plan) = 1 => q = <<>>
    BY <2>1, TailFacts
  <2> HIDE DEF q, tx
  <2> QED BY <2>1, <2>2
<1>3. 1 + 1 = 2
  OBVIOUS
<1>4. /\ Backed /\ HeadFunded(plan) /\ OpeningFunded(plan)
  BY DEF FundsInv
<1>5. /\ tx.amount > 0 /\ Execute(tx)
  BY <1>1, <1>2, ExecuteFacts
<1>6. tx.do \in Dos /\ tx.amount \in Nat
  BY <1>2 DEF Txs
<1>7. plan' # <<>> => plan' = q /\ Len(plan) > 1
  BY <1>2
<1>8. HeadFunded(unwinding)'
  BY <1>1 DEF HeadFunded
<1> HIDE DEF q
<1>9. CASE Closing(plan, owed, held, FALSE)
  <2>1. \A i \in 1..Len(plan) : plan[i].do \in {"repay", "withdraw"}
    BY <1>9 DEF Closing
  <2>2. tx.do \in {"repay", "withdraw"}
    BY <1>2, <2>1
  <2>3. Paid'
    BY <1>1, <1>2, <1>4, <1>5, <2>2, ClosingPays DEF HeadFunded
  <2>4. Backed' /\ HeadFunded(plan)'
    BY <2>3, PaidSuffices DEF Backed, HeadFunded
  <2>5. plan' # <<>> => plan'[1].do \in {"repay", "withdraw"}
    BY <1>2, <1>3, <1>7, <2>1
  <2>6. OpeningFunded(plan)'
    BY <2>5 DEF OpeningFunded
  <2> QED BY <1>8, <2>4, <2>6
<1>10. CASE Opening(plan, owed, FALSE)
  <2>1. CASE Len(plan) = 1
    <3>1. tx.do = "deposit" /\ owed = tx.amount /\ plan' = <<>>
      BY <1>2, <1>7, <1>10, <2>1 DEF Opening
    <3>2. held >= 2
      BY <1>4, <2>1, <3>1 DEF OpeningFunded
    <3>3. Backed'
      BY <1>1, <1>2, <1>5, <3>1, <3>2, RedepositBacks
    <3> QED BY <1>8, <3>1, <3>3 DEF HeadFunded, OpeningFunded
  <2>2. CASE Len(plan) = 2
    <3>1. tx.do = "borrow" /\ owed = 0 /\ plan[2].do = "deposit"
      BY <1>2, <1>10, <2>2 DEF Opening
    <3>2. held >= 2
      BY <1>4, <2>2, <3>1 DEF OpeningFunded
    <3>3. Paid' /\ cTokens' = cTokens
      BY <1>1, <1>2, <1>5, <3>1, BorrowPays
    <3>4. Backed' /\ HeadFunded(plan)'
      BY <3>3 DEF Backed, HeadFunded
    <3>5. plan' # <<>> => plan'[1].do = "deposit" /\ Len(plan') = 1
      <4>1. Len(q) = 1 /\ q[1] = plan[2]
        <5>1. Len(q) = 1 /\ 1 \in 1..Len(q)
          BY <1>2, <2>2
        <5>2. q[1] = plan[1 + 1]
          BY <1>2, <5>1
        <5> QED BY <1>3, <5>1, <5>2
      <4> QED BY <1>7, <3>1, <4>1
    <3>6. OpeningFunded(plan)'
      <4>1. cTokens'[Looper] >= 2
        BY <3>2, <3>3
      <4>2. plan' # <<>> => plan'[1].do # "borrow" /\ Len(plan') # 3
        BY <3>5
      <4> QED BY <4>1, <4>2 DEF OpeningFunded
    <3>7. HeadFunded(unwinding)'
      BY <1>8
    <3> QED BY <3>4, <3>6, <3>7
  <2>3. CASE Len(plan) = 3
    <3>1. /\ tx.do = "deposit" /\ owed = 0 /\ plan[2].do = "borrow"
      BY <1>2, <1>10, <2>3 DEF Opening
    <3> DEFINE l == plan[2].amount
    <3>2. tx.amount >= MinIdle /\ l > 0 /\ l * HFFloor <= tx.amount * Percent
      BY <1>4, <2>3, <3>1 DEF OpeningFunded
    <3>3. l \in Nat \ {0}
      <4>1. plan[2] \in Txs
        BY <1>2, <1>3, <2>3
      <4>2. l \in Nat
        BY <4>1 DEF Txs
      <4> QED BY <3>2, <4>2
    <3> HIDE DEF l
    <3>4. /\ cTokens'[Looper] >= 2
          /\ (CollateralValue(Looper)' * BPS) \div l >= HFMin
      BY <1>1, <1>2, <1>5, <3>1, <3>2, <3>3, FirstDepositCovers
    <3>5. debt' = debt /\ cash'[Looper] \in Nat
      BY <1>1, <1>2, <1>5, <3>1, DepositFacts
    <3>6. Paid'
      BY <1>1, <3>1, <3>5 DEF Paid
    <3>7. Backed' /\ HeadFunded(plan)'
      BY <3>6 DEF Backed, HeadFunded
    <3>8. plan' # <<>> => plan'[1].do = "borrow" /\ plan'[1].amount = l
      BY <1>2, <1>3, <1>7, <2>3, <3>1 DEF l
    <3>9. plan' # <<>> => plan'[1].amount > 0 /\ Covers(Looper, plan[1].amount)'
      BY <3>3, <3>4, <3>8 DEF Covers
    <3>10. OpeningFunded(plan)'
      BY <3>4, <3>8, <3>9 DEF OpeningFunded
    <3> QED BY <1>8, <3>7, <3>10
  <2> QED BY <1>2, <2>1, <2>2, <2>3
<1> QED BY <1>1, <1>9, <1>10

\* A transaction of the operator's script.
LEMMA ScriptFunds ==
  ASSUME LooperInv, FundsInv, unwinding # <<>>, Execute(Head(unwinding)),
         UNCHANGED <<plan, crossed, recalled>>
  PROVE  FundsInv'
<1> SUFFICES ASSUME ~crossed
             PROVE  /\ Backed' /\ HeadFunded(plan)' /\ HeadFunded(unwinding)'
                    /\ OpeningFunded(plan)'
  BY DEF FundsInv
<1> DEFINE tx == unwinding[1]
<1>1. /\ Inv /\ recalled \in Nat /\ recalled' = recalled /\ Sendable(unwinding)
      /\ Closing(unwinding, debt[Looper], cTokens[Looper], crossed)
      /\ plan' = <<>> /\ HeadFunded(unwinding)
  BY DEF LooperInv, Tallies, UnwindFits, FundsInv
<1>2. Head(unwinding) = tx /\ tx \in Txs /\ Len(unwinding) \in Nat \ {0}
  BY <1>1, TailFacts DEF Sendable
<1>3. Execute(tx) /\ tx.amount > 0
  BY <1>1, <1>2, ExecuteFacts
<1>4. tx.do \in {"repay", "withdraw"}
  BY <1>1, <1>2 DEF Closing
<1>5. Paid'
  BY <1>1, <1>2, <1>3, <1>4, ClosingPays DEF HeadFunded
<1> QED BY <1>1, <1>5 DEF Backed, HeadFunded, OpeningFunded

\* A step that leaves the strategy's position alone, and at most drops a plan.
LEMMA QuietFunds ==
  ASSUME Inv, Inv', FundsInv, UNCHANGED crossed,
         debt'[Looper] = debt[Looper], cTokens'[Looper] = cTokens[Looper],
         Paid => Paid', RateHolds,
         Sendable(plan), Sendable(unwinding),
         plan' = plan \/ plan' = <<>>, unwinding' = unwinding \/ unwinding' = <<>>
  PROVE  FundsInv'
<1> SUFFICES ASSUME ~crossed
             PROVE  /\ Backed' /\ HeadFunded(plan)' /\ HeadFunded(unwinding)'
                    /\ OpeningFunded(plan)'
  BY DEF FundsInv
<1>1. Backed /\ HeadFunded(plan) /\ HeadFunded(unwinding) /\ OpeningFunded(plan)
  BY DEF FundsInv
<1>2. /\ debt[Looper] \in Nat /\ cTokens[Looper] \in Nat /\ Looper \in Owners
      /\ totalLiquidity \in Nat /\ totalCollateral \in Nat
      /\ totalLiquidity' \in Nat /\ totalCollateral' \in Nat
      /\ cTokens[Looper] > 0 => totalCollateral > 0 /\ totalLiquidity > 0
  <2>1. totalLiquidity' \in Nat /\ totalCollateral' \in Nat
    BY DEF Inv, TypeOK
  <2> QED BY <2>1, Position, LooperAssumption
<1>3. ASSUME NEW k \in Nat, Yields(k)
      PROVE  cTokens'[Looper] > 0 /\ debt'[Looper] * totalCollateral' <= k * totalLiquidity'
  <2> DEFINE d == debt[Looper]
             L == totalLiquidity
             C == totalCollateral
             L2 == totalLiquidity'
             C2 == totalCollateral'
  <2>1. /\ d \in Nat /\ L \in Nat \ {0} /\ C \in Nat /\ L2 \in Nat /\ C2 \in Nat
        /\ d * C <= k * L /\ C > 0
    <3>1. d * C <= k * L /\ cTokens[Looper] > 0
      BY <1>3 DEF Yields
    <3> QED BY <1>2, <3>1
  <2>2. L2 * C >= L * C2
    BY <2>1 DEF RateHolds
  <2> HIDE DEF d, L, C, L2, C2
  <2>3. L2 * C \in Nat /\ L * C2 \in Nat
    BY <2>1, ProductNat
  <2>4. L * C2 <= L2 * C
    BY <2>2, <2>3
  <2>5. d * C2 <= k * L2
    BY <2>1, <2>4, RatioKept
  <2>6. cTokens'[Looper] > 0
    BY <1>3 DEF Yields
  <2> QED BY <2>5, <2>6 DEF d, L2, C2
<1>4. Backed'
  <2>1. CASE Paid
    BY <2>1 DEF Backed
  <2>2. CASE Yields(cTokens[Looper] - 1)
    <3> DEFINE k == cTokens[Looper] - 1
    <3>1. k \in Nat
      BY <1>2, <2>2 DEF Yields
    <3>2. k = cTokens'[Looper] - 1 /\ Yields(k)
      BY <2>2
    <3> HIDE DEF k
    <3>3. cTokens'[Looper] > 0 /\ debt'[Looper] * totalCollateral' <= k * totalLiquidity'
      BY <1>3, <3>1, <3>2
    <3> QED BY <3>2, <3>3 DEF Backed, Yields
  <2> QED BY <1>1, <2>1, <2>2 DEF Backed
<1>5. ASSUME NEW p, p = <<>> \/ (Sendable(p) /\ HeadFunded(p))
      PROVE  p # <<>> /\ p[1].amount > 0 =>
               /\ p[1].do = "withdraw" =>
                    \/ Paid'
                    \/ /\ cTokens'[Looper] > 0
                       /\ debt'[Looper] * totalCollateral' <= p[1].amount * totalLiquidity'
               /\ p[1].do = "repay" => Paid'
  <2> SUFFICES ASSUME p # <<>>, p[1].amount > 0
               PROVE  /\ p[1].do = "withdraw" =>
                           \/ Paid'
                           \/ /\ cTokens'[Looper] > 0
                              /\ debt'[Looper] * totalCollateral' <= p[1].amount * totalLiquidity'
                      /\ p[1].do = "repay" => Paid'
    OBVIOUS
  <2>1. HeadFunded(p) /\ p[1] \in Txs
    BY <1>5, TailFacts DEF Sendable
  <2>2. p[1].amount \in Nat
    BY <2>1 DEF Txs
  <2> QED BY <1>3, <2>1, <2>2 DEF HeadFunded
<1>6. HeadFunded(plan)'
  BY <1>1, <1>5 DEF HeadFunded, Yields
<1>7. HeadFunded(unwinding)'
  BY <1>1, <1>5 DEF HeadFunded, Yields
<1>8. OpeningFunded(plan)'
  <2>1. CASE plan' = <<>>
    BY <2>1 DEF OpeningFunded
  <2>2. CASE plan' = plan /\ plan # <<>>
    <3>1. ASSUME plan[1].do = "borrow"
          PROVE  Covers(Looper, plan[1].amount)'
      <4> DEFINE d == plan[1].amount
      <4>1. /\ d > 0 /\ cTokens[Looper] >= 2 /\ Covers(Looper, d)
        BY <1>1, <2>2, <3>1 DEF OpeningFunded
      <4>2. d \in Nat
        <5>1. plan[1] \in Txs
          BY <2>2, TailFacts DEF Sendable
        <5> QED BY <5>1 DEF Txs
      <4>3. d = plan'[1].amount
        BY <2>2
      <4>4. /\ totalCollateral > 0 /\ cTokens'[Looper] >= cTokens[Looper]
            /\ totalLiquidity' * totalCollateral >= totalLiquidity * totalCollateral'
        BY <1>2, <4>1 DEF RateHolds
      <4> HIDE DEF d
      <4>5. d \in Nat \ {0} /\ d <= d
        BY <4>1, <4>2
      <4>6. (CollateralValue(Looper)' * BPS) \div d >= HFMin
        BY <1>2, <4>1, <4>4, <4>5, CoverKept
      <4> QED BY <4>3, <4>6 DEF Covers
    <3> QED BY <1>1, <2>2, <3>1 DEF OpeningFunded
  <2> QED BY <2>1, <2>2
<1> QED BY <1>4, <1>6, <1>7, <1>8

\* Nothing happens at the market, and the vault takes nothing.
LEMMA StillFunds ==
  ASSUME LooperInv, UNCHANGED marketVars, UNCHANGED recalled
  PROVE  /\ Inv' /\ debt'[Looper] = debt[Looper] /\ cTokens'[Looper] = cTokens[Looper]
         /\ Paid => Paid'
         /\ RateHolds
<1>1. Inv /\ UNCHANGED <<totalLiquidity, totalCollateral, debt, cTokens, cash>>
  BY DEF LooperInv, marketVars, reserveVars
<1>2. Inv'
  BY <1>1, MarketStays
<1>3. totalLiquidity * totalCollateral \in Nat
  BY <1>1, Position, ProductNat
<1>4. RateHolds
  BY <1>1, <1>3 DEF RateHolds
<1> QED BY <1>1, <1>2, <1>4 DEF Paid

\* A decision of the agent, and the start of the script.
LEMMA PlanFunds ==
  ASSUME LooperInv, FundsInv, UNCHANGED marketVars, UNCHANGED recalled, Crossing,
         \/ /\ UNCHANGED unwinding
            /\ \E idle \in Nat, held \in {0, cTokens[Looper]} : plan' = Decide(idle, held)
         \/ UNCHANGED plan /\ unwinding' = ClosePlan(debt[Looper], cTokens[Looper])
  PROVE  FundsInv'
<1> SUFFICES ASSUME ~crossed'
             PROVE  /\ Backed' /\ HeadFunded(plan)' /\ HeadFunded(unwinding)'
                    /\ OpeningFunded(plan)'
  BY DEF FundsInv
<1>1. /\ Inv /\ recalled \in Nat /\ ~crossed
  BY DEF LooperInv, Tallies, Crossing
<1>2. Backed /\ HeadFunded(plan) /\ HeadFunded(unwinding) /\ OpeningFunded(plan)
  BY <1>1 DEF FundsInv
<1>3. /\ UNCHANGED <<totalLiquidity, totalCollateral, debt, cTokens, cash>>
  BY DEF marketVars, reserveVars
<1>4. HeadFunded(plan') /\ OpeningFunded(plan') /\ HeadFunded(unwinding')
  <2>1. CASE /\ UNCHANGED unwinding
             /\ \E idle \in Nat, held \in {0, cTokens[Looper]} : plan' = Decide(idle, held)
    BY <1>1, <1>2, <2>1, DecideFunded
  <2>2. CASE UNCHANGED plan /\ unwinding' = ClosePlan(debt[Looper], cTokens[Looper])
    <3>1. HeadFunded(ClosePlan(debt[Looper], cTokens[Looper]))
      BY <1>1, <1>2, CloseFunded
    <3> QED BY <1>2, <2>2, <3>1
  <2> QED BY <2>1, <2>2
<1>5. Paid' <=> Paid
  BY <1>3 DEF Paid
<1>6. Backed'
  BY <1>2, <1>3, <1>5 DEF Backed, Yields
<1>7. HeadFunded(plan)' /\ HeadFunded(unwinding)'
  BY <1>3, <1>4, <1>5 DEF HeadFunded, Yields
<1>8. OpeningFunded(plan)'
  BY <1>3, <1>4 DEF OpeningFunded, Covers, CollateralValue
<1> QED BY <1>6, <1>7, <1>8

\* What the vault takes during a loan counts as paid.
LEMMA VaultFunds ==
  ASSUME LooperInv, NEW amount \in Nat, VaultAllocates(amount) \/ VaultRecalls(amount)
  PROVE  (Paid => Paid') /\ RateHolds
<1>1. /\ Looper \in Owners /\ cash \in [Owners -> Nat] /\ debt[Looper] \in Nat
      /\ recalled \in Nat /\ totalLiquidity \in Nat /\ totalCollateral \in Nat
  BY LooperAssumption, Numbers, Position DEF LooperInv, Tallies
<1>2. UNCHANGED <<totalLiquidity, totalCollateral, debt>>
  BY DEF VaultAllocates, VaultRecalls, reserveVars
<1>3. RateHolds
  BY <1>1, <1>2, ProductNat DEF RateHolds
<1>4. CASE VaultAllocates(amount)
  <2>1. cash' = Put(cash, Looper, cash[Looper] + amount) /\ recalled' = recalled
    BY <1>4 DEF VaultAllocates, Put
  <2>2. cash'[Looper] = cash[Looper] + amount
    BY <1>1, <2>1 DEF Put
  <2> QED BY <1>1, <1>2, <1>3, <2>1, <2>2 DEF Paid
<1>5. CASE VaultRecalls(amount)
  <2>1. /\ cash' = Put(cash, Looper, cash[Looper] - amount) /\ amount <= cash[Looper]
        /\ recalled' = IF debt[Looper] > 0 THEN recalled + amount ELSE recalled
    BY <1>5 DEF VaultRecalls, CanRecall, Put
  <2>2. cash'[Looper] = cash[Looper] - amount
    BY <1>1, <2>1 DEF Put
  <2>3. CASE debt[Looper] > 0
    BY <1>1, <1>2, <1>3, <2>1, <2>2, <2>3 DEF Paid
  <2>4. CASE ~(debt[Looper] > 0)
    BY <1>1, <1>2, <1>3, <2>1, <2>2, <2>4 DEF Paid
  <2> QED BY <2>3, <2>4
<1> QED BY <1>4, <1>5

\* Another participant's instruction leaves the strategy's tokens alone, and
\* the rate no lower.
LEMMA TradeFunds ==
  ASSUME LooperInv, NEW amount \in Amounts,
         \/ SimulateYield(amount) /\ UNCHANGED recalled
         \/ \E o \in Owners \ {Looper} : OthersTrade(o, amount)
  PROVE  (Paid => Paid') /\ RateHolds
<1>1. /\ Inv /\ Looper \in Owners /\ amount \in Nat
      /\ cash \in [Owners -> Nat] /\ cTokens \in [Owners -> Nat]
  BY LooperAssumption, MarketAssumption, Numbers DEF LooperInv
<1>2. CASE SimulateYield(amount) /\ UNCHANGED recalled
  <2>1. Next /\ UNCHANGED <<debt, cash>>
    BY <1>2 DEF Next, SimulateYield
  <2>2. RateHolds
    BY <1>1, <2>1, RateStep DEF RateHolds
  <2> QED BY <1>2, <2>1, <2>2 DEF Paid
<1>3. CASE \E o \in Owners \ {Looper} : OthersTrade(o, amount)
  <2>1. PICK o \in Owners \ {Looper} : OthersTrade(o, amount)
    BY <1>3
  <2>2. RedeemCollateral(o, amount) => amount \in 1..cTokens[o]
    BY <1>1 DEF RedeemCollateral
  <2>3. OwnerStep(o)
    BY <2>1, <2>2 DEF OthersTrade, OwnerStep
  <2>4. Next
    BY <2>3 DEF Next
  <2>5. RateHolds
    BY <1>1, <2>4, RateStep DEF RateHolds
  <2>6. /\ debt'[Looper] = debt[Looper] /\ UNCHANGED recalled
    BY <1>1, <2>1, TradeFacts
  <2>7. cash'[Looper] = cash[Looper]
    <3>1. \E v : cash' = Put(cash, o, v)
      BY <2>1 DEF OthersTrade, DepositLiquidity, RedeemCollateral, BorrowLiquidity,
                  RepayLiquidity, Put
    <3> QED BY <1>1, <3>1 DEF Put
  <2> QED BY <2>5, <2>6, <2>7 DEF Paid
<1> QED BY <1>2, <1>3

\* The vault, the market's other participants and the operator.
LEMMA EventFunds ==
  ASSUME LooperInv, LooperInv', FundsInv, Event
  PROVE  FundsInv'
<1>1. Inv /\ Inv' /\ Sendable(plan) /\ Sendable(unwinding)
  BY DEF LooperInv
<1>2. CASE Restart
  <2>1. UNCHANGED marketVars /\ UNCHANGED <<plan, unwinding, recalled, crossed>>
    BY <1>2 DEF Restart
  <2> QED BY <1>1, <2>1, StillFunds, QuietFunds
<1>3. CASE StartUnwind /\ UNCHANGED qualifies
  <2>1. /\ UNCHANGED marketVars /\ UNCHANGED recalled /\ Crossing /\ UNCHANGED plan
        /\ unwinding' = ClosePlan(debt[Looper], cTokens[Looper])
    BY <1>3 DEF StartUnwind, UnwindPlan
  <2> QED BY <2>1, PlanFunds
<1>4. ASSUME NEW amount \in Amounts,
             \/ VaultAllocates(amount)
             \/ VaultRecalls(amount)
             \/ SimulateYield(amount) /\ UNCHANGED <<book, recalled>>
             \/ \E o \in Owners \ {Looper} : OthersTrade(o, amount),
             UNCHANGED <<plan, unwinding, crossed>>
      PROVE  FundsInv'
  <2>1. amount \in Nat
    BY MarketAssumption
  <2>2. (Paid => Paid') /\ RateHolds
    BY <1>4, <2>1, VaultFunds, TradeFunds
  <2>3. debt'[Looper] = debt[Looper] /\ cTokens'[Looper] = cTokens[Looper]
    <3>1. CASE VaultAllocates(amount) \/ VaultRecalls(amount)
      BY <3>1 DEF VaultAllocates, VaultRecalls
    <3>2. CASE SimulateYield(amount)
      BY <3>2 DEF SimulateYield
    <3>3. CASE \E o \in Owners \ {Looper} : OthersTrade(o, amount)
      BY <1>1, <2>1, <3>3, TradeFacts
    <3> QED BY <1>4, <3>1, <3>2, <3>3
  <2> QED BY <1>1, <1>4, <2>2, <2>3, QuietFunds
<1> QED BY <1>2, <1>3, <1>4 DEF Event

\* One case per step of the agent, the script and the others.
LEMMA FundsStep ==
  ASSUME LooperInv, FundsInv, RateModest, [LooperNext]_looperVars
  PROVE  FundsInv'
<1>1. /\ LooperInv' /\ Inv /\ Sendable(plan) /\ Sendable(unwinding)
      /\ cash[Looper] \in Nat /\ cTokens[Looper] \in Nat
  BY LooperStep, Position DEF LooperInv
<1>2. ASSUME UNCHANGED marketVars, UNCHANGED <<recalled, crossed>>,
             plan' = plan \/ plan' = <<>>, unwinding' = unwinding \/ unwinding' = <<>>
      PROVE  FundsInv'
  BY <1>1, <1>2, StillFunds, QuietFunds
<1>3. CASE Poll \/ PollMisread
  <2>1. /\ UNCHANGED marketVars /\ UNCHANGED recalled /\ Crossing /\ UNCHANGED unwinding
        /\ \E idle \in Nat, held \in {0, cTokens[Looper]} : plan' = Decide(idle, held)
    BY <1>1, <1>3 DEF Poll, PollMisread
  <2> QED BY <2>1, PlanFunds
<1>4. CASE TxSucceeds
  BY <1>1, <1>4, AgentFunds DEF TxSucceeds
<1>5. CASE TxRefused \/ UnwindRefused
  BY <1>2, <1>5 DEF TxRefused, UnwindRefused, AfterFailure
<1>6. CASE TxLost
  <2>1. /\ plan # <<>> /\ (Execute(Head(plan)) \/ UNCHANGED marketVars) /\ plan' = <<>>
        /\ UNCHANGED <<unwinding, crossed, recalled>>
    BY <1>6 DEF TxLost, AfterFailure
  <2> QED BY <1>1, <1>2, <2>1, AgentFunds
<1>7. CASE UnwindSucceeds
  BY <1>7, ScriptFunds DEF UnwindSucceeds
<1>8. CASE UnwindLost
  <2>1. /\ unwinding # <<>> /\ (Execute(Head(unwinding)) \/ UNCHANGED marketVars)
        /\ unwinding' = <<>> /\ UNCHANGED <<plan, crossed, recalled>>
    BY <1>8 DEF UnwindLost
  <2> QED BY <1>2, <2>1, ScriptFunds
<1>9. CASE Event
  BY <1>1, <1>9, EventFunds
<1>10. CASE UNCHANGED looperVars
  BY <1>2, <1>10 DEF looperVars
<1> QED BY <1>3, <1>4, <1>5, <1>6, <1>7, <1>8, <1>9, <1>10
        DEF LooperNext, AgentStep, UnwindStep

\* Loans and repayments stay funded, whoever trades, fails or is interrupted.
THEOREM FundsInvariant == LooperSpec /\ []RateModest => []FundsInv
<1>1. LooperInit => FundsInv
  <2> SUFFICES ASSUME LooperInit PROVE FundsInv
    OBVIOUS
  <2>1. /\ plan = <<>> /\ unwinding = <<>> /\ debt[Looper] = 0 /\ recalled = 0
        /\ cash[Looper] = 0
    BY LooperAssumption DEF LooperInit
  <2> QED BY <2>1 DEF FundsInv, Backed, Paid, HeadFunded, OpeningFunded
<1>2. LooperInv /\ RateModest /\ FundsInv /\ [LooperNext]_looperVars => FundsInv'
  BY FundsStep
<1> QED BY <1>1, <1>2, LooperInvariant, PTL DEF LooperSpec

\* The market's own health check never refuses the loan the agent asks for after
\* its deposit, at any rate, leverage and amount, while a cToken's worth is small
\* against the least balance a loop is opened with.
THEOREM LoanIsGranted == LooperSpec /\ []RateModest => []LoanPassesHealthCheck
<1>1. LooperInv /\ FundsInv => LoanPassesHealthCheck
  <2> SUFFICES ASSUME LooperInv, FundsInv, NextIs("borrow"), ~crossed
               PROVE  HealthyAfterBorrow(Looper, Head(plan).amount)
    BY DEF LoanPassesHealthCheck
  <2>1. /\ plan # <<>> /\ Sendable(plan) /\ Inv
        /\ PlanFits(plan, debt[Looper], cTokens[Looper], crossed)
    BY DEF NextIs, LooperInv
  <2>2. /\ Head(plan) = plan[1] /\ Len(plan) \in Nat \ {0} /\ plan[1] \in Txs
    BY <2>1, TailFacts DEF Sendable
  <2>3. plan[1].do = "borrow" /\ plan[1].amount \in Nat
    BY <2>2 DEF NextIs, Txs
  <2>4. Opening(plan, debt[Looper], crossed)
    BY <2>1, <2>2, <2>3 DEF PlanFits, Closing
  <2>5. debt[Looper] = 0
    BY <2>2, <2>3, <2>4 DEF Opening
  <2>6. Covers(Looper, plan[1].amount)
    BY <2>1, <2>3 DEF FundsInv, OpeningFunded
  <2>7. debt[Looper] + plan[1].amount = plan[1].amount
    BY <2>3, <2>5
  <2> QED BY <2>2, <2>6, <2>7 DEF HealthyAfterBorrow
<1> QED BY <1>1, LooperInvariant, FundsInvariant, PTL

\* When the repayment is due, the withdrawal before it has brought in enough, at
\* any later rate, unless the vault took tokens back meanwhile.
THEOREM RepaymentIsFunded == LooperSpec /\ []RateModest => []RepaymentFunded
<1>1. LooperInv /\ FundsInv => RepaymentFunded
  <2> SUFFICES ASSUME LooperInv, FundsInv, NextIs("repay"), ~crossed
               PROVE  cash[Looper] + recalled >= Head(plan).amount
    BY DEF RepaymentFunded
  <2>1. /\ plan # <<>> /\ Sendable(plan) /\ Inv /\ recalled \in Nat /\ crossed = FALSE
        /\ PlanFits(plan, debt[Looper], cTokens[Looper], FALSE)
        /\ debt[Looper] \in Nat /\ cash[Looper] \in Nat
    BY Position DEF NextIs, LooperInv, Tallies
  <2>2. /\ Head(plan) = plan[1] /\ Len(plan) \in 1..3 /\ plan[1] \in Txs /\ plan \in Seq(Txs)
        /\ DOMAIN plan = 1..Len(plan)
    <3>1. plan \in Seq(Txs) /\ Len(plan) <= 3
      BY <2>1 DEF Sendable
    <3>2. /\ Head(plan) = plan[1] /\ Len(plan) \in Nat \ {0} /\ plan[1] \in Txs
          /\ DOMAIN plan = 1..Len(plan)
      BY <2>1, <3>1, TailFacts, LenProperties
    <3> QED BY <3>1, <3>2
  <2>3. plan[1].do = "repay" /\ plan[1].amount \in Nat
    BY <2>2 DEF NextIs, Txs
  <2>4. Closing(plan, debt[Looper], cTokens[Looper], FALSE)
    <3>1. ASSUME Opening(plan, debt[Looper], FALSE)
          PROVE  plan[1].do \in {"deposit", "borrow"}
      BY <2>2, <3>1 DEF Opening
    <3> QED BY <2>1, <2>3, <3>1 DEF PlanFits
  <2>5. CASE plan[1].amount = 0
    BY <2>1, <2>2, <2>5
  <2>6. CASE plan[1].amount # 0
    <3>1. Planned("repay", plan) = debt[Looper]
      BY <2>3, <2>4, <2>6 DEF Closing
    <3>2. /\ Planned("repay", plan) = At("repay", plan, 1) + Planned("repay", Tail(plan))
          /\ Planned("repay", Tail(plan)) \in Nat
      BY <2>1, <2>2, PlannedTail
    <3>3. At("repay", plan, 1) = plan[1].amount
      BY <2>2, <2>3 DEF At
    <3>4. plan[1].amount <= debt[Looper]
      BY <2>1, <2>3, <3>1, <3>2, <3>3
    <3>5. Paid
      BY <2>1, <2>3, <2>6 DEF FundsInv, HeadFunded
    <3> QED BY <2>1, <2>2, <2>3, <3>4, <3>5 DEF Paid
  <2> QED BY <2>5, <2>6
<1> QED BY <1>1, LooperInvariant, FundsInvariant, PTL
=============================================================================
