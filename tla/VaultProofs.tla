---------------------------- MODULE VaultProofs ----------------------------
(***************************************************************************)
(* The invariants and action properties of Vault, for every set of users   *)
(* and strategies, every scale and every choice of inputs.                 *)
(***************************************************************************)
EXTENDS Vault, ArithmeticTheorems

-----------------------------------------------------------------------------
(***************************************************************************)
(* What the vault's arithmetic guarantees for every amount, supply and     *)
(* total, whatever the scale (BPS) and the virtual offset.                 *)
(***************************************************************************)
\* A deposit mints a natural number of shares and leaves the share price at
\* least as high: rounding down favours those who already hold shares.
LEMMA MintKeepsPrice ==
  ASSUME NEW amount \in Nat, NEW issued \in Nat, NEW total \in Nat
  PROVE  /\ SharesFor(amount, issued, total) \in Nat
         /\ PriceNotLower(total, issued, total + amount,
                          issued + SharesFor(amount, issued, total))
<1> DEFINE d == issued + VirtualShares
           s == SharesFor(amount, issued, total)
<1>1. d \in Nat \ {0} /\ total + 1 \in Nat \ {0}
  BY VirtualSharesAssumption
<1>2. amount * d \in Nat
  BY <1>1, ProductNat
<1>3. s \in Nat /\ s * (total + 1) <= amount * d
  BY <1>1, <1>2, FloorDivision DEF SharesFor
<1> HIDE DEF s
<1>4. (total + amount + 1) * d >= (total + 1) * (d + s)
  <2> HIDE DEF d
  <2> QED BY <1>1, <1>3
<1> QED BY <1>3, <1>4, VirtualSharesAssumption DEF PriceNotLower, s

\* Burning n of the shares pays a natural amount that never exceeds the total
\* on the books, and leaves the price of the remaining shares at least as high.
LEMMA BurnKeepsPrice ==
  ASSUME NEW issued \in Nat, NEW n \in 0..issued, NEW total \in Nat
  PROVE  /\ UnderlyingFor(n, issued, total) \in 0..total
         /\ PriceNotLower(total, issued, total - UnderlyingFor(n, issued, total),
                          issued - n)
<1> DEFINE d == issued + VirtualShares
           u == UnderlyingFor(n, issued, total)
<1>1. d \in Nat \ {0} /\ total + 1 \in Nat \ {0} /\ n \in Nat /\ n < d
  BY VirtualSharesAssumption
<1>2. n * (total + 1) \in Nat
  BY <1>1, ProductNat
<1>3. u \in Nat /\ u * d <= n * (total + 1)
  BY <1>1, <1>2, FloorDivision DEF UnderlyingFor
<1> HIDE DEF u
<1>4. u < total + 1
  <2> HIDE DEF d
  <2>1. n * (total + 1) < d * (total + 1)
    BY <1>1
  <2>2. u * d < (total + 1) * d
    BY <2>1, <1>1, <1>3, ProductNat
  <2> QED BY <2>2, <1>1, <1>3, ProductCancel
<1>5. (total - u + 1) * d >= (total + 1) * (d - n)
  <2> HIDE DEF d
  <2> QED BY <1>1, <1>3
<1> QED BY <1>3, <1>4, <1>5, VirtualSharesAssumption DEF PriceNotLower, u

\* Depositing and burning the shares at once never pays back more than was
\* put in: no profit from rounding.
THEOREM RoundTripNoProfit ==
  ASSUME NEW amount \in Nat, NEW issued \in Nat, NEW total \in Nat
  PROVE  LET s == SharesFor(amount, issued, total)
         IN  UnderlyingFor(s, issued + s, total + amount) <= amount
<1> DEFINE s == SharesFor(amount, issued, total)
           d == issued + VirtualShares
           u == UnderlyingFor(s, issued + s, total + amount)
<1>1. d \in Nat \ {0} /\ total + 1 \in Nat \ {0}
  BY VirtualSharesAssumption
<1>2. amount * d \in Nat
  BY <1>1, ProductNat
<1>3. s \in Nat /\ s * (total + 1) <= amount * d
  BY <1>1, <1>2, FloorDivision DEF SharesFor
<1> HIDE DEF s
<1>4. s * (total + amount + 1) \in Nat /\ s + d \in Nat \ {0}
  <2> HIDE DEF d
  <2> QED BY <1>1, <1>3, ProductNat
<1>5. u = (s * (total + amount + 1)) \div (s + d)
  BY <1>3, VirtualSharesAssumption DEF UnderlyingFor
<1> HIDE DEF u
<1>6. u \in Nat /\ u * (s + d) <= s * (total + amount + 1)
  <2> HIDE DEF d
  <2> QED BY <1>4, <1>5, FloorDivision
<1>7. u * (s + d) <= amount * (s + d)
  <2> HIDE DEF d
  <2>1. s * (total + amount + 1) = s * (total + 1) + amount * s
    BY <1>1, <1>3
  <2>2. amount * (s + d) = amount * s + amount * d
    BY <1>1, <1>3
  <2>3. u * (s + d) \in Nat /\ amount * s \in Nat /\ s * (total + 1) \in Nat
    BY <1>1, <1>3, <1>6, ProductNat
  <2> QED BY <1>2, <1>3, <1>6, <2>1, <2>2, <2>3
<1>8. u < amount + 1
  <2> HIDE DEF d
  <2>1. (amount + 1) * (s + d) = amount * (s + d) + (s + d)
    BY <1>1, <1>3
  <2>2. u * (s + d) < (amount + 1) * (s + d)
    BY <2>1, <1>4, <1>6, <1>7, ProductNat
  <2> QED BY <2>2, <1>4, <1>6, ProductCancel
<1> QED BY <1>6, <1>8 DEF u, s

\* The virtual offset at work (constants.rs:14-16): a deposit of amount rounds to
\* no share at all only when the books already hold VirtualShares times as
\* much, however few shares there are.
THEOREM ZeroSharesNeedsLargeTotal ==
  ASSUME NEW amount \in Nat, NEW issued \in Nat, NEW total \in Nat,
         SharesFor(amount, issued, total) = 0
  PROVE  amount * VirtualShares <= total
<1> DEFINE d == issued + VirtualShares
<1>1. d \in Nat \ {0} /\ total + 1 \in Nat \ {0} /\ VirtualShares \in Nat
  BY VirtualSharesAssumption
<1>2. amount * d \in Nat
  BY <1>1, ProductNat
<1>3. amount * d < total + 1
  BY <1>1, <1>2, FloorDivision DEF SharesFor
<1>4. amount * VirtualShares <= amount * d
  BY <1>1
<1> QED BY <1>1, <1>2, <1>3, <1>4, ProductNat

\* Nor does a depositor lose more than dust, whatever the books and the supply
\* have become before the deposit (audit #4): the loss of an immediate round
\* trip, less one base unit, stays below the price of one share.
THEOREM RoundTripLossBounded ==
  ASSUME NEW amount \in Nat, NEW issued \in Nat, NEW total \in Nat
  PROVE  LET s == SharesFor(amount, issued, total)
             u == UnderlyingFor(s, issued + s, total + amount)
         IN  (amount - u - 1) * (issued + s + VirtualShares) < total + 1
<1> DEFINE s == SharesFor(amount, issued, total)
           d == issued + VirtualShares
           e == issued + s + VirtualShares
           u == UnderlyingFor(s, issued + s, total + amount)
<1>1. d \in Nat \ {0} /\ total + 1 \in Nat \ {0}
  BY VirtualSharesAssumption
<1>2. amount * d \in Nat
  BY <1>1, ProductNat
<1>3. s \in Nat /\ amount * d < (s + 1) * (total + 1)
  BY <1>1, <1>2, FloorDivision DEF SharesFor
<1> HIDE DEF s
<1>4. e = s + d /\ e \in Nat \ {0} /\ s * (total + amount + 1) \in Nat
  BY <1>1, <1>3, ProductNat, VirtualSharesAssumption
<1>5. u = (s * (total + amount + 1)) \div e
  BY DEF UnderlyingFor
<1> HIDE DEF d, e, u
<1>6. u \in Nat /\ s * (total + amount + 1) < (u + 1) * e
  BY <1>4, <1>5, FloorDivision
<1>7. (amount - u - 1) * e = amount * e - (u + 1) * e
  BY <1>4, <1>6
<1>8. amount * e = amount * s + amount * d
  BY <1>1, <1>3, <1>4
<1>9. s * (total + amount + 1) = s * (total + 1) + amount * s
  BY <1>3
<1>10. (s + 1) * (total + 1) = s * (total + 1) + (total + 1)
  BY <1>3
<1>11. /\ amount * s \in Nat /\ s * (total + 1) \in Nat /\ (u + 1) * e \in Nat
       /\ (amount - u - 1) * e \in Int
  BY <1>1, <1>3, <1>4, <1>6, ProductNat
<1>12. (amount - u - 1) * e < total + 1
  BY <1>1, <1>2, <1>3, <1>6, <1>7, <1>8, <1>9, <1>10, <1>11
<1> QED BY <1>12 DEF u, s, e

-----------------------------------------------------------------------------
\* A portion of at most the whole is at most the quantity, and grows with bps.
LEMMA PortionBound ==
  ASSUME NEW x \in Nat, NEW bps \in 0..BPS
  PROVE  Portion(x, bps) \in 0..x
<1>1. BPS \in Nat \ {0} /\ bps \in Nat /\ x * bps \in Nat
  BY BPSAssumption, ProductNat
<1> DEFINE q == Portion(x, bps)
<1>2. q \in Nat /\ q * BPS <= x * bps
  BY <1>1, FloorDivision DEF Portion
<1> HIDE DEF q
<1>3. x * bps <= x * BPS
  BY <1>1
<1>4. (x + 1) * BPS = x * BPS + BPS
  BY <1>1
<1>5. q * BPS < (x + 1) * BPS
  BY <1>1, <1>2, <1>3, <1>4, ProductNat
<1>6. q < x + 1
  BY <1>1, <1>2, <1>5, ProductCancel
<1> QED BY <1>2, <1>6 DEF q

\* A larger weight or fee in basis points is a larger portion.
LEMMA PortionMono ==
  ASSUME NEW x \in Nat, NEW a \in Nat, NEW b \in Nat, a <= b
  PROVE  /\ Portion(x, a) \in Nat /\ Portion(x, b) \in Nat
         /\ Portion(x, a) <= Portion(x, b)
<1>1. BPS \in Nat \ {0} /\ x * a \in Nat /\ x * b \in Nat /\ x * a <= x * b
  BY BPSAssumption, ProductNat
<1> DEFINE p == Portion(x, a)
           q == Portion(x, b)
<1>2. /\ p \in Nat /\ p * BPS <= x * a
      /\ q \in Nat /\ x * b < (q + 1) * BPS
  BY <1>1, FloorDivision DEF Portion
<1> HIDE DEF p, q
<1>3. p * BPS < (q + 1) * BPS
  BY <1>1, <1>2, ProductNat
<1>4. p < q + 1
  BY <1>1, <1>2, <1>3, ProductCancel
<1> QED BY <1>2, <1>4 DEF p, q

\* The fee split of withdraw is exact: with the protocol's cut within the fee
\* and the fee within the whole, the three payments are natural numbers, none
\* underflows, and together they are the underlying amount.
THEOREM FeeSplitExact ==
  ASSUME NEW u \in Nat, NEW feeBps \in 0..BPS, NEW protocolBps \in 0..feeBps
  PROVE  /\ TreasuryFee(u, protocolBps) \in Nat
         /\ CuratorFee(u, feeBps, protocolBps) \in Nat
         /\ UserAmount(u, feeBps) \in Nat
         /\ TreasuryFee(u, protocolBps) + CuratorFee(u, feeBps, protocolBps)
              + UserAmount(u, feeBps) = u
<1>1. protocolBps \in Nat /\ feeBps \in Nat /\ protocolBps <= feeBps
  BY BPSAssumption
<1>2. Portion(u, feeBps) \in 0..u
  BY PortionBound
<1>3. Portion(u, protocolBps) \in Nat /\ Portion(u, protocolBps) <= Portion(u, feeBps)
  BY <1>1, PortionMono
<1> QED BY <1>2, <1>3 DEF TreasuryFee, CuratorFee, UserAmount

-----------------------------------------------------------------------------
(***************************************************************************)
(* The ledger.                                                             *)
(***************************************************************************)

\* What every proof below uses of the constants.
LEMMA Constants ==
  /\ IsFiniteSet(Users) /\ IsFiniteSet(Strategies) /\ IsFiniteSet(Wallets)
  /\ BPS \in Nat \ {0} /\ VirtualShares \in Nat \ {0} /\ MaxU64 \in Nat
  /\ Amounts \subseteq Nat /\ ExternalValues \subseteq Nat /\ WeightChoices \subseteq Nat
  /\ FeeChoices \subseteq Nat /\ ProtocolFees \subseteq Nat /\ PauseChoices \subseteq BOOLEAN
  /\ MaxFee \in 0..BPS /\ DefaultFee \in 0..MaxFee
  /\ Endowment \in Nat /\ OutsideSupply \in Nat /\ MaxRepeats \in Nat /\ MaxDonated \in Nat
  /\ Treasury \in Wallets /\ Curator \in Wallets /\ Outside \in Wallets
  /\ Users \subseteq Wallets
  /\ Endowments \in [Wallets -> Nat]
  /\ SumFunctionOnSet(Endowments, Wallets) <= MaxU64
<1>1. IsFiniteSet(Wallets)
  <2>1. IsFiniteSet(Users \cup {Treasury})
    BY SetsAssumption, FS_AddElement
  <2>2. IsFiniteSet((Users \cup {Treasury}) \cup {Curator})
    BY <2>1, FS_AddElement
  <2>3. IsFiniteSet(((Users \cup {Treasury}) \cup {Curator}) \cup {Outside})
    BY <2>2, FS_AddElement
  <2>4. Wallets = ((Users \cup {Treasury}) \cup {Curator}) \cup {Outside}
    BY DEF Wallets
  <2> QED BY <2>3, <2>4
<1>2. Endowments \in [Wallets -> Nat]
  BY BoundsAssumption DEF Endowments
<1> QED
  BY <1>1, <1>2, SetsAssumption, SupplyAssumption, BoundsAssumption, FeesAssumption,
     BPSAssumption, VirtualSharesAssumption DEF Wallets

-----------------------------------------------------------------------------
(***************************************************************************)
(* What each kind of step does to the quantities the invariants relate.    *)
(***************************************************************************)

\* What a deposit mints, pushes to strategies and leaves in the reserve.
LEMMA DepositFacts ==
  ASSUME TypeOK, NEW u \in Users, NEW amount \in Nat,
         NEW times \in [Strategies -> Nat], Deposit(u, amount, times)
  PROVE  LET minted == SharesFor(amount, supply, totalDeposited)
             push   == FanOut(amount, times)
         IN  /\ minted \in Nat /\ push \in [Strategies -> Nat]
             /\ Total(push) \in 0..amount
             /\ Total(allocated') = Total(allocated) + Total(push)
             /\ ata' \in [Strategies -> Nat]
             /\ allocated' \in [Strategies -> 0..MaxU64]
             /\ Total(ata') = Total(ata) + Total(push)
<1> DEFINE minted == SharesFor(amount, supply, totalDeposited)
           push   == FanOut(amount, times)
<1>1. minted \in Nat
  BY MintKeepsPrice DEF TypeOK
<1>2. push \in [Strategies -> Nat]
  <2> SUFFICES ASSUME NEW s \in Strategies
               PROVE  times[s] * Portion(amount, weight[s]) \in Nat
    BY DEF FanOut
  <2>1. Portion(amount, weight[s]) \in Nat
    BY PortionBound DEF TypeOK
  <2> QED BY <2>1, ProductNat
<1>3. Total(push) \in 0..amount
  <2>1. Total(push) \in Nat
    <3> HIDE DEF push
    <3> QED BY <1>2, Constants, SumType DEF Total
  <2>2. Total(push) <= amount
    BY DEF Deposit, MayDeposit, FanOutFits
  <2> QED BY <2>1, <2>2
<1>4. /\ allocated' = [s \in Strategies |-> allocated[s] + push[s]]
      /\ \A s \in Strategies : allocated[s] + push[s] <= MaxU64
      /\ ata' = [s \in Strategies |-> ata[s] + push[s]]
  BY DEF Deposit, MayDeposit
<1> HIDE DEF push
<1>5. /\ allocated \in [Strategies -> Nat] /\ ata \in [Strategies -> Nat]
      /\ allocated' \in [Strategies -> 0..MaxU64] /\ ata' \in [Strategies -> Nat]
  BY <1>2, <1>4, Constants DEF TypeOK
<1>6. /\ Total(allocated') = Total(allocated) + Total(push)
      /\ Total(ata') = Total(ata) + Total(push)
  BY <1>2, <1>4, <1>5, Constants, SumAdd DEF Total
<1> QED BY <1>1, <1>2, <1>3, <1>5, <1>6 DEF push

\* What a withdrawal owes is within the books, and what it pulls is the shortfall.
LEMMA WithdrawFacts ==
  ASSUME TypeOK, SharesBacked, NEW u \in Users, NEW n \in Nat,
         NEW pull \in [Strategies -> Nat], Withdraw(u, n, pull)
  PROVE  LET owed == UnderlyingFor(n, supply, totalDeposited)
         IN  /\ n \in 0..supply /\ owed \in 0..totalDeposited
             /\ Total(pull) = Shortfall(owed)
             /\ reserve' \in Nat
             /\ ata' \in [Strategies -> Nat]
             /\ allocated' \in [Strategies -> 0..MaxU64]
             /\ Total(allocated') = Total(allocated) - Total(pull)
             /\ Total(ata') = Total(ata) - Total(pull)
             /\ Total(pull) \in Nat /\ Total(ata') \in Nat /\ Total(allocated') \in Nat
<1> DEFINE owed == UnderlyingFor(n, supply, totalDeposited)
<1>1. n \in 0..supply
  <2>1. shares[u] <= SumFunctionOnSet(shares, Users)
    BY SumMember, Constants DEF TypeOK
  <2> QED BY <2>1 DEF SharesBacked, Withdraw, MayWithdraw, TypeOK
<1>2. owed \in 0..totalDeposited
  BY <1>1, BurnKeepsPrice DEF TypeOK
<1> HIDE DEF owed
<1>3. /\ Total(pull) = Shortfall(owed)
      /\ \A s \in Strategies : pull[s] <= ata[s] /\ pull[s] <= allocated[s]
      /\ allocated' = [s \in Strategies |-> allocated[s] - pull[s]]
      /\ ata' = [s \in Strategies |-> ata[s] - pull[s]]
      /\ reserve' = reserve + Total(pull) - owed
  BY DEF Withdraw, MayWithdraw, AutoPull, PulledBooks, owed
<1>4. /\ allocated \in [Strategies -> Nat] /\ ata \in [Strategies -> Nat]
      /\ allocated' \in [Strategies -> 0..MaxU64] /\ ata' \in [Strategies -> Nat]
  BY <1>3, Constants DEF TypeOK
<1>5. Total(pull) \in Nat /\ Total(ata') \in Nat /\ Total(allocated') \in Nat
  <2>1. allocated' \in [Strategies -> Nat]
    BY <1>4, Constants
  <2> QED BY <1>4, <2>1, Constants, SumType DEF Total
<1>6. reserve' \in Nat
  BY <1>2, <1>3, <1>5 DEF Shortfall, TypeOK
<1>7. /\ Total(allocated) = Total(allocated') + Total(pull)
      /\ Total(ata) = Total(ata') + Total(pull)
  <2>1. allocated' \in [Strategies -> Nat]
    BY <1>4, Constants
  <2>2. \A s \in Strategies : /\ allocated[s] = allocated'[s] + pull[s]
                              /\ ata[s] = ata'[s] + pull[s]
    BY <1>3, <1>4, Constants
  <2> QED BY <1>4, <2>1, <2>2, Constants, SumAdd DEF Total
<1> QED BY <1>1, <1>2, <1>3, <1>4, <1>5, <1>6, <1>7 DEF owed

\* Crediting an account adds as much to the sum and takes from nobody.
LEMMA CreditFacts ==
  ASSUME NEW w \in [Wallets -> Nat], NEW to \in Wallets, NEW amount \in Nat
  PROVE  /\ Credit(w, to, amount) \in [Wallets -> Nat]
         /\ Credit(w, to, amount)[to] = w[to] + amount
         /\ \A x \in Wallets : Credit(w, to, amount)[x] >= w[x]
         /\ SumFunctionOnSet(Credit(w, to, amount), Wallets)
              = SumFunctionOnSet(w, Wallets) + amount
<1> DEFINE c == Credit(w, to, amount)
<1>1. /\ c \in [Wallets -> Nat] /\ c[to] = w[to] + amount
      /\ \A x \in Wallets \ {to} : c[x] = w[x]
      /\ \A x \in Wallets : c[x] >= w[x]
  BY DEF Credit
<1> HIDE DEF c
<1>2. SumFunctionOnSet(c, Wallets) = SumFunctionOnSet(w, Wallets) - w[to] + c[to]
  BY <1>1, Constants, SumUpdate
<1>3. SumFunctionOnSet(w, Wallets) \in Nat /\ w[to] \in Nat
  BY Constants, SumType
<1>4. SumFunctionOnSet(c, Wallets) = SumFunctionOnSet(w, Wallets) + amount
  BY <1>1, <1>2, <1>3
<1> QED BY <1>1, <1>4 DEF c

\* A withdrawal pays natural amounts that add up to what leaves the reserve.
LEMMA PayOutFacts ==
  ASSUME TypeOK, NEW u \in Users, NEW owed \in Nat, performanceFee >= protocolFee
  PROVE  /\ PayOut(u, owed) \in [Wallets -> Nat]
         /\ SumFunctionOnSet(PayOut(u, owed), Wallets)
              = SumFunctionOnSet(wallet, Wallets) + owed
         /\ PayOut(u, owed)[u] - wallet[u] >= UserAmount(owed, performanceFee)
         /\ \A x \in Wallets : PayOut(u, owed)[x] >= wallet[x]
<1> DEFINE a == UserAmount(owed, performanceFee)
           t == TreasuryFee(owed, protocolFee)
           c == CuratorFee(owed, performanceFee, protocolFee)
           w1 == Credit(wallet, u, a)
           w2 == Credit(w1, Treasury, t)
           w3 == Credit(w2, Curator, c)
<1>1. a \in Nat /\ t \in Nat /\ c \in Nat /\ t + c + a = owed
  <2>1. performanceFee \in 0..BPS /\ protocolFee \in 0..performanceFee
    BY Constants DEF TypeOK
  <2> QED BY <2>1, FeeSplitExact
<1>2. PayOut(u, owed) = w3
  BY DEF PayOut
<1>3. /\ wallet \in [Wallets -> Nat] /\ u \in Wallets
      /\ Treasury \in Wallets /\ Curator \in Wallets
  BY Constants DEF TypeOK
<1> HIDE DEF a, t, c
<1>4. /\ w1 \in [Wallets -> Nat] /\ w1[u] = wallet[u] + a
      /\ \A x \in Wallets : w1[x] >= wallet[x]
      /\ SumFunctionOnSet(w1, Wallets) = SumFunctionOnSet(wallet, Wallets) + a
  BY <1>1, <1>3, CreditFacts
<1> HIDE DEF w1
<1>5. /\ w2 \in [Wallets -> Nat] /\ \A x \in Wallets : w2[x] >= w1[x]
      /\ SumFunctionOnSet(w2, Wallets) = SumFunctionOnSet(w1, Wallets) + t
  BY <1>1, <1>3, <1>4, CreditFacts
<1> HIDE DEF w2
<1>6. /\ w3 \in [Wallets -> Nat] /\ \A x \in Wallets : w3[x] >= w2[x]
      /\ SumFunctionOnSet(w3, Wallets) = SumFunctionOnSet(w2, Wallets) + c
  BY <1>1, <1>3, <1>5, CreditFacts
<1> HIDE DEF w3
<1>7. /\ SumFunctionOnSet(wallet, Wallets) \in Nat
      /\ \A x \in Wallets :
           wallet[x] \in Nat /\ w1[x] \in Nat /\ w2[x] \in Nat /\ w3[x] \in Nat
  BY <1>3, <1>4, <1>5, <1>6, Constants, SumType
<1>8. w3[u] - wallet[u] >= a
  BY <1>1, <1>3, <1>4, <1>5, <1>6, <1>7
<1>9. \A x \in Wallets : w3[x] >= wallet[x]
  BY <1>4, <1>5, <1>6, <1>7
<1> QED BY <1>1, <1>2, <1>4, <1>5, <1>6, <1>7, <1>8, <1>9 DEF a

-----------------------------------------------------------------------------
(***************************************************************************)
(* The inductive invariant.  Type correctness needs the other conjuncts: a *)
(* burn stays within the supply because every share has a holder, a weight *)
(* can be given back because the total is the sum of the weights, and a    *)
(* settled balance is a u64 because no token is ever created.              *)
(***************************************************************************)
Inv ==
  /\ TypeOK
  /\ BooksBalance
  /\ SharesBacked
  /\ WeightsWithinCap
  /\ InactiveIsEmpty
  /\ TokensConserved

\* A new vault satisfies the invariant.
LEMMA InitInv == Init => Inv
<1> SUFFICES ASSUME Init PROVE Inv
  OBVIOUS
<1>1. Nothing \in [Strategies -> Nat] /\ Total(Nothing) = 0
  <2>1. Nothing \in [Strategies -> Nat] /\ \A s \in Strategies : Nothing[s] = 0
    BY DEF Nothing
  <2> HIDE DEF Nothing
  <2> QED BY <2>1, Constants, SumZero DEF Total
<1>2. SumFunctionOnSet([u \in Users |-> 0], Users) = 0
  <2> DEFINE z == [u \in Users |-> 0]
  <2>1. z \in [Users -> Nat] /\ \A u \in Users : z[u] = 0
    OBVIOUS
  <2> HIDE DEF z
  <2>2. SumFunctionOnSet(z, Users) = 0
    BY <2>1, Constants, SumZero
  <2> QED BY <2>2 DEF z
<1>3. TypeOK
  <2>1. /\ reserve \in Nat /\ supply \in 0..MaxU64 /\ totalDeposited \in 0..MaxU64
        /\ donated \in 0..MaxDonated /\ totalWeight \in 0..BPS
    BY Constants DEF Init
  <2>2. /\ ata \in [Strategies -> Nat] /\ allocated \in [Strategies -> 0..MaxU64]
        /\ weight \in [Strategies -> 0..BPS]
    BY Constants DEF Init, Nothing
  <2>3. /\ wallet \in [Wallets -> Nat] /\ shares \in [Users -> Nat]
        /\ status \in [Strategies -> {"none", "active", "inactive"}]
    BY Constants DEF Init
  <2>4. paused \in BOOLEAN
    BY DEF Init
  <2>5. performanceFee \in 0..MaxFee /\ protocolFee \in 0..MaxFee
    BY Constants DEF Init
  <2> QED BY <2>1, <2>2, <2>3, <2>4, <2>5 DEF TypeOK
<1>4. BooksBalance
  BY <1>1 DEF Init, BooksBalance
<1>5. SharesBacked
  BY <1>2 DEF Init, SharesBacked
<1>6. WeightsWithinCap
  BY <1>1 DEF Init, WeightsWithinCap, Nothing
<1>7. InactiveIsEmpty
  BY DEF Init, InactiveIsEmpty, Nothing
<1>8. TokensConserved
  <2>1. SumFunctionOnSet(Endowments, Wallets) \in Nat
    BY Constants, SumType
  <2> QED BY <1>1, <2>1 DEF Init, TokensConserved
<1> QED BY <1>3, <1>4, <1>5, <1>6, <1>7, <1>8 DEF Inv

\* The sums of a state that satisfies Inv are natural numbers, and no balance
\* exceeds the supply of tokens.
LEMMA SumFacts ==
  ASSUME TypeOK
  PROVE  /\ Total(ata) \in Nat /\ Total(allocated) \in Nat /\ Total(weight) \in Nat
         /\ SumFunctionOnSet(wallet, Wallets) \in Nat
         /\ SumFunctionOnSet(shares, Users) \in Nat
         /\ SumFunctionOnSet(Endowments, Wallets) \in Nat
<1>1. /\ ata \in [Strategies -> Nat] /\ allocated \in [Strategies -> Nat]
      /\ weight \in [Strategies -> Nat] /\ wallet \in [Wallets -> Nat]
      /\ shares \in [Users -> Nat] /\ Endowments \in [Wallets -> Nat]
  BY Constants DEF TypeOK
<1> QED BY <1>1, Constants, SumType DEF Total

\* What adding d, of either sign, to one entry does to a sum over the
\* strategies, the users or the wallets.
Shift(f, x, d) == [f EXCEPT ![x] = @ + d]

\* What adding to one entry of a function does to its sum.
LEMMA ShiftFacts ==
  ASSUME NEW S, IsFiniteSet(S), NEW f \in [S -> Nat], NEW x \in S, NEW d \in Int,
         f[x] + d \in Nat
  PROVE  /\ Shift(f, x, d) \in [S -> Nat]
         /\ Shift(f, x, d)[x] = f[x] + d
         /\ \A s \in S \ {x} : Shift(f, x, d)[s] = f[s]
         /\ SumFunctionOnSet(Shift(f, x, d), S) = SumFunctionOnSet(f, S) + d
<1> DEFINE g == Shift(f, x, d)
<1>1. g \in [S -> Nat] /\ g[x] = f[x] + d /\ \A s \in S \ {x} : g[s] = f[s]
  BY DEF Shift
<1> HIDE DEF g
<1>2. SumFunctionOnSet(g, S) = SumFunctionOnSet(f, S) - f[x] + g[x]
  BY <1>1, SumUpdate
<1>3. SumFunctionOnSet(f, S) \in Nat /\ f[x] \in Nat
  BY SumType
<1>4. SumFunctionOnSet(g, S) = SumFunctionOnSet(f, S) + d
  BY <1>1, <1>2, <1>3
<1> QED BY <1>1, <1>4 DEF g

\* A deposit, whatever its fan-out list, keeps the invariant.
LEMMA DepositInv ==
  ASSUME Inv, NEW u \in Users, NEW amount \in Nat,
         NEW times \in [Strategies -> Nat], Deposit(u, amount, times)
  PROVE  Inv'
<1> DEFINE minted == SharesFor(amount, supply, totalDeposited)
           push   == FanOut(amount, times)
<1>1. TypeOK /\ BooksBalance /\ SharesBacked /\ InactiveIsEmpty /\ TokensConserved
  BY DEF Inv
<1>2. /\ minted \in Nat /\ push \in [Strategies -> Nat]
      /\ Total(push) \in 0..amount
      /\ Total(allocated') = Total(allocated) + Total(push)
      /\ ata' \in [Strategies -> Nat]
      /\ allocated' \in [Strategies -> 0..MaxU64]
      /\ Total(ata') = Total(ata) + Total(push)
  BY <1>1, DepositFacts
<1>3. /\ amount <= wallet[u]
      /\ supply + minted <= MaxU64 /\ totalDeposited + amount <= MaxU64
      /\ reserve' = reserve + amount - Total(push)
      /\ wallet' = [wallet EXCEPT ![u] = wallet[u] - amount]
      /\ shares' = [shares EXCEPT ![u] = shares[u] + minted]
      /\ supply' = supply + minted
      /\ totalDeposited' = totalDeposited + amount
      /\ allocated' = [s \in Strategies |-> allocated[s] + push[s]]
      /\ UNCHANGED <<strategyVars, configVars, donated>>
  BY DEF Deposit, MayDeposit
<1>4. \A s \in Strategies : ~Active(s) => push[s] = 0
  BY DEF FanOut
<1> HIDE DEF minted, push
<1>5. /\ wallet' \in [Wallets -> Nat]
      /\ SumFunctionOnSet(wallet', Wallets) = SumFunctionOnSet(wallet, Wallets) - amount
  <2>1. /\ wallet \in [Wallets -> Nat] /\ u \in Wallets /\ -amount \in Int
        /\ wallet[u] + -amount \in Nat
    BY <1>1, <1>3, Constants DEF TypeOK
  <2>2. wallet' = Shift(wallet, u, -amount)
    BY <1>3, <2>1 DEF Shift
  <2>3. /\ wallet' \in [Wallets -> Nat]
        /\ SumFunctionOnSet(wallet', Wallets)
             = SumFunctionOnSet(wallet, Wallets) + -amount
    BY <2>1, <2>2, Constants, ShiftFacts
  <2> QED BY <1>1, <2>3, SumFacts
<1>6. /\ shares' \in [Users -> Nat]
      /\ SumFunctionOnSet(shares', Users) = SumFunctionOnSet(shares, Users) + minted
  <2>1. /\ shares \in [Users -> Nat] /\ minted \in Int
        /\ shares[u] + minted \in Nat
    BY <1>1, <1>2 DEF TypeOK
  <2>2. shares' = Shift(shares, u, minted)
    BY <1>3 DEF Shift
  <2> QED BY <2>1, <2>2, Constants, ShiftFacts
<1>7. TypeOK'
  BY <1>1, <1>2, <1>3, <1>5, <1>6, Constants DEF TypeOK, strategyVars, configVars
<1>8. BooksBalance'
  BY <1>1, <1>2, <1>3, SumFacts DEF BooksBalance, TypeOK
<1>9. SharesBacked'
  BY <1>1, <1>3, <1>6 DEF SharesBacked
<1>10. WeightsWithinCap'
  BY <1>3 DEF Inv, WeightsWithinCap, strategyVars, Active, Total
<1>11. InactiveIsEmpty'
  <2> SUFFICES ASSUME NEW s \in Strategies, ~Active(s)' PROVE allocated'[s] = 0
    BY DEF InactiveIsEmpty
  <2>1. ~Active(s)
    BY <1>3 DEF Active, strategyVars
  <2>2. allocated[s] = 0 /\ push[s] = 0
    BY <1>1, <1>4, <2>1 DEF InactiveIsEmpty
  <2> QED BY <1>3, <2>2
<1>12. TokensConserved'
  BY <1>1, <1>2, <1>3, <1>5, SumFacts DEF TokensConserved, TypeOK
<1> QED BY <1>7, <1>8, <1>9, <1>10, <1>11, <1>12 DEF Inv

\* A withdrawal, whatever its auto-pull list, keeps the invariant.
LEMMA WithdrawInv ==
  ASSUME Inv, NEW u \in Users, NEW n \in Nat,
         NEW pull \in [Strategies -> Nat], Withdraw(u, n, pull)
  PROVE  Inv'
<1> DEFINE owed == UnderlyingFor(n, supply, totalDeposited)
<1>1. TypeOK /\ BooksBalance /\ SharesBacked /\ InactiveIsEmpty /\ TokensConserved
  BY DEF Inv
<1>2. /\ n \in 0..supply /\ owed \in 0..totalDeposited
      /\ reserve' \in Nat
      /\ ata' \in [Strategies -> Nat]
      /\ allocated' \in [Strategies -> 0..MaxU64]
      /\ Total(allocated') = Total(allocated) - Total(pull)
      /\ Total(ata') = Total(ata) - Total(pull)
      /\ Total(pull) \in Nat
  BY <1>1, WithdrawFacts
<1>3. /\ n <= shares[u] /\ performanceFee >= protocolFee
      /\ \A s \in Strategies : pull[s] <= allocated[s]
      /\ reserve' = reserve + Total(pull) - owed
      /\ wallet' = PayOut(u, owed)
      /\ shares' = [shares EXCEPT ![u] = shares[u] - n]
      /\ supply' = supply - n
      /\ totalDeposited' = totalDeposited - owed
      /\ allocated' = [s \in Strategies |-> allocated[s] - pull[s]]
      /\ UNCHANGED <<strategyVars, configVars, donated>>
  BY DEF Withdraw, MayWithdraw, AutoPull, PulledBooks
<1> HIDE DEF owed
<1>4. /\ wallet' \in [Wallets -> Nat]
      /\ SumFunctionOnSet(wallet', Wallets) = SumFunctionOnSet(wallet, Wallets) + owed
  <2>1. owed \in Nat
    BY <1>1, <1>2 DEF TypeOK
  <2> QED BY <1>1, <1>3, <2>1, PayOutFacts
<1>5. /\ shares' \in [Users -> Nat]
      /\ SumFunctionOnSet(shares', Users) = SumFunctionOnSet(shares, Users) - n
  <2>1. /\ shares \in [Users -> Nat] /\ -n \in Int
        /\ shares[u] + -n \in Nat
    BY <1>1, <1>3 DEF TypeOK
  <2>2. shares' = Shift(shares, u, -n)
    BY <1>3, <2>1 DEF Shift
  <2>3. /\ shares' \in [Users -> Nat]
        /\ SumFunctionOnSet(shares', Users) = SumFunctionOnSet(shares, Users) + -n
    BY <2>1, <2>2, Constants, ShiftFacts
  <2> QED BY <1>1, <2>3, SumFacts
<1>6. TypeOK'
  <2>1. supply' \in 0..MaxU64 /\ totalDeposited' \in 0..MaxU64
    BY <1>1, <1>2, <1>3, Constants DEF TypeOK
  <2> QED
    BY <1>1, <1>2, <1>3, <1>4, <1>5, <2>1 DEF TypeOK, strategyVars, configVars
<1>7. BooksBalance'
  BY <1>1, <1>2, <1>3, SumFacts DEF BooksBalance, TypeOK
<1>8. SharesBacked'
  BY <1>1, <1>3, <1>5 DEF SharesBacked
<1>9. WeightsWithinCap'
  BY <1>3 DEF Inv, WeightsWithinCap, strategyVars, Active, Total
<1>10. InactiveIsEmpty'
  <2> SUFFICES ASSUME NEW s \in Strategies, ~Active(s)' PROVE allocated'[s] = 0
    BY DEF InactiveIsEmpty
  <2>1. ~Active(s)
    BY <1>3 DEF Active, strategyVars
  <2>2. allocated[s] = 0 /\ pull[s] = 0
    BY <1>1, <1>3, <2>1 DEF InactiveIsEmpty
  <2> QED BY <1>3, <2>2
<1>11. TokensConserved'
  BY <1>1, <1>2, <1>3, <1>4, SumFacts DEF TokensConserved, TypeOK
<1> QED BY <1>6, <1>7, <1>8, <1>9, <1>10, <1>11 DEF Inv

\* The five instructions of the authority that move money are one: delta goes
\* from the reserve to an active strategy and onto its books, or back.
Moved(s, delta) ==
  /\ Active(s) /\ ~paused
  /\ delta \in Int
  /\ reserve - delta \in Nat /\ reserve' = reserve - delta
  /\ ata[s] + delta \in Nat /\ ata' = Shift(ata, s, delta)
  /\ allocated[s] + delta \in 0..MaxU64 /\ allocated' = Shift(allocated, s, delta)
  /\ BooksUntouched

\* Allocating is a movement of money between reserve and strategy.
LEMMA IntoStrategy ==
  ASSUME TypeOK, NEW s \in Strategies, NEW amount \in Nat, NEW value \in 0..MaxU64,
         value = allocated[s] + amount, Active(s), ~paused, amount <= reserve,
         ReserveToStrategy(s, amount), Rebook(s, value), BooksUntouched
  PROVE  \E delta \in Int : Moved(s, delta)
<1>1. /\ reserve \in Nat /\ ata \in [Strategies -> Nat] /\ ata[s] \in Nat
      /\ allocated \in [Strategies -> 0..MaxU64] /\ allocated[s] \in Nat
  BY Constants DEF TypeOK
<1>2. ata' = Shift(ata, s, amount) /\ allocated' = Shift(allocated, s, amount)
  BY DEF ReserveToStrategy, Rebook, Shift
<1>3. /\ reserve - amount \in Nat /\ reserve' = reserve - amount
      /\ ata[s] + amount \in Nat /\ allocated[s] + amount \in 0..MaxU64
  BY <1>1 DEF ReserveToStrategy
<1> QED BY <1>2, <1>3 DEF Moved

\* Deallocating is such a movement in the other direction.
LEMMA OutOfStrategy ==
  ASSUME TypeOK, NEW s \in Strategies, NEW amount \in Nat, NEW value \in 0..MaxU64,
         value = allocated[s] - amount, Active(s), ~paused, amount <= ata[s],
         StrategyToReserve(s, amount), Rebook(s, value), BooksUntouched
  PROVE  \E delta \in Int : Moved(s, delta)
<1> DEFINE delta == -amount
<1>1. /\ reserve \in Nat /\ ata \in [Strategies -> Nat] /\ ata[s] \in Nat
      /\ allocated \in [Strategies -> 0..MaxU64] /\ allocated[s] \in Nat
  BY Constants DEF TypeOK
<1>2. delta \in Int /\ ata[s] - amount = ata[s] + delta
      /\ allocated[s] - amount = allocated[s] + delta /\ reserve + amount = reserve - delta
  BY <1>1
<1> HIDE DEF delta
<1>3. ata' = Shift(ata, s, delta) /\ allocated' = Shift(allocated, s, delta)
  BY <1>2 DEF StrategyToReserve, Rebook, Shift
<1>4. /\ reserve - delta \in Nat /\ reserve' = reserve - delta
      /\ ata[s] + delta \in Nat /\ allocated[s] + delta \in 0..MaxU64
  BY <1>1, <1>2 DEF StrategyToReserve
<1> QED BY <1>2, <1>3, <1>4 DEF Moved

\* Allocate, deallocate and both forms of rebalancing are movements.
LEMMA MoneyMoves ==
  ASSUME Inv, NEW s \in Strategies,
         \/ RebalanceStrategy(s)
         \/ \E amount \in Nat : \/ AllocateToStrategy(s, amount)
                                \/ DeallocateFromStrategy(s, amount)
         \/ \E delta \in Int : RebalanceWithDelta(s, delta)
  PROVE  \E delta \in Int : Moved(s, delta)
<1>1. /\ TypeOK /\ allocated[s] \in 0..MaxU64 /\ MaxU64 \in Nat
  BY Constants DEF Inv, TypeOK
<1>2. ASSUME NEW amount \in Nat, AllocateToStrategy(s, amount)
      PROVE  \E delta \in Int : Moved(s, delta)
  <2>1. allocated[s] + amount \in 0..MaxU64
    BY <1>1, <1>2 DEF AllocateToStrategy, MayAllocate
  <2> QED BY <1>1, <1>2, <2>1, IntoStrategy DEF AllocateToStrategy, MayAllocate
<1>3. ASSUME NEW amount \in Nat, DeallocateFromStrategy(s, amount)
      PROVE  \E delta \in Int : Moved(s, delta)
  <2>1. Active(s)
    BY <1>3, <1>1 DEF DeallocateFromStrategy, Inv, InactiveIsEmpty
  <2>2. allocated[s] - amount \in 0..MaxU64
    BY <1>1, <1>3 DEF DeallocateFromStrategy
  <2> QED BY <1>1, <1>3, <2>1, <2>2, OutOfStrategy DEF DeallocateFromStrategy
<1>4. ASSUME NEW delta \in Int, RebalanceWithDelta(s, delta)
      PROVE  \E d \in Int : Moved(s, d)
  <2>1. /\ allocated[s] + delta \in 0..MaxU64 /\ Active(s) /\ ~paused
        /\ Rebook(s, allocated[s] + delta) /\ BooksUntouched
    BY <1>4 DEF RebalanceWithDelta
  <2>2. CASE delta > 0 /\ delta <= reserve /\ ReserveToStrategy(s, delta)
    BY <1>1, <2>1, <2>2, IntoStrategy
  <2>3. CASE delta < 0 /\ -delta <= ata[s] /\ StrategyToReserve(s, -delta)
    <3>1. -delta \in Nat /\ allocated[s] + delta = allocated[s] - (-delta)
      BY <1>1, <2>3
    <3> QED BY <1>1, <2>1, <2>3, <3>1, OutOfStrategy
  <2> QED BY <1>4, <2>2, <2>3 DEF RebalanceWithDelta
<1>5. ASSUME RebalanceStrategy(s)
      PROVE  \E delta \in Int : Moved(s, delta)
  <2> DEFINE target == RebalanceTarget(s)
  <2>1. target \in 0..MaxU64
    <3>1. weight[s] \in 0..BPS /\ totalDeposited \in 0..MaxU64
      BY DEF Inv, TypeOK
    <3>2. target \in 0..totalDeposited
      BY <1>1, <3>1, PortionBound DEF RebalanceTarget
    <3> QED BY <1>1, <3>1, <3>2
  <2>2. /\ Active(s) /\ ~paused /\ Rebook(s, target) /\ BooksUntouched
        /\ \/ target > allocated[s] /\ ReserveToStrategy(s, target - allocated[s])
           \/ target < allocated[s] /\ StrategyToReserve(s, allocated[s] - target)
        /\ \/ target - allocated[s] \in 1..reserve
           \/ allocated[s] - target \in 1..ata[s]
    BY <1>5 DEF RebalanceStrategy, MayRebalance
  <2>5. reserve \in Nat /\ ata[s] \in Nat
    BY <1>1 DEF TypeOK
  <2> HIDE DEF target
  <2>3. CASE target > allocated[s] /\ ReserveToStrategy(s, target - allocated[s])
    <3>1. /\ target - allocated[s] \in Nat /\ target = allocated[s] + (target - allocated[s])
          /\ target - allocated[s] <= reserve
      BY <1>1, <2>1, <2>2, <2>3, <2>5
    <3> QED BY <1>1, <2>1, <2>2, <2>3, <3>1, IntoStrategy
  <2>4. CASE target < allocated[s] /\ StrategyToReserve(s, allocated[s] - target)
    <3>1. /\ allocated[s] - target \in Nat /\ target = allocated[s] - (allocated[s] - target)
          /\ allocated[s] - target <= ata[s]
      BY <1>1, <2>1, <2>2, <2>4, <2>5
    <3> QED BY <1>1, <2>1, <2>2, <2>4, <3>1, OutOfStrategy
  <2> QED BY <2>2, <2>3, <2>4
<1> QED BY <1>2, <1>3, <1>4, <1>5

\* A movement between the reserve and an active strategy keeps the invariant.
LEMMA MovedInv ==
  ASSUME Inv, NEW s \in Strategies, NEW delta \in Int, Moved(s, delta)
  PROVE  Inv'
<1>1. TypeOK /\ BooksBalance /\ SharesBacked /\ InactiveIsEmpty /\ TokensConserved
  BY DEF Inv
<1>2. /\ Active(s) /\ reserve' \in Nat /\ reserve' = reserve - delta
      /\ UNCHANGED <<wallet, shareVars, totalDeposited, strategyVars, configVars, donated>>
  BY DEF Moved, BooksUntouched
<1>3. /\ ata' \in [Strategies -> Nat]
      /\ Total(ata') = Total(ata) + delta
  <2>1. ata \in [Strategies -> Nat] /\ ata[s] + delta \in Nat /\ ata' = Shift(ata, s, delta)
    BY <1>1 DEF TypeOK, Moved
  <2> QED BY <2>1, Constants, ShiftFacts DEF Total
<1>4. /\ allocated' \in [Strategies -> 0..MaxU64]
      /\ \A t \in Strategies \ {s} : allocated'[t] = allocated[t]
      /\ Total(allocated') = Total(allocated) + delta
  <2>1. /\ allocated \in [Strategies -> Nat] /\ allocated[s] + delta \in Nat
        /\ allocated' = Shift(allocated, s, delta)
        /\ allocated[s] + delta \in 0..MaxU64 /\ allocated \in [Strategies -> 0..MaxU64]
    BY <1>1, Constants DEF TypeOK, Moved
  <2>2. /\ allocated' \in [Strategies -> Nat] /\ allocated'[s] = allocated[s] + delta
        /\ \A t \in Strategies \ {s} : allocated'[t] = allocated[t]
        /\ Total(allocated') = Total(allocated) + delta
    BY <2>1, Constants, ShiftFacts DEF Total
  <2> QED BY <2>1, <2>2
<1>5. TypeOK'
  BY <1>1, <1>2, <1>3, <1>4 DEF TypeOK, shareVars, strategyVars, configVars
<1>6. BooksBalance'
  BY <1>1, <1>2, <1>4, SumFacts DEF BooksBalance, TypeOK
<1>7. SharesBacked' /\ WeightsWithinCap'
  BY <1>2 DEF Inv, SharesBacked, WeightsWithinCap, shareVars, strategyVars, Active, Total
<1>8. InactiveIsEmpty'
  BY <1>1, <1>2, <1>4 DEF InactiveIsEmpty, Active, strategyVars
<1>9. TokensConserved'
  BY <1>1, <1>2, <1>3, SumFacts DEF TokensConserved, TypeOK
<1> QED BY <1>5, <1>6, <1>7, <1>8, <1>9 DEF Inv

\* A strategy's balance is a u64: no token is ever created.
LEMMA BalanceIsU64 ==
  ASSUME Inv, NEW s \in Strategies
  PROVE  ata[s] \in 0..MaxU64
<1>1. TypeOK /\ ata \in [Strategies -> Nat] /\ reserve \in Nat
  BY DEF Inv, TypeOK
<1>2. ata[s] <= Total(ata)
  BY <1>1, Constants, SumMember DEF Total
<1>3. Total(ata) <= SumFunctionOnSet(Endowments, Wallets)
  BY <1>1, SumFacts DEF Inv, TokensConserved
<1>4. ata[s] \in Nat
  BY <1>1
<1> QED BY <1>1, <1>2, <1>3, <1>4, SumFacts, Constants

\* The three instructions that settle a strategy are one: its book value and
\* total_deposited move together, and no token moves.
LEMMA SettlementsSettle ==
  ASSUME Inv, NEW s \in Strategies,
         \/ ReportYield(s)
         \/ \E loss \in Nat : ReportLoss(s, loss)
         \/ \E external \in Nat : SettleStrategyValue(s, external)
  PROVE  /\ Active(s)
         /\ \E value \in 0..MaxU64 :
              Settle(s, value) /\ (paused => value <= allocated[s])
<1>1. ata[s] \in 0..MaxU64 /\ MaxU64 \in Nat
  BY BalanceIsU64, Constants
<1>2. allocated[s] \in 0..MaxU64
  BY DEF Inv, TypeOK
<1>3. CASE ReportYield(s)
  BY <1>1, <1>3 DEF ReportYield, MayReportYield
<1>4. CASE \E loss \in Nat : ReportLoss(s, loss)
  <2>1. PICK loss \in Nat : ReportLoss(s, loss)
    BY <1>4
  <2>2. loss > 0 /\ loss <= allocated[s] /\ Settle(s, allocated[s] - loss)
    BY <2>1 DEF ReportLoss
  <2>3. allocated[s] - loss \in 0..MaxU64 /\ allocated[s] - loss <= allocated[s]
    BY <1>1, <1>2, <2>2
  <2>4. Active(s)
    BY <1>2, <2>2 DEF Inv, InactiveIsEmpty
  <2> QED BY <2>2, <2>3, <2>4
<1>5. CASE \E external \in Nat : SettleStrategyValue(s, external)
  <2>1. PICK external \in Nat : SettleStrategyValue(s, external)
    BY <1>5
  <2>2. /\ Active(s) /\ ~paused /\ ata[s] + external <= MaxU64
        /\ Settle(s, ata[s] + external)
    BY <2>1 DEF SettleStrategyValue
  <2>3. ata[s] + external \in 0..MaxU64
    BY <1>1, <2>2
  <2> QED BY <2>2, <2>3
<1> QED BY <1>3, <1>4, <1>5

\* A settlement (yield, loss, or valuation) keeps the invariant.
LEMMA SettleInv ==
  ASSUME Inv, NEW s \in Strategies, Active(s), NEW value \in 0..MaxU64, Settle(s, value)
  PROVE  Inv'
<1> DEFINE delta == value - allocated[s]
<1>1. TypeOK /\ BooksBalance /\ SharesBacked /\ InactiveIsEmpty /\ TokensConserved
  BY DEF Inv
<1>2. allocated[s] \in Nat /\ delta \in Int /\ totalDeposited \in Nat
  BY <1>1, Constants DEF TypeOK
<1>3. /\ totalDeposited' \in 0..MaxU64 /\ totalDeposited' = totalDeposited + delta
      /\ UNCHANGED <<tokenVars, shareVars, strategyVars, configVars, donated>>
  BY <1>2 DEF Settle, TotalFits
<1>4. /\ allocated' \in [Strategies -> 0..MaxU64]
      /\ \A t \in Strategies \ {s} : allocated'[t] = allocated[t]
      /\ Total(allocated') = Total(allocated) + delta
  <2>1. /\ allocated \in [Strategies -> Nat] /\ allocated \in [Strategies -> 0..MaxU64]
        /\ allocated[s] + delta = value /\ allocated[s] + delta \in Nat
    BY <1>1, <1>2, Constants DEF TypeOK
  <2>2. allocated' = Shift(allocated, s, delta)
    BY <2>1 DEF Settle, TotalFits, Rebook, Shift
  <2> HIDE DEF delta
  <2>3. /\ allocated' \in [Strategies -> Nat] /\ allocated'[s] = allocated[s] + delta
        /\ \A t \in Strategies \ {s} : allocated'[t] = allocated[t]
        /\ Total(allocated') = Total(allocated) + delta
    BY <1>2, <2>1, <2>2, Constants, ShiftFacts DEF Total
  <2> QED BY <2>1, <2>3
<1> HIDE DEF delta
<1>5. TypeOK'
  BY <1>1, <1>3, <1>4 DEF TypeOK, tokenVars, shareVars, strategyVars, configVars
<1>6. BooksBalance'
  BY <1>1, <1>2, <1>3, <1>4, SumFacts DEF BooksBalance, TypeOK, tokenVars
<1>7. SharesBacked' /\ WeightsWithinCap'
  BY <1>3 DEF Inv, SharesBacked, WeightsWithinCap, shareVars, strategyVars, Active, Total
<1>8. InactiveIsEmpty'
  BY <1>1, <1>3, <1>4 DEF InactiveIsEmpty, Active, strategyVars
<1>9. TokensConserved'
  BY <1>1, <1>3 DEF TokensConserved, tokenVars, Total
<1> QED BY <1>5, <1>6, <1>7, <1>8, <1>9 DEF Inv

\* The admin's instructions on a strategy.
LEMMA CreateStrategyInv ==
  ASSUME Inv, NEW s \in Strategies, CreateStrategy(s)
  PROVE  Inv'
<1>1. /\ status' = [status EXCEPT ![s] = "active"]
      /\ UNCHANGED <<tokenVars, shareVars, totalDeposited, allocated, weight,
                     totalWeight, configVars, donated>>
  BY DEF CreateStrategy
<1>2. TypeOK'
  BY <1>1 DEF Inv, TypeOK, tokenVars, shareVars, configVars
<1>3. BooksBalance' /\ SharesBacked' /\ TokensConserved'
  BY <1>1 DEF Inv, BooksBalance, SharesBacked, TokensConserved, tokenVars, shareVars, Total
<1>4. \A t \in Strategies : ~Active(t)' => ~Active(t)
  BY <1>1 DEF Active, Inv, TypeOK
<1>5. WeightsWithinCap' /\ InactiveIsEmpty'
  BY <1>1, <1>4 DEF Inv, WeightsWithinCap, InactiveIsEmpty, Total
<1> QED BY <1>2, <1>3, <1>5 DEF Inv

\* set_strategy_weight keeps the running total equal to the sum of weights.
LEMMA SetStrategyWeightInv ==
  ASSUME Inv, NEW s \in Strategies, NEW w \in Nat, SetStrategyWeight(s, w)
  PROVE  Inv'
<1> DEFINE d == w - weight[s]
<1>1. /\ Active(s) /\ w <= BPS /\ totalWeight - weight[s] + w <= BPS
      /\ weight' = [weight EXCEPT ![s] = w]
      /\ totalWeight' = totalWeight - weight[s] + w
      /\ UNCHANGED <<tokenVars, shareVars, totalDeposited, allocated, status,
                     configVars, donated>>
  BY DEF SetStrategyWeight, MaySetWeight, WeightWith, WeightFits
<1>2. /\ weight \in [Strategies -> Nat] /\ weight \in [Strategies -> 0..BPS]
      /\ weight[s] \in Nat /\ totalWeight \in Nat
      /\ d \in Int /\ weight[s] + d = w /\ weight[s] + d \in Nat
      /\ totalWeight = Total(weight)
      /\ \A t \in Strategies : ~Active(t) => weight[t] = 0
  BY Constants DEF Inv, TypeOK, WeightsWithinCap
<1>3. weight' = Shift(weight, s, d)
  BY <1>1, <1>2 DEF Shift
<1> HIDE DEF d
<1>4. /\ weight' \in [Strategies -> Nat] /\ weight'[s] = w
      /\ \A t \in Strategies \ {s} : weight'[t] = weight[t]
      /\ Total(weight') = Total(weight) + d
  BY <1>2, <1>3, Constants, ShiftFacts DEF Total
<1>5. totalWeight' = Total(weight') /\ totalWeight' \in 0..BPS
  <2>1. totalWeight' = Total(weight')
    BY <1>1, <1>2, <1>4
  <2>2. Total(weight') \in Nat
    BY <1>4, Constants, SumType DEF Total
  <2> QED BY <1>1, <2>1, <2>2, Constants
<1>6. weight' \in [Strategies -> 0..BPS]
  BY <1>1, <1>2, <1>4, Constants
<1>7. TypeOK'
  BY <1>1, <1>5, <1>6 DEF Inv, TypeOK, tokenVars, shareVars, configVars
<1>8. BooksBalance' /\ SharesBacked' /\ TokensConserved' /\ InactiveIsEmpty'
  BY <1>1 DEF Inv, BooksBalance, SharesBacked, TokensConserved, InactiveIsEmpty,
              Active, tokenVars, shareVars, Total
<1>9. WeightsWithinCap'
  BY <1>1, <1>2, <1>4, <1>5 DEF WeightsWithinCap, Active
<1> QED BY <1>7, <1>8, <1>9 DEF Inv

\* Deactivating a strategy that holds nothing keeps the invariant.
LEMMA DeactivateStrategyInv ==
  ASSUME Inv, NEW s \in Strategies, DeactivateStrategy(s)
  PROVE  Inv'
<1> DEFINE d == -weight[s]
<1>1. /\ Active(s) /\ allocated[s] = 0 /\ ata[s] = 0
      /\ status' = [status EXCEPT ![s] = "inactive"]
      /\ totalWeight' = totalWeight - weight[s]
      /\ weight' = [weight EXCEPT ![s] = 0]
      /\ UNCHANGED <<tokenVars, shareVars, totalDeposited, allocated, configVars, donated>>
  BY DEF DeactivateStrategy, HoldsNothing, WeightWithout
<1>2. /\ weight \in [Strategies -> Nat] /\ weight \in [Strategies -> 0..BPS]
      /\ weight[s] \in Nat /\ totalWeight \in 0..BPS
      /\ d \in Int /\ weight[s] + d = 0 /\ totalWeight = Total(weight)
      /\ \A t \in Strategies : ~Active(t) => weight[t] = 0
      /\ status \in [Strategies -> {"none", "active", "inactive"}]
  BY Constants DEF Inv, TypeOK, WeightsWithinCap
<1>3. weight' = Shift(weight, s, d)
  BY <1>1, <1>2 DEF Shift
<1>4. totalWeight' = totalWeight + d
  BY <1>1, <1>2, Constants
<1> HIDE DEF d
<1>5. /\ weight' \in [Strategies -> Nat] /\ weight'[s] = 0
      /\ \A t \in Strategies \ {s} : weight'[t] = weight[t]
      /\ Total(weight') = Total(weight) + d
  BY <1>2, <1>3, Constants, ShiftFacts DEF Total
<1>6. totalWeight' = Total(weight') /\ totalWeight' \in 0..BPS
  <2>1. totalWeight' = Total(weight') /\ totalWeight' <= totalWeight
    <3>1. d <= 0
      BY <1>2
    <3> QED BY <1>2, <1>4, <1>5, <3>1, Constants
  <2>2. Total(weight') \in Nat
    BY <1>5, Constants, SumType DEF Total
  <2> QED BY <1>2, <2>1, <2>2, Constants
<1>7. weight' \in [Strategies -> 0..BPS]
  BY <1>2, <1>5, Constants
<1>8. status' \in [Strategies -> {"none", "active", "inactive"}]
  BY <1>1, <1>2
<1>9. TypeOK'
  BY <1>1, <1>6, <1>7, <1>8 DEF Inv, TypeOK, tokenVars, shareVars, configVars
<1>10. BooksBalance' /\ SharesBacked' /\ TokensConserved'
  BY <1>1 DEF Inv, BooksBalance, SharesBacked, TokensConserved, tokenVars, shareVars, Total
<1>11. \A t \in Strategies \ {s} : Active(t)' = Active(t)
  BY <1>1, <1>2 DEF Active
<1>12. WeightsWithinCap'
  BY <1>2, <1>5, <1>6, <1>11 DEF WeightsWithinCap
<1>13. InactiveIsEmpty'
  BY <1>1, <1>11 DEF Inv, InactiveIsEmpty
<1> QED BY <1>9, <1>10, <1>12, <1>13 DEF Inv

\* The switches: they touch neither books nor tokens.
Switches ==
  \/ \E p \in BOOLEAN : SetPaused(p)
  \/ \E f \in Nat : SetPerformanceFeeBps(f) \/ SetProtocolFeeBps(f)

\* The pause and the two fees keep the invariant.
LEMMA SwitchesInv ==
  ASSUME Inv, Switches
  PROVE  Inv'
<1>1. /\ UNCHANGED <<tokenVars, shareVars, totalDeposited, allocated, strategyVars, donated>>
      /\ paused' \in BOOLEAN /\ performanceFee' \in 0..MaxFee /\ protocolFee' \in 0..MaxFee
  BY Constants
     DEF Switches, SetPaused, SetPerformanceFeeBps, SetProtocolFeeBps, Inv, TypeOK
<1>2. TypeOK'
  BY <1>1 DEF Inv, TypeOK, tokenVars, shareVars, strategyVars
<1> QED
  BY <1>1, <1>2 DEF Inv, BooksBalance, SharesBacked, WeightsWithinCap, InactiveIsEmpty,
     TokensConserved, Active, Total, tokenVars, shareVars, strategyVars

\* Transfers of the token program to and from a strategy's account are one:
\* amount leaves the outside, or reaches it when negative.
LEMMA StrategyTransferInv ==
  ASSUME Inv, NEW s \in Strategies, NEW d \in Int,
         ata[s] + d \in Nat, wallet[Outside] + -d \in Nat,
         ata' = Shift(ata, s, d), wallet' = Shift(wallet, Outside, -d),
         UNCHANGED <<reserve, shareVars, totalDeposited, allocated, strategyVars,
                     configVars, donated>>
  PROVE  Inv'
<1>1. TypeOK /\ ata \in [Strategies -> Nat] /\ wallet \in [Wallets -> Nat] /\ -d \in Int
  BY DEF Inv, TypeOK
<1>2. ata' \in [Strategies -> Nat] /\ Total(ata') = Total(ata) + d
  BY <1>1, Constants, ShiftFacts DEF Total
<1>3. /\ wallet' \in [Wallets -> Nat]
      /\ SumFunctionOnSet(wallet', Wallets) = SumFunctionOnSet(wallet, Wallets) + -d
  BY <1>1, Constants, ShiftFacts
<1>4. TypeOK'
  BY <1>1, <1>2, <1>3 DEF TypeOK, shareVars, strategyVars, configVars
<1>5. TokensConserved'
  BY <1>1, <1>2, <1>3, SumFacts DEF Inv, TokensConserved, TypeOK
<1> QED
  BY <1>4, <1>5 DEF Inv, BooksBalance, SharesBacked, WeightsWithinCap, InactiveIsEmpty,
     Active, Total, shareVars, strategyVars

\* Token transfers that no handler sees, to or from a strategy, keep it.
LEMMA TokenTransfersInv ==
  ASSUME Inv, NEW s \in Strategies, NEW amount \in Nat,
         DelegateTransfer(s, amount) \/ TransferIn(s, amount)
  PROVE  Inv'
<1>1. /\ ata[s] \in Nat /\ wallet[Outside] \in Nat /\ -amount \in Int
      /\ -(-amount) = amount
  BY Constants DEF Inv, TypeOK
<1>2. CASE DelegateTransfer(s, amount)
  <2>1. /\ ata[s] + -amount \in Nat /\ wallet[Outside] + -(-amount) \in Nat
        /\ UNCHANGED <<reserve, shareVars, totalDeposited, allocated, strategyVars,
                       configVars, donated>>
    BY <1>1, <1>2 DEF DelegateTransfer
  <2>2. ata' = Shift(ata, s, -amount) /\ wallet' = Shift(wallet, Outside, -(-amount))
    BY <1>1, <1>2 DEF DelegateTransfer, Shift
  <2> QED BY <1>1, <2>1, <2>2, StrategyTransferInv
<1>3. CASE TransferIn(s, amount)
  <2>1. /\ ata[s] + amount \in Nat /\ wallet[Outside] + -amount \in Nat
        /\ UNCHANGED <<reserve, shareVars, totalDeposited, allocated, strategyVars,
                       configVars, donated>>
    BY <1>1, <1>3 DEF TransferIn, MayTransferIn
  <2>2. ata' = Shift(ata, s, amount) /\ wallet' = Shift(wallet, Outside, -amount)
    BY <1>1, <1>3 DEF TransferIn, MayTransferIn, Shift
  <2> QED BY <1>1, <2>1, <2>2, StrategyTransferInv
<1> QED BY <1>2, <1>3

\* A token transfer to the reserve keeps it: the donation is counted.
LEMMA DonateInv ==
  ASSUME Inv, NEW amount \in Nat, Donate(amount)
  PROVE  Inv'
<1>1. /\ TypeOK /\ wallet \in [Wallets -> Nat] /\ -amount \in Int
      /\ wallet[Outside] + -amount \in Nat
      /\ reserve' = reserve + amount /\ donated' = donated + amount
      /\ donated + amount <= MaxDonated
      /\ UNCHANGED <<ata, shareVars, totalDeposited, allocated, strategyVars, configVars>>
  BY Constants DEF Inv, TypeOK, Donate
<1>2. wallet' = Shift(wallet, Outside, -amount)
  BY <1>1 DEF Donate, Shift, Inv, TypeOK
<1>3. /\ wallet' \in [Wallets -> Nat]
      /\ SumFunctionOnSet(wallet', Wallets) = SumFunctionOnSet(wallet, Wallets) + -amount
  BY <1>1, <1>2, Constants, ShiftFacts
<1>4. TypeOK'
  BY <1>1, <1>3, Constants DEF TypeOK, shareVars, strategyVars, configVars
<1>5. TokensConserved'
  BY <1>1, <1>3, SumFacts DEF Inv, TokensConserved, TypeOK
<1>6. BooksBalance'
  BY <1>1, SumFacts DEF Inv, BooksBalance, TypeOK
<1> QED
  BY <1>1, <1>4, <1>5, <1>6 DEF Inv, SharesBacked, WeightsWithinCap, InactiveIsEmpty,
     Active, Total, shareVars, strategyVars

\* Burning shares keeps them backed by the supply.
LEMMA BurnSharesInv ==
  ASSUME Inv, NEW u \in Users, NEW n \in Nat, BurnShares(u, n)
  PROVE  Inv'
<1>1. /\ TypeOK /\ shares \in [Users -> Nat] /\ supply \in 0..MaxU64 /\ -n \in Int
      /\ shares[u] + -n \in Nat /\ n <= shares[u] /\ shares[u] \in Nat
      /\ supply' = supply - n
      /\ UNCHANGED <<tokenVars, totalDeposited, allocated, strategyVars, configVars,
                     donated>>
  BY DEF Inv, TypeOK, BurnShares
<1>2. shares' = Shift(shares, u, -n)
  BY <1>1 DEF BurnShares, Shift
<1>3. /\ shares' \in [Users -> Nat]
      /\ SumFunctionOnSet(shares', Users) = SumFunctionOnSet(shares, Users) + -n
  BY <1>1, <1>2, Constants, ShiftFacts
<1>4. n <= supply
  <2>1. shares[u] <= SumFunctionOnSet(shares, Users)
    BY <1>1, Constants, SumMember
  <2> QED BY <1>1, <2>1 DEF Inv, SharesBacked
<1>5. SharesBacked'
  BY <1>1, <1>3 DEF Inv, SharesBacked
<1>6. TypeOK'
  <2>1. supply' \in 0..MaxU64
    BY <1>1, <1>4, Constants
  <2> QED BY <1>1, <1>3, <2>1 DEF TypeOK, tokenVars, strategyVars, configVars
<1> QED
  BY <1>1, <1>5, <1>6 DEF Inv, BooksBalance, WeightsWithinCap, InactiveIsEmpty,
     TokensConserved, Active, Total, tokenVars, strategyVars

\* A share transfer keeps the sum of the holders' shares.
LEMMA ShareTransferInv ==
  ASSUME Inv, NEW u \in Users, NEW v \in Users, NEW n \in Nat, ShareTransfer(u, v, n)
  PROVE  Inv'
<1> DEFINE given == Shift(shares, u, -n)
<1>1. /\ TypeOK /\ shares \in [Users -> Nat] /\ -n \in Int /\ u # v
      /\ shares[u] + -n \in Nat /\ shares[u] \in Nat /\ shares[v] + n \in Nat
      /\ UNCHANGED <<tokenVars, supply, totalDeposited, allocated, strategyVars,
                     configVars, donated>>
  BY DEF Inv, TypeOK, ShareTransfer
<1>2. shares' = Shift(given, v, n)
  <2>1. shares' = [[shares EXCEPT ![u] = shares[u] - n] EXCEPT ![v] = shares[v] + n]
    BY <1>1 DEF ShareTransfer
  <2>2. shares[u] + -n = shares[u] - n /\ given[v] = shares[v]
    BY <1>1 DEF Shift
  <2>3. given = [shares EXCEPT ![u] = shares[u] - n]
    BY <2>2 DEF Shift
  <2> QED BY <2>1, <2>2, <2>3 DEF Shift
<1>3. given[v] = shares[v]
  BY <1>1 DEF Shift
<1> HIDE DEF given
<1>4. /\ given \in [Users -> Nat]
      /\ SumFunctionOnSet(given, Users) = SumFunctionOnSet(shares, Users) + -n
  BY <1>1, Constants, ShiftFacts DEF given
<1>5. /\ shares' \in [Users -> Nat]
      /\ SumFunctionOnSet(shares', Users) = SumFunctionOnSet(given, Users) + n
  <2>1. n \in Int /\ given[v] + n \in Nat
    BY <1>1, <1>3
  <2> QED BY <1>2, <1>4, <2>1, Constants, ShiftFacts
<1>6. SharesBacked'
  BY <1>1, <1>4, <1>5, SumFacts DEF Inv, SharesBacked
<1>7. TypeOK'
  BY <1>1, <1>5 DEF TypeOK, tokenVars, strategyVars, configVars
<1> QED
  BY <1>1, <1>6, <1>7 DEF Inv, BooksBalance, WeightsWithinCap, InactiveIsEmpty,
     TokensConserved, Active, Total, tokenVars, strategyVars

-----------------------------------------------------------------------------
(***************************************************************************)
(* Every step is one of these, with inputs of the types the lemmas above   *)
(* ask for.                                                                *)
(***************************************************************************)
Purchase ==
  \E u \in Users, amount \in Nat, times \in [Strategies -> Nat] : Deposit(u, amount, times)
Redemption ==
  \E u \in Users, n \in Nat, pull \in [Strategies -> Nat] : Withdraw(u, n, pull)
Movement == \E s \in Strategies, delta \in Int : Moved(s, delta)
Settlement ==
  \E s \in Strategies, value \in 0..MaxU64 :
    Active(s) /\ Settle(s, value) /\ (paused => value <= allocated[s])
Administration ==
  \E s \in Strategies :
    CreateStrategy(s) \/ DeactivateStrategy(s) \/ \E w \in Nat : SetStrategyWeight(s, w)
TokenMovement ==
  \E amount \in Nat :
    \/ Donate(amount)
    \/ \E s \in Strategies : DelegateTransfer(s, amount) \/ TransferIn(s, amount)
ShareMovement ==
  \E u \in Users, n \in Nat :
    BurnShares(u, n) \/ \E v \in Users : ShareTransfer(u, v, n)

\* Every step is of one of eight kinds.
LEMMA StepCases ==
  ASSUME Inv, Next
  PROVE  \/ Purchase \/ Redemption \/ Movement \/ Settlement
         \/ Administration \/ Switches \/ TokenMovement \/ ShareMovement
<1>1. Amounts \subseteq Nat
  BY Constants
<1>2. CASE UserStep
  <2>1. PICK u \in Users :
          \/ \E amount \in Amounts, times \in [Strategies -> 0..MaxRepeats] :
               Deposit(u, amount, times)
          \/ \E n \in 1..shares[u] :
             \E pull \in [Strategies ->
                            0..Shortfall(UnderlyingFor(n, supply, totalDeposited))] :
               Withdraw(u, n, pull)
    BY <1>2 DEF UserStep
  <2>2. CASE \E amount \in Amounts, times \in [Strategies -> 0..MaxRepeats] :
               Deposit(u, amount, times)
    <3>1. [Strategies -> 0..MaxRepeats] \subseteq [Strategies -> Nat]
      BY Constants
    <3> QED BY <1>1, <2>2, <3>1 DEF Purchase
  <2>3. CASE \E n \in 1..shares[u] :
             \E pull \in [Strategies ->
                            0..Shortfall(UnderlyingFor(n, supply, totalDeposited))] :
               Withdraw(u, n, pull)
    <3>1. PICK n \in 1..shares[u] :
            \E pull \in [Strategies ->
                           0..Shortfall(UnderlyingFor(n, supply, totalDeposited))] :
              Withdraw(u, n, pull)
      BY <2>3
    <3>2. n \in Nat /\ n \in 0..supply /\ supply \in Nat /\ totalDeposited \in Nat
      <4>1. shares[u] \in Nat /\ shares \in [Users -> Nat]
        BY DEF Inv, TypeOK
      <4>2. shares[u] <= supply
        BY <4>1, Constants, SumMember DEF Inv, SharesBacked
      <4> QED BY <4>1, <4>2 DEF Inv, TypeOK
    <3>3. Shortfall(UnderlyingFor(n, supply, totalDeposited)) \in Nat
      <4>1. UnderlyingFor(n, supply, totalDeposited) \in 0..totalDeposited
        BY <3>2, BurnKeepsPrice
      <4> QED BY <3>2, <4>1 DEF Shortfall, Inv, TypeOK
    <3>4. \A k \in Nat : [Strategies -> 0..k] \subseteq [Strategies -> Nat]
      OBVIOUS
    <3> QED BY <3>1, <3>2, <3>3, <3>4 DEF Redemption
  <2> QED BY <2>1, <2>2, <2>3
<1>3. CASE AuthorityStep
  <2>1. PICK s \in Strategies :
          \/ RebalanceStrategy(s)
          \/ ReportYield(s)
          \/ \E external \in ExternalValues : SettleStrategyValue(s, external)
          \/ \E amount \in Amounts :
               \/ AllocateToStrategy(s, amount)
               \/ DeallocateFromStrategy(s, amount)
               \/ RebalanceWithDelta(s, amount)
               \/ RebalanceWithDelta(s, -amount)
               \/ ReportLoss(s, amount)
    BY <1>3 DEF AuthorityStep
  <2>2. CASE \/ RebalanceStrategy(s)
             \/ \E amount \in Amounts : \/ AllocateToStrategy(s, amount)
                                        \/ DeallocateFromStrategy(s, amount)
                                        \/ RebalanceWithDelta(s, amount)
                                        \/ RebalanceWithDelta(s, -amount)
    <3>1. \A amount \in Amounts : amount \in Nat /\ amount \in Int /\ -amount \in Int
      BY <1>1
    <3> QED BY <2>2, <3>1, MoneyMoves DEF Movement
  <2>3. CASE \/ ReportYield(s)
             \/ \E external \in ExternalValues : SettleStrategyValue(s, external)
             \/ \E amount \in Amounts : ReportLoss(s, amount)
    BY <1>1, <2>3, Constants, SettlementsSettle DEF Settlement
  <2> QED BY <2>1, <2>2, <2>3
<1>4. CASE AdminStep
  BY <1>4, Constants DEF AdminStep, Administration, Switches
<1>5. CASE TokenStep
  <2>1. CASE \E amount \in Amounts :
               \/ Donate(amount)
               \/ \E s \in Strategies : DelegateTransfer(s, amount) \/ TransferIn(s, amount)
    BY <1>1, <2>1 DEF TokenMovement
  <2>2. CASE \E u \in Users : \E n \in 1..shares[u] :
               BurnShares(u, n) \/ \E v \in Users : ShareTransfer(u, v, n)
    <3>1. \A u \in Users : \A n \in 1..shares[u] : n \in Nat
      BY DEF Inv, TypeOK
    <3> QED BY <2>2, <3>1 DEF ShareMovement
  <2> QED BY <1>5, <2>1, <2>2 DEF TokenStep
<1> QED BY <1>2, <1>3, <1>4, <1>5 DEF Next

\* Each kind of step keeps the invariant, with whatever inputs.
LEMMA KindsKeepInv ==
  ASSUME Inv,
         \/ Purchase \/ Redemption \/ Movement \/ Settlement
         \/ Administration \/ Switches \/ TokenMovement \/ ShareMovement
  PROVE  Inv'
<1>1. CASE Purchase
  BY <1>1, DepositInv DEF Purchase
<1>2. CASE Redemption
  BY <1>2, WithdrawInv DEF Redemption
<1>3. CASE Movement
  BY <1>3, MovedInv DEF Movement
<1>4. CASE Settlement
  BY <1>4, SettleInv DEF Settlement
<1>5. CASE Administration
  BY <1>5, CreateStrategyInv, DeactivateStrategyInv, SetStrategyWeightInv
     DEF Administration
<1>6. CASE Switches
  BY <1>6, SwitchesInv
<1>7. CASE TokenMovement
  BY <1>7, DonateInv, TokenTransfersInv DEF TokenMovement
<1>8. CASE ShareMovement
  BY <1>8, BurnSharesInv, ShareTransferInv DEF ShareMovement
<1> QED BY <1>1, <1>2, <1>3, <1>4, <1>5, <1>6, <1>7, <1>8

\* A step that leaves the ledger alone keeps its invariant.
LEMMA StutterInv ==
  ASSUME Inv, UNCHANGED vars
  PROVE  Inv'
BY DEF vars, tokenVars, shareVars, strategyVars, configVars, Inv, TypeOK, BooksBalance,
   SharesBacked, WeightsWithinCap, InactiveIsEmpty, TokensConserved, Active, Total

\* Every step keeps the invariant.
LEMMA StepInv ==
  ASSUME Inv, [Next]_vars
  PROVE  Inv'
BY StepCases, KindsKeepInv, StutterInv

\* The invariant holds in every reachable state of the ledger.
THEOREM InvInvariant == Spec => []Inv
<1>1. Inv /\ [Next]_vars => Inv'
  BY StepInv
<1> QED BY <1>1, InitInv, PTL DEF Spec

\* Every reachable state of the ledger is well typed: no balance is negative,
\* no book value leaves u64, no sum of weights exceeds the cap.
THEOREM TypeCorrect == Spec => []TypeOK
BY InvInvariant, PTL DEF Inv

\* The reserve and the books of the strategies add up to what shares are
\* priced from, whatever the order of the instructions.
THEOREM BooksAlwaysBalance == Spec => []BooksBalance
BY InvInvariant, PTL DEF Inv

\* Every share has a holder.
THEOREM SharesAlwaysBacked == Spec => []SharesBacked
BY InvInvariant, PTL DEF Inv

\* total_active_weight_bps is exactly the sum of the active weights.
THEOREM WeightsAlwaysWithinCap == Spec => []WeightsWithinCap
BY InvInvariant, PTL DEF Inv

\* Nothing is ever booked at a strategy nobody manages.
THEOREM InactiveAlwaysEmpty == Spec => []InactiveIsEmpty
BY InvInvariant, PTL DEF Inv

\* No instruction creates or destroys a token.
THEOREM TokensAlwaysConserved == Spec => []TokensConserved
BY InvInvariant, PTL DEF Inv

-----------------------------------------------------------------------------
(***************************************************************************)
(* The action properties of the ledger and its refinement of Pool, from    *)
(* the inductive invariant and the case split above.                       *)
(***************************************************************************)
\* The price comparison holds of a state and itself, and of a gain.
LEMMA PriceOfGain ==
  ASSUME NEW total \in Nat, NEW gain \in Nat, NEW issue \in Nat, NEW burnt \in 0..issue
  PROVE  PriceNotLower(total, issue, total + gain, issue - burnt)
<1>1. VirtualShares \in Nat
  BY Constants
<1>2. (total + 1) * (issue - burnt + VirtualShares) <= (total + gain + 1) * (issue - burnt + VirtualShares)
  BY <1>1, ProductMono
<1>3. (issue - burnt + VirtualShares) * (total + gain + 1)
        <= (issue + VirtualShares) * (total + gain + 1)
  BY <1>1, ProductMono
<1> QED BY <1>1, <1>2, <1>3 DEF PriceNotLower

\* A step lowers the share price only by recognising a loss.
LEMMA PriceStep ==
  ASSUME Inv, [Next]_vars
  PROVE  \/ PriceNotLower(totalDeposited, supply, totalDeposited', supply')
         \/ RecognisedLoss
<1>1. totalDeposited \in Nat /\ supply \in Nat
  BY DEF Inv, TypeOK
<1>2. PriceNotLower(totalDeposited, supply, totalDeposited, supply)
  BY <1>1, PriceOfGain
<1>3. CASE UNCHANGED <<totalDeposited, supply>>
  BY <1>2, <1>3
<1>4. CASE Purchase
  <2>1. PICK u \in Users, amount \in Nat, times \in [Strategies -> Nat] :
          Deposit(u, amount, times)
    BY <1>4 DEF Purchase
  <2>2. /\ totalDeposited' = totalDeposited + amount
        /\ supply' = supply + SharesFor(amount, supply, totalDeposited)
    BY <2>1 DEF Deposit, MayDeposit
  <2> QED BY <1>1, <2>2, MintKeepsPrice
<1>5. CASE Redemption
  <2>1. PICK u \in Users, n \in Nat, pull \in [Strategies -> Nat] : Withdraw(u, n, pull)
    BY <1>5 DEF Redemption
  <2>2. /\ totalDeposited' = totalDeposited - UnderlyingFor(n, supply, totalDeposited)
        /\ supply' = supply - n
    BY <2>1 DEF Withdraw, MayWithdraw
  <2>3. n \in 0..supply
    BY <2>1, WithdrawFacts DEF Inv
  <2> QED BY <1>1, <2>2, <2>3, BurnKeepsPrice
<1>6. CASE Settlement
  <2>1. PICK s \in Strategies, value \in 0..MaxU64 : Settle(s, value)
    BY <1>6 DEF Settlement
  <2>2. /\ totalDeposited' = totalDeposited + value - allocated[s]
        /\ allocated'[s] = value /\ allocated[s] \in Nat /\ value \in Nat
        /\ UNCHANGED <<tokenVars, shareVars>>
    BY <2>1, Constants DEF Settle, TotalFits, Rebook, Inv, TypeOK
  <2>3. CASE value < allocated[s]
    BY <1>1, <2>2, <2>3 DEF RecognisedLoss
  <2>4. CASE value >= allocated[s]
    <3> DEFINE gain == value - allocated[s]
    <3>1. /\ gain \in Nat /\ totalDeposited' = totalDeposited + gain
          /\ supply' = supply /\ supply - 0 = supply
      BY <1>1, <2>2, <2>4 DEF shareVars
    <3> HIDE DEF gain
    <3>2. PriceNotLower(totalDeposited, supply, totalDeposited + gain, supply - 0)
      BY <1>1, <3>1, PriceOfGain
    <3> QED BY <3>1, <3>2
  <2> QED BY <2>2, <2>3, <2>4
<1>7. CASE ShareMovement
  <2>1. PICK u \in Users, n \in Nat :
          BurnShares(u, n) \/ \E v \in Users : ShareTransfer(u, v, n)
    BY <1>7 DEF ShareMovement
  <2>2. CASE BurnShares(u, n)
    <3>1. /\ supply' = supply - n /\ totalDeposited' = totalDeposited
          /\ n <= shares[u] /\ shares[u] \in Nat /\ shares \in [Users -> Nat]
      BY <2>2 DEF BurnShares, Inv, TypeOK
    <3>2. shares[u] <= supply
      BY <3>1, Constants, SumMember DEF Inv, SharesBacked
    <3>3. n \in 0..supply /\ totalDeposited + 0 = totalDeposited
      BY <1>1, <3>1, <3>2
    <3>4. PriceNotLower(totalDeposited, supply, totalDeposited + 0, supply - n)
      BY <1>1, <3>3, PriceOfGain
    <3> QED BY <3>1, <3>3, <3>4
  <2>3. CASE \E v \in Users : ShareTransfer(u, v, n)
    BY <1>3, <2>3 DEF ShareTransfer
  <2> QED BY <2>1, <2>2, <2>3
<1>8. CASE Movement \/ Administration \/ Switches \/ TokenMovement
  BY <1>3, <1>8
     DEF Movement, Moved, BooksUntouched, Administration, CreateStrategy,
         DeactivateStrategy, SetStrategyWeight, MaySetWeight, WeightWith, Switches, SetPaused,
         SetPerformanceFeeBps, SetProtocolFeeBps, TokenMovement, Donate,
         DelegateTransfer, TransferIn, MayTransferIn, shareVars
<1>9. CASE UNCHANGED vars
  BY <1>3, <1>9 DEF vars, shareVars
<1> QED BY <1>4, <1>5, <1>6, <1>7, <1>8, <1>9, StepCases

\* No transaction but the settlement of a loss lowers the share price: in
\* particular no rounding of a deposit or a withdrawal ever favours the caller
\* at the expense of the other holders.
THEOREM PriceOnlyFallsWithLosses == Spec => OnlyLossesLowerPrice
<1>1. Inv /\ [Next]_vars =>
        [\/ PriceNotLower(totalDeposited, supply, totalDeposited', supply')
         \/ RecognisedLoss]_vars
  BY PriceStep
<1> QED BY <1>1, InvInvariant, PTL DEF Spec, OnlyLossesLowerPrice

-----------------------------------------------------------------------------
\* A step that issues shares does not lower the reserve.
LEMMA LiquidityStep ==
  ASSUME Inv, [Next]_vars
  PROVE  supply' > supply => reserve' >= reserve
<1>1. supply \in Nat /\ reserve \in Nat
  BY DEF Inv, TypeOK
<1>2. CASE supply' = supply
  BY <1>1, <1>2
<1>3. CASE Purchase
  <2>1. PICK u \in Users, amount \in Nat, times \in [Strategies -> Nat] :
          Deposit(u, amount, times)
    BY <1>3 DEF Purchase
  <2>2. /\ Total(FanOut(amount, times)) \in 0..amount
        /\ reserve' = reserve + amount - Total(FanOut(amount, times))
    BY <2>1, DepositFacts DEF Inv, Deposit, MayDeposit
  <2> HIDE DEF Total, FanOut
  <2> QED BY <1>1, <2>2
<1>4. CASE Redemption
  BY <1>1, <1>4 DEF Redemption, Withdraw, MayWithdraw
<1>5. CASE ShareMovement
  BY <1>1, <1>5 DEF ShareMovement, BurnShares, ShareTransfer
<1>6. CASE Movement \/ Settlement \/ Administration \/ Switches \/ TokenMovement
  BY <1>2, <1>6
     DEF Movement, Moved, BooksUntouched, Settlement, Settle, TotalFits, Administration,
         CreateStrategy, DeactivateStrategy, SetStrategyWeight, MaySetWeight, WeightWith, Switches, SetPaused,
         SetPerformanceFeeBps, SetProtocolFeeBps, TokenMovement, Donate,
         DelegateTransfer, TransferIn, MayTransferIn, shareVars
<1>7. CASE UNCHANGED vars
  BY <1>2, <1>7 DEF vars, shareVars
<1> QED BY <1>3, <1>4, <1>5, <1>6, <1>7, StepCases

\* The fan-out of a deposit never spends what was in the reserve before it,
\* whichever strategies the caller lists, and however often.
THEOREM FanOutSpendsTheDeposit == Spec => DepositKeepsLiquidity
<1>1. Inv /\ [Next]_vars => [supply' > supply => reserve' >= reserve]_vars
  BY LiquidityStep
<1> QED BY <1>1, InvInvariant, PTL DEF Spec, DepositKeepsLiquidity

-----------------------------------------------------------------------------
PausedStep ==
  /\ supply' <= supply
  /\ \A s \in Strategies : allocated'[s] <= allocated[s]
  /\ reserve' < reserve => supply' < supply

\* In a paused vault a step only pays redemptions.
LEMMA PauseStep ==
  ASSUME Inv, [Next]_vars, paused
  PROVE  PausedStep
<1>1. /\ supply \in Nat /\ reserve \in Nat
      /\ \A s \in Strategies : allocated[s] \in Nat
      /\ allocated \in [Strategies -> 0..MaxU64]
  BY Constants DEF Inv, TypeOK
<1>2. CASE UNCHANGED <<supply, allocated>> /\ reserve' \in Nat /\ reserve' >= reserve
  BY <1>1, <1>2 DEF PausedStep
<1>3. CASE Purchase
  BY <1>3 DEF Purchase, Deposit, MayDeposit
<1>4. CASE Redemption
  <2>1. PICK u \in Users, n \in Nat, pull \in [Strategies -> Nat] : Withdraw(u, n, pull)
    BY <1>4 DEF Redemption
  <2>2. /\ n > 0 /\ supply' = supply - n
        /\ allocated' = [s \in Strategies |-> allocated[s] - pull[s]]
    BY <2>1 DEF Withdraw, MayWithdraw, PulledBooks
  <2>3. supply' < supply
    BY <1>1, <2>2
  <2>4. \A s \in Strategies : allocated'[s] <= allocated[s]
    BY <1>1, <2>2
  <2> QED BY <1>1, <2>2, <2>3, <2>4 DEF PausedStep
<1>5. CASE Movement
  BY <1>5 DEF Movement, Moved
<1>6. CASE Settlement
  <2>1. PICK s \in Strategies, value \in 0..MaxU64 : Settle(s, value) /\ value <= allocated[s]
    BY <1>6 DEF Settlement
  <2>2. /\ allocated' = [allocated EXCEPT ![s] = value]
        /\ UNCHANGED <<tokenVars, shareVars>>
    BY <2>1 DEF Settle, TotalFits, Rebook
  <2>3. \A t \in Strategies : allocated'[t] <= allocated[t]
    BY <1>1, <2>1, <2>2
  <2> QED BY <1>1, <2>2, <2>3 DEF PausedStep, tokenVars, shareVars
<1>7. CASE ShareMovement
  <2>1. supply' <= supply /\ UNCHANGED <<allocated, reserve>>
    BY <1>1, <1>7 DEF ShareMovement, BurnShares, ShareTransfer, tokenVars
  <2> QED BY <1>1, <2>1 DEF PausedStep
<1>8. CASE Administration \/ Switches
  <2>1. UNCHANGED <<supply, allocated, reserve>>
    BY <1>8
       DEF Administration, CreateStrategy, DeactivateStrategy, SetStrategyWeight, MaySetWeight, WeightWith,
           Switches, SetPaused, SetPerformanceFeeBps, SetProtocolFeeBps,
           tokenVars, shareVars
  <2> QED BY <1>1, <1>2, <2>1
<1>9. CASE TokenMovement
  BY <1>1, <1>2, <1>9 DEF TokenMovement, Donate, DelegateTransfer, TransferIn, MayTransferIn, shareVars
<1>10. CASE UNCHANGED vars
  BY <1>1, <1>2, <1>10 DEF vars, shareVars, tokenVars
<1> QED BY <1>3, <1>4, <1>5, <1>6, <1>7, <1>8, <1>9, <1>10, StepCases

\* A paused vault only lets money out, and only to redeemers.
THEOREM PauseHolds == Spec => PauseOnlyLetsOut
<1>1. Inv /\ [Next]_vars => [paused => PausedStep]_vars
  BY PauseStep
<1> QED BY <1>1, InvInvariant, PTL DEF Spec, PauseOnlyLetsOut, PausedStep

-----------------------------------------------------------------------------
\* A redemption that touches a strategy empties the reserve.
LEMMA RedemptionPullsLast ==
  ASSUME Inv, Redemption
  PROVE  ata' = ata \/ reserve' = 0
<1>1. PICK u \in Users, n \in Nat, pull \in [Strategies -> Nat] : Withdraw(u, n, pull)
  BY DEF Redemption
<1> DEFINE owed == UnderlyingFor(n, supply, totalDeposited)
<1>2. reserve \in Nat /\ ata \in [Strategies -> Nat] /\ totalDeposited \in Nat
  BY DEF Inv, TypeOK
<1>3. /\ owed \in 0..totalDeposited /\ Total(pull) = Shortfall(owed)
      /\ reserve' = reserve + Total(pull) - owed
      /\ ata' = [s \in Strategies |-> ata[s] - pull[s]]
  BY <1>1, WithdrawFacts DEF Inv, Withdraw, MayWithdraw
<1> HIDE DEF owed
<1>4. CASE reserve < owed
  BY <1>2, <1>3, <1>4 DEF Shortfall
<1>5. CASE ~(reserve < owed)
  <2>1. \A s \in Strategies : pull[s] <= 0 /\ pull[s] \in Nat
    BY <1>3, <1>5, Constants, SumMember DEF Shortfall, Total
  <2>2. \A s \in Strategies : ata[s] - pull[s] = ata[s]
    BY <1>2, <2>1
  <2> QED BY <1>2, <1>3, <2>2
<1> QED BY <1>4, <1>5

\* The same of every step that retires shares.
LEMMA LastResortStep ==
  ASSUME Inv, [Next]_vars
  PROVE  supply' < supply /\ ata' # ata => reserve' = 0
<1>1. supply \in Nat
  BY DEF Inv, TypeOK
<1>2. CASE supply' = supply
  BY <1>1, <1>2
<1>3. CASE Purchase
  <2>1. PICK u \in Users, amount \in Nat, times \in [Strategies -> Nat] :
          Deposit(u, amount, times)
    BY <1>3 DEF Purchase
  <2> DEFINE minted == SharesFor(amount, supply, totalDeposited)
  <2>2. minted \in Nat /\ supply' = supply + minted
    BY <2>1, DepositFacts DEF Inv, Deposit, MayDeposit
  <2> HIDE DEF minted
  <2> QED BY <1>1, <2>2
<1>4. CASE Redemption
  BY <1>4, RedemptionPullsLast
<1>5. CASE ShareMovement
  BY <1>5 DEF ShareMovement, BurnShares, ShareTransfer, tokenVars
<1>6. CASE Movement \/ Settlement \/ Administration \/ Switches \/ TokenMovement
  BY <1>2, <1>6
     DEF Movement, Moved, BooksUntouched, Settlement, Settle, TotalFits, Administration,
         CreateStrategy, DeactivateStrategy, SetStrategyWeight, MaySetWeight, WeightWith, Switches, SetPaused,
         SetPerformanceFeeBps, SetProtocolFeeBps, TokenMovement, Donate,
         DelegateTransfer, TransferIn, MayTransferIn, shareVars
<1>7. CASE UNCHANGED vars
  BY <1>2, <1>7 DEF vars, shareVars
<1> QED BY <1>3, <1>4, <1>5, <1>6, <1>7, StepCases

\* A withdrawal leaves the strategies alone as long as the reserve can pay,
\* and otherwise pulls exactly what is missing.
THEOREM AutoPullComesLast == Spec => AutoPullIsLastResort
<1>1. Inv /\ [Next]_vars => [supply' < supply /\ ata' # ata => reserve' = 0]_vars
  BY LastResortStep
<1> QED BY <1>1, InvInvariant, PTL DEF Spec, AutoPullIsLastResort

-----------------------------------------------------------------------------
\* What is left after a fee of at most MaxFee.
LEMMA UserShareBound ==
  ASSUME NEW owed \in Nat, NEW fee \in 0..MaxFee, NEW paid \in Int,
         paid >= UserAmount(owed, fee)
  PROVE  paid * BPS >= owed * (BPS - MaxFee)
<1> DEFINE cut == Portion(owed, fee)
<1>1. BPS \in Nat \ {0} /\ MaxFee \in 0..BPS /\ fee \in Nat /\ MaxFee \in Nat
  BY Constants
<1>2. cut * BPS <= owed * fee /\ cut \in Nat
  <2>1. owed * fee \in Nat
    BY <1>1, ProductNat
  <2> QED BY <1>1, <2>1, FloorDivision DEF Portion
<1>3. owed * fee <= owed * MaxFee
  BY <1>1, ProductMono
<1>4. paid >= owed - cut
  BY DEF UserAmount
<1> HIDE DEF cut
<1>5. paid * BPS >= (owed - cut) * BPS
  BY <1>1, <1>2, <1>4
<1>6. (owed - cut) * BPS = owed * BPS - cut * BPS
  BY <1>1, <1>2
<1>7. owed * (BPS - MaxFee) = owed * BPS - owed * MaxFee
  BY <1>1
<1>8. /\ owed * BPS \in Int /\ cut * BPS \in Int /\ owed * fee \in Int
      /\ owed * MaxFee \in Int /\ paid * BPS \in Int
  BY <1>1, <1>2
<1> QED BY <1>2, <1>3, <1>5, <1>6, <1>7, <1>8

PaidStep ==
  supply' < supply /\ totalDeposited' < totalDeposited =>
    \A u \in Users : shares'[u] < shares[u] =>
      (wallet'[u] - wallet[u]) * BPS
        >= (totalDeposited - totalDeposited') * (BPS - MaxFee)

\* A redeemer gets what leaves the books but the capped fee.
LEMMA RedeemerPaid ==
  ASSUME Inv, Redemption
  PROVE  PaidStep
<1>1. PICK u \in Users, n \in Nat, pull \in [Strategies -> Nat] : Withdraw(u, n, pull)
  BY DEF Redemption
<1> DEFINE owed == UnderlyingFor(n, supply, totalDeposited)
<1>2. /\ shares \in [Users -> Nat] /\ wallet \in [Wallets -> Nat]
      /\ totalDeposited \in Nat /\ performanceFee \in 0..MaxFee
      /\ wallet[u] \in Nat /\ u \in Wallets
  BY Constants DEF Inv, TypeOK
<1>3. /\ performanceFee >= protocolFee
      /\ wallet' = PayOut(u, owed)
      /\ shares' = [shares EXCEPT ![u] = shares[u] - n]
      /\ totalDeposited' = totalDeposited - owed
  BY <1>1 DEF Withdraw, MayWithdraw
<1>4. owed \in Nat
  <2>1. owed \in 0..totalDeposited
    BY <1>1, WithdrawFacts DEF Inv
  <2> QED BY <1>2, <2>1
<1> HIDE DEF owed
<1>5. /\ wallet' \in [Wallets -> Nat]
      /\ wallet'[u] - wallet[u] >= UserAmount(owed, performanceFee)
  BY <1>3, <1>4, PayOutFacts DEF Inv
<1>6. (wallet'[u] - wallet[u]) * BPS >= owed * (BPS - MaxFee)
  <2>1. wallet'[u] - wallet[u] \in Int
    BY <1>2, <1>5
  <2> QED BY <1>2, <1>4, <1>5, <2>1, UserShareBound
<1>7. totalDeposited - totalDeposited' = owed
  BY <1>2, <1>3, <1>4
<1>8. \A w \in Users : shares'[w] < shares[w] => w = u
  BY <1>2, <1>3
<1> QED BY <1>6, <1>7, <1>8 DEF PaidStep

\* The same of every step that lowers supply and books.
LEMMA PayStep ==
  ASSUME Inv, [Next]_vars
  PROVE  PaidStep
<1>1. supply \in Nat /\ totalDeposited \in Nat
  BY DEF Inv, TypeOK
<1>2. CASE supply' = supply \/ totalDeposited' = totalDeposited
  BY <1>1, <1>2 DEF PaidStep
<1>3. CASE Purchase
  <2>1. PICK u \in Users, amount \in Nat, times \in [Strategies -> Nat] :
          Deposit(u, amount, times)
    BY <1>3 DEF Purchase
  <2>2. totalDeposited' = totalDeposited + amount
    BY <2>1 DEF Deposit, MayDeposit
  <2> QED BY <1>1, <2>2 DEF PaidStep
<1>4. CASE Redemption
  BY <1>4, RedeemerPaid
<1>5. CASE ShareMovement
  BY <1>2, <1>5 DEF ShareMovement, BurnShares, ShareTransfer
<1>6. CASE Movement \/ Settlement \/ Administration \/ Switches \/ TokenMovement
  BY <1>2, <1>6
     DEF Movement, Moved, BooksUntouched, Settlement, Settle, TotalFits, Administration,
         CreateStrategy, DeactivateStrategy, SetStrategyWeight, MaySetWeight, WeightWith, Switches, SetPaused,
         SetPerformanceFeeBps, SetProtocolFeeBps, TokenMovement, Donate,
         DelegateTransfer, TransferIn, MayTransferIn, shareVars
<1>7. CASE UNCHANGED vars
  BY <1>2, <1>7 DEF vars, shareVars
<1> QED BY <1>3, <1>4, <1>5, <1>6, <1>7, StepCases

\* Whatever the fees in force, a redeemer receives what leaves the books but
\* for the capped fee.
THEOREM RedeemersArePaid == Spec => RedeemerIsPaid
<1>1. Inv /\ [Next]_vars => [PaidStep]_vars
  BY PayStep
<1> QED BY <1>1, InvInvariant, PTL DEF Spec, RedeemerIsPaid, PaidStep

-----------------------------------------------------------------------------
(***************************************************************************)
(* The ledger implements the pool: under the mapping of ThePool the first  *)
(* state is an empty pool, and every step is a step of the pool or leaves  *)
(* it alone.                                                               *)
(***************************************************************************)
LEMMA PoolInitHolds ==
  ASSUME Init
  PROVE  ThePool!PoolInit
BY DEF Init, ThePool!PoolInit

\* A deposit is a Join of the abstract pool.
LEMMA PurchaseJoins ==
  ASSUME Inv, Purchase
  PROVE  \E h \in Users : ThePool!Join(h)
<1>1. PICK u \in Users, amount \in Nat, times \in [Strategies -> Nat] :
        Deposit(u, amount, times)
  BY DEF Purchase
<1> DEFINE minted == SharesFor(amount, supply, totalDeposited)
<1>2. /\ amount > 0 /\ minted > 0
      /\ totalDeposited' = totalDeposited + amount /\ supply' = supply + minted
      /\ shares' = [shares EXCEPT ![u] = shares[u] + minted]
  BY <1>1 DEF Deposit, MayDeposit
<1>3. /\ totalDeposited \in Nat /\ supply \in Nat /\ minted \in Nat /\ shares[u] \in Nat
      /\ PriceNotLower(totalDeposited, supply, totalDeposited + amount, supply + minted)
  <2>1. totalDeposited \in Nat /\ supply \in Nat /\ shares[u] \in Nat
    BY DEF Inv, TypeOK
  <2> QED BY <2>1, MintKeepsPrice
<1> HIDE DEF minted
<1>4. PriceNotLower(totalDeposited, supply, totalDeposited', supply')
  BY <1>2, <1>3
<1>5. shares[u] + minted = shares[u] + supply' - supply
  BY <1>2, <1>3
<1>6. shares' = [shares EXCEPT ![u] = shares[u] + supply' - supply]
  BY <1>2, <1>5
<1>7. totalDeposited' > totalDeposited /\ supply' > supply
  BY <1>2, <1>3
<1> QED
  BY <1>4, <1>6, <1>7
     DEF ThePool!Join, ThePool!Exchange, ThePool!PriceNotLower, PriceNotLower

\* A withdrawal is a Leave of the abstract pool.
LEMMA RedemptionLeaves ==
  ASSUME Inv, Redemption
  PROVE  \E h \in Users : ThePool!Leave(h)
<1>1. PICK u \in Users, n \in Nat, pull \in [Strategies -> Nat] : Withdraw(u, n, pull)
  BY DEF Redemption
<1> DEFINE owed == UnderlyingFor(n, supply, totalDeposited)
<1>2. /\ n > 0 /\ owed > 0 /\ n <= shares[u]
      /\ totalDeposited' = totalDeposited - owed /\ supply' = supply - n
      /\ shares' = [shares EXCEPT ![u] = shares[u] - n]
  BY <1>1 DEF Withdraw, MayWithdraw
<1>3. /\ totalDeposited \in Nat /\ supply \in Nat
      /\ shares \in [Users -> Nat] /\ shares[u] \in Nat
  BY DEF Inv, TypeOK
<1>4. n \in 0..supply /\ owed \in 0..totalDeposited
  BY <1>1, WithdrawFacts DEF Inv
<1>5. PriceNotLower(totalDeposited, supply, totalDeposited - owed, supply - n)
  BY <1>3, <1>4, BurnKeepsPrice
<1> HIDE DEF owed
<1>6. PriceNotLower(totalDeposited, supply, totalDeposited', supply')
  BY <1>2, <1>5
<1>7. shares[u] - n = shares[u] + supply' - supply
  BY <1>2, <1>3
<1>8. shares' = [shares EXCEPT ![u] = shares[u] + supply' - supply]
  BY <1>2, <1>7
<1>9. /\ totalDeposited' < totalDeposited /\ supply' < supply
      /\ totalDeposited' >= 0 /\ supply' >= 0 /\ shares'[u] >= 0
  BY <1>2, <1>3, <1>4
<1> QED
  BY <1>6, <1>8, <1>9
     DEF ThePool!Leave, ThePool!Exchange, ThePool!PriceNotLower, PriceNotLower

\* A settlement is a Revalue of the abstract pool, or changes nothing there.
LEMMA SettlementRevalues ==
  ASSUME Inv, Settlement
  PROVE  ThePool!Revalue \/ UNCHANGED ThePool!poolVars
<1>1. PICK s \in Strategies, value \in 0..MaxU64 : Settle(s, value)
  BY DEF Settlement
<1>2. totalDeposited' \in 0..MaxU64 /\ UNCHANGED shareVars
  BY <1>1 DEF Settle, TotalFits
<1>3. totalDeposited' >= 0
  BY <1>2, Constants
<1> QED BY <1>2, <1>3 DEF ThePool!Revalue, ThePool!poolVars, shareVars

\* A share transfer is a Trade, a burn a Forfeit.
LEMMA ShareMovementTrades ==
  ASSUME Inv, ShareMovement
  PROVE  ThePool!PoolNext \/ UNCHANGED ThePool!poolVars
<1>1. PICK u \in Users, n \in Nat :
        BurnShares(u, n) \/ \E v \in Users : ShareTransfer(u, v, n)
  BY DEF ShareMovement
<1>2. /\ totalDeposited \in Nat /\ supply \in Nat
      /\ shares \in [Users -> Nat] /\ shares[u] \in Nat
  BY DEF Inv, TypeOK
<1>3. CASE BurnShares(u, n)
  <2>1. /\ n > 0 /\ n <= shares[u] /\ supply' = supply - n
        /\ shares' = [shares EXCEPT ![u] = shares[u] - n]
        /\ UNCHANGED totalDeposited
    BY <1>3 DEF BurnShares
  <2>2. shares[u] - n = shares[u] + supply' - supply
    BY <1>2, <2>1
  <2>3. shares' = [shares EXCEPT ![u] = shares[u] + supply' - supply]
    BY <2>1, <2>2
  <2>4. shares[u] <= supply
    BY <1>2, Constants, SumMember DEF Inv, SharesBacked
  <2>5. supply' < supply /\ supply' >= 0 /\ shares'[u] >= 0
    BY <1>2, <2>1, <2>4
  <2>6. ThePool!Forfeit(u)
    BY <2>1, <2>3, <2>5 DEF ThePool!Forfeit
  <2> QED BY <2>6 DEF ThePool!PoolNext
<1>4. CASE \E v \in Users : ShareTransfer(u, v, n)
  <2>1. PICK v \in Users : ShareTransfer(u, v, n)
    BY <1>4
  <2>2. v \in Users \ {u} /\ n \in 1..shares[u] /\ ThePool!Trade(u, v, n)
    BY <1>2, <2>1 DEF ShareTransfer, ThePool!Trade
  <2> QED BY <2>2 DEF ThePool!PoolNext
<1> QED BY <1>1, <1>3, <1>4

\* Every step of the ledger is a step of the pool or a stutter.
LEMMA PoolStep ==
  ASSUME Inv, [Next]_vars
  PROVE  [ThePool!PoolNext]_ThePool!poolVars
<1>1. CASE Purchase
  BY <1>1, PurchaseJoins DEF ThePool!PoolNext
<1>2. CASE Redemption
  BY <1>2, RedemptionLeaves DEF ThePool!PoolNext
<1>3. CASE Settlement
  BY <1>3, SettlementRevalues DEF ThePool!PoolNext
<1>4. CASE ShareMovement
  BY <1>4, ShareMovementTrades
<1>5. CASE Movement \/ Administration \/ Switches \/ TokenMovement
  BY <1>5
     DEF ThePool!poolVars, Movement, Moved, BooksUntouched, Administration,
         CreateStrategy, DeactivateStrategy, SetStrategyWeight, MaySetWeight, WeightWith, Switches, SetPaused,
         SetPerformanceFeeBps, SetProtocolFeeBps, TokenMovement, Donate,
         DelegateTransfer, TransferIn, MayTransferIn, shareVars
<1>6. CASE UNCHANGED vars
  BY <1>6 DEF ThePool!poolVars, vars, shareVars
<1> QED BY <1>1, <1>2, <1>3, <1>4, <1>5, <1>6, StepCases

\* What the vault promises its share holders is what the ledger does: no
\* transaction of anybody is anything but a fair purchase or redemption, a
\* trade, a forfeit, or a revaluation in which every share takes part.
THEOREM LedgerIsAPool == Spec => ImplementsPool
<1>1. Inv /\ [Next]_vars => [ThePool!PoolNext]_ThePool!poolVars
  BY PoolStep
<1>2. Init => ThePool!PoolInit
  BY PoolInitHolds
<1> QED BY <1>1, <1>2, InvInvariant, PTL DEF Spec, ImplementsPool, ThePool!PoolSpec

-----------------------------------------------------------------------------
(***************************************************************************)
(* Targets.                                                                *)
(***************************************************************************)
\* How far a strategy is below its target.
Gap(s) == RebalanceTarget(s) - allocated[s]

\* Targets and gaps are numbers.
LEMMA GapType ==
  ASSUME TypeOK, NEW s \in Strategies
  PROVE  /\ RebalanceTarget(s) \in 0..totalDeposited /\ allocated[s] \in Nat
         /\ Gap(s) \in Int
<1>1. totalDeposited \in Nat /\ weight[s] \in 0..BPS /\ allocated[s] \in Nat
  BY Constants DEF TypeOK
<1> DEFINE w == weight[s]
           x == totalDeposited
<1>2. RebalanceTarget(s) = Portion(x, w)
  BY DEF RebalanceTarget
<1>3. w \in 0..BPS /\ x \in Nat
  BY <1>1
<1> HIDE DEF w, x
<1>4. Portion(x, w) \in 0..x
  BY <1>3, PortionBound
<1>5. RebalanceTarget(s) \in 0..x /\ RebalanceTarget(s) \in Int
  BY <1>2, <1>3, <1>4
<1>6. Gap(s) \in Int
  BY <1>1, <1>5 DEF Gap
<1> QED BY <1>1, <1>5, <1>6 DEF x

\* All the targets together are at most what has been deposited: every target
\* is rounded down and the weights are within the cap.
LEMMA TargetsWithinTotal ==
  ASSUME Inv
  PROVE  Total([s \in Strategies |-> RebalanceTarget(s)]) <= totalDeposited
<1> DEFINE x == totalDeposited
           targets == [s \in Strategies |-> RebalanceTarget(s)]
           scaled == [s \in Strategies |-> BPS * targets[s]]
           shares_ == [s \in Strategies |-> x * weight[s]]
           all == SumFunctionOnSet(targets, Strategies)
           weights == SumFunctionOnSet(weight, Strategies)
<1>1. /\ x \in Nat /\ weight \in [Strategies -> Nat] /\ BPS \in Nat \ {0}
      /\ \A s \in Strategies : weight[s] \in 0..BPS
      /\ weights <= BPS /\ weights \in Nat
  BY Constants DEF Inv, TypeOK, WeightsWithinCap, Total
<1>2. targets \in [Strategies -> Nat] /\ \A s \in Strategies : targets[s] * BPS <= x * weight[s]
  <2>1. ASSUME NEW s \in Strategies
        PROVE  RebalanceTarget(s) \in Nat /\ RebalanceTarget(s) * BPS <= x * weight[s]
    <3> DEFINE w == weight[s]
               a == x * w
    <3>1. w \in Nat
      BY <1>1
    <3> HIDE DEF x, w
    <3>2. a \in Nat
      BY <1>1, <3>1, ProductNat
    <3>3. RebalanceTarget(s) = a \div BPS
      BY DEF RebalanceTarget, Portion, x, w
    <3> HIDE DEF a
    <3>4. a \div BPS \in Nat /\ (a \div BPS) * BPS <= a
      BY <1>1, <3>2, FloorDivision
    <3> QED BY <3>3, <3>4 DEF a, w
  <2> QED BY <2>1
<1> HIDE DEF x, targets
<1>3. scaled \in [Strategies -> Nat] /\ shares_ \in [Strategies -> Nat]
      /\ \A s \in Strategies : scaled[s] <= shares_[s]
  <2>1. ASSUME NEW s \in Strategies
        PROVE  /\ BPS * targets[s] \in Nat /\ x * weight[s] \in Nat
               /\ BPS * targets[s] <= x * weight[s]
    <3> DEFINE v == targets[s]
               w == weight[s]
    <3>1. v \in Nat /\ w \in Nat /\ v * BPS <= x * w
      BY <1>1, <1>2
    <3> HIDE DEF v, w
    <3>2. BPS * v = v * BPS /\ BPS * v \in Nat /\ x * w \in Nat
      BY <1>1, <3>1, ProductNat
    <3> QED BY <3>1, <3>2 DEF v, w
  <2> QED BY <2>1
<1>4. SumFunctionOnSet(scaled, Strategies) <= SumFunctionOnSet(shares_, Strategies)
  <2> HIDE DEF scaled, shares_
  <2> QED BY <1>3, Constants, SumMono
<1>5. SumFunctionOnSet(scaled, Strategies) = BPS * all
  BY <1>1, <1>2, Constants, SumScale
<1>6. SumFunctionOnSet(shares_, Strategies) = x * weights
  BY <1>1, Constants, SumScale
<1>7. all \in Nat
  BY <1>2, Constants, SumType
<1> HIDE DEF all, weights, scaled, shares_
<1>8. x * weights <= x * BPS
  <2>1. weights * x <= BPS * x
    BY <1>1, ProductMono
  <2> QED BY <1>1, <2>1
<1>9. all * BPS <= x * BPS
  <2>1. x * weights \in Nat /\ x * BPS \in Nat /\ all * BPS = BPS * all /\ all * BPS \in Nat
    BY <1>1, <1>7, ProductNat
  <2> QED BY <1>4, <1>5, <1>6, <1>8, <2>1
<1>10. all <= x
  BY <1>1, <1>7, <1>9, ProductCancelLeq
<1> QED BY <1>10 DEF all, x, targets, Total

\* Once no strategy is above its target, the reserve covers what any of them
\* still lacks.
LEMMA ReserveSuffices ==
  ASSUME Inv, NEW s \in Strategies,
         \A r \in Strategies : Active(r) => Gap(r) >= 0, Active(s)
  PROVE  Gap(s) <= reserve
<1> DEFINE targets == [r \in Strategies |-> RebalanceTarget(r)]
           g == Gap(s)
           f == [r \in Strategies |-> IF r = s THEN allocated[r] + g ELSE allocated[r]]
<1>1. /\ TypeOK /\ allocated \in [Strategies -> Nat] /\ reserve \in Nat
      /\ totalDeposited \in Nat /\ donated \in Nat
  BY Constants DEF Inv, TypeOK
<1>2. \A r \in Strategies : RebalanceTarget(r) \in Nat /\ Gap(r) \in Int
  BY <1>1, GapType
<1>3. g \in Nat /\ g >= 0
  BY <1>2
<1>4. targets \in [Strategies -> Nat] /\ f \in [Strategies -> Nat]
  <2> HIDE DEF g
  <2> QED BY <1>1, <1>2, <1>3
<1>5. \A r \in Strategies : f[r] <= targets[r]
  <2> SUFFICES ASSUME NEW r \in Strategies PROVE f[r] <= targets[r]
    OBVIOUS
  <2>1. allocated[r] \in Nat /\ RebalanceTarget(r) \in Nat /\ Gap(r) = RebalanceTarget(r) - allocated[r]
    BY <1>1, <1>2 DEF Gap
  <2>2. CASE r = s
    BY <2>1, <2>2
  <2>3. CASE r # s /\ Active(r)
    <3>1. Gap(r) >= 0
      BY <2>3
    <3> QED BY <2>1, <2>3, <3>1
  <2>4. CASE r # s /\ ~Active(r)
    <3>1. allocated[r] = 0
      BY <2>4 DEF Inv, InactiveIsEmpty
    <3> QED BY <2>1, <2>4, <3>1
  <2> QED BY <2>2, <2>3, <2>4
<1>6. (\A r \in Strategies \ {s} : f[r] = allocated[r]) /\ f[s] = allocated[s] + g
  OBVIOUS
<1>7. allocated[s] \in Nat
  BY <1>1
<1>8. Total(targets) <= totalDeposited
  BY TargetsWithinTotal
<1>9. reserve + Total(allocated) = totalDeposited + donated
  BY DEF Inv, BooksBalance
<1> HIDE DEF f, g, targets
<1>10. Total(f) = Total(allocated) - allocated[s] + f[s]
  BY <1>1, <1>4, <1>6, Constants, SumUpdate DEF Total
<1>11. Total(f) <= Total(targets)
  BY <1>4, <1>5, Constants, SumMono DEF Total
<1>12. Total(f) \in Nat /\ Total(targets) \in Nat /\ Total(allocated) \in Nat
  BY <1>1, <1>4, Constants, SumType DEF Total
<1>13. g <= reserve
  BY <1>1, <1>3, <1>6, <1>7, <1>8, <1>9, <1>10, <1>11, <1>12
<1> QED BY <1>13 DEF g

\* A transaction that rebalances a strategy brings it to its target and leaves
\* the others and what decides the targets alone.
LEMMA RebalanceBooks ==
  ASSUME TypeOK, NEW s \in Strategies, RebalanceStrategy(s)
  PROVE  /\ status' = status /\ weight' = weight /\ paused' = paused
         /\ totalDeposited' = totalDeposited
         /\ allocated'[s] = RebalanceTarget(s) /\ ata'[s] - allocated'[s] = ata[s] - allocated[s]
         /\ ata'[s] \in Int /\ allocated'[s] \in Int
         /\ \A r \in Strategies \ {s} : allocated'[r] = allocated[r] /\ ata'[r] = ata[r]
<1> DEFINE target == RebalanceTarget(s)
<1>1. /\ ata \in [Strategies -> Nat] /\ allocated \in [Strategies -> Nat]
      /\ target \in Nat
  <2>1. target \in 0..totalDeposited /\ totalDeposited \in Nat
    BY GapType DEF TypeOK
  <2> HIDE DEF target
  <2> QED BY <2>1, Constants DEF TypeOK
<1>2. /\ allocated' = [allocated EXCEPT ![s] = target]
      /\ \/ ata' = [ata EXCEPT ![s] = @ + (target - allocated[s])]
         \/ ata' = [ata EXCEPT ![s] = @ - (allocated[s] - target)]
      /\ status' = status /\ weight' = weight /\ paused' = paused
      /\ totalDeposited' = totalDeposited
  BY DEF RebalanceStrategy, Rebook, ReserveToStrategy, StrategyToReserve, BooksUntouched,
         strategyVars, configVars
<1> HIDE DEF target
<1>3. ata'[s] = ata[s] + (target - allocated[s]) /\ allocated'[s] = target
  <2>1. ata[s] \in Nat /\ allocated[s] \in Nat
    BY <1>1
  <2>2. ata[s] - (allocated[s] - target) = ata[s] + (target - allocated[s])
    BY <1>1, <2>1
  <2> QED BY <1>1, <1>2, <2>2
<1>4. \A r \in Strategies \ {s} : allocated'[r] = allocated[r] /\ ata'[r] = ata[r]
  BY <1>1, <1>2
<1>5. ata[s] \in Nat /\ allocated[s] \in Nat
  BY <1>1
<1> QED BY <1>1, <1>2, <1>3, <1>4, <1>5 DEF target

-----------------------------------------------------------------------------
(***************************************************************************)
(* Strategies that were never created.                                     *)
(***************************************************************************)
\* A strategy that was never created holds nothing.
NeverCreatedIsEmpty == \A s \in Strategies : ~Created(s) => ata[s] = 0

\* No step of the ledger sends tokens to a strategy that was never created.
LEMMA KindsLeaveUncreated ==
  ASSUME Inv, NeverCreatedIsEmpty,
         \/ Purchase \/ Redemption \/ Movement \/ Settlement
         \/ Administration \/ Switches \/ TokenMovement \/ ShareMovement
  PROVE  NeverCreatedIsEmpty'
<1>1. /\ TypeOK /\ ata \in [Strategies -> Nat] /\ DOMAIN ata = Strategies
      /\ status \in [Strategies -> {"none", "active", "inactive"}]
      /\ \A s \in Strategies : ~Created(s) => ata[s] = 0 /\ ~Active(s)
  BY DEF Inv, TypeOK, NeverCreatedIsEmpty, Created, Active
<1>2. CASE Purchase
  <2>1. PICK u \in Users, amount \in Nat, times \in [Strategies -> Nat] :
          Deposit(u, amount, times)
    BY <1>2 DEF Purchase
  <2>2. status' = status /\ ata' = [s \in Strategies |-> ata[s] + FanOut(amount, times)[s]]
    BY <2>1 DEF Deposit, strategyVars
  <2>3. \A s \in Strategies : ~Created(s) => FanOut(amount, times)[s] = 0
    BY <1>1 DEF FanOut
  <2> QED BY <1>1, <2>2, <2>3 DEF NeverCreatedIsEmpty, Created
<1>3. CASE Redemption
  <2>1. PICK u \in Users, n \in Nat, pull \in [Strategies -> Nat] : Withdraw(u, n, pull)
    BY <1>3 DEF Redemption
  <2>2. /\ status' = status /\ ata' = [s \in Strategies |-> ata[s] - pull[s]]
        /\ \A s \in Strategies : pull[s] <= ata[s]
    BY <2>1 DEF Withdraw, MayWithdraw, AutoPull, strategyVars
  <2> QED BY <1>1, <2>1, <2>2 DEF NeverCreatedIsEmpty, Created
<1>4. CASE Movement
  <2>1. PICK r \in Strategies, delta \in Int : Moved(r, delta)
    BY <1>4 DEF Movement
  <2>2. status' = status /\ Active(r) /\ \A s \in Strategies \ {r} : ata'[s] = ata[s]
    BY <1>1, <2>1 DEF Moved, Shift, BooksUntouched, strategyVars
  <2> QED BY <1>1, <2>2 DEF NeverCreatedIsEmpty, Created
<1>5. CASE Settlement \/ Switches \/ ShareMovement
  <2>1. ata' = ata /\ status' = status
    BY <1>5 DEF Settlement, Settle, Switches, SetPaused, SetPerformanceFeeBps, SetProtocolFeeBps,
                ShareMovement, BurnShares, ShareTransfer, tokenVars, strategyVars
  <2> QED BY <1>1, <2>1 DEF NeverCreatedIsEmpty, Created
<1>6. CASE Administration
  <2>1. PICK r \in Strategies :
          CreateStrategy(r) \/ DeactivateStrategy(r) \/ \E w \in Nat : SetStrategyWeight(r, w)
    BY <1>6 DEF Administration
  <2>2. ata' = ata /\ \A s \in Strategies : Created(s) => status'[s] # "none"
    BY <1>1, <2>1 DEF CreateStrategy, DeactivateStrategy, SetStrategyWeight, tokenVars, Created
  <2> QED BY <1>1, <2>2 DEF NeverCreatedIsEmpty, Created
<1>7. CASE TokenMovement
  <2>1. /\ status' = status
        /\ \/ ata' = ata
           \/ \E r \in Strategies : Created(r) /\ \A s \in Strategies \ {r} : ata'[s] = ata[s]
    BY <1>1, <1>7 DEF TokenMovement, Donate, DelegateTransfer, TransferIn, MayTransferIn,
                      strategyVars
  <2> QED BY <1>1, <2>1 DEF NeverCreatedIsEmpty, Created
<1> QED BY <1>2, <1>3, <1>4, <1>5, <1>6, <1>7
=============================================================================
