---------------------------- MODULE ArithmeticTheorems ----------------------------
(***************************************************************************)
(* Facts about SumFunctionOnSet (community module Functions) on functions  *)
(* whose values are natural numbers: the vault's books are sums over its   *)
(* strategies and its share holders, a market's books sums over its        *)
(* participants, and every proof about them needs to know what a sum       *)
(* becomes when one or several entries change.                             *)
(*                                                                         *)
(* Facts about products and quotients, which price every exchange, follow. *)
(*                                                                         *)
(* The sum is a recursive function over the subsets of the index set.  Its *)
(* existence is shown with an explicit witness: the sum of f over T counts *)
(* the cells <<s, i>>, one for each unit of each entry.                    *)
(***************************************************************************)
EXTENDS Integers, FiniteSets, Functions, Listings, FiniteSetTheorems, SequenceTheorems,
        TLAPS

\* One cell per unit of every entry of f over T.
Cells(f, T) == UNION {{s} \X (1..f[s]) : s \in T}

\* The element the library's fold removes first, and its recursion equation.
Pick(s) == CHOOSE x \in s : TRUE
SumRec(f, S, h) ==
  h = [s \in SUBSET S |-> IF s = {} THEN 0 ELSE f[Pick(s)] + h[s \ {Pick(s)}]]

\* A nonempty family of subsets of a finite set has a minimal member: the
\* form of induction over finite sets that needs no operator parameter.
LEMMA MinimalSubset ==
  ASSUME NEW S, IsFiniteSet(S), NEW F, F \subseteq SUBSET S, F # {}
  PROVE  \E T \in F : \A U \in F : ~(U \subseteq T /\ U # T)
<1>1. IsWellFoundedOn(StrictSubsetOrdering(S), FiniteSubsetsOf(S))
  BY FS_StrictSubsetOrderingWellFounded
<1>2. FiniteSubsetsOf(S) = SUBSET S
  BY FS_FiniteSubsetsOfFinite
<1>3. IsWellFoundedOn(StrictSubsetOrdering(S), SUBSET S)
  BY <1>1, <1>2
<1>4. \E T \in F : \A U \in F : ~(<<U, T>> \in StrictSubsetOrdering(S))
  BY <1>3, WFMin
<1>5. \A T \in F, U \in F : U \subseteq T /\ U # T => <<U, T>> \in StrictSubsetOrdering(S)
  BY DEF StrictSubsetOrdering
<1> QED BY <1>4, <1>5

\* A nonempty set of natural numbers has a least member: induction over the
\* natural numbers, in the same form.
LEMMA LeastNat ==
  ASSUME NEW B \in SUBSET Nat, B # {}
  PROVE  \E n \in B : \A m \in B : n <= m
<1>1. PICK b \in B : TRUE
  OBVIOUS
<1> DEFINE F == {X \in SUBSET (0..b) : \E m \in B : m <= b /\ X = 0..m}
<1>2. F \subseteq SUBSET (0..b) /\ F # {}
  <2>1. 0..b \in F
    BY <1>1
  <2> QED BY <2>1
<1>3. IsFiniteSet(0..b)
  BY <1>1, FS_Interval
<1> HIDE DEF F
<1>4. PICK T \in F : \A U \in F : ~(U \subseteq T /\ U # T)
  <2> DEFINE S == 0..b
  <2>1. IsFiniteSet(S) /\ F \subseteq SUBSET S /\ F # {}
    BY <1>2, <1>3
  <2> HIDE DEF S
  <2> QED BY <2>1, MinimalSubset
<1>5. PICK n \in B : n <= b /\ T = 0..n
  <2>1. T \in F
    BY <1>4
  <2> QED BY <2>1 DEF F
<1>6. ASSUME NEW m \in B, m < n
      PROVE  FALSE
  <2>1. 0..m \in F
    BY <1>1, <1>5, <1>6 DEF F
  <2>2. 0..m \subseteq T /\ n \in T /\ n \notin 0..m
    BY <1>5, <1>6
  <2> QED BY <1>4, <2>1, <2>2
<1>7. \A m \in B : ~(m < n)
  BY <1>6
<1>8. \A m \in B : n <= m
  BY <1>7
<1> QED BY <1>8

\* What holds of 0 and, with a number, of the next one, holds up to any number.
LEMMA Upwards ==
  ASSUME NEW N \in Nat, NEW G, 0 \in G, \A k \in 1..N : k - 1 \in G => k \in G
  PROVE  \A k \in 0..N : k \in G
<1> DEFINE B == {k \in 0..N : k \notin G}
<1>1. ASSUME B # {} PROVE FALSE
  <2>1. B \in SUBSET Nat /\ (\A k \in B : k \in 0..N /\ k \notin G)
        /\ \A k \in 0..N : k \notin B => k \in G
    OBVIOUS
  <2> HIDE DEF B
  <2>2. PICK k \in B : \A m \in B : k <= m
    BY <1>1, <2>1, LeastNat
  <2>3. k \in 1..N /\ k - 1 \in 0..N /\ ~(k <= k - 1)
    <3>1. k # 0
      BY <2>1
    <3> QED BY <2>1, <3>1
  <2> QED BY <2>1, <2>2, <2>3
<1> QED BY <1>1

\* The cells of a finite part of f are finite, and lose f[x] of them when x leaves.
LEMMA CellsStep ==
  ASSUME NEW S, IsFiniteSet(S), NEW f \in [S -> Nat], NEW T \in SUBSET S
  PROVE  /\ IsFiniteSet(Cells(f, T))
         /\ \A x \in T : Cardinality(Cells(f, T)) =
                           f[x] + Cardinality(Cells(f, T \ {x}))
<1>1. \A s \in S : /\ IsFiniteSet({s} \X (1..f[s]))
                   /\ Cardinality({s} \X (1..f[s])) = f[s]
  <2> TAKE s \in S
  <2>1. f[s] \in Nat
    OBVIOUS
  <2>2. IsFiniteSet({s}) /\ Cardinality({s}) = 1
    BY FS_Singleton
  <2>3. IsFiniteSet(1..f[s]) /\ Cardinality(1..f[s]) = f[s]
    BY <2>1, FS_Interval
  <2>4. /\ IsFiniteSet({s} \X (1..f[s]))
        /\ Cardinality({s} \X (1..f[s])) = Cardinality({s}) * Cardinality(1..f[s])
    BY <2>2, <2>3, FS_Product
  <2> QED BY <2>1, <2>2, <2>3, <2>4
<1>2. \A U \in SUBSET S : IsFiniteSet(Cells(f, U))
  <2> TAKE U \in SUBSET S
  <2> DEFINE parts == {{s} \X (1..f[s]) : s \in U}
  <2>1. IsFiniteSet(U)
    BY FS_Subset
  <2>2. IsFiniteSet(parts)
    <3> DEFINE m == [s \in U |-> {s} \X (1..f[s])]
    <3>1. m \in Surjection(U, parts)
      BY DEF Surjection
    <3> QED BY <2>1, <3>1, FS_Surjection
  <2>3. \A p \in parts : IsFiniteSet(p)
    BY <1>1
  <2> HIDE DEF parts
  <2>4. IsFiniteSet(UNION parts)
    BY <2>2, <2>3, FS_UNION
  <2> QED BY <2>4 DEF Cells, parts
<1>3. ASSUME NEW x \in T
      PROVE  Cardinality(Cells(f, T)) = f[x] + Cardinality(Cells(f, T \ {x}))
  <2> DEFINE here == {x} \X (1..f[x])
             rest == Cells(f, T \ {x})
  <2>1. Cells(f, T) = here \cup rest
    BY DEF Cells
  <2>2. here \cap rest = {}
    BY DEF Cells
  <2>3. IsFiniteSet(here) /\ Cardinality(here) = f[x] /\ IsFiniteSet(rest)
    BY <1>1, <1>2
  <2>4. Cardinality(here \cap rest) = 0
    BY <2>2, FS_EmptySet
  <2>5. Cardinality(rest) \in Nat /\ f[x] \in Nat
    BY <2>3, FS_CardinalityType
  <2> HIDE DEF here, rest
  <2>6. Cardinality(here \cup rest) = Cardinality(here) + Cardinality(rest) - Cardinality(here \cap rest)
    BY <2>3, FS_Union
  <2> QED BY <2>1, <2>3, <2>4, <2>5, <2>6 DEF rest
<1> QED BY <1>2, <1>3

\* The library's fold satisfies its recursion equation.
LEMMA SumRecExists ==
  ASSUME NEW S, IsFiniteSet(S), NEW f \in [S -> Nat]
  PROVE  \E h : SumRec(f, S, h) /\ SumFunctionOnSet(f, S) = h[S]
<1> DEFINE w == [s \in SUBSET S |-> Cardinality(Cells(f, s))]
<1>1. Cardinality(Cells(f, {})) = 0
  <2>1. Cells(f, {}) = {}
    BY DEF Cells
  <2> QED BY <2>1, FS_EmptySet
<1>2. ASSUME NEW s \in SUBSET S, s # {}
      PROVE  w[s] = f[Pick(s)] + w[s \ {Pick(s)}]
  <2>1. Pick(s) \in s
    BY <1>2 DEF Pick
  <2>2. Cardinality(Cells(f, s)) = f[Pick(s)] + Cardinality(Cells(f, s \ {Pick(s)}))
    BY <2>1, CellsStep
  <2>3. s \ {Pick(s)} \in SUBSET S
    OBVIOUS
  <2> QED BY <2>2, <2>3
<1>3. w = [s \in SUBSET S |-> IF s = {} THEN 0 ELSE f[Pick(s)] + w[s \ {Pick(s)}]]
  BY <1>1, <1>2
<1>4. SumRec(f, S, w)
  BY <1>3 DEF SumRec
<1> HIDE DEF w
<1>5. SumRec(f, S, CHOOSE h : SumRec(f, S, h))
  BY <1>4
<1>6. SumFunctionOnSet(f, S) = (CHOOSE h : SumRec(f, S, h))[S]
  BY DEF SumFunctionOnSet, FoldFunctionOnSet, MapThenFoldSet, SumRec, Pick
<1> QED BY <1>5, <1>6

\* The sum of f over S is the number of its cells.
LEMMA SumIsCount ==
  ASSUME NEW S, IsFiniteSet(S), NEW f \in [S -> Nat]
  PROVE  SumFunctionOnSet(f, S) = Cardinality(Cells(f, S))
<1>1. PICK h : SumRec(f, S, h) /\ SumFunctionOnSet(f, S) = h[S]
  BY SumRecExists
<1>2. \A s \in SUBSET S : h[s] = IF s = {} THEN 0 ELSE f[Pick(s)] + h[s \ {Pick(s)}]
  BY <1>1 DEF SumRec
<1> DEFINE bad == {s \in SUBSET S : h[s] # Cardinality(Cells(f, s))}
<1>3. bad = {}
  <2> SUFFICES ASSUME bad # {} PROVE FALSE
    OBVIOUS
  <2>0. bad \subseteq SUBSET S
    OBVIOUS
  <2>1. PICK s \in bad : \A u \in bad : ~(u \subseteq s /\ u # s)
    <3> HIDE DEF bad
    <3> QED BY <2>0, MinimalSubset
  <2>2. s # {}
    <3>1. Cells(f, {}) = {}
      BY DEF Cells
    <3> QED BY <1>2, <3>1, FS_EmptySet
  <2>3. Pick(s) \in s
    BY <2>2 DEF Pick
  <2>4. s \ {Pick(s)} \notin bad
    BY <2>1, <2>3
  <2>5. Cardinality(Cells(f, s)) = f[Pick(s)] + Cardinality(Cells(f, s \ {Pick(s)}))
    BY <2>3, CellsStep
  <2>6. h[s] = f[Pick(s)] + h[s \ {Pick(s)}]
    BY <1>2, <2>2
  <2> QED BY <2>4, <2>5, <2>6
<1> QED BY <1>1, <1>3

-----------------------------------------------------------------------------
(***************************************************************************)
(* The facts the vault proofs cite.                                        *)
(***************************************************************************)

\* A sum of natural numbers is a natural number, and is 0 over no index.
LEMMA SumType ==
  ASSUME NEW S, IsFiniteSet(S), NEW f \in [S -> Nat]
  PROVE  SumFunctionOnSet(f, S) \in Nat
BY SumIsCount, CellsStep, FS_CardinalityType

\* A sum is one of its entries plus the sum of the others.
LEMMA SumSplit ==
  ASSUME NEW S, IsFiniteSet(S), NEW f \in [S -> Nat], NEW x \in S
  PROVE  LET g == [s \in S \ {x} |-> f[s]]
         IN  /\ SumFunctionOnSet(g, S \ {x}) \in Nat
             /\ SumFunctionOnSet(f, S) = f[x] + SumFunctionOnSet(g, S \ {x})
<1> DEFINE T == S \ {x}
           g == [s \in T |-> f[s]]
<1>1. IsFiniteSet(T) /\ g \in [T -> Nat]
  BY FS_Subset
<1>2. SumFunctionOnSet(g, T) = Cardinality(Cells(g, T))
  <2> HIDE DEF T, g
  <2> QED BY <1>1, SumIsCount
<1>3. Cells(g, T) = Cells(f, T)
  BY DEF Cells
<1>4. Cardinality(Cells(f, S)) = f[x] + Cardinality(Cells(f, T))
  BY CellsStep
<1>5. SumFunctionOnSet(g, T) \in Nat
  <2> HIDE DEF T, g
  <2> QED BY <1>1, SumType
<1> QED BY <1>2, <1>3, <1>4, <1>5, SumIsCount

\* Two functions that differ in one entry have sums that differ by as much.
LEMMA SumUpdate ==
  ASSUME NEW S, IsFiniteSet(S), NEW f \in [S -> Nat], NEW g \in [S -> Nat],
         NEW x \in S, \A s \in S \ {x} : g[s] = f[s]
  PROVE  SumFunctionOnSet(g, S) = SumFunctionOnSet(f, S) - f[x] + g[x]
<1> DEFINE T == S \ {x}
           rf == [s \in T |-> f[s]]
           rg == [s \in T |-> g[s]]
<1>1. f[x] \in Nat /\ g[x] \in Nat
  OBVIOUS
<1>2. rf = rg
  OBVIOUS
<1>3. /\ SumFunctionOnSet(rf, T) \in Nat
      /\ SumFunctionOnSet(f, S) = f[x] + SumFunctionOnSet(rf, T)
  BY SumSplit
<1>4. SumFunctionOnSet(g, S) = g[x] + SumFunctionOnSet(rg, T)
  BY SumSplit
<1> HIDE DEF rf, rg, T
<1> QED BY <1>1, <1>2, <1>3, <1>4

\* No entry exceeds the sum.
LEMMA SumMember ==
  ASSUME NEW S, IsFiniteSet(S), NEW f \in [S -> Nat], NEW x \in S
  PROVE  f[x] <= SumFunctionOnSet(f, S)
<1> DEFINE r == SumFunctionOnSet([s \in S \ {x} |-> f[s]], S \ {x})
<1>1. r \in Nat /\ SumFunctionOnSet(f, S) = f[x] + r
  BY SumSplit
<1> HIDE DEF r
<1>2. f[x] \in Nat
  OBVIOUS
<1> QED BY <1>1, <1>2

\* A function that is 0 everywhere sums to 0.
LEMMA SumZero ==
  ASSUME NEW S, IsFiniteSet(S), NEW f \in [S -> Nat], \A s \in S : f[s] = 0
  PROVE  SumFunctionOnSet(f, S) = 0
<1>1. Cells(f, S) = {}
  <2>1. \A s \in S : 1..f[s] = {}
    OBVIOUS
  <2> QED BY <2>1 DEF Cells
<1> QED BY <1>1, SumIsCount, FS_EmptySet

\* The sum of a pointwise sum is the sum of the sums.
LEMMA SumAdd ==
  ASSUME NEW S, IsFiniteSet(S), NEW f \in [S -> Nat], NEW g \in [S -> Nat],
         NEW h \in [S -> Nat], \A s \in S : h[s] = f[s] + g[s]
  PROVE  SumFunctionOnSet(h, S) = SumFunctionOnSet(f, S) + SumFunctionOnSet(g, S)
<1> DEFINE N(k, T) == Cardinality(Cells(k, T))
           bad == {T \in SUBSET S : N(h, T) # N(f, T) + N(g, T)}
<1>1. bad = {}
  <2> SUFFICES ASSUME bad # {} PROVE FALSE
    OBVIOUS
  <2>0. bad \subseteq SUBSET S
    OBVIOUS
  <2>1. PICK T \in bad : \A U \in bad : ~(U \subseteq T /\ U # T)
    <3> HIDE DEF bad
    <3> QED BY <2>0, MinimalSubset
  <2>2. N(h, {}) = 0 /\ N(f, {}) = 0 /\ N(g, {}) = 0
    <3>1. \A k : Cells(k, {}) = {}
      BY DEF Cells
    <3> QED BY <3>1, FS_EmptySet
  <2>3. T # {}
    BY <2>2
  <2>4. PICK x : x \in T
    BY <2>3
  <2>5. T \ {x} \notin bad
    BY <2>1, <2>4
  <2>6. /\ N(h, T) = h[x] + N(h, T \ {x})
        /\ N(f, T) = f[x] + N(f, T \ {x})
        /\ N(g, T) = g[x] + N(g, T \ {x})
    BY <2>4, CellsStep
  <2>7. \A k \in {f, g, h} : N(k, T \ {x}) \in Nat /\ k[x] \in Nat
    <3>1. T \ {x} \in SUBSET S /\ x \in S
      BY <2>4
    <3> QED BY <3>1, CellsStep, FS_CardinalityType
  <2>8. N(h, T \ {x}) = N(f, T \ {x}) + N(g, T \ {x})
    BY <2>5
  <2>9. h[x] = f[x] + g[x]
    BY <2>4
  <2>10. N(h, T) = N(f, T) + N(g, T)
    <3> HIDE DEF N
    <3> QED BY <2>6, <2>7, <2>8, <2>9
  <2> QED BY <2>10
<1>2. N(h, S) = N(f, S) + N(g, S)
  BY <1>1
<1> QED BY <1>2, SumIsCount

\* A function that is nowhere larger has no larger sum.
LEMMA SumMono ==
  ASSUME NEW S, IsFiniteSet(S), NEW f \in [S -> Nat], NEW g \in [S -> Nat],
         \A s \in S : f[s] <= g[s]
  PROVE  SumFunctionOnSet(f, S) <= SumFunctionOnSet(g, S)
<1> DEFINE gap == [s \in S |-> g[s] - f[s]]
<1>1. gap \in [S -> Nat] /\ \A s \in S : g[s] = f[s] + gap[s]
  OBVIOUS
<1> HIDE DEF gap
<1>2. SumFunctionOnSet(g, S) = SumFunctionOnSet(f, S) + SumFunctionOnSet(gap, S)
  BY <1>1, SumAdd
<1>3. SumFunctionOnSet(f, S) \in Nat /\ SumFunctionOnSet(gap, S) \in Nat
  BY <1>1, SumType
<1> QED BY <1>2, <1>3
-----------------------------------------------------------------------------
\* Integer division rounds down, for every positive divisor.
LEMMA FloorDivision ==
  ASSUME NEW a \in Nat, NEW b \in Nat \ {0}
  PROVE  /\ a \div b \in Nat
         /\ (a \div b) * b <= a
         /\ a < (a \div b + 1) * b
OBVIOUS

\* Products of natural numbers are natural, and grow with a factor.
LEMMA ProductNat ==
  ASSUME NEW a \in Nat, NEW b \in Nat
  PROVE  a * b \in Nat
OBVIOUS

\* A multiple of a function has the multiple of its sum.
LEMMA SumScale ==
  ASSUME NEW S, IsFiniteSet(S), NEW f \in [S -> Nat], NEW n \in Nat
  PROVE  SumFunctionOnSet([s \in S |-> n * f[s]], S) = n * SumFunctionOnSet(f, S)
<1> DEFINE times(k) == [s \in S |-> k * f[s]]
           sum(k) == SumFunctionOnSet(times(k), S)
           all == SumFunctionOnSet(f, S)
           bad == {k \in Nat : sum(k) # k * all}
<1>1. all \in Nat
  BY SumType
<1>2. \A k \in Nat : times(k) \in [S -> Nat]
  BY ProductNat
<1>3. \A k \in Nat : sum(k) \in Nat /\ k * all \in Nat
  BY <1>1, <1>2, SumType, ProductNat
<1>4. sum(0) = 0
  <2> DEFINE none == times(0)
  <2>1. none \in [S -> Nat] /\ \A s \in S : none[s] = 0
    OBVIOUS
  <2> HIDE DEF none
  <2>2. SumFunctionOnSet(none, S) = 0
    BY <2>1, SumZero
  <2> QED BY <2>2 DEF none
<1>5. ASSUME NEW k \in Nat PROVE sum(k + 1) = sum(k) + all
  <2> DEFINE old == times(k)
             new == times(k + 1)
  <2>1. old \in [S -> Nat] /\ new \in [S -> Nat]
    <3>1. k + 1 \in Nat
      OBVIOUS
    <3> HIDE DEF times
    <3> QED BY <1>2, <3>1
  <2>2. \A s \in S : new[s] = old[s] + f[s]
    OBVIOUS
  <2> HIDE DEF old, new
  <2>3. SumFunctionOnSet(new, S) = SumFunctionOnSet(old, S) + SumFunctionOnSet(f, S)
    BY <2>1, <2>2, SumAdd
  <2> QED BY <2>3 DEF old, new
<1>6. bad = {}
  <2> SUFFICES ASSUME bad # {} PROVE FALSE
    OBVIOUS
  <2>1. PICK k \in bad : \A m \in bad : k <= m
    BY LeastNat
  <2> HIDE DEF times, sum, all
  <2>2. k # 0
    BY <1>1, <1>4, <2>1
  <2> DEFINE m == k - 1
  <2>3. m \in Nat /\ k = m + 1 /\ m \notin bad
    BY <2>1, <2>2
  <2>4. sum(m) = m * all
    BY <2>3
  <2>5. sum(k) = sum(m) + all
    BY <1>5, <2>3
  <2> HIDE DEF m
  <2>6. k * all = m * all + all
    BY <1>1, <2>3
  <2> QED BY <1>1, <1>3, <2>1, <2>3, <2>4, <2>5, <2>6
<1>7. sum(n) = n * all
  BY <1>6
<1> QED BY <1>7

\* A product grows with its first factor.
LEMMA ProductMono ==
  ASSUME NEW a \in Nat, NEW b \in Nat, NEW c \in Nat, a <= b
  PROVE  a * c <= b * c
OBVIOUS

\* A common positive factor cancels in a comparison.
LEMMA ProductCancel ==
  ASSUME NEW a \in Nat, NEW b \in Nat, NEW c \in Nat \ {0}, a * c < b * c
  PROVE  a < b
<1> SUFFICES ASSUME b <= a PROVE FALSE
  OBVIOUS
<1>1. b * c <= a * c
  BY ProductMono
<1>2. a * c \in Nat /\ b * c \in Nat
  BY ProductNat
<1> QED BY <1>1, <1>2

\* So it does in a weak comparison.
LEMMA ProductCancelLeq ==
  ASSUME NEW a \in Nat, NEW b \in Nat, NEW c \in Nat \ {0}, a * c <= b * c
  PROVE  a <= b
<1> SUFFICES ASSUME b < a PROVE FALSE
  OBVIOUS
<1> DEFINE k == b + 1
<1>1. k \in Nat /\ k <= a /\ k * c = b * c + c
  OBVIOUS
<1> HIDE DEF k
<1>2. k * c <= a * c
  BY <1>1, ProductMono
<1>3. a * c \in Nat /\ b * c \in Nat /\ k * c \in Nat
  BY <1>1, ProductNat
<1> QED BY <1>1, <1>2, <1>3

\* A quotient does not fall when the fraction does not.
LEMMA QuotientMono ==
  ASSUME NEW a \in Nat, NEW b \in Nat, NEW c \in Nat \ {0}, NEW d \in Nat \ {0},
         a * d <= b * c
  PROVE  a \div c <= b \div d
<1> DEFINE q == a \div c
           r == b \div d
<1>1. q \in Nat /\ q * c <= a /\ r \in Nat /\ b < (r + 1) * d
  BY FloorDivision
<1> HIDE DEF q, r
<1>2. (q * c) * d <= a * d
  BY <1>1, ProductMono, ProductNat
<1>3. (q * d) * c <= b * c
  <2>1. (q * c) * d = (q * d) * c
    BY <1>1
  <2>2. a * d \in Nat /\ b * c \in Nat /\ (q * c) * d \in Nat
    BY <1>1, ProductNat
  <2> QED BY <1>2, <2>1, <2>2
<1>4. (q * d) * c < ((r + 1) * d) * c
  <2>1. b * c < ((r + 1) * d) * c
    <3> DEFINE e == (r + 1) * d
    <3>1. e \in Nat /\ b < e
      BY <1>1, ProductNat
    <3> HIDE DEF e
    <3>2. b * c < e * c
      BY <3>1
    <3> QED BY <3>2 DEF e
  <2>2. (q * d) * c \in Nat /\ b * c \in Nat /\ ((r + 1) * d) * c \in Nat
    BY <1>1, ProductNat
  <2> QED BY <1>3, <2>1, <2>2
<1>5. q * d < (r + 1) * d
  <2> DEFINE x == q * d
             y == (r + 1) * d
  <2>1. x \in Nat /\ y \in Nat /\ x * c < y * c
    BY <1>1, <1>4, ProductNat
  <2> HIDE DEF x, y
  <2>2. x < y
    BY <2>1, ProductCancel
  <2> QED BY <2>2 DEF x, y
<1>6. q < r + 1
  <2> DEFINE y == r + 1
  <2>1. y \in Nat /\ q * d < y * d
    BY <1>1, <1>5
  <2> HIDE DEF y
  <2>2. q < y
    BY <1>1, <2>1, ProductCancel
  <2> QED BY <2>2 DEF y
<1> QED BY <1>1, <1>6 DEF q, r

\* Rounding a quotient up: the least number of parts that cover a.
LEMMA CeilingDivision ==
  ASSUME NEW a \in Nat, NEW b \in Nat \ {0}
  PROVE  LET q == (a + b - 1) \div b
         IN  q \in Nat /\ q * b >= a /\ q * b < a + b
<1> DEFINE n == a + b - 1
           q == n \div b
<1>1. n \in Nat
  OBVIOUS
<1> HIDE DEF n
<1>2. q \in Nat /\ q * b <= n /\ n < (q + 1) * b
  BY <1>1, FloorDivision
<1> HIDE DEF q
<1>3. (q + 1) * b = q * b + b /\ q * b \in Nat
  BY <1>2
<1>4. q * b >= a /\ q * b < a + b
  BY <1>2, <1>3 DEF n
<1> QED BY <1>2, <1>4 DEF q, n

\* A quotient rounded down reaches n exactly when the dividend holds n divisors.
LEMMA FloorReaches ==
  ASSUME NEW n \in Nat, NEW a \in Nat, NEW b \in Nat \ {0}
  PROVE  n <= a \div b <=> n * b <= a
<1> DEFINE q == a \div b
<1>1. q \in Nat /\ q * b <= a /\ a < (q + 1) * b
  BY FloorDivision
<1> HIDE DEF q
<1>2. n * b \in Nat /\ q * b \in Nat /\ (q + 1) * b \in Nat
  BY <1>1, ProductNat
<1>3. n <= q => n * b <= a
  <2>1. n <= q => n * b <= q * b
    BY <1>1, ProductMono
  <2> QED BY <1>1, <1>2, <2>1
<1>4. n * b <= a => n <= q
  <2> SUFFICES ASSUME n * b <= a PROVE n <= q
    OBVIOUS
  <2>1. n * b < (q + 1) * b
    BY <1>1, <1>2
  <2> DEFINE k == q + 1
  <2>2. k \in Nat /\ n * b < k * b
    BY <1>1, <2>1
  <2> HIDE DEF k
  <2>3. n < k
    BY <2>2, ProductCancel
  <2> QED BY <1>1, <2>3 DEF k
<1> QED BY <1>3, <1>4 DEF q

-----------------------------------------------------------------------------
(***************************************************************************)
(* Listings of finite sets.                                                *)
(***************************************************************************)
\* The pairs order the members of S in a line.
IsOrder(S, before) ==
  /\ \A x \in S : <<x, x>> \notin before
  /\ \A x, y, z \in S : <<x, y>> \in before /\ <<y, z>> \in before => <<x, z>> \in before
  /\ \A x, y \in S : x # y => <<x, y>> \in before \/ <<y, x>> \in before

\* s lists the members of S, each once and in that order.
RunsThrough(s, S, before) ==
  /\ s \in Seq(S)
  /\ \A i, j \in 1..Len(s) : i < j => <<s[i], s[j]>> \in before
  /\ \A x \in S : \E i \in 1..Len(s) : s[i] = x

\* s lists the members of S, each once and the largest first.
Lists(s, S) ==
  /\ s \in Seq(S)
  /\ \A i, j \in 1..Len(s) : i < j => s[i] > s[j]
  /\ \A x \in S : \E i \in 1..Len(s) : s[i] = x

\* The members that come before x.
Earlier(S, before, x) == {j \in S : <<j, x>> \in before}

\* The members of a finite set are numbered by how many come before them.
LEMMA RankIsBijection ==
  ASSUME NEW S, IsFiniteSet(S), NEW before, IsOrder(S, before)
  PROVE  /\ \A x \in S : Cardinality(Earlier(S, before, x)) \in 0..(Cardinality(S) - 1)
         /\ \A x, y \in S : <<x, y>> \in before =>
              Cardinality(Earlier(S, before, x)) < Cardinality(Earlier(S, before, y))
         /\ \A k \in 1..Cardinality(S) : \E x \in S : Cardinality(Earlier(S, before, x)) = k - 1
<1> DEFINE rank(x) == Cardinality(Earlier(S, before, x))
           n == Cardinality(S)
<1>1. n \in Nat
  BY FS_CardinalityType
<1>2. \A x \in S : IsFiniteSet(Earlier(S, before, x)) /\ rank(x) \in Nat /\ rank(x) < n
  <2> TAKE x \in S
  <2>1. Earlier(S, before, x) \subseteq S /\ Earlier(S, before, x) # S
    BY DEF Earlier, IsOrder
  <2> QED BY <2>1, FS_Subset, FS_CardinalityType
<1>3. \A x, y \in S : <<x, y>> \in before => rank(x) < rank(y)
  <2> SUFFICES ASSUME NEW x \in S, NEW y \in S, <<x, y>> \in before
               PROVE  rank(x) < rank(y)
    OBVIOUS
  <2>1. /\ Earlier(S, before, x) \subseteq Earlier(S, before, y)
        /\ x \in Earlier(S, before, y) /\ x \notin Earlier(S, before, x)
    BY DEF Earlier, IsOrder
  <2>2. IsFiniteSet(Earlier(S, before, y)) /\ rank(x) \in Nat /\ rank(y) \in Nat
    BY <1>2
  <2> QED BY <2>1, <2>2, FS_Subset
<1> DEFINE f == [x \in S |-> rank(x) + 1]
           T == {f[x] : x \in S}
<1>4. \A x \in S : f[x] \in 1..n
  BY <1>1, <1>2
<1>5. \A x, y \in S : f[x] = f[y] => x = y
  <2> SUFFICES ASSUME NEW x \in S, NEW y \in S, x # y
               PROVE  rank(x) # rank(y)
    BY <1>2
  <2>1. <<x, y>> \in before \/ <<y, x>> \in before
    BY DEF IsOrder
  <2> QED BY <2>1, <1>2, <1>3
<1>6. f \in Bijection(S, T)
  <2>1. f \in [S -> T] /\ \A t \in T : \E x \in S : f[x] = t
    OBVIOUS
  <2> HIDE DEF f, T
  <2> QED BY <1>5, <2>1 DEF Bijection, Injection, Surjection, IsInjective
<1>7. Cardinality(T) = n
  BY <1>6, FS_Bijection DEF ExistsBijection
<1>8. T \subseteq 1..n
  BY <1>4
<1>9. IsFiniteSet(1..n) /\ Cardinality(1..n) = n
  BY <1>1, FS_Interval
<1>10. T = 1..n
  BY <1>7, <1>8, <1>9, FS_Subset
<1>11. \A k \in 1..n : \E x \in S : rank(x) = k - 1
  <2> TAKE k \in 1..n
  <2>1. PICK x \in S : f[x] = k
    BY <1>10
  <2> QED BY <2>1, <1>2
<1> QED BY <1>1, <1>2, <1>3, <1>11

\* Ranked lists the members of a finite set in the order it is given.
LEMMA RankedLists ==
  ASSUME NEW S, IsFiniteSet(S), NEW before, IsOrder(S, before)
  PROVE  RunsThrough(Ranked(S, before), S, before)
<1> DEFINE n == Cardinality(S)
           d == Ranked(S, before)
           rank(x) == Cardinality(Earlier(S, before, x))
<1>1. n \in Nat
  BY FS_CardinalityType
<1>2. /\ \A x \in S : rank(x) \in 0..(n - 1)
      /\ \A x, y \in S : <<x, y>> \in before => rank(x) < rank(y)
      /\ \A k \in 1..n : \E x \in S : rank(x) = k - 1
  BY RankIsBijection
<1>3. d = [k \in 1..n |-> CHOOSE x \in S : rank(x) = k - 1]
  BY DEF Ranked, Earlier
<1>4. \A k \in 1..n : d[k] \in S /\ rank(d[k]) = k - 1
  <2> HIDE DEF rank, n
  <2> QED BY <1>2, <1>3
<1>5. d \in Seq(S) /\ Len(d) = n
  <2>1. d \in [1..n -> S]
    <3> HIDE DEF rank
    <3> QED BY <1>3, <1>4
  <2> HIDE DEF d
  <2> QED BY <1>1, <2>1, SeqDef
<1> HIDE DEF d, n, rank
<1>6. ASSUME NEW x \in S, NEW y \in S, x # y
      PROVE  \/ <<x, y>> \in before /\ rank(x) < rank(y)
             \/ <<y, x>> \in before /\ rank(y) < rank(x)
  BY <1>2, <1>6 DEF IsOrder
<1>7. ASSUME NEW i \in 1..n, NEW j \in 1..n, i < j
      PROVE  <<d[i], d[j]>> \in before
  <2>1. /\ d[i] \in S /\ d[j] \in S /\ rank(d[i]) = i - 1 /\ rank(d[j]) = j - 1
        /\ i - 1 < j - 1
    BY <1>1, <1>4, <1>7
  <2>2. d[i] # d[j]
    BY <1>1, <2>1
  <2>3. ~(rank(d[j]) < rank(d[i]))
    BY <1>1, <2>1
  <2> QED BY <1>6, <2>1, <2>2, <2>3
<1>8. ASSUME NEW x \in S
      PROVE  \E i \in 1..n : d[i] = x
  <2> DEFINE k == rank(x) + 1
  <2>1. k \in 1..n /\ k - 1 = rank(x) /\ rank(x) \in Nat
    BY <1>1, <1>2
  <2>2. d[k] \in S /\ rank(d[k]) = rank(x)
    BY <1>4, <2>1
  <2> HIDE DEF k
  <2>3. d[k] = x
    <3> SUFFICES ASSUME d[k] # x PROVE FALSE
      OBVIOUS
    <3>1. rank(x) < rank(d[k]) \/ rank(d[k]) < rank(x)
      BY <1>6, <2>2
    <3> QED BY <2>1, <2>2, <3>1
  <2> QED BY <2>1, <2>3
<1>9. RunsThrough(d, S, before)
  BY <1>5, <1>7, <1>8 DEF RunsThrough
<1> QED BY <1>9 DEF d

\* Descending lists the members of a finite set of numbers.
LEMMA DescendingLists ==
  ASSUME NEW S \in SUBSET Nat, IsFiniteSet(S)
  PROVE  Lists(Descending(S), S)
<1> DEFINE before == {e \in S \X S : e[1] > e[2]}
           d == Descending(S)
<1>1. \A x, y \in S : <<x, y>> \in before <=> x > y
  OBVIOUS
<1> HIDE DEF before
<1>2. IsOrder(S, before)
  BY <1>1 DEF IsOrder
<1>3. RunsThrough(d, S, before)
  <2>1. d = Ranked(S, before)
    BY DEF Descending, before
  <2> HIDE DEF d
  <2> QED BY <1>2, <2>1, RankedLists
<1> HIDE DEF d
<1>4. \A i \in 1..Len(d) : d[i] \in S
  BY <1>3, ElementOfSeq DEF RunsThrough
<1>5. \A i, j \in 1..Len(d) : i < j => d[i] > d[j]
  BY <1>1, <1>3, <1>4 DEF RunsThrough
<1>6. Lists(d, S)
  BY <1>3, <1>5 DEF RunsThrough, Lists
<1> QED BY <1>6 DEF d

\* Ascending lists them the other way round.
LEMMA AscendingLists ==
  ASSUME NEW S \in SUBSET Nat, IsFiniteSet(S)
  PROVE  /\ Ascending(S) \in Seq(S)
         /\ \A i, j \in 1..Len(Ascending(S)) : i < j => Ascending(S)[i] < Ascending(S)[j]
         /\ \A x \in S : \E i \in 1..Len(Ascending(S)) : Ascending(S)[i] = x
<1> DEFINE before == {e \in S \X S : e[1] < e[2]}
           a == Ascending(S)
<1>1. \A x, y \in S : <<x, y>> \in before <=> x < y
  OBVIOUS
<1> HIDE DEF before
<1>2. IsOrder(S, before)
  BY <1>1 DEF IsOrder
<1>3. RunsThrough(a, S, before)
  <2>1. a = Ranked(S, before)
    BY DEF Ascending, before
  <2> HIDE DEF a
  <2> QED BY <1>2, <2>1, RankedLists
<1> HIDE DEF a
<1>4. \A i \in 1..Len(a) : a[i] \in S
  BY <1>3, ElementOfSeq DEF RunsThrough
<1>5. \A i, j \in 1..Len(a) : i < j => a[i] < a[j]
  BY <1>1, <1>3, <1>4 DEF RunsThrough
<1>6. /\ a \in Seq(S)
      /\ \A i, j \in 1..Len(a) : i < j => a[i] < a[j]
      /\ \A x \in S : \E i \in 1..Len(a) : a[i] = x
  BY <1>3, <1>5 DEF RunsThrough
<1> QED BY <1>6 DEF a
\* Among picks the entries of a list that are in a set, each place once.
LEMMA AmongLists ==
  ASSUME NEW X, NEW list \in Seq(X), NEW S
  PROVE  /\ Among(list, S) \in Seq({list[n] : n \in 1..Len(list)} \cap S)
         /\ \A x \in {list[n] : n \in 1..Len(list)} \cap S :
              \E k \in 1..Len(Among(list, S)) : Among(list, S)[k] = x
         /\ (\A n, k \in 1..Len(list) : list[n] = list[k] => n = k) =>
              \A i, j \in 1..Len(Among(list, S)) :
                Among(list, S)[i] = Among(list, S)[j] => i = j
<1> DEFINE places == {n \in DOMAIN list : list[n] \in S}
           up == Ascending(places)
           q == Among(list, S)
           Y == {list[n] : n \in 1..Len(list)} \cap S
<1>1. Len(list) \in Nat /\ DOMAIN list = 1..Len(list)
  BY LenProperties
<1>2. places \in SUBSET Nat /\ IsFiniteSet(places) /\ places \subseteq 1..Len(list)
  <2>1. places \subseteq 1..Len(list)
    BY <1>1
  <2>2. IsFiniteSet(1..Len(list))
    BY <1>1, FS_Interval
  <2> HIDE DEF places
  <2>3. IsFiniteSet(places)
    BY <2>1, <2>2, FS_Subset
  <2> QED BY <1>1, <2>1, <2>3
<1>3. q = [k \in DOMAIN up |-> list[up[k]]]
  BY DEF Among
<1>4. \A n \in places : list[n] \in Y
  BY <1>1
<1>5. \A x \in Y : \E n \in places : list[n] = x
  BY <1>1
<1>6. /\ up \in Seq(places)
      /\ \A i, j \in 1..Len(up) : i < j => up[i] < up[j]
      /\ \A x \in places : \E i \in 1..Len(up) : up[i] = x
  <2> HIDE DEF places
  <2> QED BY <1>2, AscendingLists
<1> HIDE DEF places, up, q, Y
<1>7. Len(up) \in Nat /\ DOMAIN up = 1..Len(up) /\ \A i \in 1..Len(up) : up[i] \in places
  BY <1>6, LenProperties, ElementOfSeq
<1>8. q \in [1..Len(up) -> Y]
  BY <1>3, <1>4, <1>7
<1>9. q \in Seq(Y) /\ Len(q) = Len(up)
  <2>1. q \in Seq(Y)
    BY <1>7, <1>8, SeqDef
  <2> QED BY <1>7, <1>8, <2>1, LenProperties
<1>10. \A x \in Y : \E k \in 1..Len(q) : q[k] = x
  BY <1>3, <1>5, <1>6, <1>7, <1>9
<1>11. ASSUME \A n, k \in 1..Len(list) : list[n] = list[k] => n = k,
              NEW i \in 1..Len(q), NEW j \in 1..Len(q), q[i] = q[j]
       PROVE  i = j
  <2>1. list[up[i]] = list[up[j]] /\ up[i] \in 1..Len(list) /\ up[j] \in 1..Len(list)
    BY <1>2, <1>3, <1>7, <1>9, <1>11
  <2>2. up[i] = up[j]
    BY <1>11, <2>1
  <2>3. up[i] \in Nat /\ i \in Nat /\ j \in Nat
    BY <1>1, <1>7, <1>9, <2>1
  <2>4. ~(i < j) /\ ~(j < i)
    BY <1>6, <1>9, <2>2, <2>3
  <2> QED BY <2>3, <2>4
<1> QED BY <1>9, <1>10, <1>11 DEF q, Y
=============================================================================
