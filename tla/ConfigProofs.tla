---------------------------- MODULE ConfigProofs ----------------------------
(***************************************************************************)
(* What the program keeps of a vault's configuration whatever transactions *)
(* it is sent: by pages that are out of date, scripts that start again,    *)
(* agents, successors of a role, or all of them at once.                   *)
(***************************************************************************)
EXTENDS Scripts, ArithmeticTheorems

-----------------------------------------------------------------------------
(***************************************************************************)
(* Addresses and accounts.                                                 *)
(***************************************************************************)
VaultFields == {"admin", "authority", "count", "pendingAdmin", "pendingAuthority"}
StrategyFields == {"active", "delegate", "approved"}
ActionFields == {"capped", "out", "cooldown", "cooling", "calls"}

\* The accounts of vaults and strategies have their fields; a strategy that
\* exists is one of those its vault has counted, and a row is one its strategy can have.
AccountsOK(a) ==
  /\ \A v : Exists(a, VaultOf(v)) =>
       DOMAIN a[VaultOf(v)] = VaultFields /\ a[VaultOf(v)].count \in Nat
  /\ \A s : Exists(a, StrategyOf(s)) =>
       DOMAIN a[StrategyOf(s)] = StrategyFields /\ s \in StrategiesIn(a, s[1])
  /\ \A key \in DOMAIN a : key[1] \in RowKinds =>
       key \in PossibleRows(key[2]) /\ Exists(a, StrategyOf(key[2]))

\* A row with a cooldown that has been used since the cooldown elapsed waits.
CooldownsOK(a) ==
  \A key \in DOMAIN a : key[1] = "action" =>
    /\ DOMAIN a[key] = ActionFields
    /\ a[key].cooldown => \/ a[key].calls = 0
                          \/ a[key].calls = 1 /\ a[key].cooling

\* No two active strategies of the vault have the same delegate.
Apart(a, v) ==
  \A s, u \in StrategiesIn(a, v) :
    Active(a, s) /\ Active(a, u) /\ s # u => a[StrategyOf(s)].delegate # a[StrategyOf(u)].delegate

\* Addresses of different kinds are different, and so are those of different
\* vaults and strategies.
LEMMA Addresses ==
  /\ \A v : VaultOf(v)[1] = "vault"
  /\ \A s : StrategyOf(s)[1] = "strategy"
  /\ \A s, m : TokenAccount(s, m)[1] = "ata"
  /\ \A v, w : VaultOf(v) = VaultOf(w) => v = w
  /\ \A s, u : StrategyOf(s) = StrategyOf(u) => s = u
  /\ \A s, u : VaultOf(s) # StrategyOf(u)
BY DEF VaultOf, StrategyOf, TokenAccount

\* The accounts there are after an instruction.
LEMMA AfterDomain ==
  ASSUME NEW a, NEW ix
  PROVE  /\ \A key \in DOMAIN After(a, ix) :
              \/ key \in DOMAIN ix.init
              \/ key \in DOMAIN a \ ix.close
              \/ \E e \in ix.ensure : key = TokenAccount(e[1], e[2])
         /\ \A key \in DOMAIN a \ ix.close : key \in DOMAIN After(a, ix)
         /\ \A key \in DOMAIN ix.init :
              key \in DOMAIN After(a, ix) /\ After(a, ix)[key] = Initial(ix, key)
         /\ \A key \in DOMAIN a \ ix.close : key \notin DOMAIN ix.init =>
              After(a, ix)[key] = Rewritten(a, ix, key)
BY DEF After

\* Vaults: none is closed, only create_strategy counts, a new one has counted none.
LEMMA VaultAfter ==
  ASSUME NEW a, AccountsOK(a), NEW ix, Accepts(a, ix), NEW v
  PROVE  /\ Exists(a, VaultOf(v)) =>
              /\ Exists(After(a, ix), VaultOf(v))
              /\ DOMAIN After(a, ix)[VaultOf(v)] = VaultFields
              /\ After(a, ix)[VaultOf(v)].count =
                   a[VaultOf(v)].count + (IF ix.do = "create" /\ ix.vault = v THEN 1 ELSE 0)
         /\ Exists(After(a, ix), VaultOf(v)) /\ ~Exists(a, VaultOf(v)) =>
              /\ DOMAIN After(a, ix)[VaultOf(v)] = VaultFields
              /\ After(a, ix)[VaultOf(v)].count = 0
<1> DEFINE b == After(a, ix)
           key == VaultOf(v)
<1>1. key[1] = "vault"
  BY Addresses
<1>2. key \notin ix.close
  BY <1>1 DEF Accepts, Derived
<1>3. ASSUME Exists(a, key)
      PROVE  /\ Exists(b, key) /\ DOMAIN b[key] = VaultFields
             /\ b[key].count = a[key].count + (IF ix.do = "create" /\ ix.vault = v THEN 1 ELSE 0)
  <2>1. key \notin DOMAIN ix.init
    BY <1>3 DEF Accepts
  <2>2. Exists(b, key) /\ b[key] = Rewritten(a, ix, key)
    BY <1>2, <1>3, <2>1, AfterDomain DEF Exists
  <2>3. DOMAIN a[key] = VaultFields /\ a[key].count \in Nat
    BY <1>3 DEF AccountsOK
  <2>4. ix.do = "execute" => key # ix.key[1]
    BY <1>1 DEF Accepts, Derived
  <2>5. key # StrategyOf(ix.strategy) /\ (key = VaultOf(ix.vault) <=> ix.vault = v)
    BY Addresses
  <2> HIDE DEF b, key
  <2>6. /\ DOMAIN Rewritten(a, ix, key) = VaultFields
        /\ Rewritten(a, ix, key).count
             = a[key].count + (IF ix.do = "create" /\ ix.vault = v THEN 1 ELSE 0)
    BY <2>3, <2>4, <2>5 DEF Rewritten, Counted, VaultFields
  <2> QED BY <2>2, <2>6
<1>4. ASSUME Exists(b, key), ~Exists(a, key)
      PROVE  DOMAIN b[key] = VaultFields /\ b[key].count = 0
  <2>1. key \in DOMAIN ix.init
    BY <1>1, <1>4, AfterDomain, Addresses DEF Exists
  <2>2. b[key] = Initial(ix, key)
    BY <2>1, AfterDomain
  <2> HIDE DEF b, key
  <2> QED BY <1>1, <2>2 DEF Initial, VaultFields
<1> QED BY <1>3, <1>4

\* Strategies: none is closed or revived, only update_strategy_delegate changes a
\* delegate, and only create_strategy makes one.
LEMMA StrategyAfter ==
  ASSUME NEW a, AccountsOK(a), NEW ix, Accepts(a, ix), NEW s
  PROVE  /\ Exists(a, StrategyOf(s)) =>
              /\ Exists(After(a, ix), StrategyOf(s))
              /\ DOMAIN After(a, ix)[StrategyOf(s)] = StrategyFields
              /\ After(a, ix)[StrategyOf(s)].active => a[StrategyOf(s)].active
              /\ After(a, ix)[StrategyOf(s)].delegate =
                   IF ix.do = "delegate" /\ ix.strategy = s THEN ix.key
                   ELSE a[StrategyOf(s)].delegate
         /\ Exists(After(a, ix), StrategyOf(s)) /\ ~Exists(a, StrategyOf(s)) =>
              /\ ix.do = "create" /\ ix.strategy = s
              /\ DOMAIN After(a, ix)[StrategyOf(s)] = StrategyFields
              /\ After(a, ix)[StrategyOf(s)].delegate = ix.key
<1> DEFINE b == After(a, ix)
           key == StrategyOf(s)
<1>1. key[1] = "strategy"
  BY Addresses
<1>2. key \notin ix.close
  BY <1>1 DEF Accepts, Derived
<1>3. ASSUME Exists(a, key)
      PROVE  /\ Exists(b, key) /\ DOMAIN b[key] = StrategyFields
             /\ b[key].active => a[key].active
             /\ b[key].delegate = IF ix.do = "delegate" /\ ix.strategy = s THEN ix.key
                                  ELSE a[key].delegate
  <2>1. key \notin DOMAIN ix.init
    BY <1>3 DEF Accepts
  <2>2. Exists(b, key) /\ b[key] = Rewritten(a, ix, key)
    BY <1>2, <1>3, <2>1, AfterDomain DEF Exists
  <2>3. DOMAIN a[key] = StrategyFields
    BY <1>3 DEF AccountsOK
  <2>4. ix.do = "execute" => key # ix.key[1]
    BY <1>1 DEF Accepts, Derived
  <2>5. key # VaultOf(ix.vault) /\ (key = StrategyOf(ix.strategy) <=> ix.strategy = s)
    BY Addresses
  <2> HIDE DEF b, key
  <2>6. /\ DOMAIN Rewritten(a, ix, key) = StrategyFields
        /\ Rewritten(a, ix, key).active => a[key].active
        /\ Rewritten(a, ix, key).delegate
             = IF ix.do = "delegate" /\ ix.strategy = s THEN ix.key ELSE a[key].delegate
    BY <2>3, <2>4, <2>5 DEF Rewritten, StrategyFields
  <2> QED BY <2>2, <2>6
<1>4. ASSUME Exists(b, key), ~Exists(a, key)
      PROVE  /\ ix.do = "create" /\ ix.strategy = s
             /\ DOMAIN b[key] = StrategyFields /\ b[key].delegate = ix.key
  <2>1. key \in DOMAIN ix.init
    BY <1>1, <1>4, AfterDomain, Addresses DEF Exists
  <2>2. b[key] = Initial(ix, key)
    BY <2>1, AfterDomain
  <2>3. ix.do = "create" /\ key = StrategyOf(ix.strategy)
    BY <1>1, <2>1 DEF Accepts, Derived
  <2>4. ix.strategy = s
    BY <2>3, Addresses
  <2> HIDE DEF b, key
  <2> QED BY <1>1, <2>2, <2>3, <2>4 DEF Initial, StrategyFields
<1> QED BY <1>3, <1>4

\* A vault keeps the strategies it has counted.
LEMMA StrategiesStay ==
  ASSUME NEW a, AccountsOK(a), NEW ix, Accepts(a, ix), NEW v, NEW s \in StrategiesIn(a, v)
  PROVE  s \in StrategiesIn(After(a, ix), v)
<1> DEFINE b == After(a, ix)
           n == a[VaultOf(v)].count
           m == b[VaultOf(v)].count
<1>1. Exists(a, VaultOf(v)) /\ s \in {<<v, k>> : k \in 0..(n - 1)}
  BY DEF StrategiesIn, StrategiesUpTo
<1>2. n \in Nat
  BY <1>1 DEF AccountsOK
<1>3. Exists(b, VaultOf(v)) /\ m = n + (IF ix.do = "create" /\ ix.vault = v THEN 1 ELSE 0)
  BY <1>1, VaultAfter
<1>4. StrategiesIn(b, v) = {<<v, k>> : k \in 0..(m - 1)}
  BY <1>3 DEF StrategiesIn, StrategiesUpTo
<1> HIDE DEF b, n, m
<1>5. 0..(n - 1) \subseteq 0..(m - 1)
  BY <1>2, <1>3
<1>6. s \in StrategiesIn(b, v)
  BY <1>1, <1>4, <1>5
<1> QED BY <1>6 DEF b

\* Every strategy stays among those its vault has counted.
LEMMA AccountsKept ==
  ASSUME NEW a, AccountsOK(a), NEW ix, Accepts(a, ix)
  PROVE  AccountsOK(After(a, ix))
<1> DEFINE b == After(a, ix)
<1>1. \A v : Exists(b, VaultOf(v)) => DOMAIN b[VaultOf(v)] = VaultFields /\ b[VaultOf(v)].count \in Nat
  <2> SUFFICES ASSUME NEW v, Exists(b, VaultOf(v))
               PROVE  DOMAIN b[VaultOf(v)] = VaultFields /\ b[VaultOf(v)].count \in Nat
    OBVIOUS
  <2>1. CASE Exists(a, VaultOf(v))
    <3>1. a[VaultOf(v)].count \in Nat
      BY <2>1 DEF AccountsOK
    <3>2. /\ DOMAIN b[VaultOf(v)] = VaultFields
          /\ b[VaultOf(v)].count
               = a[VaultOf(v)].count + (IF ix.do = "create" /\ ix.vault = v THEN 1 ELSE 0)
      BY <2>1, VaultAfter
    <3> HIDE DEF b
    <3> QED BY <3>1, <3>2
  <2>2. CASE ~Exists(a, VaultOf(v))
    BY <2>2, VaultAfter
  <2> QED BY <2>1, <2>2
<1>2. \A s : Exists(b, StrategyOf(s)) =>
        DOMAIN b[StrategyOf(s)] = StrategyFields /\ s \in StrategiesIn(b, s[1])
  <2> SUFFICES ASSUME NEW s, Exists(b, StrategyOf(s))
               PROVE  DOMAIN b[StrategyOf(s)] = StrategyFields /\ s \in StrategiesIn(b, s[1])
    OBVIOUS
  <2>1. DOMAIN b[StrategyOf(s)] = StrategyFields
    BY StrategyAfter
  <2>2. CASE Exists(a, StrategyOf(s))
    <3>1. s \in StrategiesIn(a, s[1])
      BY <2>2 DEF AccountsOK
    <3>2. s \in StrategiesIn(b, s[1])
      BY <3>1, StrategiesStay
    <3> QED BY <2>1, <3>2
  <2>3. CASE ~Exists(a, StrategyOf(s))
    <3>1. ix.do = "create" /\ ix.strategy = s
      BY <2>3, StrategyAfter
    <3>2. s = <<ix.vault, s[2]>> /\ Exists(a, VaultOf(ix.vault))
      BY <3>1, Addresses DEF Accepts, Derived, Usable
    <3>3. a[VaultOf(ix.vault)].count = s[2]
      BY <3>1 DEF Accepts, Guard
    <3>4. s[2] \in Nat
      BY <3>2, <3>3 DEF AccountsOK
    <3>5. Exists(b, VaultOf(ix.vault)) /\ b[VaultOf(ix.vault)].count = s[2] + 1
      BY <3>1, <3>2, <3>3, VaultAfter
    <3> DEFINE m == b[VaultOf(ix.vault)].count
    <3>6. StrategiesIn(b, ix.vault) = {<<ix.vault, k>> : k \in 0..(m - 1)}
      BY <3>5 DEF StrategiesIn, StrategiesUpTo
    <3> HIDE DEF b, m
    <3>7. s[2] \in 0..(m - 1)
      BY <3>4, <3>5 DEF m
    <3>8. s[1] = ix.vault
      BY <3>2
    <3> QED BY <2>1, <3>2, <3>6, <3>7, <3>8
  <2> QED BY <2>2, <2>3
<1>3. \A key \in DOMAIN b : key[1] \in RowKinds =>
        key \in PossibleRows(key[2]) /\ Exists(b, StrategyOf(key[2]))
  <2> SUFFICES ASSUME NEW key \in DOMAIN b, key[1] \in RowKinds
               PROVE  key \in PossibleRows(key[2]) /\ Exists(b, StrategyOf(key[2]))
    OBVIOUS
  <2>1. CASE key \in DOMAIN ix.init
    BY <2>1, StrategyAfter DEF Accepts, Derived, Usable
  <2>2. CASE key \notin DOMAIN ix.init
    <3>1. key \in DOMAIN a
      BY <2>2, AfterDomain, Addresses DEF RowKinds
    <3> QED BY <3>1, StrategyAfter DEF AccountsOK
  <2> QED BY <2>1, <2>2
<1> QED BY <1>1, <1>2, <1>3 DEF AccountsOK

\* A row is used again only after its cooldown has elapsed.
LEMMA CooldownsKept ==
  ASSUME NEW a, CooldownsOK(a), NEW ix, Accepts(a, ix)
  PROVE  CooldownsOK(After(a, ix))
<1> DEFINE b == After(a, ix)
<1> SUFFICES ASSUME NEW key \in DOMAIN b, key[1] = "action"
             PROVE  /\ DOMAIN b[key] = ActionFields
                    /\ b[key].cooldown => \/ b[key].calls = 0
                                          \/ b[key].calls = 1 /\ b[key].cooling
  BY DEF CooldownsOK
<1>1. CASE key \in DOMAIN ix.init
  <2>1. b[key] = Initial(ix, key)
    BY <1>1, AfterDomain
  <2> HIDE DEF b
  <2>2. DOMAIN Initial(ix, key) = ActionFields /\ Initial(ix, key).calls = 0
    BY DEF Initial, ActionFields
  <2> QED BY <2>1, <2>2
<1>2. CASE key \notin DOMAIN ix.init
  <2>1. key \in DOMAIN a \ ix.close
    BY <1>2, AfterDomain, Addresses
  <2>2. b[key] = Rewritten(a, ix, key)
    BY <1>2, <2>1, AfterDomain
  <2> DEFINE row == a[key]
  <2>3. /\ DOMAIN row = ActionFields
        /\ row.cooldown => row.calls = 0 \/ (row.calls = 1 /\ row.cooling)
    BY <2>1 DEF CooldownsOK
  <2>4. key # VaultOf(ix.vault) /\ key # StrategyOf(ix.strategy)
    BY Addresses
  <2>5. CASE ix.do = "execute" /\ key = ix.key[1]
    <3>1. ~row.cooling
      BY <2>5 DEF Accepts, Guard
    <3>2. Rewritten(a, ix, key) = Stamped(row)
      BY <2>4, <2>5 DEF Rewritten
    <3> HIDE DEF b, row
    <3>3. CASE row.cooldown
      <4>1. row.calls = 0
        BY <2>3, <3>1, <3>3
      <4>2. Stamped(row) = [row EXCEPT !.cooling = TRUE, !.calls = 1]
        BY <2>3, <3>3, <4>1 DEF Stamped, ActionFields
      <4>3. /\ DOMAIN Stamped(row) = ActionFields
            /\ Stamped(row).calls = 1 /\ Stamped(row).cooling
        BY <2>3, <4>2 DEF ActionFields
      <4> QED BY <2>2, <3>2, <4>3
    <3>4. CASE ~row.cooldown
      BY <2>2, <2>3, <3>2, <3>4 DEF Stamped
    <3> QED BY <3>3, <3>4
  <2>6. CASE ~(ix.do = "execute" /\ key = ix.key[1])
    <3>1. Rewritten(a, ix, key) = row
      BY <2>4, <2>6 DEF Rewritten
    <3> HIDE DEF b, row
    <3> QED BY <2>2, <2>3, <3>1
  <2> QED BY <2>5, <2>6
<1> QED BY <1>1, <1>2

\* The delegate of an active strategy after an instruction: the one it is given,
\* or the one it had.
LEMMA ActiveAfter ==
  ASSUME NEW a, AccountsOK(a), NEW ix, Accepts(a, ix), NEW s, Active(After(a, ix), s)
  PROVE  \/ /\ ix.do \in {"create", "delegate"} /\ ix.strategy = s /\ s[1] = ix.vault
            /\ After(a, ix)[StrategyOf(s)].delegate = ix.key
         \/ /\ ~(ix.do \in {"create", "delegate"} /\ ix.strategy = s)
            /\ Active(a, s) /\ s \in StrategiesIn(a, s[1])
            /\ After(a, ix)[StrategyOf(s)].delegate = a[StrategyOf(s)].delegate
<1> DEFINE b == After(a, ix)
           key == StrategyOf(s)
<1>1. Exists(b, key) /\ b[key].active
  BY DEF Active
<1>2. ix.do \in {"create", "delegate"} => ix.strategy = <<ix.vault, ix.strategy[2]>>
  BY DEF Accepts, Derived
<1>3. CASE Exists(a, key)
  <2>1. /\ b[key].active => a[key].active
        /\ b[key].delegate = IF ix.do = "delegate" /\ ix.strategy = s THEN ix.key
                             ELSE a[key].delegate
    BY <1>3, StrategyAfter
  <2>2. ~(ix.do = "create" /\ ix.strategy = s)
    BY <1>3 DEF Accepts, Derived
  <2>3. s \in StrategiesIn(a, s[1])
    BY <1>3 DEF AccountsOK
  <2>4. Active(a, s)
    BY <1>1, <1>3, <2>1 DEF Active
  <2> HIDE DEF b, key
  <2>5. CASE ix.do = "delegate" /\ ix.strategy = s
    <3>1. s[1] = ix.vault
      BY <1>2, <2>5
    <3> QED BY <2>1, <2>5, <3>1 DEF b, key
  <2>6. CASE ~(ix.do = "delegate" /\ ix.strategy = s)
    BY <2>1, <2>2, <2>3, <2>4, <2>6 DEF b, key
  <2> QED BY <2>5, <2>6
<1>4. CASE ~Exists(a, key)
  <2>1. ix.do = "create" /\ ix.strategy = s /\ b[key].delegate = ix.key
    BY <1>1, <1>4, StrategyAfter
  <2>2. s[1] = ix.vault
    BY <1>2, <2>1
  <2> QED BY <2>1, <2>2
<1> QED BY <1>3, <1>4

\* An instruction that is given every strategy of the vault to compare with gives
\* no active strategy the delegate of another.
LEMMA ApartKept ==
  ASSUME NEW a, AccountsOK(a), NEW ix, Accepts(a, ix), NEW v, ListsAll(a, ix), Apart(a, v)
  PROVE  Apart(After(a, ix), v)
<1> DEFINE b == After(a, ix)
           D(c, s) == c[StrategyOf(s)].delegate
           Given(s) == ix.do \in {"create", "delegate"} /\ ix.strategy = s
<1>1. \A s \in StrategiesIn(b, v) : s[1] = v
  BY DEF StrategiesIn, StrategiesUpTo
<1>2. ASSUME NEW s \in StrategiesIn(b, v), Active(b, s)
      PROVE  \/ Given(s) /\ v = ix.vault /\ D(b, s) = ix.key
             \/ ~Given(s) /\ Active(a, s) /\ s \in StrategiesIn(a, v) /\ D(b, s) = D(a, s)
  BY <1>1, <1>2, ActiveAfter
<1>3. ASSUME NEW s, NEW u, Given(s), v = ix.vault, ~Given(u), Active(a, u), u \in StrategiesIn(a, v)
      PROVE  D(a, u) # ix.key
  <2>1. DelegateFree(a, ix)
    BY <1>3 DEF Accepts, Guard
  <2>2. u \in ix.others \ {ix.strategy}
    BY <1>3 DEF ListsAll
  <2> QED BY <1>3, <2>1, <2>2 DEF DelegateFree
<1>4. \A s, u \in StrategiesIn(a, v) :
        Active(a, s) /\ Active(a, u) /\ s # u => D(a, s) # D(a, u)
  BY DEF Apart
<1>5. \A s, u : Given(s) /\ Given(u) => s = u
  OBVIOUS
<1>6. ASSUME NEW s \in StrategiesIn(b, v), NEW u \in StrategiesIn(b, v),
             Active(b, s), Active(b, u), s # u
      PROVE  D(b, s) # D(b, u)
  <2> HIDE DEF D, Given, b
  <2> QED BY <1>2, <1>3, <1>4, <1>5, <1>6
<1> QED BY <1>6 DEF Apart

-----------------------------------------------------------------------------
(***************************************************************************)
(* Transactions.  Run is a recursive function over the instructions of a   *)
(* transaction; that it exists is shown from the first of them on.         *)
(***************************************************************************)
\* The accounts after the first instructions of a transaction, one after another.
Through(a, tx, N) ==
  CHOOSE g : g = [n \in 0..N |-> IF n = 0 THEN Outset(a) ELSE Executed(a, g[n - 1], tx[n])]

\* There is such a function.
LEMMA ThroughIsChain ==
  ASSUME NEW a, NEW tx, NEW N \in Nat
  PROVE  Through(a, tx, N)
           = [n \in 0..N |-> IF n = 0 THEN Outset(a)
                             ELSE Executed(a, Through(a, tx, N)[n - 1], tx[n])]
<1> DEFINE Is(g, m) == g = [n \in 0..m |-> IF n = 0 THEN Outset(a) ELSE Executed(a, g[n - 1], tx[n])]
           B == {m \in 0..N : ~\E g : Is(g, m)}
<1>1. ASSUME B # {} PROVE FALSE
  <2>1. PICK m \in B : \A k \in B : m <= k
    <3>1. B \in SUBSET Nat
      OBVIOUS
    <3> HIDE DEF B
    <3> QED BY <1>1, <3>1, LeastNat
  <2>2. m \in 0..N /\ ~\E g : Is(g, m)
    OBVIOUS
  <2>3. CASE m = 0
    <3> DEFINE g == [n \in 0..0 |-> Outset(a)]
    <3>1. Is(g, 0)
      OBVIOUS
    <3> HIDE DEF Is
    <3> QED BY <2>2, <2>3, <3>1
  <2>4. CASE m # 0
    <3>1. m - 1 \in 0..N /\ m - 1 \notin B
      <4>1. m - 1 \in 0..N /\ ~(m <= m - 1)
        BY <2>2, <2>4
      <4> HIDE DEF B
      <4> QED BY <2>1, <4>1
    <3>2. PICK g : Is(g, m - 1)
      BY <3>1
    <3> DEFINE h == [n \in 0..m |-> IF n = m THEN Executed(a, g[m - 1], tx[m]) ELSE g[n]]
    <3>3. \A n \in 0..(m - 1) :
            g[n] = IF n = 0 THEN Outset(a) ELSE Executed(a, g[n - 1], tx[n])
      <4> DEFINE F == [n \in 0..(m - 1) |-> IF n = 0 THEN Outset(a)
                                            ELSE Executed(a, g[n - 1], tx[n])]
      <4>1. g = F
        BY <3>2
      <4>2. \A n \in 0..(m - 1) :
              F[n] = IF n = 0 THEN Outset(a) ELSE Executed(a, g[n - 1], tx[n])
        OBVIOUS
      <4> HIDE DEF F
      <4> QED BY <4>1, <4>2
    <3>4. \A n \in 0..m : h[n] = IF n = 0 THEN Outset(a) ELSE Executed(a, h[n - 1], tx[n])
      <4> SUFFICES ASSUME NEW n \in 0..m
                   PROVE  h[n] = IF n = 0 THEN Outset(a) ELSE Executed(a, h[n - 1], tx[n])
        OBVIOUS
      <4>1. m \in Nat /\ n \in Nat
        BY <2>2
      <4>2. CASE n = m
        <5>1. m - 1 \in 0..m /\ m - 1 # m
          BY <2>4, <4>1
        <5>2. h[m - 1] = g[m - 1] /\ h[m] = Executed(a, g[m - 1], tx[m])
          BY <4>2, <5>1
        <5> HIDE DEF h
        <5> QED BY <2>4, <4>2, <5>2
      <4>3. CASE n # m
        <5>1. n \in 0..(m - 1)
          BY <4>1, <4>3
        <5>2. h[n] = g[n] /\ (n # 0 => n - 1 \in 0..m /\ n - 1 # m)
          BY <4>1, <4>3
        <5>3. n # 0 => h[n - 1] = g[n - 1]
          BY <5>2
        <5> HIDE DEF h
        <5> QED BY <3>3, <5>1, <5>2, <5>3
      <4> QED BY <4>2, <4>3
    <3>5. h = [n \in 0..m |-> h[n]]
      OBVIOUS
    <3> HIDE DEF h
    <3>6. Is(h, m)
      BY <3>4, <3>5
    <3> QED BY <2>2, <3>6
  <2> QED BY <2>3, <2>4
<1>2. \E g : g = [n \in 0..N |-> IF n = 0 THEN Outset(a) ELSE Executed(a, g[n - 1], tx[n])]
  BY <1>1
<1> QED BY <1>2 DEF Through

\* A transaction that goes through is a chain of instructions that are accepted.
LEMMA RunIsChain ==
  ASSUME NEW a, NEW tx, Run(a, tx).ok
  PROVE  /\ Len(tx) \in Nat
         /\ \E g : /\ g[0] = Outset(a)
                   /\ \A k \in 1..Len(tx) : g[k] = Executed(a, g[k - 1], tx[k])
                   /\ Run(a, tx) = g[Len(tx)]
<1> DEFINE N == Len(tx)
           g == Through(a, tx, N)
<1>1. Run(a, tx) = IF N \in 0..MaxInstructions THEN g[N] ELSE Failure(a)
  BY DEF Run, Through
<1>2. ~Failure(a).ok
  BY DEF Failure
<1>3. N \in Nat /\ Run(a, tx) = g[N]
  <2> HIDE DEF N, g
  <2> QED BY <1>1, <1>2, ConfigAssumption
<1> DEFINE F == [n \in 0..N |-> IF n = 0 THEN Outset(a) ELSE Executed(a, g[n - 1], tx[n])]
<1>4. g = F
  BY <1>3, ThroughIsChain
<1>5. F[0] = Outset(a) /\ \A k \in 1..N : F[k] = Executed(a, g[k - 1], tx[k])
  <2> HIDE DEF N, g
  <2> QED BY <1>3
<1> HIDE DEF N, g, F
<1>6. g[0] = Outset(a) /\ \A k \in 1..N : g[k] = Executed(a, g[k - 1], tx[k])
  BY <1>4, <1>5
<1> QED BY <1>3, <1>6 DEF N

\* A transaction of one instruction.
LEMMA SingleRuns ==
  ASSUME NEW a, NEW ix, Run(a, Single(ix)).ok
  PROVE  Accepts(a, ix) /\ Run(a, Single(ix)).acct = After(a, ix)
<1>1. Len(Single(ix)) = 1 /\ Single(ix)[1] = ix
  BY DEF Single
<1> DEFINE tx == Single(ix)
<1> HIDE DEF tx
<1>2. PICK g : /\ g[0] = Outset(a)
               /\ \A k \in 1..Len(tx) : g[k] = Executed(a, g[k - 1], tx[k])
               /\ Run(a, tx) = g[Len(tx)]
  BY RunIsChain DEF tx
<1>3. Run(a, tx) = Executed(a, Outset(a), ix)
  <2>1. 1 \in 1..Len(tx) /\ 1 - 1 = 0 /\ Len(tx) = 1 /\ tx[1] = ix
    BY <1>1 DEF tx
  <2> QED BY <1>2, <2>1
<1>4. Executed(a, Outset(a), ix).ok
  BY <1>3 DEF tx
<1>5. Outset(a).acct = a /\ ~Failure(a).ok
  BY DEF Outset, Failure
<1>6. Accepts(a, ix)
  BY <1>4, <1>5 DEF Executed
<1>7. Executed(a, Outset(a), ix).acct = After(a, ix)
  <2> DEFINE all == Outset(a).listed /\ ListsAll(Outset(a).acct, ix)
  <2>1. Executed(a, Outset(a), ix) = [ok |-> TRUE, acct |-> After(a, ix), listed |-> all]
    BY <1>4, <1>5 DEF Executed
  <2> HIDE DEF all
  <2> QED BY <2>1
<1> QED BY <1>3, <1>6, <1>7 DEF tx

\* What every instruction keeps, a transaction keeps.
LEMMA RunKeeps ==
  ASSUME NEW a, AccountsOK(a), CooldownsOK(a), NEW tx, Run(a, tx).ok, NEW v
  PROVE  /\ AccountsOK(Run(a, tx).acct) /\ CooldownsOK(Run(a, tx).acct)
         /\ Run(a, tx).listed /\ Apart(a, v) => Apart(Run(a, tx).acct, v)
<1> DEFINE Kept(r) == r.ok => /\ AccountsOK(r.acct) /\ CooldownsOK(r.acct)
                              /\ r.listed /\ Apart(a, v) => Apart(r.acct, v)
           N == Len(tx)
<1>0. N \in Nat
  BY RunIsChain
<1>1. PICK g : /\ g[0] = Outset(a)
               /\ \A k \in 1..N : g[k] = Executed(a, g[k - 1], tx[k])
               /\ Run(a, tx) = g[N]
  BY RunIsChain
<1> HIDE DEF N
<1>2. Kept(Outset(a))
  BY DEF Outset
<1>3. ASSUME NEW r, NEW ix, Kept(r)
      PROVE  Kept(Executed(a, r, ix))
  <2>1. CASE r.ok /\ Accepts(r.acct, ix)
    <3> DEFINE b == r.acct
               c == After(b, ix)
    <3>1. AccountsOK(b) /\ CooldownsOK(b) /\ (r.listed /\ Apart(a, v) => Apart(b, v))
      BY <1>3, <2>1
    <3>2. AccountsOK(c) /\ CooldownsOK(c)
      <4>1. Accepts(b, ix)
        BY <2>1
      <4> HIDE DEF b
      <4> QED BY <3>1, <4>1, AccountsKept, CooldownsKept
    <3>3. ListsAll(b, ix) /\ Apart(b, v) => Apart(c, v)
      <4>1. Accepts(b, ix)
        BY <2>1
      <4> HIDE DEF b
      <4> QED BY <3>1, <4>1, ApartKept
    <3> DEFINE e == Executed(a, r, ix)
               all == r.listed /\ ListsAll(b, ix)
    <3>4. e = [ok |-> TRUE, acct |-> c, listed |-> all]
      BY <2>1 DEF Executed
    <3> HIDE DEF b, c, e, all
    <3>5. e.acct = c /\ e.listed = all
      BY <3>4
    <3>6. e.acct = c /\ (e.listed => r.listed /\ ListsAll(b, ix))
      BY <3>5 DEF all
    <3> HIDE DEF e
    <3>7. Kept(e)
      BY <3>1, <3>2, <3>3, <3>6
    <3> QED BY <3>7 DEF e
  <2>2. CASE ~(r.ok /\ Accepts(r.acct, ix))
    BY <2>2 DEF Executed, Failure
  <2> QED BY <2>1, <2>2
<1> DEFINE B == {k \in 0..N : ~Kept(g[k])}
<1>4. ASSUME B # {} PROVE FALSE
  <2>1. B \in SUBSET Nat
    OBVIOUS
  <2>2. \A k \in B : k \in 0..N /\ ~Kept(g[k])
    OBVIOUS
  <2>3. \A k \in 0..N : ~Kept(g[k]) => k \in B
    OBVIOUS
  <2> HIDE DEF B, Kept
  <2>4. PICK k \in B : \A m \in B : k <= m
    BY <1>4, <2>1, LeastNat
  <2>5. k \in 0..N /\ k # 0
    BY <1>1, <1>2, <2>2
  <2>6. k - 1 \in 0..N /\ ~(k <= k - 1) /\ k \in 1..N
    BY <1>0, <2>5
  <2>7. Kept(g[k - 1])
    BY <2>3, <2>4, <2>6
  <2>8. Kept(Executed(a, g[k - 1], tx[k]))
    BY <1>3, <2>7
  <2> QED BY <1>1, <2>2, <2>6, <2>8
<1>5. Kept(g[N])
  BY <1>0, <1>4
<1> QED BY <1>1, <1>5

-----------------------------------------------------------------------------
(***************************************************************************)
(* Lists of lists: what joins them, and what cuts one into transactions.   *)
(***************************************************************************)
\* The lists from the first on, joined.
Joining(q) ==
  CHOOSE f : f = [i \in 1..Len(q) |-> IF i = 1 THEN q[i] ELSE f[i - 1] \o q[i]]

\* There is such a function.
LEMMA JoiningIsChain ==
  ASSUME NEW q, Len(q) \in Nat
  PROVE  \A i \in 1..Len(q) :
           Joining(q)[i] = IF i = 1 THEN q[i] ELSE Joining(q)[i - 1] \o q[i]
<1> DEFINE N == Len(q)
           Is(f, m) == f = [i \in 1..m |-> IF i = 1 THEN q[i] ELSE f[i - 1] \o q[i]]
           B == {m \in 0..N : ~\E f : Is(f, m)}
<1>1. ASSUME B # {} PROVE FALSE
  <2>0. \A m \in B : m \in 0..N /\ ~\E f : Is(f, m)
    <3> HIDE DEF Is
    <3> QED OBVIOUS
  <2>1. PICK m \in B : \A k \in B : m <= k
    <3>1. B \in SUBSET Nat
      <4> HIDE DEF B, Is
      <4> QED BY <2>0
    <3> HIDE DEF B
    <3> QED BY <1>1, <3>1, LeastNat
  <2>2. m \in 0..N /\ ~\E f : Is(f, m)
    <3> HIDE DEF B, Is
    <3> QED BY <2>0
  <2>3. CASE m = 0
    <3> DEFINE f == [i \in 1..0 |-> 0]
    <3>1. Is(f, 0)
      OBVIOUS
    <3> HIDE DEF Is
    <3> QED BY <2>2, <2>3, <3>1
  <2>4. CASE m # 0
    <3>1. m - 1 \in 0..N /\ m - 1 \notin B
      <4>1. m - 1 \in 0..N /\ ~(m <= m - 1)
        BY <2>2, <2>4
      <4> HIDE DEF B
      <4> QED BY <2>1, <4>1
    <3>2. PICK g : Is(g, m - 1)
      BY <3>1
    <3> DEFINE last == IF m = 1 THEN q[m] ELSE g[m - 1] \o q[m]
               h == [i \in 1..m |-> IF i = m THEN last ELSE g[i]]
    <3>3. \A i \in 1..(m - 1) : g[i] = IF i = 1 THEN q[i] ELSE g[i - 1] \o q[i]
      <4> DEFINE F == [i \in 1..(m - 1) |-> IF i = 1 THEN q[i] ELSE g[i - 1] \o q[i]]
      <4>1. g = F
        BY <3>2
      <4>2. \A i \in 1..(m - 1) : F[i] = IF i = 1 THEN q[i] ELSE g[i - 1] \o q[i]
        OBVIOUS
      <4> HIDE DEF F
      <4> QED BY <4>1, <4>2
    <3>4. \A i \in 1..m : h[i] = IF i = 1 THEN q[i] ELSE h[i - 1] \o q[i]
      <4> SUFFICES ASSUME NEW i \in 1..m
                   PROVE  h[i] = IF i = 1 THEN q[i] ELSE h[i - 1] \o q[i]
        OBVIOUS
      <4>1. m \in Nat /\ i \in Nat
        BY <2>2
      <4>2. CASE i = m
        <5>1. h[m] = last
          BY <4>2
        <5>2. m # 1 => m - 1 \in 1..m /\ m - 1 # m
          BY <2>4, <4>1
        <5>3. m # 1 => h[m - 1] = g[m - 1]
          BY <5>2
        <5> HIDE DEF h
        <5> QED BY <4>2, <5>1, <5>3
      <4>3. CASE i # m
        <5>1. i \in 1..(m - 1)
          BY <4>1, <4>3
        <5>2. h[i] = g[i] /\ (i # 1 => i - 1 \in 1..m /\ i - 1 # m)
          BY <4>1, <4>3
        <5>3. i # 1 => h[i - 1] = g[i - 1]
          BY <5>2
        <5> HIDE DEF h
        <5> QED BY <3>3, <5>1, <5>2, <5>3
      <4> QED BY <4>2, <4>3
    <3>5. h = [i \in 1..m |-> h[i]]
      OBVIOUS
    <3> HIDE DEF h
    <3>6. Is(h, m)
      BY <3>4, <3>5
    <3> QED BY <2>2, <3>6
  <2> QED BY <2>3, <2>4
<1>2. \E f : f = [i \in 1..Len(q) |-> IF i = 1 THEN q[i] ELSE f[i - 1] \o q[i]]
  <2>1. N \in 0..N
    OBVIOUS
  <2>2. \E f : Is(f, N)
    <3> HIDE DEF Is, N
    <3> QED BY <1>1, <2>1
  <2> QED BY <2>2
<1> DEFINE f == Joining(q)
           F == [i \in 1..Len(q) |-> IF i = 1 THEN q[i] ELSE f[i - 1] \o q[i]]
<1>3. f = F
  BY <1>2 DEF Joining
<1>4. \A i \in 1..Len(q) : F[i] = IF i = 1 THEN q[i] ELSE f[i - 1] \o q[i]
  OBVIOUS
<1> HIDE DEF f, F
<1>5. \A i \in 1..Len(q) : f[i] = IF i = 1 THEN q[i] ELSE f[i - 1] \o q[i]
  BY <1>3, <1>4
<1> QED BY <1>5 DEF f

\* r is made of the entries of the first m lists of q, each place of them once: the
\* i-th is the off[i]-th of the list part[i].
Places(r, q, m, part, off) ==
  /\ \A i \in 1..Len(r) : /\ part[i] \in 1..m /\ off[i] \in 1..Len(q[part[i]])
                          /\ r[i] = q[part[i]][off[i]]
  /\ \A i, j \in 1..Len(r) : part[i] = part[j] /\ off[i] = off[j] => i = j
  /\ \A n \in 1..m : \A k \in 1..Len(q[n]) : \E i \in 1..Len(r) : part[i] = n /\ off[i] = k
IsJoined(r, q, m) == \E part, off : Places(r, q, m, part, off)

\* One more list at the end.
LEMMA JoinOneMore ==
  ASSUME NEW X, NEW q \in Seq(Seq(X)), NEW m \in Nat, m + 1 \in 1..Len(q),
         NEW r \in Seq(X), IsJoined(r, q, m)
  PROVE  r \o q[m + 1] \in Seq(X) /\ IsJoined(r \o q[m + 1], q, m + 1)
<1> DEFINE u == q[m + 1]
           t == r \o u
           L == Len(r)
           M == Len(u)
<1>1. u \in Seq(X)
  BY ElementOfSeq
<1>2. L \in Nat /\ M \in Nat
  BY <1>1, LenProperties
<1>3. /\ t \in Seq(X) /\ Len(t) = L + M
      /\ \A i \in 1..(L + M) : t[i] = IF i <= L THEN r[i] ELSE u[i - L]
  <2> HIDE DEF u
  <2> QED BY <1>1, ConcatProperties
<1>4. PICK part, off : Places(r, q, m, part, off)
  BY DEF IsJoined
<1> DEFINE P == [i \in 1..(L + M) |-> IF i <= L THEN part[i] ELSE m + 1]
           O == [i \in 1..(L + M) |-> IF i <= L THEN off[i] ELSE i - L]
<1>5. \A i \in 1..(L + M) : /\ i <= L => i \in 1..L /\ P[i] = part[i] /\ O[i] = off[i]
                            /\ ~(i <= L) => P[i] = m + 1 /\ O[i] = i - L /\ i - L \in 1..M
  BY <1>2
<1>6. \A i \in 1..L : part[i] \in 1..m /\ off[i] \in 1..Len(q[part[i]]) /\ r[i] = q[part[i]][off[i]]
  BY <1>4 DEF Places
<1> HIDE DEF P, O, t
<1>7. \A i \in 1..(L + M) : P[i] \in 1..(m + 1) /\ O[i] \in 1..Len(q[P[i]]) /\ t[i] = q[P[i]][O[i]]
  <2> SUFFICES ASSUME NEW i \in 1..(L + M)
               PROVE  P[i] \in 1..(m + 1) /\ O[i] \in 1..Len(q[P[i]]) /\ t[i] = q[P[i]][O[i]]
    OBVIOUS
  <2>1. CASE i <= L
    <3>1. i \in 1..L /\ P[i] = part[i] /\ O[i] = off[i] /\ t[i] = r[i]
      BY <1>3, <1>5, <2>1
    <3>2. part[i] \in 1..(m + 1)
      BY <1>6, <3>1
    <3> QED BY <1>6, <3>1, <3>2
  <2>2. CASE ~(i <= L)
    <3>1. P[i] = m + 1 /\ O[i] = i - L /\ i - L \in 1..M /\ t[i] = u[i - L]
      BY <1>3, <1>5, <2>2
    <3>2. m + 1 \in 1..(m + 1)
      OBVIOUS
    <3> QED BY <3>1, <3>2
  <2> QED BY <2>1, <2>2
<1>8. ASSUME NEW i \in 1..(L + M), NEW j \in 1..(L + M), P[i] = P[j], O[i] = O[j]
      PROVE  i = j
  <2>1. CASE i <= L /\ j <= L
    BY <1>4, <1>5, <1>8, <2>1 DEF Places
  <2>2. CASE ~(i <= L) /\ ~(j <= L)
    <3>1. i - L = j - L /\ i \in Nat /\ j \in Nat
      BY <1>2, <1>5, <1>8, <2>2
    <3> QED BY <1>2, <3>1
  <2>3. CASE i <= L /\ ~(j <= L)
    <3>1. part[i] \in 1..m /\ part[i] = m + 1
      BY <1>5, <1>6, <1>8, <2>3
    <3> QED BY <3>1
  <2>4. CASE ~(i <= L) /\ j <= L
    <3>1. part[j] \in 1..m /\ part[j] = m + 1
      BY <1>5, <1>6, <1>8, <2>4
    <3> QED BY <3>1
  <2> QED BY <2>1, <2>2, <2>3, <2>4
<1>9. ASSUME NEW n \in 1..(m + 1), NEW k \in 1..Len(q[n])
      PROVE  \E i \in 1..(L + M) : P[i] = n /\ O[i] = k
  <2>1. CASE n = m + 1
    <3> DEFINE i == L + k
    <3>1. i \in 1..(L + M) /\ ~(i <= L) /\ i - L = k
      BY <1>2, <2>1
    <3> HIDE DEF i
    <3> QED BY <1>5, <2>1, <3>1
  <2>2. CASE n # m + 1
    <3>1. n \in 1..m
      BY <2>2
    <3>2. PICK i \in 1..L : part[i] = n /\ off[i] = k
      BY <1>4, <3>1 DEF Places
    <3>3. i \in 1..(L + M) /\ i <= L
      BY <1>2
    <3> QED BY <1>5, <3>2, <3>3
  <2> QED BY <2>1, <2>2
<1>10. Places(t, q, m + 1, P, O)
  <2> HIDE DEF L, M, u
  <2> QED BY <1>3, <1>7, <1>8, <1>9 DEF Places
<1> QED BY <1>3, <1>10 DEF IsJoined, t

\* FlattenSeq joins lists: it has every entry of each of them once.
LEMMA FlattenJoins ==
  ASSUME NEW X, NEW q \in Seq(Seq(X))
  PROVE  FlattenSeq(q) \in Seq(X) /\ IsJoined(FlattenSeq(q), q, Len(q))
<1> DEFINE N == Len(q)
           f == Joining(q)
           Good(i) == f[i] \in Seq(X) /\ IsJoined(f[i], q, i)
           B == {i \in 1..N : ~Good(i)}
<1>1. N \in Nat
  BY LenProperties
<1>2. \A i \in 1..N : f[i] = IF i = 1 THEN q[i] ELSE f[i - 1] \o q[i]
  BY <1>1, JoiningIsChain
<1>3. \A i \in 1..N : q[i] \in Seq(X)
  BY ElementOfSeq
<1>4. IsJoined(<<>>, q, 0)
  <2>1. Places(<<>>, q, 0, 0, 0)
    BY DEF Places
  <2> QED BY <2>1 DEF IsJoined
<1> HIDE DEF f, N
<1>5. ASSUME NEW i \in 1..N, i = 1 \/ Good(i - 1) PROVE Good(i)
  <2>1. CASE i = 1
    <3>1. <<>> \o q[0 + 1] \in Seq(X) /\ IsJoined(<<>> \o q[0 + 1], q, 0 + 1)
      <4>1. <<>> \in Seq(X) /\ 0 + 1 \in 1..Len(q)
        BY <1>5, <2>1, EmptySeq DEF N
      <4> QED BY <1>4, <4>1, JoinOneMore
    <3>2. 0 + 1 = 1 /\ <<>> \o q[1] = q[1]
      BY <1>3, <2>1, ConcatEmptySeq
    <3> QED BY <1>2, <2>1, <3>1, <3>2
  <2>2. CASE i # 1
    <3> DEFINE m == i - 1
    <3>1. m \in Nat /\ m + 1 = i /\ m + 1 \in 1..Len(q) /\ Good(m)
      BY <1>1, <1>5, <2>2 DEF N
    <3> HIDE DEF m
    <3>2. f[m] \o q[m + 1] \in Seq(X) /\ IsJoined(f[m] \o q[m + 1], q, m + 1)
      BY <3>1, JoinOneMore
    <3>3. f[i] = f[m] \o q[i]
      BY <1>2, <2>2 DEF m
    <3> QED BY <3>1, <3>2, <3>3
  <2> QED BY <2>1, <2>2
<1>6. ASSUME B # {} PROVE FALSE
  <2>1. B \in SUBSET Nat
    OBVIOUS
  <2>2. \A i : i \in B <=> i \in 1..N /\ ~Good(i)
    OBVIOUS
  <2> HIDE DEF B, Good
  <2>3. PICK i \in B : \A k \in B : i <= k
    BY <1>6, <2>1, LeastNat
  <2>4. i \in 1..N /\ i # 1
    BY <1>5, <2>2
  <2>5. i - 1 \in 1..N /\ ~(i <= i - 1)
    BY <1>1, <2>4
  <2>6. Good(i - 1)
    BY <2>2, <2>3, <2>5
  <2> QED BY <1>5, <2>2, <2>4, <2>6
<1>7. CASE N = 0
  <2>1. FlattenSeq(q) = q
    BY <1>7 DEF FlattenSeq, N
  <2>2. q = <<>>
    BY <1>7, EmptySeq DEF N
  <2> QED BY <1>4, <1>7, <2>1, <2>2, EmptySeq DEF N
<1>8. CASE N # 0
  <2>1. FlattenSeq(q) = f[N]
    BY <1>8 DEF FlattenSeq, Joining, f, N
  <2>2. N \in 1..N
    BY <1>1, <1>8
  <2>3. Good(N)
    BY <1>6, <2>2
  <2> QED BY <2>1, <2>3 DEF N
<1> QED BY <1>7, <1>8

\* c is q in pieces of one to four: each place of q is in one of them.
CutsUp(c, q) ==
  /\ \A n \in 1..Len(c) : 1 <= Len(c[n]) /\ Len(c[n]) <= 4
  /\ \A n \in 1..Len(c) : \A i \in 1..Len(c[n]) :
       4 * n - 4 + i \in 1..Len(q) /\ c[n][i] = q[4 * n - 4 + i]
  /\ \A n, k \in 1..Len(c) : \A i \in 1..Len(c[n]), j \in 1..Len(c[k]) :
       4 * n - 4 + i = 4 * k - 4 + j => n = k /\ i = j
  /\ \A p \in 1..Len(q) : \E n \in 1..Len(c) : \E i \in 1..Len(c[n]) : p = 4 * n - 4 + i

\* Four to a transaction.
LEMMA ChunkedCuts ==
  ASSUME NEW X, NEW q \in Seq(X)
  PROVE  Chunked(q) \in Seq(Seq(X)) /\ CutsUp(Chunked(q), q)
<1> DEFINE L == Len(q)
           K == (L + 3) \div 4
           c == Chunked(q)
           E(n) == Min({4 * n, L})
<1>1. L \in Nat
  BY LenProperties
<1>2. K \in Nat /\ 4 * K <= L + 3 /\ L + 3 < 4 * K + 4
  BY <1>1
<1>3. c = [n \in 1..K |-> SubSeq(q, 4 * n - 3, E(n))]
  BY DEF Chunked
<1>4. ASSUME NEW n \in 1..K
      PROVE  E(n) \in Nat /\ 4 * n - 3 <= E(n) /\ E(n) <= L /\ E(n) <= 4 * n /\ E(n) \in {4 * n, L}
  <2>1. 4 * n - 3 <= L /\ n \in Nat
    BY <1>1, <1>2
  <2> DEFINE A == {4 * n, L}
  <2>2. \E x \in A : \A y \in A : x <= y
    BY <1>1, <2>1
  <2>3. E(n) \in A /\ \A y \in A : E(n) <= y
    <3> HIDE DEF A
    <3> QED BY <2>2 DEF Min, A
  <2> HIDE DEF E
  <2> QED BY <1>1, <2>1, <2>3
<1> HIDE DEF c, K, E
<1>5. ASSUME NEW n \in 1..K
      PROVE  /\ c[n] \in Seq(X) /\ Len(c[n]) = E(n) - (4 * n - 3) + 1
             /\ \A i \in 1..Len(c[n]) : c[n][i] = q[4 * n - 4 + i]
  <2> DEFINE m == 4 * n - 3
             e == E(n)
  <2>1. m \in Int /\ e \in Int /\ m <= e /\ m \in 1..L /\ e \in 1..L /\ m + 3 >= e
    BY <1>1, <1>2, <1>4
  <2>2. \A i \in m..e : q[i] \in X
    <3>1. \A i \in m..e : i \in 1..L
      BY <1>1, <2>1
    <3> QED BY <3>1, ElementOfSeq
  <2>3. c[n] = SubSeq(q, m, e)
    BY <1>3
  <2> HIDE DEF m, e
  <2>4. /\ SubSeq(q, m, e) \in Seq(X)
        /\ Len(SubSeq(q, m, e)) = e - m + 1
        /\ \A i \in 1..(e - m + 1) : SubSeq(q, m, e)[i] = q[m + i - 1]
    BY <2>1, <2>2, SubSeqProperties
  <2>5. \A i \in 1..(e - m + 1) : m + i - 1 = 4 * n - 4 + i
    BY <2>1, <1>2 DEF m
  <2> QED BY <2>3, <2>4, <2>5 DEF m, e
<1>6. c \in Seq(Seq(X)) /\ Len(c) = K
  <2>1. c \in [1..K -> Seq(X)]
    BY <1>3, <1>5
  <2>2. c \in Seq(Seq(X))
    BY <1>2, <2>1, SeqDef
  <2> QED BY <1>2, <2>1, <2>2, LenProperties
<1>7. \A n \in 1..K : Len(c[n]) \in 1..4
  <2> TAKE n \in 1..K
  <2>1. E(n) \in Nat /\ 4 * n - 3 <= E(n) /\ E(n) <= 4 * n /\ n \in Nat
    BY <1>2, <1>4
  <2>2. Len(c[n]) = E(n) - (4 * n - 3) + 1
    BY <1>5
  <2> QED BY <2>1, <2>2
<1>8. ASSUME NEW n \in 1..K, NEW i \in 1..Len(c[n])
      PROVE  4 * n - 4 + i \in 1..L /\ i \in 1..4
  <2>1. E(n) \in Nat /\ E(n) <= L /\ n \in Nat /\ n >= 1 /\ Len(c[n]) = E(n) - (4 * n - 3) + 1
    BY <1>2, <1>4, <1>5
  <2>2. i \in Nat /\ i >= 1 /\ i <= 4 /\ i <= E(n) - (4 * n - 3) + 1
    <3>1. Len(c[n]) \in 1..4
      BY <1>7
    <3> QED BY <2>1, <3>1
  <2> QED BY <1>1, <2>1, <2>2
<1>9. ASSUME NEW n \in 1..K, NEW k \in 1..K, NEW i \in 1..4, NEW j \in 1..4,
             4 * n - 4 + i = 4 * k - 4 + j
      PROVE  n = k /\ i = j
  BY <1>2, <1>9
<1>10. ASSUME NEW p \in 1..L
       PROVE  \E n \in 1..K : \E i \in 1..Len(c[n]) : p = 4 * n - 4 + i
  <2> DEFINE n == (p + 3) \div 4
             i == p - (4 * n - 4)
  <2>1. n \in Nat /\ 4 * n <= p + 3 /\ p + 3 < 4 * n + 4
    BY <1>1
  <2>2. n \in 1..K /\ i \in 1..4 /\ p = 4 * n - 4 + i
    <3> HIDE DEF n
    <3> QED BY <1>1, <1>2, <2>1
  <2> HIDE DEF n, i
  <2>3. i <= Len(c[n])
    <3>1. E(n) \in {4 * n, L} /\ Len(c[n]) = E(n) - (4 * n - 3) + 1
      BY <1>4, <1>5, <2>2
    <3> QED BY <1>1, <1>2, <2>2, <3>1
  <2>4. i \in 1..Len(c[n])
    BY <1>7, <2>2, <2>3
  <2> QED BY <2>2, <2>4
<1>11. \A n, k \in 1..K : \A i \in 1..Len(c[n]), j \in 1..Len(c[k]) :
         4 * n - 4 + i = 4 * k - 4 + j => n = k /\ i = j
  BY <1>8, <1>9
<1>12. \A n \in 1..Len(c) : 1 <= Len(c[n]) /\ Len(c[n]) <= 4
  <2>1. \A m \in 1..4 : 1 <= m /\ m <= 4
    OBVIOUS
  <2>2. Len(c) = K
    BY <1>6
  <2> QED BY <1>7, <2>1, <2>2
<1>13. CutsUp(c, q)
  BY <1>5, <1>6, <1>8, <1>10, <1>11, <1>12 DEF CutsUp
<1> QED BY <1>6, <1>13 DEF c

-----------------------------------------------------------------------------
(***************************************************************************)
(* Presets: the rows one consists of, in the order they are written.       *)
(***************************************************************************)
\* The catalogue lists the actions of the registry, the auto-actions and a source
\* for every slot.
LEMMA CatalogueRows ==
  ASSUME NEW s
  PROVE  /\ \E n \in Nat : DOMAIN Catalogue(s) = 1..n
         /\ \A i \in {"deposit", "withdraw", "borrow", "repay"} :
              ActionOf(s, "kamino", i) \in PossibleRows(s)
         /\ \A i \in {"deposit", "withdraw"} :
              ActionOf(s, "lulo", i) \in PossibleRows(s) /\ AutoOf(s, i) \in PossibleRows(s)
         /\ ActionOf(s, "jupiter", "route") \in PossibleRows(s)
         /\ \A slot \in Slots : SourceOf(s, slot) \in PossibleRows(s)
         /\ \A key \in PossibleRows(s) : key[1] \in RowKinds /\ key[2] = s
<1> DEFINE F == {ActionOf(s, "kamino", "deposit"), ActionOf(s, "kamino", "withdraw"),
                 ActionOf(s, "kamino", "borrow"), ActionOf(s, "kamino", "repay"),
                 ActionOf(s, "lulo", "deposit"), ActionOf(s, "lulo", "withdraw"),
                 ActionOf(s, "jupiter", "route"),
                 AutoOf(s, "deposit"), AutoOf(s, "withdraw")}
           X == F \cup {SourceOf(s, slot) : slot \in Slots}
           A == <<ActionOf(s, "kamino", "deposit"), ActionOf(s, "kamino", "withdraw"),
                  ActionOf(s, "kamino", "borrow"), ActionOf(s, "kamino", "repay"),
                  ActionOf(s, "lulo", "deposit"), ActionOf(s, "lulo", "withdraw"),
                  ActionOf(s, "jupiter", "route"),
                  AutoOf(s, "deposit"), AutoOf(s, "withdraw")>>
           B == [n \in 1..MaxSources |-> SourceOf(s, n - 1)]
           c == Catalogue(s)
<1>1. \A key \in X : key[1] \in RowKinds /\ key[2] = s
  BY DEF ActionOf, AutoOf, SourceOf, RowKinds
<1>2. MaxSources \in Nat
  BY ConfigAssumption
<1>3. A \in Seq(X) /\ Len(A) = 9
  <2>1. F \subseteq X
    OBVIOUS
  <2> HIDE DEF X
  <2> QED BY <2>1
<1>4. B \in Seq(X) /\ Len(B) = MaxSources
  <2>1. \A n \in 1..MaxSources : n - 1 \in Slots
    BY <1>2 DEF Slots
  <2>2. \A n \in 1..MaxSources : SourceOf(s, n - 1) \in X
    BY <2>1
  <2> HIDE DEF X
  <2>3. B \in [1..MaxSources -> X]
    BY <2>2
  <2> QED BY <1>2, <2>3, SeqDef
<1>5. /\ c \in Seq(X) /\ Len(c) = 9 + MaxSources
      /\ \A i \in 1..(9 + MaxSources) : c[i] = IF i <= 9 THEN A[i] ELSE B[i - 9]
  <2>1. c = A \o B
    BY DEF Catalogue
  <2> HIDE DEF A, B, c, X
  <2>2. /\ A \o B \in Seq(X) /\ Len(A \o B) = Len(A) + Len(B)
        /\ \A i \in 1..(Len(A) + Len(B)) :
             (A \o B)[i] = IF i <= Len(A) THEN A[i] ELSE B[i - Len(A)]
    BY <1>3, <1>4, ConcatProperties
  <2> QED BY <1>3, <1>4, <2>1, <2>2
<1>6. DOMAIN c = 1..(9 + MaxSources)
  BY <1>5, LenProperties
<1>7. \A i \in 1..9 : c[i] = A[i] /\ A[i] \in PossibleRows(s)
  <2> HIDE DEF A, B, c
  <2>1. \A i \in 1..9 : i \in 1..(9 + MaxSources) /\ c[i] = A[i]
    BY <1>2, <1>5
  <2> QED BY <1>6, <2>1 DEF PossibleRows, c
<1>8. ASSUME NEW n \in 1..MaxSources
      PROVE  SourceOf(s, n - 1) \in PossibleRows(s)
  <2> DEFINE m == n + 9
  <2>1. B[n] = SourceOf(s, n - 1)
    OBVIOUS
  <2>2. m \in 1..(9 + MaxSources) /\ ~(m <= 9) /\ m - 9 = n
    BY <1>2
  <2> HIDE DEF A, B, c, m
  <2>3. c[m] = SourceOf(s, n - 1)
    BY <1>5, <2>1, <2>2
  <2> QED BY <1>6, <2>2, <2>3 DEF PossibleRows, c
<1>9. ASSUME NEW slot \in Slots
       PROVE  SourceOf(s, slot) \in PossibleRows(s)
  <2> DEFINE n == slot + 1
  <2>1. n \in 1..MaxSources /\ n - 1 = slot
    BY <1>2 DEF Slots
  <2> HIDE DEF n
  <2> QED BY <1>8, <2>1
<1>10. \A key \in PossibleRows(s) : key \in X
  <2> HIDE DEF X, A, B, c
  <2> QED BY <1>5, <1>6, ElementOfSeq DEF PossibleRows, c
<1>11. /\ A[1] \in PossibleRows(s) /\ A[2] \in PossibleRows(s) /\ A[3] \in PossibleRows(s)
       /\ A[4] \in PossibleRows(s) /\ A[5] \in PossibleRows(s) /\ A[6] \in PossibleRows(s)
       /\ A[7] \in PossibleRows(s) /\ A[8] \in PossibleRows(s) /\ A[9] \in PossibleRows(s)
  BY <1>7
<1>12. \E n \in Nat : DOMAIN Catalogue(s) = 1..n
  BY <1>2, <1>6
<1> HIDE DEF F, X, B, c
<1> QED BY <1>1, <1>9, <1>10, <1>11, <1>12

\* The rows of the catalogue are different.
LEMMA CatalogueOnce ==
  ASSUME NEW s
  PROVE  /\ Catalogue(s) \in Seq(PossibleRows(s))
         /\ \A n, k \in 1..Len(Catalogue(s)) : Catalogue(s)[n] = Catalogue(s)[k] => n = k
<1> DEFINE A == <<ActionOf(s, "kamino", "deposit"), ActionOf(s, "kamino", "withdraw"),
                  ActionOf(s, "kamino", "borrow"), ActionOf(s, "kamino", "repay"),
                  ActionOf(s, "lulo", "deposit"), ActionOf(s, "lulo", "withdraw"),
                  ActionOf(s, "jupiter", "route"),
                  AutoOf(s, "deposit"), AutoOf(s, "withdraw")>>
           B == [n \in 1..MaxSources |-> SourceOf(s, n - 1)]
           c == Catalogue(s)
           X == {A[n] : n \in 1..9} \cup {B[n] : n \in 1..MaxSources}
<1>1. MaxSources \in Nat
  BY ConfigAssumption
<1>2. A \in Seq(X) /\ Len(A) = 9
  <2>1. A \in [1..9 -> X] /\ DOMAIN A = 1..9
    <3>1. DOMAIN A = 1..9 /\ A = [n \in DOMAIN A |-> A[n]]
      OBVIOUS
    <3> HIDE DEF A
    <3> QED BY <3>1
  <2>2. Len(A) = 9
    OBVIOUS
  <2> HIDE DEF A, X
  <2>3. A \in Seq(X)
    BY <2>1, SeqDef
  <2> QED BY <2>2, <2>3
<1>3. B \in Seq(X) /\ Len(B) = MaxSources
  <2>1. B \in [1..MaxSources -> X]
    <3>1. B = [n \in 1..MaxSources |-> B[n]]
      OBVIOUS
    <3> HIDE DEF A, B
    <3> QED BY <3>1
  <2> HIDE DEF B, X
  <2> QED BY <1>1, <2>1, SeqDef, LenProperties
<1>4. /\ c \in Seq(X) /\ Len(c) = 9 + MaxSources
      /\ \A i \in 1..(9 + MaxSources) : c[i] = IF i <= 9 THEN A[i] ELSE B[i - 9]
  <2>1. c = A \o B
    BY DEF Catalogue
  <2> HIDE DEF A, B, c, X
  <2>2. /\ A \o B \in Seq(X) /\ Len(A \o B) = Len(A) + Len(B)
        /\ \A i \in 1..(Len(A) + Len(B)) :
             (A \o B)[i] = IF i <= Len(A) THEN A[i] ELSE B[i - Len(A)]
    BY <1>2, <1>3, ConcatProperties
  <2> QED BY <1>2, <1>3, <2>1, <2>2
<1>5. \A n, k \in 1..9 : A[n] = A[k] => n = k
  <2>1. \A n, k \in 1..9 : n # k => A[n] # A[k]
    BY DEF ActionOf, AutoOf
  <2> HIDE DEF A
  <2> QED BY <2>1
<1>6. \A n \in 1..9 : A[n][1] # "source"
  BY DEF ActionOf, AutoOf
<1>7. \A n \in 1..MaxSources : B[n][1] = "source" /\ B[n][3] = n - 1
  BY DEF SourceOf
<1> HIDE DEF A, B, c, X
<1>8. ASSUME NEW n \in 1..Len(c), NEW k \in 1..Len(c), c[n] = c[k] PROVE n = k
  <2>0. n \in 1..(9 + MaxSources) /\ k \in 1..(9 + MaxSources)
    BY <1>4, <1>8
  <2>1. CASE n <= 9 /\ k <= 9
    <3>1. c[n] = A[n] /\ c[k] = A[k] /\ n \in 1..9 /\ k \in 1..9
      BY <1>1, <1>4, <2>0, <2>1
    <3> QED BY <1>5, <1>8, <3>1
  <2>2. CASE ~(n <= 9) /\ ~(k <= 9)
    <3> DEFINE i == n - 9
               j == k - 9
    <3>1. c[n] = B[i] /\ c[k] = B[j]
      BY <1>4, <2>0, <2>2
    <3>2. i \in 1..MaxSources /\ j \in 1..MaxSources
      BY <1>1, <2>0, <2>2
    <3> HIDE DEF i, j
    <3>3. i - 1 = j - 1
      BY <1>7, <1>8, <3>1, <3>2
    <3> QED BY <2>0, <3>2, <3>3 DEF i, j
  <2>3. CASE n <= 9 /\ ~(k <= 9)
    <3>1. c[n] = A[n] /\ n \in 1..9 /\ c[k] = B[k - 9] /\ k - 9 \in 1..MaxSources
      BY <1>1, <1>4, <2>0, <2>3
    <3> QED BY <1>6, <1>7, <1>8, <3>1
  <2>4. CASE ~(n <= 9) /\ k <= 9
    <3>1. c[k] = A[k] /\ k \in 1..9 /\ c[n] = B[n - 9] /\ n - 9 \in 1..MaxSources
      BY <1>1, <1>4, <2>0, <2>4
    <3> QED BY <1>6, <1>7, <1>8, <3>1
  <2> QED BY <2>1, <2>2, <2>3, <2>4
<1>9. c \in Seq(PossibleRows(s))
  <2>1. DOMAIN c = 1..Len(c) /\ c \in [1..Len(c) -> X] /\ Len(c) \in Nat
    BY <1>4, LenProperties
  <2>2. \A n \in 1..Len(c) : c[n] \in PossibleRows(s)
    BY <2>1 DEF PossibleRows, c
  <2>3. c \in [1..Len(c) -> PossibleRows(s)]
    BY <2>1, <2>2
  <2> QED BY <2>1, <2>3, SeqDef
<1> QED BY <1>8, <1>9 DEF c

\* Rows in order are all of them, as a list.
LEMMA InOrderLists ==
  ASSUME NEW s, NEW rows
  PROVE  /\ InOrder(s, rows) \in Seq(rows \cap PossibleRows(s))
         /\ \A key \in rows \cap PossibleRows(s) :
              \E n \in 1..Len(InOrder(s, rows)) : InOrder(s, rows)[n] = key
         /\ \A i, j \in 1..Len(InOrder(s, rows)) :
              InOrder(s, rows)[i] = InOrder(s, rows)[j] => i = j
<1> DEFINE c == Catalogue(s)
           P == PossibleRows(s)
           q == InOrder(s, rows)
<1>1. /\ c \in Seq(P)
      /\ \A n, k \in 1..Len(c) : c[n] = c[k] => n = k
  BY CatalogueOnce
<1>2. P = {c[n] : n \in DOMAIN c} /\ q = Among(c, rows)
  BY DEF PossibleRows, InOrder
<1> HIDE DEF c, P, q
<1>3. P = {c[n] : n \in 1..Len(c)}
  BY <1>1, <1>2, LenProperties
<1>4. /\ q \in Seq({c[n] : n \in 1..Len(c)} \cap rows)
      /\ \A x \in {c[n] : n \in 1..Len(c)} \cap rows : \E k \in 1..Len(q) : q[k] = x
      /\ \A i, j \in 1..Len(q) : q[i] = q[j] => i = j
  <2>1. /\ Among(c, rows) \in Seq({c[n] : n \in 1..Len(c)} \cap rows)
        /\ \A x \in {c[n] : n \in 1..Len(c)} \cap rows :
             \E k \in 1..Len(Among(c, rows)) : Among(c, rows)[k] = x
        /\ (\A n, k \in 1..Len(c) : c[n] = c[k] => n = k) =>
             \A i, j \in 1..Len(Among(c, rows)) :
               Among(c, rows)[i] = Among(c, rows)[j] => i = j
    BY ONLY <1>1, AmongLists
  <2> QED BY <1>1, <1>2, <2>1
<1>5. {c[n] : n \in 1..Len(c)} \cap rows = rows \cap P
  BY <1>3
<1>6. /\ q \in Seq(rows \cap P)
      /\ \A x \in rows \cap P : \E k \in 1..Len(q) : q[k] = x
  BY <1>4, <1>5
<1> QED BY <1>4, <1>6 DEF q, P

\* What a preset writes does not depend on the order of the mints, and every row
\* of it can be.
LEMMA PresetRows ==
  ASSUME NEW a, NEW name, NEW s, NEW o, Buildable(a, name), NEW order \in SetToSeqs(VaultMints(a))
  PROVE  /\ DOMAIN Preset(name, s, o, order) = TargetRows(a, name, s)
         /\ TargetRows(a, name, s) \subseteq PossibleRows(s)
<1> DEFINE M == VaultMints(a)
           k == Cardinality(M)
           Keys ==
             CASE name = "kamino_liquidity" ->
                    Allowed(s, "kamino", {"deposit", "withdraw"}) \cup Autos(s) \cup {SourceOf(s, 0)}
               [] name = "kamino_looper" ->
                    Allowed(s, "kamino", {"deposit", "withdraw", "borrow", "repay"})
                      \cup Autos(s) \cup {SourceOf(s, 0)}
               [] name = "lulo_lending" -> Allowed(s, "lulo", {"deposit", "withdraw"}) \cup Autos(s)
               [] name = "jupiter_swapper" -> {SourceOf(s, slot) : slot \in 0..(2 * k - 1)}
               [] OTHER -> {}
<1>1. \A p \in SetToSeqs(M) : name = "jupiter_swapper" => Len(p) = k
  <2> SUFFICES ASSUME NEW p \in SetToSeqs(M), name = "jupiter_swapper" PROVE Len(p) = k
    OBVIOUS
  <2>1. k \in Nat
    <3>1. k \in 1..(MaxSources \div 2)
      BY DEF Buildable
    <3> QED BY <3>1
  <2>2. p \in [1..k -> M]
    BY DEF SetToSeqs
  <2> HIDE DEF k, M
  <2>3. p \in Seq(M)
    BY <2>1, <2>2, SeqDef
  <2> QED BY <2>1, <2>2, <2>3, LenProperties
<1>2. ASSUME NEW p \in SetToSeqs(M), NEW q
      PROVE  DOMAIN Preset(name, s, q, p) = Keys
  <2>1. CASE name = "kamino_liquidity"
    BY <2>1 DEF Preset, KaminoLiquidity, RowsFor
  <2>2. CASE name = "kamino_looper"
    BY <2>2 DEF Preset, KaminoLooperPreset, RowsFor
  <2>3. CASE name = "lulo_lending"
    BY <2>3 DEF Preset, LuloLending, RowsFor
  <2>4. CASE name = "jupiter_swapper"
    <3>1. Preset(name, s, q, p) = JupiterSwapper(s, p)
      BY <2>4 DEF Preset
    <3>2. DOMAIN JupiterSwapper(s, p) = {SourceOf(s, slot) : slot \in 0..(2 * Len(p) - 1)}
      BY DEF JupiterSwapper
    <3>3. Len(p) = k
      BY <1>1, <2>4
    <3>4. Keys = {SourceOf(s, slot) : slot \in 0..(2 * k - 1)}
      BY <2>4
    <3> HIDE DEF k, Keys
    <3> QED BY <3>1, <3>2, <3>3, <3>4
  <2>5. CASE name \notin {"kamino_liquidity", "kamino_looper", "lulo_lending", "jupiter_swapper"}
    BY <2>5 DEF Preset, Empty
  <2> QED BY <2>1, <2>2, <2>3, <2>4, <2>5
<1>3. TargetRows(a, name, s) = UNION {DOMAIN Preset(name, s, "any", p) : p \in SetToSeqs(M)}
  BY DEF TargetRows
<1>4. Keys \subseteq PossibleRows(s)
  <2>1. MaxSources \in Nat /\ MaxSources > 0
    BY ConfigAssumption
  <2>2. 0 \in Slots
    BY <2>1 DEF Slots
  <2>3. name = "jupiter_swapper" => 0..(2 * k - 1) \subseteq Slots
    <3> SUFFICES ASSUME name = "jupiter_swapper" PROVE 0..(2 * k - 1) \subseteq Slots
      OBVIOUS
    <3>1. k \in 1..(MaxSources \div 2)
      BY DEF Buildable
    <3> HIDE DEF k
    <3>2. k \in Nat /\ 2 * k <= MaxSources
      BY <2>1, <3>1
    <3> QED BY <2>1, <3>2 DEF Slots
  <2> HIDE DEF k
  <2>4. CASE name = "kamino_liquidity"
    BY <2>2, <2>4, CatalogueRows DEF Allowed, Autos
  <2>5. CASE name = "kamino_looper"
    BY <2>2, <2>5, CatalogueRows DEF Allowed, Autos
  <2>6. CASE name = "lulo_lending"
    BY <2>6, CatalogueRows DEF Allowed, Autos
  <2>7. CASE name = "jupiter_swapper"
    BY <2>3, <2>7, CatalogueRows
  <2>8. CASE name \notin {"kamino_liquidity", "kamino_looper", "lulo_lending", "jupiter_swapper"}
    BY <2>8
  <2> QED BY <2>4, <2>5, <2>6, <2>7, <2>8
<1> HIDE DEF Keys, M
<1>5. TargetRows(a, name, s) = Keys
  BY <1>2, <1>3 DEF M
<1>6. DOMAIN Preset(name, s, o, order) = Keys
  BY <1>2 DEF M
<1> QED BY <1>4, <1>5, <1>6

\* So is every row a preset shows.
LEMMA TargetPossible ==
  ASSUME NEW a, NEW name, NEW s
  PROVE  TargetRows(a, name, s) \subseteq PossibleRows(s)
<1>1. CASE Buildable(a, name) /\ SetToSeqs(VaultMints(a)) # {}
  <2>1. PICK order \in SetToSeqs(VaultMints(a)) : TRUE
    BY <1>1
  <2> QED BY <1>1, <2>1, PresetRows
<1>2. CASE ~(Buildable(a, name) /\ SetToSeqs(VaultMints(a)) # {})
  BY <1>2 DEF TargetRows
<1> QED BY <1>1, <1>2

\* And every row the modal may show.
LEMMA PreviewPossible ==
  ASSUME NEW t, NEW name, NEW shown \in Previews(t, name)
  PROVE  shown \subseteq PossibleRows(page[t].strategy)
BY TargetPossible DEF Previews

\* A custom preset shows nothing.
LEMMA CustomIsEmpty ==
  ASSUME NEW a, NEW s
  PROVE  TargetRows(a, "custom", s) = {}
BY DEF TargetRows, Preset, Empty

-----------------------------------------------------------------------------
(***************************************************************************)
(* Pages, scripts and everybody else send transactions, one at a time; only *)
(* the clock changes an account otherwise.                                 *)
(***************************************************************************)
ConfigInv == AccountsOK(acct) /\ CooldownsOK(acct) /\ (unlisted \/ Apart(acct, Vault))

Stays == UNCHANGED <<acct, unlisted>>
Sent == \E tx : Run(acct, tx).ok /\ Lands(Run(acct, tx))

\* A single transaction of an editor or of somebody else.
LEMMA SubmitSends ==
  ASSUME NEW ix, Submit(ix)
  PROVE  Sent
BY DEF Submit, Accepted, Sent

\* Whatever a page does, the accounts change by a transaction or not at all.
LEMMA PageSends ==
  ASSUME NEW t \in Pages,
         \/ \E w \in {Admin}, s \in Strategies(acct), failed \in {{}, {"action"}} :
              LoadPage(t, w, s, failed)
         \/ RefreshPage(t)
         \/ \E name \in Presets : StartPreset(t, name) \/ \E d \in Agents : StartCreate(t, name, d)
         \/ \E target \in SUBSET Mints : StartTokens(t, target)
         \/ BuildAdditions(t) \/ Send(t) \/ FailUnnoticed(t) \/ AnswerLost(t)
         \/ CloseTab(t) \/ Finish(t)
         \/ EditActions(t) \/ EditAutoActions(t) \/ EditSources(t) \/ EditDelegate(t)
         \/ Deactivate(t) \/ ProposeSuccessor(t)
  PROVE  Stays \/ Sent
<1>1. CASE \E w \in {Admin}, s \in Strategies(acct), failed \in {{}, {"action"}} :
             LoadPage(t, w, s, failed)
  BY <1>1 DEF LoadPage, Stays
<1>2. CASE RefreshPage(t)
  BY <1>2 DEF RefreshPage, Stays
<1>3. CASE \E name \in Presets : StartPreset(t, name) \/ \E d \in Agents : StartCreate(t, name, d)
  <2>1. ASSUME NEW name, StartPreset(t, name) PROVE Stays
    BY <2>1 DEF StartPreset, Start, Stays
  <2>2. ASSUME NEW name, NEW d, StartCreate(t, name, d) PROVE Stays
    BY <2>2 DEF StartCreate, Stays
  <2> QED BY <1>3, <2>1, <2>2
<1>4. CASE \E target \in SUBSET Mints : StartTokens(t, target)
  BY <1>4 DEF StartTokens, Start, Stays
<1>5. CASE BuildAdditions(t)
  BY <1>5 DEF BuildAdditions, Stays
<1>6. CASE Send(t)
  BY <1>6 DEF Send, Stays, Sent
<1>7. CASE FailUnnoticed(t)
  BY <1>7 DEF FailUnnoticed, Stays
<1>8. CASE AnswerLost(t)
  BY <1>8 DEF AnswerLost, Stays, Sent
<1>9. CASE CloseTab(t)
  BY <1>9 DEF CloseTab, Stays
<1>10. CASE Finish(t)
  BY <1>10 DEF Finish, Stays
<1>11. CASE EditActions(t)
  BY <1>11, SubmitSends DEF EditActions
<1>12. ASSUME NEW ixs, Submits(t, ixs) PROVE Sent
  BY <1>12, SubmitSends DEF Submits
<1>13. CASE \/ EditAutoActions(t) \/ EditSources(t) \/ EditDelegate(t)
            \/ Deactivate(t) \/ ProposeSuccessor(t)
  BY <1>12, <1>13
    DEF EditAutoActions, EditSources, EditDelegate, Deactivate, ProposeSuccessor
<1> QED BY <1>1, <1>2, <1>3, <1>4, <1>5, <1>6, <1>7, <1>8, <1>9, <1>10, <1>11, <1>13

\* So with every step of the console, governance and the successors included.
LEMMA ConsoleSends ==
  ASSUME ConsoleNext
  PROVE  Stays \/ Sent
<1>1. ASSUME Elsewhere PROVE Sent
  BY <1>1, SubmitSends DEF Elsewhere, GovernanceEdits, RoleAccepted
<1> QED BY <1>1, PageSends DEF ConsoleNext

\* A script that is started has changed nothing yet.
LEMMA LaunchStays ==
  ASSUME StartScript
  PROVE  Stays
<1>1. ASSUME NEW name, NEW steps, Launch(name, steps) PROVE Stays
  BY <1>1 DEF Launch, Stays
<1>2. CASE StartListScript
  BY <1>1, <1>2 DEF StartListScript
<1>3. CASE StartSetupScript
  BY <1>1, <1>3 DEF StartSetupScript
<1>4. CASE StartVaultScript
  BY <1>1, <1>4 DEF StartVaultScript
<1>5. CASE StartSourceScript
  BY <1>1, <1>5 DEF StartSourceScript
<1> QED BY <1>2, <1>3, <1>4, <1>5 DEF StartScript

\* With the scripts, the accounts change by transactions and by the clock.
LEMMA ScriptsSends ==
  ASSUME ScriptsNext
  PROVE  Stays \/ Sent \/ CooldownElapses
<1>1. CASE StartScript
  BY <1>1, LaunchStays
<1>2. CASE RunStep
  BY <1>2 DEF RunStep, ScriptLands, Stays, Sent
<1>3. CASE ScriptDies
  BY <1>3 DEF ScriptDies, ScriptLands, Stays, Sent
<1>4. CASE FinishScript
  BY <1>4 DEF FinishScript, consoleVars, Stays
<1>5. CASE ConsoleNext
  BY <1>5, ConsoleSends
<1>6. CASE UseElsewhere
  BY <1>6, SubmitSends DEF UseElsewhere
<1>7. CASE CooldownElapses
  BY <1>7
<1> QED BY <1>1, <1>2, <1>3, <1>4, <1>5, <1>6, <1>7 DEF ScriptsNext

\* A transaction keeps the invariant, whoever has sent it.
LEMMA SentKeeps ==
  ASSUME ConfigInv, Sent
  PROVE  ConfigInv'
<1>1. PICK tx : Run(acct, tx).ok /\ Lands(Run(acct, tx))
  BY DEF Sent
<1> DEFINE r == Run(acct, tx)
<1>2. acct' = r.acct /\ unlisted' = (unlisted \/ ~r.listed)
  BY <1>1 DEF Lands
<1>3. /\ AccountsOK(r.acct) /\ CooldownsOK(r.acct)
      /\ r.listed /\ Apart(acct, Vault) => Apart(r.acct, Vault)
  BY <1>1, RunKeeps DEF ConfigInv
<1> HIDE DEF r
<1>4. AccountsOK(acct') /\ CooldownsOK(acct') /\ (unlisted' \/ Apart(acct', Vault))
  BY <1>2, <1>3 DEF ConfigInv
<1> QED BY <1>4 DEF ConfigInv

\* A cooldown that elapses leaves vaults and strategies alone.
LEMMA ElapsesKeeps ==
  ASSUME ConfigInv, CooldownElapses
  PROVE  ConfigInv'
<1>1. PICK row \in DOMAIN acct :
        /\ row[1] = "action" /\ unlisted' = unlisted
        /\ acct' = [acct EXCEPT ![row] = [@ EXCEPT !.cooling = FALSE, !.calls = 0]]
  BY DEF CooldownElapses, IsRow
<1>2. /\ DOMAIN acct' = DOMAIN acct
      /\ \A key \in DOMAIN acct : key # row => acct'[key] = acct[key]
      /\ acct'[row] = [acct[row] EXCEPT !.cooling = FALSE, !.calls = 0]
  BY <1>1
<1>3. /\ \A v : VaultOf(v) # row
      /\ \A s : StrategyOf(s) # row
  BY <1>1, Addresses
<1>4. /\ \A v : Exists(acct', VaultOf(v)) <=> Exists(acct, VaultOf(v))
      /\ \A s : Exists(acct', StrategyOf(s)) <=> Exists(acct, StrategyOf(s))
      /\ \A v : Exists(acct, VaultOf(v)) => acct'[VaultOf(v)] = acct[VaultOf(v)]
      /\ \A s : Exists(acct, StrategyOf(s)) => acct'[StrategyOf(s)] = acct[StrategyOf(s)]
  BY <1>2, <1>3 DEF Exists
<1>5. \A v : StrategiesIn(acct', v) = StrategiesIn(acct, v)
  BY <1>4 DEF StrategiesIn
<1>6. AccountsOK(acct')
  BY <1>2, <1>4, <1>5 DEF ConfigInv, AccountsOK
<1>7. CooldownsOK(acct')
  <2>1. CooldownsOK(acct) /\ DOMAIN acct[row] = ActionFields
    BY <1>1 DEF ConfigInv, CooldownsOK
  <2>2. DOMAIN acct'[row] = ActionFields /\ acct'[row].calls = 0
    BY <1>2, <2>1 DEF ActionFields
  <2> QED BY <1>2, <2>1, <2>2 DEF CooldownsOK
<1>8. Apart(acct, Vault) => Apart(acct', Vault)
  BY <1>4, <1>5 DEF Apart, Active
<1>9. unlisted \/ Apart(acct, Vault)
  BY DEF ConfigInv
<1> QED BY <1>1, <1>6, <1>7, <1>8, <1>9 DEF ConfigInv

\* At the start the vault has one strategy and no row is registered.
LEMMA ConfigStart ==
  ASSUME ConsoleInit
  PROVE  ConfigInv
<1> DEFINE first == <<Vault, 0>>
           Start0 == {Config, VaultOf(Vault), StrategyOf(first)} \cup {Listed(m) : m \in Mints}
<1>1. /\ DOMAIN acct = Start0
      /\ Exists(acct, VaultOf(Vault)) /\ Exists(acct, StrategyOf(first))
      /\ acct[VaultOf(Vault)] = [admin |-> Admin, authority |-> Admin, count |-> 1,
                                 pendingAdmin |-> "other", pendingAuthority |-> "other"]
      /\ acct[StrategyOf(first)] = [active |-> TRUE, delegate |-> "agent", approved |-> "agent"]
  BY Addresses DEF ConsoleInit, Exists, Config, VaultOf, StrategyOf
<1>2. /\ Config[1] = "config"
      /\ \A m : Listed(m)[1] = "allowed_token"
  BY DEF Config, Listed
<1>3. \A key \in Start0 : key[1] # "action" /\ key[1] \notin RowKinds
  BY <1>2, Addresses DEF RowKinds
<1>4. \A v : VaultOf(v) \in Start0 => v = Vault
  BY <1>2, Addresses
<1>5. \A s : StrategyOf(s) \in Start0 => s = first
  BY <1>2, Addresses
<1> HIDE DEF Start0
<1>6. StrategiesIn(acct, Vault) = {<<Vault, k>> : k \in 0..(1 - 1)}
  BY <1>1 DEF StrategiesIn, StrategiesUpTo
<1>7. StrategiesIn(acct, Vault) = {first}
  BY <1>6
<1>8. DOMAIN acct[VaultOf(Vault)] = VaultFields /\ acct[VaultOf(Vault)].count \in Nat
  BY <1>1 DEF VaultFields
<1>9. DOMAIN acct[StrategyOf(first)] = StrategyFields /\ first[1] = Vault
  BY <1>1 DEF StrategyFields
<1> HIDE DEF first
<1>10. AccountsOK(acct)
  BY <1>1, <1>3, <1>4, <1>5, <1>7, <1>8, <1>9 DEF AccountsOK, Exists
<1>11. CooldownsOK(acct)
  BY <1>1, <1>3 DEF CooldownsOK
<1>12. Apart(acct, Vault)
  BY <1>7 DEF Apart
<1> QED BY <1>10, <1>11, <1>12 DEF ConfigInv

\* The properties follow.
LEMMA ConfigImplies ==
  ASSUME ConfigInv
  PROVE  DelegatesDistinct /\ CooldownHolds
<1>1. DelegatesDistinct
  BY DEF ConfigInv, DelegatesDistinct, Apart, Strategies
<1>2. CooldownHolds
  <2> SUFFICES ASSUME NEW key \in DOMAIN acct, key[1] = "action", acct[key].cooldown
               PROVE  acct[key].calls <= 1
    BY DEF CooldownHolds, IsRow
  <2> QED BY DEF ConfigInv, CooldownsOK
<1> QED BY <1>1, <1>2

-----------------------------------------------------------------------------
(***************************************************************************)
(* The jobs of the console: what is left to do of one that nobody has      *)
(* interfered with.                                                        *)
(***************************************************************************)
PageFields == {"wallet", "strategy", "seen", "mints", "listed", "count", "job"}
JobFields ==
  {"kind", "state", "todo", "adding", "target", "had", "shown", "fresh", "raced"}

\* A list is what Head and Tail take apart.
IsList(q) == q \in Seq({q[n] : n \in DOMAIN q})

\* One instruction, that closes rows the job revokes and adds rows that are due, or
\* the strategy itself.
JobStep(s, due, tx) ==
  /\ tx = Single(tx[1]) /\ tx[1].ensure = {}
  /\ tx[1].close \subseteq PossibleRows(s) \ due
  /\ DOMAIN tx[1].init \subseteq due \cup {StrategyOf(s)}

\* The rows a job comes to: of those it showed, the ones that were there and the ones
\* its target has.
RowsDue(a, s, job) ==
  IF job.kind = "create" THEN job.shown
  ELSE job.shown \cap (job.had \cup TargetRows(a, job.target, s))

\* The transactions left close every row that is not due, and they and the additions
\* that are yet to be computed add every one that is missing; what is computed of
\* the additions is due, and misses nothing that is.
InProgress(a, s, job) ==
  LET due    == RowsDue(a, s, job)
      target == TargetRows(a, job.target, s)
  IN  /\ IsList(job.todo) /\ \A n \in DOMAIN job.todo : JobStep(s, due, job.todo[n])
      /\ RowsOf(a, s) \ due \subseteq UNION {job.todo[n][1].close : n \in DOMAIN job.todo}
      /\ due \ RowsOf(a, s)
           \subseteq job.adding \cup UNION {DOMAIN job.todo[n][1].init : n \in DOMAIN job.todo}
      /\ job.adding # {} =>
           job.adding \cap target \subseteq due /\ due \ RowsOf(a, s) \subseteq target
      /\ due \subseteq PossibleRows(s)

PageOK(a, p) ==
  /\ DOMAIN p = PageFields /\ DOMAIN p.job = JobFields
  /\ p.job.fresh /\ p.job.kind \in {"preset", "create"} =>
       /\ ~p.job.raced
       /\ p.job.state = "running" => InProgress(a, p.strategy, p.job)
       /\ p.job.state = "applied" => RowsOf(a, p.strategy) = RowsDue(a, p.strategy, p.job)
JobsInv == DOMAIN page = Pages /\ \A t \in Pages : PageOK(acct, page[t])

\* A list that is not empty: its head, and its tail one place further on.
LEMMA ListTail ==
  ASSUME NEW q, IsList(q), q # <<>>
  PROVE  /\ 1 \in DOMAIN q /\ Head(q) = q[1] /\ IsList(Tail(q))
         /\ \A n \in DOMAIN q : n # 1 => \E k \in DOMAIN Tail(q) : Tail(q)[k] = q[n]
         /\ \A k \in DOMAIN Tail(q) : \E n \in DOMAIN q : Tail(q)[k] = q[n]
<1> DEFINE X == {q[n] : n \in DOMAIN q}
           r == Tail(q)
<1>1. q \in Seq(X)
  BY DEF IsList
<1> HIDE DEF X, r
<1>2. /\ Head(q) \in X /\ r \in Seq(X) /\ Len(r) = Len(q) - 1
      /\ \A k \in 1..Len(r) : r[k] = q[k + 1]
  BY <1>1, HeadTailProperties DEF r
<1>3. Len(q) \in Nat /\ Len(q) # 0 /\ DOMAIN q = 1..Len(q) /\ DOMAIN r = 1..Len(r)
  BY <1>1, <1>2, LenProperties, EmptySeq
<1>4. Head(q) = q[1]
  BY <1>1
<1>5. IsList(r)
  <2> DEFINE Y == {r[k] : k \in DOMAIN r}
  <2>1. r \in [1..Len(r) -> Y]
    BY <1>2, <1>3, LenProperties
  <2> HIDE DEF Y
  <2>2. r \in Seq(Y)
    BY <1>2, <1>3, <2>1, SeqDef
  <2> QED BY <2>2 DEF IsList, Y
<1>6. ASSUME NEW n \in DOMAIN q, n # 1
      PROVE  \E k \in DOMAIN r : r[k] = q[n]
  <2> DEFINE k == n - 1
  <2>1. k \in 1..Len(r) /\ k + 1 = n
    BY <1>2, <1>3, <1>6
  <2> HIDE DEF k
  <2> QED BY <1>2, <1>3, <2>1
<1>7. ASSUME NEW k \in DOMAIN r
      PROVE  \E n \in DOMAIN q : r[k] = q[n]
  <2> DEFINE n == k + 1
  <2>1. n \in 1..Len(q) /\ r[k] = q[n]
    BY <1>2, <1>3
  <2> HIDE DEF n
  <2> QED BY <1>3, <2>1
<1> QED BY <1>3, <1>4, <1>5, <1>6, <1>7 DEF r

\* What a job's transaction makes of the strategy's rows; it leaves the vault's
\* tokens alone.
LEMMA StepRows ==
  ASSUME NEW a, NEW s, NEW shown, shown \subseteq PossibleRows(s), NEW tx,
         JobStep(s, shown, tx), Run(a, tx).ok
  PROVE  /\ RowsOf(Run(a, tx).acct, s)
              = (RowsOf(a, s) \ tx[1].close) \cup (DOMAIN tx[1].init \cap shown)
         /\ VaultMints(Run(a, tx).acct) = VaultMints(a)
<1> DEFINE ix == tx[1]
           b == After(a, ix)
<1>1. tx = Single(ix) /\ ix.ensure = {} /\ ix.close \subseteq PossibleRows(s)
      /\ DOMAIN ix.init \subseteq shown \cup {StrategyOf(s)}
  BY DEF JobStep
<1>2. Run(a, tx).acct = b
  <2> HIDE DEF b, ix
  <2>1. Run(a, Single(ix)).ok
    BY <1>1
  <2>2. Run(a, Single(ix)).acct = After(a, ix)
    BY <2>1, SingleRuns
  <2> QED BY <1>1, <2>2 DEF b
<1> HIDE DEF ix
<1>3. DOMAIN b = DOMAIN ix.init \cup (DOMAIN a \ ix.close)
  BY <1>1, AfterDomain
<1>4. \A key \in shown : key[1] \in RowKinds /\ key[2] = s
  BY CatalogueRows
<1>5. StrategyOf(s)[1] \notin RowKinds
  BY Addresses DEF RowKinds
<1> HIDE DEF b
<1>6. RowsOf(b, s) = (RowsOf(a, s) \ ix.close) \cup (DOMAIN ix.init \cap shown)
  BY <1>1, <1>3, <1>4, <1>5 DEF RowsOf, IsRow
<1>7. \A m : VaultListed(Vault, m)[1] \notin RowKinds \cup {"strategy"}
  BY DEF VaultListed, RowKinds
<1>8. \A m : VaultListed(Vault, m) \in DOMAIN b <=> VaultListed(Vault, m) \in DOMAIN a
  BY <1>1, <1>3, <1>4, <1>7, CatalogueRows, Addresses
<1>9. VaultMints(b) = VaultMints(a)
  BY <1>8 DEF VaultMints, Exists
<1> QED BY <1>2, <1>6, <1>9 DEF ix

\* A job whose next transaction went through is in progress with what is left.
LEMMA SendAdvances ==
  ASSUME NEW a, NEW s, NEW job, DOMAIN job = JobFields, InProgress(a, s, job),
         job.todo # <<>>, Run(a, Head(job.todo)).ok
  PROVE  InProgress(Run(a, Head(job.todo)).acct, s, [job EXCEPT !.todo = Tail(@), !.raced = FALSE])
<1> DEFINE q == job.todo
           r == Tail(q)
           shown == RowsDue(a, s, job)
           target == TargetRows(a, job.target, s)
           after == [job EXCEPT !.todo = Tail(@), !.raced = FALSE]
           tx == q[1]
           b == Run(a, tx).acct
<1>1. /\ after.todo = r /\ after.shown = job.shown /\ after.adding = job.adding
      /\ after.target = job.target /\ after.had = job.had /\ after.kind = job.kind
  BY DEF JobFields
<1>2. /\ IsList(q) /\ \A n \in DOMAIN q : JobStep(s, shown, q[n])
      /\ RowsOf(a, s) \ shown \subseteq UNION {q[n][1].close : n \in DOMAIN q}
      /\ shown \ RowsOf(a, s) \subseteq job.adding \cup UNION {DOMAIN q[n][1].init : n \in DOMAIN q}
      /\ job.adding # {} =>
           job.adding \cap target \subseteq shown /\ shown \ RowsOf(a, s) \subseteq target
      /\ shown \subseteq PossibleRows(s)
  BY DEF InProgress
<1> HIDE DEF q
<1>3. /\ 1 \in DOMAIN q /\ Head(q) = tx /\ IsList(r)
      /\ \A n \in DOMAIN q : n # 1 => \E k \in DOMAIN r : r[k] = q[n]
      /\ \A k \in DOMAIN r : \E n \in DOMAIN q : r[k] = q[n]
  BY <1>2, ListTail DEF q
<1> HIDE DEF r, after, shown
<1>4. JobStep(s, shown, tx) /\ Run(a, tx).ok
  BY <1>2, <1>3 DEF q
<1>5. /\ RowsOf(b, s) = (RowsOf(a, s) \ tx[1].close) \cup (DOMAIN tx[1].init \cap shown)
      /\ VaultMints(b) = VaultMints(a)
  BY <1>2, <1>4, StepRows
<1>6. tx[1].close \cap shown = {}
  BY <1>4 DEF JobStep
<1> HIDE DEF b
<1>7. RowsOf(b, s) \ shown \subseteq UNION {r[k][1].close : k \in DOMAIN r}
  <2> SUFFICES ASSUME NEW key \in RowsOf(b, s) \ shown
               PROVE  \E k \in DOMAIN r : key \in r[k][1].close
    OBVIOUS
  <2>1. key \in RowsOf(a, s) \ shown /\ key \notin tx[1].close
    BY <1>5
  <2>2. PICK n \in DOMAIN q : key \in q[n][1].close
    BY <1>2, <2>1
  <2>3. n # 1
    BY <2>1, <2>2
  <2> QED BY <1>3, <2>2, <2>3
<1>8. shown \ RowsOf(b, s) \subseteq job.adding \cup UNION {DOMAIN r[k][1].init : k \in DOMAIN r}
  <2> SUFFICES ASSUME NEW key \in shown \ RowsOf(b, s), key \notin job.adding
               PROVE  \E k \in DOMAIN r : key \in DOMAIN r[k][1].init
    OBVIOUS
  <2>1. key \in shown \ RowsOf(a, s) /\ key \notin DOMAIN tx[1].init
    BY <1>5, <1>6
  <2>2. PICK n \in DOMAIN q : key \in DOMAIN q[n][1].init
    BY <1>2, <2>1
  <2>3. n # 1
    BY <2>1, <2>2
  <2> QED BY <1>3, <2>2, <2>3
<1>9. TargetRows(b, job.target, s) = target
  BY <1>5 DEF TargetRows, Buildable
<1>10. \A k \in DOMAIN r : JobStep(s, shown, r[k])
  BY <1>2, <1>3
<1> HIDE DEF target
<1>11. RowsDue(b, s, after) = shown
  BY <1>1, <1>9 DEF RowsDue, shown, target
<1>12. shown \ RowsOf(b, s) \subseteq shown \ RowsOf(a, s)
  BY <1>5, <1>6
<1>13. InProgress(b, s, after)
  BY <1>1, <1>2, <1>3, <1>7, <1>8, <1>9, <1>10, <1>11, <1>12 DEF InProgress
<1> QED BY <1>3, <1>13 DEF b, after, q

\* What the instructions of a job are made of: a row that is revoked, a row that is
\* added, or the strategy.
LEMMA SingleStep ==
  ASSUME NEW s, NEW shown, NEW ix, ix.ensure = {}, ix.close \subseteq PossibleRows(s) \ shown,
         DOMAIN ix.init \subseteq shown \cup {StrategyOf(s)}
  PROVE  JobStep(s, shown, Single(ix)) /\ Single(ix)[1] = ix
BY DEF JobStep, Single

\* A closed account is one of those the strategy can have and the page shows.
LEMMA ClosingStep ==
  ASSUME NEW s, NEW w, NEW shown, NEW key \in PossibleRows(s) \ shown
  PROVE  /\ JobStep(s, shown, Single(CloseRow(s, w, key)))
         /\ Single(CloseRow(s, w, key))[1].close = {key}
<1> DEFINE ix == CloseRow(s, w, key)
<1>1. ix.close = {key} /\ ix.ensure = {} /\ DOMAIN ix.init = {}
  BY DEF CloseRow, ByAdmin, Instruction, Empty
<1> HIDE DEF ix
<1>2. JobStep(s, shown, Single(ix)) /\ Single(ix)[1] = ix
  BY <1>1, SingleStep
<1> QED BY <1>1, <1>2 DEF ix

\* A row is opened where the page shows none.
LEMMA AddingStep ==
  ASSUME NEW s, NEW w, NEW shown, NEW key \in shown, NEW row
  PROVE  /\ JobStep(s, shown, Single(AddRow(s, w, key, row)))
         /\ key \in DOMAIN Single(AddRow(s, w, key, row))[1].init
<1> DEFINE ix == AddRow(s, w, key, row)
<1>1. ix.close = {} /\ ix.ensure = {} /\ DOMAIN ix.init = {key}
  BY DEF AddRow, OnStrategy, ByAdmin, Instruction, Row
<1> HIDE DEF ix
<1>2. JobStep(s, shown, Single(ix)) /\ Single(ix)[1] = ix
  BY <1>1, SingleStep
<1> QED BY <1>1, <1>2 DEF ix

\* So is a strategy, on its own.
LEMMA CreatingStep ==
  ASSUME NEW s, NEW w, NEW shown, NEW d, NEW others
  PROVE  JobStep(s, shown, Single(CreateStrategy(s, w, d, others)))
<1> DEFINE ix == CreateStrategy(s, w, d, others)
<1>1. ix.close = {} /\ ix.ensure = {} /\ DOMAIN ix.init = {StrategyOf(s)}
  BY DEF CreateStrategy, ByAdmin, Instruction, Row
<1> HIDE DEF ix
<1>2. JobStep(s, shown, Single(ix))
  BY <1>1, SingleStep
<1> QED BY <1>2 DEF ix

\* A function on an interval from 1 is a list.
LEMMA IntervalList ==
  ASSUME NEW k \in Nat, NEW q, DOMAIN q = 1..k, q = [n \in DOMAIN q |-> q[n]]
  PROVE  IsList(q)
<1> DEFINE Y == {q[n] : n \in DOMAIN q}
<1>1. q \in [1..k -> Y]
  OBVIOUS
<1> HIDE DEF Y
<1>2. q \in Seq(Y)
  BY <1>1, SeqDef
<1> QED BY <1>2 DEF IsList, Y

\* A page that shows the strategy as it is starts to change its preset.
LEMMA PresetStarts ==
  ASSUME AccountsOK(acct), DOMAIN page = Pages, NEW t \in Pages, PageOK(acct, page[t]),
         NEW name, StartPreset(t, name)
  PROVE  PageOK(acct, page'[t])
<1> DEFINE seen == page[t].seen
<1>0. PICK shown \in Previews(t, name) : Start(t, PresetJob(t, name, shown))
  BY DEF StartPreset
<1> DEFINE s      == page[t].strategy
           w      == page[t].wallet
           target == TargetRows(acct, name, s)
           due    == shown \cap (seen \cup target)
           rows   == seen \ shown
           order  == InOrder(s, rows)
           q      == Revocations(t, rows)
           adds   == IF name = "custom" THEN {} ELSE ToAdd(seen, shown)
           fresh  == Fresh(t) /\ Active(acct, s)
           asked  == [Idle EXCEPT !.kind = "preset", !.target = name, !.had = seen,
                                  !.shown = shown, !.todo = q, !.adding = adds, !.fresh = fresh]
           job    == [asked EXCEPT !.state = "running"]
<1>1. page' = [page EXCEPT ![t].job = job]
  BY <1>0 DEF Start, PresetJob
<1>2. DOMAIN page[t] = PageFields
  BY DEF PageOK
<1>3. page'[t].job = job /\ page'[t].strategy = s /\ DOMAIN page'[t] = PageFields
  <2> HIDE DEF job
  <2> QED BY <1>1, <1>2 DEF PageFields
<1>4. /\ job.todo = q /\ job.adding = adds /\ job.target = name /\ job.shown = shown
      /\ job.had = seen /\ job.kind = "preset" /\ job.state = "running" /\ job.raced = FALSE
      /\ DOMAIN job = JobFields
  <2> HIDE DEF q, adds, fresh, seen
  <2> QED BY DEF Idle, JobFields
<1>5. job.fresh => fresh
  <2> HIDE DEF fresh
  <2>1. job.fresh = fresh
    OBVIOUS
  <2> QED BY <2>1
<1>6. q = [n \in DOMAIN order |-> Single(CloseRow(s, w, order[n]))]
  BY DEF Revocations, Revoke
<1> HIDE DEF job, q, order
<1>7. ASSUME job.fresh
      PROVE  InProgress(acct, s, job)
  <2>1. seen = RowsOf(acct, s)
    BY <1>5, <1>7 DEF Fresh, UpToDate
  <2>2. \A key \in RowsOf(acct, s) : key \in PossibleRows(s)
    BY DEF AccountsOK, RowsOf, IsRow
  <2> DEFINE X == rows \cap PossibleRows(s)
  <2>3. order \in Seq(X) /\ \A key \in X : \E n \in 1..Len(order) : order[n] = key
    <3> HIDE DEF rows, s
    <3>1. /\ InOrder(s, rows) \in Seq(rows \cap PossibleRows(s))
          /\ \A key \in rows \cap PossibleRows(s) :
               \E n \in 1..Len(InOrder(s, rows)) : InOrder(s, rows)[n] = key
          /\ \A i, j \in 1..Len(InOrder(s, rows)) :
               InOrder(s, rows)[i] = InOrder(s, rows)[j] => i = j
      BY ONLY InOrderLists
    <3> QED BY <3>1 DEF order
  <2> HIDE DEF X
  <2>4. Len(order) \in Nat /\ DOMAIN order = 1..Len(order) /\ \A n \in DOMAIN order : order[n] \in X
    BY <2>3, LenProperties, ElementOfSeq
  <2>5. X = RowsOf(acct, s) \ due
    BY <2>1, <2>2 DEF X
  <2>0. RowsDue(acct, s, job) = due
    BY <1>4 DEF RowsDue
  <2> HIDE DEF rows, seen, s, w, target, due
  <2>6. DOMAIN q = DOMAIN order /\ \A n \in DOMAIN order : q[n] = Single(CloseRow(s, w, order[n]))
    BY <1>6
  <2>7. IsList(q)
    <3>1. q = [n \in DOMAIN q |-> q[n]]
      BY <1>6
    <3> QED BY <2>4, <2>6, <3>1, IntervalList
  <2>8. \A n \in DOMAIN q : order[n] \in PossibleRows(s) \ due
    BY <2>4, <2>6 DEF X, rows, due
  <2>9. \A n \in DOMAIN q : JobStep(s, due, q[n]) /\ q[n][1].close = {order[n]}
    BY <2>6, <2>8, ClosingStep
  <2>10. RowsOf(acct, s) \ due \subseteq UNION {q[n][1].close : n \in DOMAIN q}
    <3> SUFFICES ASSUME NEW key \in X
                 PROVE  \E n \in DOMAIN q : key \in q[n][1].close
      BY <2>5
    <3> QED BY <2>3, <2>4, <2>6, <2>9
  <2>11. /\ due \ RowsOf(acct, s) \subseteq adds \cap target
         /\ adds \cap target \subseteq due
    <3>1. CASE name = "custom"
      <4>1. target = {}
        BY <3>1, CustomIsEmpty DEF target
      <4> QED BY <2>1, <3>1, <4>1 DEF due
    <3>2. CASE name # "custom"
      <4>1. adds = shown \ seen
        BY <3>2 DEF ToAdd
      <4> QED BY <2>1, <4>1 DEF due
    <3> QED BY <3>1, <3>2
  <2>12. due \subseteq PossibleRows(s)
    <3>1. target \subseteq PossibleRows(s)
      BY TargetPossible DEF target
    <3> QED BY <2>1, <2>2, <3>1 DEF due
  <2> HIDE DEF adds
  <2>13. target = TargetRows(acct, name, s)
    BY DEF target
  <2> QED BY <1>4, <2>0, <2>7, <2>9, <2>10, <2>11, <2>12, <2>13 DEF InProgress
<1> HIDE DEF s, fresh, adds, target
<1> QED BY <1>3, <1>4, <1>7 DEF PageOK

\* A strategy that is created by a page that knows the strategies there are has no
\* rows yet.
LEMMA CreateStarts ==
  ASSUME AccountsOK(acct), DOMAIN page = Pages, NEW t \in Pages, PageOK(acct, page[t]),
         NEW name, NEW d, StartCreate(t, name, d)
  PROVE  PageOK(acct, page'[t])
<1> DEFINE n      == page[t].count
           s      == <<Vault, n>>
           target == TargetRows(acct, name, s)
           tx     == Single(CreateStrategy(s, page[t].wallet, d, FirstStrategies(n)))
           adds   == IF name = "custom" THEN {} ELSE PossibleRows(s)
           fresh  == /\ Fresh(t) /\ Buildable(acct, name)
                     /\ \A u \in Strategies(acct) :
                          Active(acct, u) => acct[StrategyOf(u)].delegate # d
           job    == [Idle EXCEPT !.kind = "create", !.state = "running", !.target = name,
                                  !.shown = target, !.todo = <<tx>>, !.adding = adds,
                                  !.fresh = fresh]
<1>1. page' = [page EXCEPT ![t].strategy = s, ![t].seen = {}, ![t].job = job]
  BY DEF StartCreate
<1>2. DOMAIN page[t] = PageFields
  BY DEF PageOK
<1>3. page'[t].job = job /\ page'[t].strategy = s /\ DOMAIN page'[t] = PageFields
  <2> HIDE DEF job, s
  <2> QED BY <1>1, <1>2 DEF PageFields
<1>4. /\ job.todo = <<tx>> /\ job.adding = adds /\ job.target = name /\ job.shown = target
      /\ job.kind = "create" /\ job.state = "running" /\ job.raced = FALSE
      /\ DOMAIN job = JobFields
  <2> HIDE DEF tx, adds, target, fresh
  <2> QED BY DEF Idle, JobFields
<1>5. job.fresh => fresh
  <2> HIDE DEF fresh
  <2>1. job.fresh = fresh
    OBVIOUS
  <2> QED BY <2>1
<1> HIDE DEF job
<1>6. ASSUME job.fresh
      PROVE  InProgress(acct, s, job)
  <2>0. RowsDue(acct, s, job) = target
    BY <1>4 DEF RowsDue
  <2>1. n = Count(acct)
    BY <1>5, <1>6 DEF Fresh, UpToDate
  <2>2. ~Exists(acct, StrategyOf(s))
    <3> SUFFICES ASSUME Exists(acct, StrategyOf(s)) PROVE FALSE
      OBVIOUS
    <3>1. s \in StrategiesIn(acct, s[1]) /\ s[1] = Vault /\ s[2] = n
      BY DEF AccountsOK
    <3>2. Exists(acct, VaultOf(Vault)) /\ \E k \in 0..(n - 1) : s = <<Vault, k>>
      BY <2>1, <3>1 DEF StrategiesIn, StrategiesUpTo, Count
    <3>3. n \in Nat
      BY <2>1, <3>2 DEF AccountsOK, Count
    <3> HIDE DEF n
    <3> QED BY <3>2, <3>3
  <2>3. RowsOf(acct, s) = {}
    BY <2>2 DEF AccountsOK, RowsOf, IsRow
  <2>4. JobStep(s, target, tx)
    BY CreatingStep
  <2>5. target \subseteq PossibleRows(s)
    BY TargetPossible
  <2>6. target \subseteq adds
    BY <2>5, CustomIsEmpty
  <2> DEFINE q == <<tx>>
  <2>7. DOMAIN q = 1..1 /\ q = [k \in DOMAIN q |-> q[k]] /\ \A k \in DOMAIN q : q[k] = tx
    <3> HIDE DEF tx
    <3> QED OBVIOUS
  <2>8. job.todo = q
    BY <1>4
  <2> HIDE DEF q, tx, adds
  <2>9. IsList(q)
    BY <2>7, IntervalList
  <2>10. target = TargetRows(acct, name, s)
    OBVIOUS
  <2> HIDE DEF target, s
  <2> QED BY <1>4, <2>0, <2>3, <2>4, <2>5, <2>6, <2>7, <2>8, <2>9, <2>10 DEF InProgress
<1> HIDE DEF s, fresh, adds, target, tx
<1> QED BY <1>3, <1>4, <1>6 DEF PageOK

\* The additions are computed when nothing is left to revoke: one for every row
\* that is shown and missing.
LEMMA AdditionsFollow ==
  ASSUME DOMAIN page = Pages, NEW t \in Pages, PageOK(acct, page[t]), BuildAdditions(t)
  PROVE  PageOK(acct, page'[t])
<1> DEFINE s   == page[t].strategy
           w   == page[t].wallet
           job == page[t].job
           p   == page'[t]
<1>1. DOMAIN page[t] = PageFields /\ DOMAIN job = JobFields
  BY DEF PageOK
<1>2. job.state = "running" /\ job.todo = <<>> /\ job.adding # {}
  BY DEF BuildAdditions, Running, Todo
<1>3. CASE ~Buildable(acct, job.target)
  <2> DEFINE failed == [Idle EXCEPT !.state = "failed"]
  <2>1. page' = [page EXCEPT ![t].job = failed]
    BY <1>3 DEF BuildAdditions
  <2>2. DOMAIN failed = JobFields /\ failed.kind = "none"
    BY DEF Idle, JobFields
  <2> HIDE DEF failed
  <2>3. p.job = failed /\ DOMAIN p = PageFields
    BY <1>1, <2>1 DEF PageFields
  <2> QED BY <2>2, <2>3 DEF PageOK
<1>4. CASE Buildable(acct, job.target)
  <2>1. PICK order \in SetToSeqs(VaultMints(acct)) :
          page' = [page EXCEPT ![t].job.todo = Additions(t, order), ![t].job.adding = {}]
    BY <1>4 DEF BuildAdditions
  <2> DEFINE o    == IF job.kind = "create" THEN "obligation" ELSE "synthetic"
             rows == Preset(job.target, s, o, order)
             keys == job.adding \cap DOMAIN rows
             adds == InOrder(s, keys)
             q    == Additions(t, order)
             X    == keys \cap PossibleRows(s)
  <2>2. q = [n \in DOMAIN adds |-> Single(AddRow(s, w, adds[n], rows[adds[n]]))]
    BY DEF Additions
  <2>3. DOMAIN rows = TargetRows(acct, job.target, s)
    <3> HIDE DEF o, s
    <3> QED BY <1>4, PresetRows
  <2> HIDE DEF rows, q
  <2>4. /\ p.strategy = s /\ DOMAIN p = PageFields /\ DOMAIN p.job = JobFields
        /\ p.job = [job EXCEPT !.todo = q, !.adding = {}]
    BY <1>1, <2>1 DEF PageFields, JobFields, q
  <2>5. /\ p.job.todo = q /\ p.job.adding = {} /\ p.job.target = job.target
        /\ p.job.shown = job.shown /\ p.job.kind = job.kind /\ p.job.state = job.state
        /\ p.job.fresh = job.fresh /\ p.job.raced = job.raced /\ p.job.had = job.had
    <3> DEFINE k == p.job
    <3>1. k = [job EXCEPT !.todo = q, !.adding = {}]
      BY <2>4
    <3> HIDE DEF k
    <3>2. /\ k.todo = q /\ k.adding = {} /\ k.target = job.target
          /\ k.shown = job.shown /\ k.kind = job.kind /\ k.state = job.state
          /\ k.fresh = job.fresh /\ k.raced = job.raced /\ k.had = job.had
      BY <1>1, <3>1 DEF JobFields
    <3> QED BY <3>2 DEF k
  <2>6. /\ adds \in Seq(X)
        /\ \A key \in X : \E n \in 1..Len(adds) : adds[n] = key
    <3> HIDE DEF keys, s
    <3>1. /\ InOrder(s, keys) \in Seq(keys \cap PossibleRows(s))
          /\ \A key \in keys \cap PossibleRows(s) :
               \E n \in 1..Len(InOrder(s, keys)) : InOrder(s, keys)[n] = key
          /\ \A i, j \in 1..Len(InOrder(s, keys)) :
               InOrder(s, keys)[i] = InOrder(s, keys)[j] => i = j
      BY ONLY InOrderLists
    <3> QED BY <3>1
  <2> HIDE DEF adds, X
  <2>7. Len(adds) \in Nat /\ DOMAIN adds = 1..Len(adds) /\ \A n \in DOMAIN adds : adds[n] \in X
    BY <2>6, LenProperties, ElementOfSeq
  <2> HIDE DEF s, w, job, p
  <2>8. /\ DOMAIN q = DOMAIN adds
        /\ \A n \in DOMAIN adds : q[n] = Single(AddRow(s, w, adds[n], rows[adds[n]]))
    BY <2>2
  <2>9. IsList(q)
    <3>1. q = [n \in DOMAIN q |-> q[n]]
      BY <2>2
    <3> QED BY <2>7, <2>8, <3>1, IntervalList
  <2>10. ASSUME InProgress(acct, s, job)
         PROVE  InProgress(acct, s, p.job)
    <3> DEFINE due == RowsDue(acct, s, job)
    <3>0. RowsDue(acct, s, p.job) = due
      BY <2>5 DEF RowsDue
    <3> HIDE DEF due
    <3>1. DOMAIN job.todo = {}
      BY <1>2
    <3>2. /\ RowsOf(acct, s) \subseteq due
          /\ due \ RowsOf(acct, s) \subseteq job.adding
      BY <2>10, <3>1 DEF InProgress, due
    <3>3. /\ job.adding \cap DOMAIN rows \subseteq due
          /\ due \ RowsOf(acct, s) \subseteq DOMAIN rows
      BY <1>2, <2>3, <2>10 DEF InProgress, due
    <3>4. due \subseteq PossibleRows(s)
      BY <2>10 DEF InProgress, due
    <3>5. X \subseteq due
      BY <3>3 DEF X, keys
    <3>6. \A n \in DOMAIN q : JobStep(s, due, q[n]) /\ adds[n] \in DOMAIN q[n][1].init
      <4> SUFFICES ASSUME NEW n \in DOMAIN q
                   PROVE  JobStep(s, due, q[n]) /\ adds[n] \in DOMAIN q[n][1].init
        OBVIOUS
      <4> DEFINE key   == adds[n]
                 row   == rows[key]
                 shown == due
      <4>1. key \in shown /\ q[n] = Single(AddRow(s, w, key, row))
        BY <2>7, <2>8, <3>5
      <4> HIDE DEF key, row, shown
      <4>2. key \in shown
        BY <4>1
      <4>3. /\ JobStep(s, shown, Single(AddRow(s, w, key, row)))
            /\ key \in DOMAIN Single(AddRow(s, w, key, row))[1].init
        BY <4>2, AddingStep
      <4> QED BY <4>1, <4>3 DEF key, shown
    <3>7. due \ RowsOf(acct, s) \subseteq UNION {DOMAIN q[n][1].init : n \in DOMAIN q}
      <4> SUFFICES ASSUME NEW key \in due \ RowsOf(acct, s)
                   PROVE  \E n \in DOMAIN q : key \in DOMAIN q[n][1].init
        OBVIOUS
      <4>1. key \in X
        BY <3>2, <3>3, <3>4 DEF X, keys
      <4> QED BY <2>6, <2>7, <2>8, <3>6, <4>1
    <3> QED BY <2>5, <2>9, <3>0, <3>2, <3>3, <3>4, <3>6, <3>7 DEF InProgress
  <2>11. PageOK(acct, page[t])
    OBVIOUS
  <2>12. /\ job.fresh /\ job.kind \in {"preset", "create"} =>
              ~job.raced /\ InProgress(acct, s, job)
    BY <1>2, <2>11 DEF PageOK, job, s
  <2>13. PageOK(acct, p)
    BY <1>2, <2>4, <2>5, <2>10, <2>12 DEF PageOK
  <2> QED BY <2>13 DEF p
<1> QED BY <1>3, <1>4

\* A page without such a job, and one whose job was overtaken.
LEMMA Uninvolved ==
  ASSUME NEW p, DOMAIN p = PageFields, DOMAIN p.job = JobFields,
         ~p.job.fresh \/ p.job.kind \notin {"preset", "create"}, NEW a
  PROVE  PageOK(a, p)
BY DEF PageOK

\* A page whose picture has been overtaken owes nothing to its job.
LEMMA OvertakenOK ==
  ASSUME NEW p, DOMAIN p = PageFields, DOMAIN p.job = JobFields, NEW a
  PROVE  PageOK(a, Overtaken(p))
<1> DEFINE q == Overtaken(p)
<1>1. CASE p.job.state = "running"
  <2> DEFINE r == [p EXCEPT !.job.fresh = FALSE, !.job.raced = TRUE]
  <2>1. DOMAIN r = PageFields /\ DOMAIN r.job = JobFields /\ ~r.job.fresh
    BY DEF PageFields, JobFields
  <2>2. q = r
    BY <1>1 DEF Overtaken
  <2> HIDE DEF q, r
  <2>3. PageOK(a, q)
    BY <2>1, <2>2, Uninvolved
  <2> QED BY <2>3 DEF q
<1>2. CASE p.job.state # "running"
  <2> DEFINE r == [p EXCEPT !.job = Idle]
  <2>1. DOMAIN r = PageFields /\ DOMAIN r.job = JobFields /\ ~r.job.fresh
    BY DEF PageFields, JobFields, Idle
  <2>2. q = r
    BY <1>2 DEF Overtaken
  <2> HIDE DEF q, r
  <2>3. PageOK(a, q)
    BY <2>1, <2>2, Uninvolved
  <2> QED BY <2>3 DEF q
<1> QED BY <1>1, <1>2

\* A step of one page that leaves the accounts alone.
LEMMA OnePage ==
  ASSUME JobsInv, NEW t \in Pages, NEW p, page' = [page EXCEPT ![t] = p], PageOK(acct, p),
         UNCHANGED acct
  PROVE  JobsInv'
<1>1. DOMAIN page' = Pages /\ \A u \in Pages : page'[u] = IF u = t THEN p ELSE page[u]
  BY DEF JobsInv
<1>2. acct' = acct
  OBVIOUS
<1>3. \A u \in Pages : PageOK(acct', page'[u])
  <2>1. \A u \in Pages : PageOK(acct, IF u = t THEN p ELSE page[u])
    BY DEF JobsInv
  <2> QED BY <1>1, <1>2, <2>1
<1> QED BY <1>1, <1>3 DEF JobsInv

\* A transaction of one page overtakes the jobs of the others.
LEMMA OtherPages ==
  ASSUME JobsInv, NEW t \in Pages, NEW p, OnPage(t, p), PageOK(acct', p)
  PROVE  JobsInv'
<1>1. DOMAIN page' = Pages /\ \A u \in Pages : page'[u] = IF u = t THEN p ELSE Overtaken(page[u])
  BY DEF OnPage
<1>2. \A u \in Pages : PageOK(acct', Overtaken(page[u]))
  <2> SUFFICES ASSUME NEW u \in Pages PROVE PageOK(acct', Overtaken(page[u]))
    OBVIOUS
  <2> DEFINE q == page[u]
  <2>1. DOMAIN q = PageFields /\ DOMAIN q.job = JobFields
    BY DEF JobsInv, PageOK
  <2> HIDE DEF q
  <2>2. PageOK(acct', Overtaken(q))
    BY <2>1, OvertakenOK
  <2> QED BY <2>2 DEF q
<1>3. \A u \in Pages : PageOK(acct', page'[u])
  BY <1>1, <1>2
<1> QED BY <1>1, <1>3 DEF JobsInv

\* A job whose next transaction goes through.
LEMMA AdvanceOK ==
  ASSUME JobsInv, NEW t \in Pages, Running(t), Todo(t) # <<>>, NEW b,
         \/ Run(acct, Head(Todo(t))).ok /\ b = Run(acct, Head(Todo(t))).acct
         \/ page[t].job.raced
  PROVE  PageOK(b, Advance(t))
<1> DEFINE job == page[t].job
           p   == Advance(t)
           k   == [job EXCEPT !.todo = Tail(@), !.raced = FALSE]
<1>1. PageOK(acct, page[t]) /\ DOMAIN page[t] = PageFields /\ DOMAIN job = JobFields
  BY DEF JobsInv, PageOK
<1>2. p.job = k /\ p.strategy = page[t].strategy /\ DOMAIN p = PageFields
  BY <1>1 DEF Advance, PageFields, JobFields
<1>3. /\ DOMAIN k = JobFields /\ k.kind = job.kind /\ k.state = job.state
      /\ k.fresh = job.fresh /\ ~k.raced
  <2> HIDE DEF job
  <2> QED BY <1>1 DEF JobFields
<1>4. job.state = "running" /\ job.todo # <<>>
  BY DEF Running, Todo
<1>5. CASE job.fresh /\ job.kind \in {"preset", "create"}
  <2>1. ~job.raced /\ InProgress(acct, page[t].strategy, job)
    BY <1>1, <1>4, <1>5 DEF PageOK
  <2>2. Run(acct, Head(job.todo)).ok /\ b = Run(acct, Head(job.todo)).acct
    BY <2>1 DEF Todo
  <2> DEFINE s == page[t].strategy
  <2> HIDE DEF job, s
  <2>3. InProgress(b, s, k)
    BY <1>1, <1>4, <2>1, <2>2, SendAdvances DEF s
  <2> HIDE DEF k, p
  <2>4. PageOK(b, p)
    BY <1>2, <1>3, <1>4, <2>3 DEF PageOK, s
  <2> QED BY <2>4 DEF p
<1>6. CASE ~(job.fresh /\ job.kind \in {"preset", "create"})
  <2> HIDE DEF p, k
  <2>1. PageOK(b, p)
    BY <1>2, <1>3, <1>6 DEF PageOK
  <2> QED BY <2>1 DEF p
<1> QED BY <1>5, <1>6

\* A page that has stopped.
LEMMA StoppedOK ==
  ASSUME JobsInv, NEW t \in Pages, NEW state, NEW b
  PROVE  PageOK(b, Stopped(t, state))
<1> DEFINE fresh == page[t].job.fresh
           k == [Idle EXCEPT !.state = state, !.fresh = fresh]
           p == Stopped(t, state)
<1>1. DOMAIN page[t] = PageFields
  BY DEF JobsInv, PageOK
<1>2. DOMAIN k = JobFields /\ k.kind = "none"
  <2> HIDE DEF fresh
  <2> QED BY DEF Idle, JobFields
<1>3. p = [page[t] EXCEPT !.job = k]
  BY DEF Stopped
<1> HIDE DEF p, k
<1>4. DOMAIN p = PageFields /\ p.job = k
  BY <1>1, <1>3 DEF PageFields
<1>5. PageOK(b, p)
  BY <1>2, <1>4, Uninvolved
<1> QED BY <1>5 DEF p

\* A job that has nothing left to do has applied what it shows.
LEMMA FinishOK ==
  ASSUME JobsInv, NEW t \in Pages, Finish(t)
  PROVE  PageOK(acct, page'[t])
<1> DEFINE job == page[t].job
           k   == [job EXCEPT !.state = "applied"]
           p   == page'[t]
<1>1. PageOK(acct, page[t]) /\ DOMAIN page[t] = PageFields /\ DOMAIN job = JobFields
      /\ DOMAIN page = Pages
  BY DEF JobsInv, PageOK
<1>2. p.job = k /\ p.strategy = page[t].strategy /\ DOMAIN p = PageFields
  <2>1. CASE job.kind = "tokens"
    BY <1>1, <2>1 DEF Finish, PageFields, JobFields
  <2>2. CASE job.kind # "tokens"
    BY <1>1, <2>2 DEF Finish, Reread, PageFields, JobFields
  <2> QED BY <2>1, <2>2
<1>3. /\ DOMAIN k = JobFields /\ k.kind = job.kind /\ k.state = "applied"
      /\ k.fresh = job.fresh /\ k.raced = job.raced /\ k.shown = job.shown
      /\ k.had = job.had /\ k.target = job.target
  <2> HIDE DEF job
  <2> QED BY <1>1 DEF JobFields
<1>4. job.state = "running" /\ job.todo = <<>> /\ job.adding = {}
  BY DEF Finish, Running, Todo
<1>5. job.fresh /\ job.kind \in {"preset", "create"} =>
        ~job.raced /\ InProgress(acct, page[t].strategy, job)
  BY <1>1, <1>4 DEF PageOK
<1>6. ASSUME InProgress(acct, page[t].strategy, job)
      PROVE  RowsOf(acct, page[t].strategy) = RowsDue(acct, page[t].strategy, job)
  <2>1. DOMAIN job.todo = {}
    BY <1>4
  <2> QED BY <1>4, <1>6, <2>1 DEF InProgress
<1> HIDE DEF p, k, job
<1>7. RowsDue(acct, p.strategy, k) = RowsDue(acct, page[t].strategy, job)
  BY <1>2, <1>3 DEF RowsDue
<1>8. PageOK(acct, p)
  BY <1>2, <1>3, <1>5, <1>6, <1>7 DEF PageOK
<1> QED BY <1>8 DEF p

\* The pages after an action of one of them that is given by a new record.
LEMMA JobsOfPage ==
  ASSUME AccountsOK(acct), JobsInv, NEW t \in Pages,
         \/ \E w \in {Admin}, s \in Strategies(acct), failed \in {{}, {"action"}} :
              LoadPage(t, w, s, failed)
         \/ RefreshPage(t)
         \/ \E name \in Presets : StartPreset(t, name) \/ \E d \in Agents : StartCreate(t, name, d)
         \/ \E target \in SUBSET Mints : StartTokens(t, target)
         \/ BuildAdditions(t) \/ Send(t) \/ FailUnnoticed(t) \/ AnswerLost(t)
         \/ CloseTab(t) \/ Finish(t)
         \/ EditActions(t) \/ EditAutoActions(t) \/ EditSources(t) \/ EditDelegate(t)
         \/ Deactivate(t) \/ ProposeSuccessor(t)
  PROVE  JobsInv'
<1> DEFINE p == page[t]
<1>0. DOMAIN page = Pages /\ PageOK(acct, p) /\ DOMAIN p = PageFields /\ DOMAIN p.job = JobFields
  BY DEF JobsInv, PageOK
<1>1. CASE \E w \in {Admin}, s \in Strategies(acct), failed \in {{}, {"action"}} :
             LoadPage(t, w, s, failed)
  <2>1. PICK w, s, failed : LoadPage(t, w, s, failed)
    BY <1>1
  <2> DEFINE seen   == {key \in RowsOf(acct, s) : ~IsRow(key, failed)}
             mints  == VaultMints(acct)
             listed == {m \in Mints : Exists(acct, Listed(m))}
             n      == Count(acct)
             idle   == Idle
             q      == [wallet |-> w, strategy |-> s, seen |-> seen, mints |-> mints,
                        listed |-> listed, count |-> n, job |-> idle]
  <2>2. page' = [page EXCEPT ![t] = q] /\ UNCHANGED acct
    BY <2>1 DEF LoadPage
  <2>3. DOMAIN idle = JobFields /\ idle.kind = "none"
    BY DEF Idle, JobFields
  <2> HIDE DEF idle, seen, mints, listed, n
  <2>4. DOMAIN q = PageFields /\ q.job = idle
    BY DEF PageFields
  <2> HIDE DEF q
  <2>5. PageOK(acct, q)
    BY <2>3, <2>4, Uninvolved
  <2> QED BY <2>2, <2>5, OnePage
<1>2. CASE RefreshPage(t)
  <2> DEFINE q == Reread(t)
  <2>1. page' = [page EXCEPT ![t] = q] /\ UNCHANGED acct
    BY <1>2 DEF RefreshPage
  <2>2. DOMAIN q = PageFields /\ q.job = p.job /\ q.strategy = p.strategy
    BY <1>0 DEF Reread, PageFields
  <2> HIDE DEF q, p
  <2>3. PageOK(acct, q)
    BY <1>0, <2>2 DEF PageOK
  <2> QED BY <2>1, <2>3, OnePage
<1>3. ASSUME NEW name, StartPreset(t, name)
      PROVE  JobsInv'
  <2>1. PageOK(acct, page'[t])
    BY <1>0, <1>3, PresetStarts
  <2>2. UNCHANGED acct /\ DOMAIN page' = Pages /\ \A u \in Pages \ {t} : page'[u] = page[u]
    BY <1>0, <1>3 DEF StartPreset, Start
  <2> QED BY <2>1, <2>2 DEF JobsInv
<1>4. ASSUME NEW name, NEW d, StartCreate(t, name, d)
      PROVE  JobsInv'
  <2>1. PageOK(acct, page'[t])
    BY <1>0, <1>4, CreateStarts
  <2>2. UNCHANGED acct /\ DOMAIN page' = Pages /\ \A u \in Pages \ {t} : page'[u] = page[u]
    BY <1>0, <1>4 DEF StartCreate
  <2> QED BY <2>1, <2>2 DEF JobsInv
<1>5. ASSUME NEW target, StartTokens(t, target)
      PROVE  JobsInv'
  <2>1. PICK shown, todo, fresh :
          Start(t, [Idle EXCEPT !.kind = "tokens", !.shown = shown, !.todo = todo, !.fresh = fresh])
    BY <1>5 DEF StartTokens
  <2> DEFINE k == [[Idle EXCEPT !.kind = "tokens", !.shown = shown, !.todo = todo,
                                !.fresh = fresh] EXCEPT !.state = "running"]
             q == [p EXCEPT !.job = k]
  <2>2. page' = [page EXCEPT ![t] = q] /\ UNCHANGED acct
    BY <2>1 DEF Start
  <2>3. DOMAIN k = JobFields /\ k.kind = "tokens"
    BY DEF Idle, JobFields
  <2> HIDE DEF k
  <2>4. DOMAIN q = PageFields /\ q.job = k
    BY <1>0 DEF PageFields
  <2> HIDE DEF q
  <2>5. PageOK(acct, q)
    BY <2>3, <2>4, Uninvolved
  <2> QED BY <2>2, <2>5, OnePage
<1>6. CASE BuildAdditions(t)
  <2>1. PageOK(acct, page'[t])
    BY <1>0, <1>6, AdditionsFollow
  <2>2. UNCHANGED acct /\ DOMAIN page' = Pages /\ \A u \in Pages \ {t} : page'[u] = page[u]
    BY <1>0, <1>6 DEF BuildAdditions
  <2> QED BY <2>1, <2>2 DEF JobsInv
<1>7. CASE Send(t)
  <2> DEFINE r == Run(acct, Head(Todo(t)))
  <2>1. CASE r.ok
    <3>1. Running(t) /\ Todo(t) # <<>> /\ acct' = r.acct /\ OnPage(t, Advance(t))
      BY <1>7, <2>1 DEF Send, Lands
    <3>2. PageOK(acct', Advance(t))
      BY <2>1, <3>1, AdvanceOK
    <3> QED BY <3>1, <3>2, OtherPages
  <2>2. CASE ~r.ok
    <3> DEFINE q == Stopped(t, "refused")
    <3>1. page' = [page EXCEPT ![t] = q] /\ UNCHANGED acct
      BY <1>7, <2>2 DEF Send
    <3>2. PageOK(acct, q)
      BY StoppedOK
    <3> HIDE DEF q
    <3> QED BY <3>1, <3>2, OnePage
  <2> QED BY <2>1, <2>2
<1>8. CASE FailUnnoticed(t)
  <2> DEFINE q == Advance(t)
  <2>1. /\ page' = [page EXCEPT ![t] = q] /\ UNCHANGED acct
        /\ Running(t) /\ Todo(t) # <<>> /\ p.job.raced
    BY <1>8 DEF FailUnnoticed
  <2>2. PageOK(acct, q)
    BY <2>1, AdvanceOK
  <2> HIDE DEF q
  <2> QED BY <2>1, <2>2, OnePage
<1>9. CASE AnswerLost(t)
  <2> DEFINE q == Stopped(t, "failed")
  <2>1. OnPage(t, q) \/ (page' = [page EXCEPT ![t] = q] /\ UNCHANGED acct)
    BY <1>9 DEF AnswerLost
  <2>2. PageOK(acct, q) /\ PageOK(acct', q)
    BY StoppedOK
  <2> HIDE DEF q
  <2> QED BY <2>1, <2>2, OnePage, OtherPages
<1>10. CASE CloseTab(t)
  <2> DEFINE q == Closed
             idle == Idle
  <2>1. page' = [page EXCEPT ![t] = q] /\ UNCHANGED acct
    BY <1>10 DEF CloseTab
  <2>2. DOMAIN idle = JobFields /\ idle.kind = "none"
    BY DEF Idle, JobFields
  <2>3. DOMAIN q = PageFields /\ q.job = idle
    BY DEF Closed, PageFields
  <2> HIDE DEF q, idle
  <2>4. PageOK(acct, q)
    BY <2>2, <2>3, Uninvolved
  <2> QED BY <2>1, <2>4, OnePage
<1>11. CASE Finish(t)
  <2>1. PageOK(acct, page'[t])
    BY <1>11, FinishOK
  <2>2. UNCHANGED acct /\ DOMAIN page' = Pages /\ \A u \in Pages \ {t} : page'[u] = page[u]
    BY <1>0, <1>11 DEF Finish
  <2> QED BY <2>1, <2>2 DEF JobsInv
<1>12. ASSUME NEW q, OnPage(t, q), DOMAIN q = PageFields, q.job = Idle
       PROVE  JobsInv'
  <2> DEFINE idle == Idle
  <2>1. DOMAIN idle = JobFields /\ idle.kind = "none"
    BY DEF Idle, JobFields
  <2>2. q.job = idle
    BY <1>12
  <2> HIDE DEF idle
  <2>3. PageOK(acct', q)
    BY <1>12, <2>1, <2>2, Uninvolved
  <2> QED BY <1>12, <2>3, OtherPages
<1>13. CASE EditActions(t)
  <2> DEFINE q == ActionsReread(t)
  <2>1. OnPage(t, q)
    BY <1>13 DEF EditActions
  <2>2. DOMAIN q = PageFields /\ q.job = Idle
    BY <1>0 DEF ActionsReread, PageFields
  <2> HIDE DEF q
  <2> QED BY <1>12, <2>1, <2>2
<1>14. ASSUME NEW ixs, Submits(t, ixs)
       PROVE  JobsInv'
  <2> DEFINE q == OnlyCount(t)
  <2>1. OnPage(t, q)
    BY <1>14 DEF Submits
  <2>2. DOMAIN q = PageFields /\ q.job = Idle
    BY <1>0 DEF OnlyCount, PageFields
  <2> HIDE DEF q
  <2> QED BY <1>12, <2>1, <2>2
<1>15. CASE \/ EditAutoActions(t) \/ EditSources(t) \/ EditDelegate(t)
            \/ Deactivate(t) \/ ProposeSuccessor(t)
  BY <1>14, <1>15
    DEF EditAutoActions, EditSources, EditDelegate, Deactivate, ProposeSuccessor
<1> QED BY <1>1, <1>2, <1>3, <1>4, <1>5, <1>6, <1>7, <1>8, <1>9, <1>10, <1>11, <1>13, <1>15

\* What others do overtakes every job, whatever becomes of the accounts.
LEMMA AllOvertaken ==
  ASSUME JobsInv, page' = [u \in Pages |-> Overtaken(page[u])]
  PROVE  JobsInv'
<1>1. \A u \in Pages : PageOK(acct', Overtaken(page[u]))
  <2> SUFFICES ASSUME NEW u \in Pages PROVE PageOK(acct', Overtaken(page[u]))
    OBVIOUS
  <2> DEFINE q == page[u]
  <2>1. DOMAIN q = PageFields /\ DOMAIN q.job = JobFields
    BY DEF JobsInv, PageOK
  <2> HIDE DEF q
  <2>2. PageOK(acct', Overtaken(q))
    BY <2>1, OvertakenOK
  <2> QED BY <2>2 DEF q
<1>2. DOMAIN page' = Pages /\ \A u \in Pages : PageOK(acct', page'[u])
  BY <1>1
<1> QED BY <1>2 DEF JobsInv

\* So with every step of the console, governance and the successors included.
LEMMA JobsKept ==
  ASSUME AccountsOK(acct), JobsInv, ConsoleNext
  PROVE  JobsInv'
<1>1. CASE Elsewhere
  BY <1>1, AllOvertaken DEF Elsewhere
<1> QED BY <1>1, JobsOfPage DEF ConsoleNext

\* A cooldown that elapses neither makes nor closes a row.
LEMMA ElapsesSpares ==
  ASSUME JobsInv, CooldownElapses
  PROVE  JobsInv'
<1> DEFINE b == acct'
<1>1. DOMAIN b = DOMAIN acct /\ page' = page
  BY DEF CooldownElapses
<1> HIDE DEF b
<1>2. /\ \A s : RowsOf(b, s) = RowsOf(acct, s)
      /\ VaultMints(b) = VaultMints(acct)
  BY <1>1 DEF RowsOf, IsRow, VaultMints, Exists
<1>3. \A name, s : TargetRows(b, name, s) = TargetRows(acct, name, s)
  BY <1>2 DEF TargetRows, Buildable
<1>0. \A s, job : RowsDue(b, s, job) = RowsDue(acct, s, job)
  BY <1>3 DEF RowsDue
<1>4. ASSUME NEW s, NEW job, InProgress(acct, s, job) PROVE InProgress(b, s, job)
  BY <1>0, <1>2, <1>3, <1>4 DEF InProgress
<1>5. ASSUME NEW p, PageOK(acct, p) PROVE PageOK(b, p)
  BY <1>0, <1>2, <1>4, <1>5 DEF PageOK
<1>6. DOMAIN page = Pages /\ \A t \in Pages : PageOK(b, page[t])
  BY <1>5 DEF JobsInv
<1> QED BY <1>1, <1>6 DEF JobsInv, b

\* The scripts and the other clients overtake every job with what they send.
LEMMA JobsSurvive ==
  ASSUME AccountsOK(acct), JobsInv, ScriptsNext
  PROVE  JobsInv'
<1>1. ASSUME UNCHANGED <<acct, page>> PROVE JobsInv'
  BY <1>1 DEF JobsInv
<1>2. CASE StartScript
  <2>1. ASSUME NEW name, NEW steps, Launch(name, steps) PROVE UNCHANGED <<acct, page>>
    BY <2>1 DEF Launch
  <2>2. UNCHANGED <<acct, page>>
    BY <1>2, <2>1 DEF StartScript, StartListScript, StartSetupScript, StartVaultScript,
                      StartSourceScript
  <2> QED BY <1>1, <2>2
<1>3. CASE RunStep
  BY <1>1, <1>3, AllOvertaken DEF RunStep, ScriptLands
<1>4. CASE ScriptDies
  BY <1>1, <1>4, AllOvertaken DEF ScriptDies, ScriptLands
<1>5. CASE FinishScript
  BY <1>1, <1>5 DEF FinishScript, consoleVars
<1>6. CASE ConsoleNext
  BY <1>6, JobsKept
<1>7. CASE UseElsewhere
  BY <1>7, AllOvertaken DEF UseElsewhere
<1>8. CASE CooldownElapses
  BY <1>8, ElapsesSpares
<1> QED BY <1>2, <1>3, <1>4, <1>5, <1>6, <1>7, <1>8 DEF ScriptsNext

\* At the start every page is closed.
LEMMA JobsStart ==
  ASSUME ConsoleInit
  PROVE  JobsInv
<1> DEFINE q == Closed
           idle == Idle
<1>1. page = [t \in Pages |-> q]
  BY DEF ConsoleInit
<1>2. DOMAIN idle = JobFields /\ idle.kind = "none"
  BY DEF Idle, JobFields
<1>3. DOMAIN q = PageFields /\ q.job = idle
  BY DEF Closed, PageFields
<1> HIDE DEF q, idle
<1>4. PageOK(acct, q)
  BY <1>2, <1>3, Uninvolved
<1> QED BY <1>1, <1>4 DEF JobsInv

\* In the console nobody sends anything but transactions.
LEMMA ConsoleKeeps ==
  ASSUME ConfigInv, [ConsoleNext]_consoleVars
  PROVE  ConfigInv'
<1>1. CASE Sent
  BY <1>1, SentKeeps
<1>2. CASE Stays
  BY <1>2 DEF Stays, ConfigInv
<1>3. Sent \/ Stays
  BY ConsoleSends DEF consoleVars, Stays
<1> QED BY <1>1, <1>2, <1>3

\* In the console, whatever pages are out of date: delegates that were chosen with
\* every strategy of the vault listed are distinct.
THEOREM ConsoleDelegates == ConsoleSpec => []DelegatesDistinct
<1>1. ConsoleInit => ConfigInv
  BY ConfigStart
<1>2. ConfigInv /\ [ConsoleNext]_consoleVars => ConfigInv'
  BY ConsoleKeeps
<1>3. ConfigInv => DelegatesDistinct
  BY ConfigImplies
<1> QED BY <1>1, <1>2, <1>3, PTL DEF ConsoleSpec

\* A preset that was applied leaves, of the rows the modal announced, exactly those
\* that were there and those its target has, whatever rows had arrived late, and a
\* strategy created with one has all its rows: for any number of pages, jobs and
\* strategies.
THEOREM PresetsApplied == ConsoleSpec => []AppliedAsShown
<1>1. ConsoleInit => ConfigInv /\ JobsInv
  BY ConfigStart, JobsStart
<1>2. ConfigInv /\ JobsInv /\ [ConsoleNext]_consoleVars => ConfigInv' /\ JobsInv'
  <2> SUFFICES ASSUME ConfigInv, JobsInv, [ConsoleNext]_consoleVars PROVE ConfigInv' /\ JobsInv'
    OBVIOUS
  <2>1. ConfigInv'
    BY ConsoleKeeps
  <2>2. CASE ConsoleNext
    BY <2>1, <2>2, JobsKept DEF ConfigInv
  <2>3. CASE UNCHANGED consoleVars
    BY <2>1, <2>3 DEF consoleVars, JobsInv
  <2> QED BY <2>2, <2>3
<1>3. JobsInv => AppliedAsShown
  BY DEF JobsInv, PageOK, AppliedAsShown, RowsDue
<1> QED BY <1>1, <1>2, <1>3, PTL DEF ConsoleSpec

\* The same with the operator scripts and other clients beside the console.
THEOREM ConfigInvariant == ScriptsSpec => []ConfigInv
<1>1. ScriptsInit => ConfigInv
  BY ConfigStart DEF ScriptsInit
<1>2. ConfigInv /\ [ScriptsNext]_scriptsVars => ConfigInv'
  <2> SUFFICES ASSUME ConfigInv, [ScriptsNext]_scriptsVars PROVE ConfigInv'
    OBVIOUS
  <2>1. CASE Sent
    BY <2>1, SentKeeps
  <2>2. CASE Stays
    BY <2>2 DEF Stays, ConfigInv
  <2>3. CASE CooldownElapses
    BY <2>3, ElapsesKeeps
  <2>4. Sent \/ Stays \/ CooldownElapses
    BY ScriptsSends DEF scriptsVars, consoleVars, Stays
  <2> QED BY <2>1, <2>2, <2>3, <2>4
<1> QED BY <1>1, <1>2, PTL DEF ScriptsSpec

\* Between two times its cooldown elapses an action is executed once, whoever may
\* execute it and whatever else happens to its strategy.
THEOREM Cooldowns == ScriptsSpec => []CooldownHolds
<1>1. ConfigInv => CooldownHolds
  BY ConfigImplies
<1> QED BY <1>1, ConfigInvariant, PTL

\* Delegates are distinct with the scripts, too.
THEOREM ScriptsDelegates == ScriptsSpec => []DelegatesDistinct
<1>1. ConfigInv => DelegatesDistinct
  BY ConfigImplies
<1> QED BY <1>1, ConfigInvariant, PTL

\* And a preset that nobody interfered with is applied as shown, whatever scripts
\* have left behind.
THEOREM ScriptsPresets == ScriptsSpec => []AppliedAsShown
<1>1. ScriptsInit => JobsInv
  BY JobsStart DEF ScriptsInit
<1>2. ConfigInv /\ JobsInv /\ [ScriptsNext]_scriptsVars => JobsInv'
  <2> SUFFICES ASSUME ConfigInv, JobsInv, [ScriptsNext]_scriptsVars PROVE JobsInv'
    OBVIOUS
  <2>1. CASE ScriptsNext
    BY <2>1, JobsSurvive DEF ConfigInv
  <2>2. CASE UNCHANGED scriptsVars
    BY <2>2 DEF scriptsVars, consoleVars, JobsInv
  <2> QED BY <2>1, <2>2
<1>3. JobsInv => AppliedAsShown
  BY DEF JobsInv, PageOK, AppliedAsShown, RowsDue
<1> QED BY <1>1, <1>2, <1>3, ConfigInvariant, PTL DEF ScriptsSpec

-----------------------------------------------------------------------------
(***************************************************************************)
(* Transactions that cannot be refused: every instruction of theirs is     *)
(* accepted as it is put together, and none of them takes away what        *)
(* another one needs.                                                      *)
(***************************************************************************)
\* An instruction that initialises or closes accounts and does nothing else, on
\* the authority of the vault's admin, of governance or of nobody.
Plain(ix) ==
  /\ ix.do = "configure" /\ ix.role \in {"anyone", "admin", "governance"}
  /\ ix.role = "admin" => VaultOf(ix.vault) \in ix.needs
  /\ ix.role = "governance" => Config \in ix.needs
  /\ \A key \in DOMAIN ix.init : key[1] # "ata"
Ready(a, ix) == Plain(ix) /\ Accepts(a, ix)

\* What the first does leaves the second as it is.
Clear(ix, iy) ==
  DOMAIN ix.init \cap DOMAIN iy.init = {} /\ ix.close \cap (iy.close \cup iy.needs) = {}

\* A plain instruction writes nothing into accounts that are there.
LEMMA PlainAfter ==
  ASSUME NEW a, NEW ix, Ready(a, ix), NEW key \in DOMAIN a, key \notin ix.close
  PROVE  key \in DOMAIN After(a, ix) /\ After(a, ix)[key] = a[key]
<1>1. key \notin DOMAIN ix.init
  BY DEF Ready, Accepts, Exists
<1>2. key \in DOMAIN After(a, ix) /\ After(a, ix)[key] = Rewritten(a, ix, key)
  BY <1>1, AfterDomain
<1>3. Rewritten(a, ix, key) = a[key]
  BY DEF Rewritten, Ready, Plain
<1> QED BY <1>2, <1>3

\* What is ready stays ready when what is clear of it is done.
LEMMA ReadyKept ==
  ASSUME NEW a, NEW ix, Ready(a, ix), NEW iy, Ready(a, iy), Clear(ix, iy)
  PROVE  Ready(After(a, ix), iy)
<1> DEFINE b == After(a, ix)
<1>1. \A key \in DOMAIN a : key \notin ix.close => key \in DOMAIN b /\ b[key] = a[key]
  BY PlainAfter
<1>2. \A key \in DOMAIN b : \/ key \in DOMAIN ix.init
                            \/ key \in DOMAIN a
                            \/ key[1] = "ata"
  BY AfterDomain, Addresses
<1> HIDE DEF b
<1>3. /\ Derived(iy) /\ Plain(iy) /\ Guard(b, iy)
      /\ \A key \in iy.needs : Usable(a, key)
      /\ Signed(a, iy)
      /\ \A key \in DOMAIN iy.init : ~Exists(a, key) /\ key[1] # "ata"
      /\ \A key \in iy.close : Exists(a, key)
  BY DEF Ready, Accepts, Plain, Guard
<1>4. \A key \in iy.needs : key \in DOMAIN a /\ key \in DOMAIN b /\ b[key] = a[key]
  BY <1>1, <1>3 DEF Clear, Usable, Exists
<1>5. \A key \in iy.needs : Usable(b, key)
  BY <1>3, <1>4 DEF Usable, Exists
<1>6. Signed(b, iy)
  <2>1. CASE iy.role = "anyone"
    BY <2>1 DEF Signed
  <2>2. CASE iy.role = "governance"
    BY <1>3, <1>4, <2>2 DEF Signed, Plain
  <2>3. CASE iy.role = "admin"
    BY <1>3, <1>4, <2>3 DEF Signed, Plain
  <2> QED BY <1>3, <2>1, <2>2, <2>3 DEF Plain
<1>7. \A key \in DOMAIN iy.init : ~Exists(b, key)
  BY <1>2, <1>3 DEF Clear, Exists
<1>8. \A key \in iy.close : Exists(b, key)
  BY <1>1, <1>3 DEF Clear, Exists
<1>9. Ready(b, iy)
  BY <1>3, <1>5, <1>6, <1>7, <1>8 DEF Ready, Accepts
<1> QED BY <1>9 DEF b

\* A transaction of instructions that are ready and clear of each other goes
\* through, and leaves ready what all of them are clear of.
LEMMA ReadyRuns ==
  ASSUME NEW a, NEW tx, Len(tx) \in 0..MaxInstructions,
         \A i \in 1..Len(tx) : Ready(a, tx[i]),
         \A i, j \in 1..Len(tx) : i # j => Clear(tx[i], tx[j])
  PROVE  /\ Run(a, tx).ok
         /\ \A iy : Ready(a, iy) /\ (\A i \in 1..Len(tx) : Clear(tx[i], iy))
              => Ready(Run(a, tx).acct, iy)
<1> DEFINE N == Len(tx)
           g == Through(a, tx, N)
           Cleared(k, iy) == Ready(a, iy) /\ \A i \in 1..k : Clear(tx[i], iy)
           Good(k) == g[k].ok /\ \A iy : Cleared(k, iy) => Ready(g[k].acct, iy)
<1>1. N \in Nat /\ Run(a, tx) = g[N]
  <2>1. Run(a, tx) = IF N \in 0..MaxInstructions THEN g[N] ELSE Failure(a)
    BY DEF Run, Through
  <2> HIDE DEF g
  <2> QED BY <2>1, ConfigAssumption
<1>2. g[0] = Outset(a) /\ \A k \in 1..N : g[k] = Executed(a, g[k - 1], tx[k])
  <2> DEFINE F == [n \in 0..N |-> IF n = 0 THEN Outset(a) ELSE Executed(a, g[n - 1], tx[n])]
  <2>1. g = F
    BY <1>1, ThroughIsChain
  <2>2. F[0] = Outset(a) /\ \A k \in 1..N : F[k] = Executed(a, g[k - 1], tx[k])
    <3> HIDE DEF N, g
    <3> QED BY <1>1
  <2> HIDE DEF N, g, F
  <2> QED BY <2>1, <2>2
<1> HIDE DEF N, g
<1>3. Good(0)
  BY <1>2 DEF Outset
<1>4. ASSUME NEW k \in 1..N, Good(k - 1)
      PROVE  Good(k)
  <2> DEFINE so == g[k - 1]
             ix == tx[k]
             b  == After(so.acct, ix)
  <2>1. k \in Nat /\ \A i \in 1..(k - 1) : i \in 1..N /\ i # k
    BY <1>1
  <2>2. Cleared(k - 1, ix)
    BY <2>1 DEF N
  <2>3. so.ok /\ Ready(so.acct, ix)
    BY <1>4, <2>2
  <2>4. g[k] = Executed(a, so, ix)
    BY <1>2
  <2> DEFINE all == so.listed /\ ListsAll(so.acct, ix)
  <2>5. g[k] = [ok |-> TRUE, acct |-> b, listed |-> all]
    BY <2>3, <2>4 DEF Executed, Ready
  <2> HIDE DEF all, b
  <2>6. g[k].ok /\ g[k].acct = b
    BY <2>5
  <2>7. ASSUME NEW iy, Cleared(k, iy)
        PROVE  Ready(b, iy)
    <3>1. Cleared(k - 1, iy) /\ Clear(ix, iy)
      BY <2>1, <2>7
    <3>2. Ready(so.acct, iy)
      BY <1>4, <3>1
    <3> HIDE DEF so, ix
    <3> QED BY <2>3, <3>1, <3>2, ReadyKept DEF b
  <2> HIDE DEF Cleared
  <2> QED BY <2>6, <2>7
<1> HIDE DEF Good
<1> DEFINE B == {k \in 0..N : ~Good(k)}
<1>5. ASSUME B # {} PROVE FALSE
  <2>1. B \in SUBSET Nat
    OBVIOUS
  <2>2. \A k : k \in B <=> k \in 0..N /\ ~Good(k)
    OBVIOUS
  <2> HIDE DEF B
  <2>3. PICK k \in B : \A m \in B : k <= m
    BY <1>5, <2>1, LeastNat
  <2>4. k \in 0..N /\ k # 0
    BY <1>3, <2>2
  <2>5. k \in 1..N /\ k - 1 \in 0..N /\ ~(k <= k - 1)
    BY <1>1, <2>4
  <2>6. Good(k - 1)
    BY <2>2, <2>3, <2>5
  <2> QED BY <1>4, <2>2, <2>5, <2>6
<1>6. Good(N)
  <2>1. N \in 0..N
    BY <1>1
  <2> QED BY <1>5, <2>1
<1> QED BY <1>1, <1>6 DEF Good, N

\* A list of instructions that are ready and clear of each other, and a list of
\* transactions of such instructions.
InLine(a, q) ==
  /\ IsList(q)
  /\ \A i \in 1..Len(q) : Ready(a, q[i])
  /\ \A i, j \in 1..Len(q) : i # j => Clear(q[i], q[j])
Lined(a, txs) ==
  /\ IsList(txs)
  /\ \A n \in 1..Len(txs) : Len(txs[n]) \in 0..MaxInstructions
  /\ \A n \in 1..Len(txs) : \A i \in 1..Len(txs[n]) : Ready(a, txs[n][i])
  /\ \A n, k \in 1..Len(txs) : \A i \in 1..Len(txs[n]), j \in 1..Len(txs[k]) :
       n # k \/ i # j => Clear(txs[n][i], txs[k][j])

\* An instruction that is ready and that everything in the list is clear of.
Waiting(a, txs, iy) ==
  Ready(a, iy) /\ \A n \in 1..Len(txs) : \A i \in 1..Len(txs[n]) : Clear(txs[n][i], iy)

\* A list that is not empty, place by place.
LEMMA TailPlaces ==
  ASSUME NEW q, IsList(q), q # <<>>
  PROVE  /\ Len(q) \in Nat /\ 1 \in 1..Len(q) /\ Head(q) = q[1] /\ IsList(Tail(q))
         /\ Len(Tail(q)) = Len(q) - 1
         /\ \A k \in 1..Len(Tail(q)) :
              k + 1 \in 1..Len(q) /\ k + 1 # 1 /\ Tail(q)[k] = q[k + 1]
<1> DEFINE X == {q[n] : n \in DOMAIN q}
           r == Tail(q)
<1>1. q \in Seq(X)
  BY DEF IsList
<1>2. IsList(r)
  BY ListTail
<1> HIDE DEF X
<1>3. /\ r \in Seq(X) /\ Len(r) = Len(q) - 1
      /\ \A k \in 1..Len(r) : r[k] = q[k + 1]
  BY <1>1, HeadTailProperties
<1>4. Len(q) \in Nat /\ Len(q) # 0 /\ Head(q) = q[1]
  BY <1>1, LenProperties, EmptySeq
<1> HIDE DEF r
<1>5. 1 \in 1..Len(q) /\ \A k \in 1..Len(r) : k + 1 \in 1..Len(q) /\ k + 1 # 1
  BY <1>3, <1>4
<1> QED BY <1>2, <1>3, <1>4, <1>5 DEF r

\* The first of such transactions goes through and leaves the others as they are.
LEMMA LinedSends ==
  ASSUME NEW a, NEW txs, Lined(a, txs), txs # <<>>
  PROVE  /\ Run(a, Head(txs)).ok
         /\ Lined(Run(a, Head(txs)).acct, Tail(txs))
         /\ \A iy : Waiting(a, txs, iy) => Waiting(Run(a, Head(txs)).acct, Tail(txs), iy)
<1> DEFINE tx == txs[1]
           r  == Tail(txs)
           b  == Run(a, tx).acct
<1>1. /\ Len(txs) \in Nat /\ 1 \in 1..Len(txs) /\ Head(txs) = tx /\ IsList(r)
      /\ Len(r) = Len(txs) - 1
      /\ \A k \in 1..Len(r) : k + 1 \in 1..Len(txs) /\ k + 1 # 1 /\ r[k] = txs[k + 1]
  BY TailPlaces DEF Lined
<1>2. /\ Len(tx) \in 0..MaxInstructions
      /\ \A i \in 1..Len(tx) : Ready(a, tx[i])
      /\ \A i, j \in 1..Len(tx) : i # j => Clear(tx[i], tx[j])
  BY <1>1 DEF Lined
<1> HIDE DEF tx, r
<1>3. /\ Run(a, tx).ok
      /\ \A iy : Ready(a, iy) /\ (\A i \in 1..Len(tx) : Clear(tx[i], iy)) => Ready(b, iy)
  BY <1>2, ReadyRuns
<1> HIDE DEF b
<1>4. ASSUME NEW iy, Waiting(a, txs, iy)
      PROVE  Waiting(b, r, iy)
  <2>1. Ready(a, iy) /\ \A n \in 1..Len(txs) : \A i \in 1..Len(txs[n]) : Clear(txs[n][i], iy)
    BY <1>4 DEF Waiting
  <2>2. Ready(b, iy)
    BY <1>1, <1>3, <2>1 DEF tx
  <2>3. \A k \in 1..Len(r) : \A i \in 1..Len(r[k]) : Clear(r[k][i], iy)
    BY <1>1, <2>1
  <2> QED BY <2>2, <2>3 DEF Waiting
<1>5. \A k \in 1..Len(r) : Len(r[k]) \in 0..MaxInstructions
  BY <1>1 DEF Lined
<1>6. ASSUME NEW k \in 1..Len(r), NEW i \in 1..Len(r[k])
      PROVE  Ready(b, r[k][i])
  <2> DEFINE n == k + 1
  <2>1. n \in 1..Len(txs) /\ n # 1 /\ r[k] = txs[n]
    BY <1>1
  <2> HIDE DEF n
  <2>2. Ready(a, txs[n][i]) /\ \A j \in 1..Len(tx) : Clear(tx[j], txs[n][i])
    BY <1>1, <1>6, <2>1 DEF Lined, tx
  <2> QED BY <1>3, <2>1, <2>2
<1>7. ASSUME NEW n \in 1..Len(r), NEW k \in 1..Len(r), NEW i \in 1..Len(r[n]),
             NEW j \in 1..Len(r[k]), n # k \/ i # j
      PROVE  Clear(r[n][i], r[k][j])
  <2>1. n + 1 # k + 1 \/ i # j
    BY <1>7
  <2>2. n + 1 \in 1..Len(txs) /\ k + 1 \in 1..Len(txs) /\ r[n] = txs[n + 1] /\ r[k] = txs[k + 1]
    BY <1>1
  <2> QED BY <1>7, <2>1, <2>2 DEF Lined
<1>8. Lined(b, r)
  BY <1>1, <1>5, <1>6, <1>7 DEF Lined
<1> QED BY <1>1, <1>3, <1>4, <1>8 DEF b, r

\* One list after the other.
LEMMA LinesConcat ==
  ASSUME NEW a, NEW q, NEW r, InLine(a, q), InLine(a, r),
         \A i \in 1..Len(q), j \in 1..Len(r) : Clear(q[i], r[j]) /\ Clear(r[j], q[i])
  PROVE  /\ InLine(a, q \o r)
         /\ \A k \in 1..Len(q \o r) : \/ \E i \in 1..Len(q) : (q \o r)[k] = q[i]
                                      \/ \E j \in 1..Len(r) : (q \o r)[k] = r[j]
<1> DEFINE X == {q[n] : n \in DOMAIN q} \cup {r[n] : n \in DOMAIN r}
           t == q \o r
           L == Len(q)
           M == Len(r)
<1>1. q \in Seq(X) /\ r \in Seq(X)
  <2> DEFINE Y == {q[n] : n \in DOMAIN q}
             Z == {r[n] : n \in DOMAIN r}
  <2>1. q \in Seq(Y) /\ r \in Seq(Z) /\ Y \subseteq X /\ Z \subseteq X
    BY DEF InLine, IsList
  <2> HIDE DEF X, Y, Z
  <2> QED BY <2>1
<1> HIDE DEF X
<1>2. L \in Nat /\ M \in Nat
  BY <1>1, LenProperties
<1>3. /\ t \in Seq(X) /\ Len(t) = L + M
      /\ \A k \in 1..(L + M) : t[k] = IF k <= L THEN q[k] ELSE r[k - L]
  BY <1>1, ConcatProperties
<1> HIDE DEF t
<1>4. IsList(t)
  <2>1. DOMAIN t = 1..(L + M) /\ t = [n \in DOMAIN t |-> t[n]] /\ L + M \in Nat
    BY <1>2, <1>3
  <2> QED BY <2>1, IntervalList
<1>5. \A k \in 1..(L + M) :
        \/ k <= L /\ k \in 1..L /\ t[k] = q[k]
        \/ ~(k <= L) /\ k - L \in 1..M /\ t[k] = r[k - L]
  BY <1>2, <1>3
<1>6. /\ \A i \in 1..L : Ready(a, q[i])
      /\ \A i, j \in 1..L : i # j => Clear(q[i], q[j])
      /\ \A i \in 1..M : Ready(a, r[i])
      /\ \A i, j \in 1..M : i # j => Clear(r[i], r[j])
  BY DEF InLine
<1>7. \A k \in 1..(L + M) : Ready(a, t[k])
  BY <1>5, <1>6
<1>8. ASSUME NEW i \in 1..(L + M), NEW j \in 1..(L + M), i # j
      PROVE  Clear(t[i], t[j])
  <2>1. i - L = j - L => i = j
    BY <1>2
  <2> QED BY <1>5, <1>6, <1>8, <2>1
<1>9. InLine(a, t)
  BY <1>3, <1>4, <1>7, <1>8 DEF InLine
<1> QED BY <1>3, <1>5, <1>9 DEF t

\* Lists in line, joined, if those of different lists are clear of each other.
Lines(a, q, N) ==
  /\ DOMAIN q = 1..N /\ q = [n \in DOMAIN q |-> q[n]]
  /\ \A n \in 1..N : InLine(a, q[n])
  /\ \A n, k \in 1..N : n # k =>
       \A i \in 1..Len(q[n]), j \in 1..Len(q[k]) : Clear(q[n][i], q[k][j])
DrawnFrom(t, q, N) ==
  \A p \in 1..Len(t) : \E n \in 1..N : \E i \in 1..Len(q[n]) : t[p] = q[n][i]

\* Lines that do not get in each other's way make one line.
LEMMA LinesJoin ==
  ASSUME NEW a, NEW N \in Nat, NEW q, Lines(a, q, N)
  PROVE  InLine(a, FlattenSeq(q)) /\ DrawnFrom(FlattenSeq(q), q, N)
<1> DEFINE X == UNION {{q[n][i] : i \in DOMAIN q[n]} : n \in 1..N}
           t == FlattenSeq(q)
<1>0. /\ DOMAIN q = 1..N /\ q = [n \in DOMAIN q |-> q[n]]
      /\ \A n \in 1..N : InLine(a, q[n])
      /\ \A n, k \in 1..N : n # k =>
           \A i \in 1..Len(q[n]), j \in 1..Len(q[k]) : Clear(q[n][i], q[k][j])
  BY DEF Lines
<1>1. \A n \in 1..N : q[n] \in Seq(X)
  <2> TAKE n \in 1..N
  <2> DEFINE Y == {q[n][i] : i \in DOMAIN q[n]}
  <2>1. q[n] \in Seq(Y) /\ Y \subseteq X
    BY <1>0 DEF InLine, IsList
  <2> HIDE DEF X, Y
  <2> QED BY <2>1
<1> HIDE DEF X
<1>2. q \in Seq(Seq(X)) /\ Len(q) = N
  <2>1. q \in [1..N -> Seq(X)]
    BY <1>0, <1>1
  <2>2. q \in Seq(Seq(X))
    BY <2>1, SeqDef
  <2> QED BY <2>1, <2>2, LenProperties
<1>3. t \in Seq(X) /\ IsJoined(t, q, N)
  BY <1>2, FlattenJoins
<1> HIDE DEF t
<1>4. PICK part, off : Places(t, q, N, part, off)
  BY <1>3 DEF IsJoined
<1>5. /\ \A i \in 1..Len(t) : /\ part[i] \in 1..N /\ off[i] \in 1..Len(q[part[i]])
                              /\ t[i] = q[part[i]][off[i]]
      /\ \A i, j \in 1..Len(t) : part[i] = part[j] /\ off[i] = off[j] => i = j
  BY <1>4 DEF Places
<1>6. \A i \in 1..Len(t) : Ready(a, t[i])
  BY <1>0, <1>5 DEF InLine
<1>7. ASSUME NEW i \in 1..Len(t), NEW j \in 1..Len(t), i # j
      PROVE  Clear(t[i], t[j])
  <2> DEFINE n == part[i]
             k == part[j]
             u == off[i]
             v == off[j]
  <2>0. /\ n \in 1..N /\ k \in 1..N /\ u \in 1..Len(q[n]) /\ v \in 1..Len(q[k])
        /\ t[i] = q[n][u] /\ t[j] = q[k][v] /\ (n = k => u # v)
    BY <1>5, <1>7
  <2> HIDE DEF n, k, u, v
  <2>1. CASE n # k
    <3>1. Clear(q[n][u], q[k][v])
      BY <1>0, <2>0, <2>1
    <3> QED BY <2>0, <3>1
  <2>2. CASE n = k
    <3>1. InLine(a, q[n])
      BY <1>0, <2>0
    <3>2. Clear(q[n][u], q[n][v])
      BY <2>0, <2>2, <3>1 DEF InLine
    <3> QED BY <2>0, <2>2, <3>2
  <2> QED BY <2>1, <2>2
<1>8. IsList(t)
  <2>1. Len(t) \in Nat /\ DOMAIN t = 1..Len(t) /\ t = [n \in DOMAIN t |-> t[n]]
    BY <1>3, LenProperties
  <2> QED BY <2>1, IntervalList
<1>9. InLine(a, t)
  BY <1>6, <1>7, <1>8 DEF InLine
<1>10. DrawnFrom(t, q, N)
  BY <1>5 DEF DrawnFrom
<1> QED BY <1>9, <1>10 DEF t

\* A transaction each, and four to a transaction.
LEMMA SinglesLined ==
  ASSUME NEW a, NEW q, InLine(a, q), NEW txs, DOMAIN txs = DOMAIN q,
         txs = [n \in DOMAIN q |-> Single(q[n])]
  PROVE  Lined(a, txs)
<1> DEFINE X == {q[n] : n \in DOMAIN q}
<1>1. q \in Seq(X)
  BY DEF InLine, IsList
<1> HIDE DEF X
<1>2. Len(q) \in Nat /\ DOMAIN q = 1..Len(q)
  BY <1>1, LenProperties
<1>3. IsList(txs) /\ Len(txs) = Len(q)
  <2>1. DOMAIN txs = 1..Len(q) /\ txs = [n \in DOMAIN txs |-> txs[n]]
    BY <1>2
  <2>2. IsList(txs)
    BY <1>2, <2>1, IntervalList
  <2> DEFINE Y == {txs[n] : n \in DOMAIN txs}
  <2>3. txs \in Seq(Y)
    BY <2>2 DEF IsList
  <2> HIDE DEF Y
  <2> QED BY <1>2, <2>1, <2>2, <2>3, LenProperties
<1>4. \A n \in 1..Len(q) : txs[n] = Single(q[n])
  BY <1>2
<1>5. \A ix : Len(Single(ix)) = 1 /\ Single(ix)[1] = ix
  BY DEF Single
<1>6. 1 \in 0..MaxInstructions
  BY ConfigAssumption
<1>7. \A n \in 1..Len(q) : Len(txs[n]) = 1 /\ \A i \in 1..Len(txs[n]) : i = 1 /\ txs[n][i] = q[n]
  BY <1>4, <1>5
<1>8. /\ \A n \in 1..Len(q) : Ready(a, q[n])
      /\ \A n, k \in 1..Len(q) : n # k => Clear(q[n], q[k])
  BY DEF InLine
<1>9. \A n \in 1..Len(txs) : Len(txs[n]) \in 0..MaxInstructions
  BY <1>3, <1>6, <1>7
<1>10. \A n \in 1..Len(txs) : \A i \in 1..Len(txs[n]) : Ready(a, txs[n][i])
  <2> TAKE n \in 1..Len(txs)
  <2> TAKE i \in 1..Len(txs[n])
  <2>1. n \in 1..Len(q) /\ txs[n][i] = q[n]
    BY <1>3, <1>7
  <2> QED BY <1>8, <2>1
<1>11. ASSUME NEW n \in 1..Len(txs), NEW k \in 1..Len(txs), NEW i \in 1..Len(txs[n]),
              NEW j \in 1..Len(txs[k]), n # k \/ i # j
       PROVE  Clear(txs[n][i], txs[k][j])
  <2>1. i = 1 /\ j = 1 /\ txs[n][i] = q[n] /\ txs[k][j] = q[k]
    BY <1>3, <1>7
  <2> QED BY <1>3, <1>8, <1>11, <2>1
<1> QED BY <1>3, <1>9, <1>10, <1>11 DEF Lined

\* A line stays one when it is cut into transactions.
LEMMA ChunksLined ==
  ASSUME NEW a, NEW q, InLine(a, q)
  PROVE  Lined(a, Chunked(q))
<1> DEFINE X == {q[n] : n \in DOMAIN q}
           c == Chunked(q)
<1>1. q \in Seq(X)
  BY DEF InLine, IsList
<1> HIDE DEF X
<1>2. /\ c \in Seq(Seq(X))
      /\ \A n \in 1..Len(c) : Len(c[n]) <= 4
      /\ \A n \in 1..Len(c) : \A i \in 1..Len(c[n]) :
           4 * n - 4 + i \in 1..Len(q) /\ c[n][i] = q[4 * n - 4 + i]
      /\ \A n, k \in 1..Len(c) : \A i \in 1..Len(c[n]), j \in 1..Len(c[k]) :
           4 * n - 4 + i = 4 * k - 4 + j => n = k /\ i = j
  <2>1. Chunked(q) \in Seq(Seq(X)) /\ CutsUp(Chunked(q), q)
    BY <1>1, ChunkedCuts
  <2> HIDE DEF c
  <2>2. c \in Seq(Seq(X)) /\ CutsUp(c, q)
    BY <2>1 DEF c
  <2> QED BY <2>2 DEF CutsUp
<1> HIDE DEF c
<1>3. \A n \in 1..Len(c) : Len(c[n]) \in 0..MaxInstructions
  <2> TAKE n \in 1..Len(c)
  <2>1. c[n] \in Seq(X)
    BY <1>2, ElementOfSeq
  <2>2. Len(c[n]) \in Nat /\ Len(c[n]) <= 4
    BY <1>2, <2>1, LenProperties
  <2> QED BY <2>2, ConfigAssumption, ConsoleAssumption
<1>4. IsList(c)
  <2>1. Len(c) \in Nat /\ DOMAIN c = 1..Len(c) /\ c = [n \in DOMAIN c |-> c[n]]
    BY <1>2, LenProperties
  <2> QED BY <2>1, IntervalList
<1>5. \A n \in 1..Len(c) : \A i \in 1..Len(c[n]) : Ready(a, c[n][i])
  BY <1>2 DEF InLine
<1>6. ASSUME NEW n \in 1..Len(c), NEW k \in 1..Len(c), NEW i \in 1..Len(c[n]),
             NEW j \in 1..Len(c[k]), n # k \/ i # j
      PROVE  Clear(c[n][i], c[k][j])
  <2> DEFINE u == 4 * n - 4 + i
             v == 4 * k - 4 + j
  <2>1. u # v
    BY <1>2, <1>6
  <2>2. u \in 1..Len(q) /\ v \in 1..Len(q) /\ c[n][i] = q[u] /\ c[k][j] = q[v]
    BY <1>2
  <2> HIDE DEF u, v
  <2> QED BY <2>1, <2>2 DEF InLine
<1>7. Lined(a, c)
  BY <1>3, <1>4, <1>5, <1>6 DEF Lined
<1> QED BY <1>7 DEF c

-----------------------------------------------------------------------------
(***************************************************************************)
(* The work of a page that shows the chain as it is.                       *)
(***************************************************************************)
\* The transactions of a job are going to be accepted, and so is every addition
\* that is yet to be computed; a strategy is created before anything else.
Assured(a, s, w, job) ==
  \/ /\ \E d, others : /\ job.todo = <<Single(CreateStrategy(s, w, d, others))>>
                       /\ Accepts(a, CreateStrategy(s, w, d, others))
     /\ job.adding \subseteq PossibleRows(s)
  \/ /\ Lined(a, job.todo)
     /\ \A key \in job.adding : \A row : Waiting(a, job.todo, AddRow(s, w, key, row))

WorkOK(a, p) ==
  /\ p.wallet # "none" => p.strategy[1] = Vault
  /\ p.job.fresh => /\ p.job.state # "refused"
                    /\ p.job.state = "running" => Assured(a, p.strategy, p.wallet, p.job)
WorkInv == Exists(acct, VaultOf(Vault)) /\ \A t \in Pages : WorkOK(acct, page[t])

\* An instruction that is accepted makes a transaction that goes through.
LEMMA SingleGoes ==
  ASSUME NEW a, NEW ix, Accepts(a, ix)
  PROVE  Run(a, Single(ix)).ok /\ Run(a, Single(ix)).acct = After(a, ix)
<1> DEFINE tx == Single(ix)
           N  == Len(tx)
           g  == Through(a, tx, N)
           F  == [n \in 0..N |-> IF n = 0 THEN Outset(a) ELSE Executed(a, g[n - 1], tx[n])]
<1>1. Len(tx) = 1 /\ tx[1] = ix
  BY DEF Single
<1> HIDE DEF tx
<1>2. N \in 0..MaxInstructions /\ N \in Nat
  BY <1>1, ConfigAssumption
<1>3. Run(a, tx) = g[N]
  BY <1>2 DEF Run, Through
<1>4. g = F
  BY <1>2, ThroughIsChain
<1>5. F[0] = Outset(a) /\ F[1] = Executed(a, g[0], tx[1])
  <2>1. N = 1
    BY <1>1
  <2> HIDE DEF g, N
  <2> QED BY <2>1
<1> HIDE DEF g, F
<1>6. g[1] = Executed(a, Outset(a), ix)
  BY <1>1, <1>4, <1>5
<1>7. Outset(a).ok /\ Outset(a).acct = a
  BY DEF Outset
<1> DEFINE all == Outset(a).listed /\ ListsAll(a, ix)
<1>8. Executed(a, Outset(a), ix) = [ok |-> TRUE, acct |-> After(a, ix), listed |-> all]
  BY <1>7 DEF Executed
<1> HIDE DEF all
<1>9. g[1].ok /\ g[1].acct = After(a, ix)
  BY <1>6, <1>8
<1> QED BY <1>1, <1>3, <1>9 DEF tx

\* A row that is possible and missing can be added to a strategy that is active.
LEMMA AddRowReady ==
  ASSUME NEW a, NEW s, NEW w, NEW key \in PossibleRows(s), NEW row, ~Exists(a, key),
         Exists(a, VaultOf(s[1])), a[VaultOf(s[1])].admin = w, Active(a, s)
  PROVE  Ready(a, AddRow(s, w, key, row))
<1> DEFINE ix == AddRow(s, w, key, row)
<1>1. /\ ix.do = "configure" /\ ix.role = "admin" /\ ix.wallet = w /\ ix.vault = s[1]
      /\ ix.needs = {VaultOf(s[1]), StrategyOf(s)} /\ ix.close = {} /\ DOMAIN ix.init = {key}
  BY DEF AddRow, OnStrategy, ByAdmin, Instruction, Row
<1> HIDE DEF ix
<1>2. key[1] \in RowKinds /\ key[2] = s /\ key[1] \notin {"ata", "strategy"}
  BY CatalogueRows DEF RowKinds
<1>3. Plain(ix)
  BY <1>1, <1>2 DEF Plain
<1>4. Derived(ix)
  BY <1>1, <1>2 DEF Derived
<1>5. \A k \in ix.needs : Usable(a, k)
  BY <1>1, Addresses DEF Usable, Active
<1>6. Signed(a, ix) /\ Guard(a, ix)
  BY <1>1 DEF Signed, Guard
<1>7. Ready(a, ix)
  BY <1>1, <1>3, <1>4, <1>5, <1>6 DEF Ready, Accepts
<1> QED BY <1>7 DEF ix

\* A row that is there can be closed.
LEMMA CloseRowReady ==
  ASSUME NEW a, NEW s, NEW w, NEW key, key[1] \in RowKinds, Exists(a, key),
         Exists(a, VaultOf(s[1])), a[VaultOf(s[1])].admin = w
  PROVE  Ready(a, CloseRow(s, w, key))
<1> DEFINE ix == CloseRow(s, w, key)
<1>1. /\ ix.do = "configure" /\ ix.role = "admin" /\ ix.wallet = w /\ ix.vault = s[1]
      /\ ix.needs = {VaultOf(s[1])} /\ ix.close = {key} /\ DOMAIN ix.init = {}
  BY DEF CloseRow, ByAdmin, Instruction, Empty
<1> HIDE DEF ix
<1>2. key[1] \notin {"config", "vault", "strategy"}
  BY DEF RowKinds
<1>3. Plain(ix) /\ Derived(ix)
  BY <1>1, <1>2 DEF Plain, Derived
<1>4. \A k \in ix.needs : Usable(a, k)
  BY <1>1, Addresses DEF Usable
<1>5. Signed(a, ix) /\ Guard(a, ix)
  BY <1>1 DEF Signed, Guard
<1>6. Ready(a, ix)
  BY <1>1, <1>3, <1>4, <1>5 DEF Ready, Accepts
<1> QED BY <1>6 DEF ix

\* Rows are closed and added without getting in each other's way.
LEMMA RowsClear ==
  ASSUME NEW s, NEW u, NEW w, NEW z, NEW k, NEW l, k # l, k[1] \in RowKinds, NEW row, NEW other
  PROVE  /\ Clear(CloseRow(s, w, k), CloseRow(u, z, l))
         /\ Clear(CloseRow(s, w, k), AddRow(u, z, l, other))
         /\ Clear(AddRow(s, w, k, row), AddRow(u, z, l, other))
         /\ Clear(AddRow(s, w, k, row), CloseRow(u, z, l))
<1>1. \A t, x, key : CloseRow(t, x, key).close = {key} /\ DOMAIN CloseRow(t, x, key).init = {}
                     /\ CloseRow(t, x, key).needs = {VaultOf(t[1])}
  BY DEF CloseRow, ByAdmin, Instruction, Empty
<1>2. \A t, x, key, r : /\ AddRow(t, x, key, r).close = {} /\ DOMAIN AddRow(t, x, key, r).init = {key}
                        /\ AddRow(t, x, key, r).needs = {VaultOf(t[1]), StrategyOf(t)}
  BY DEF AddRow, OnStrategy, ByAdmin, Instruction, Row
<1>3. \A t : k # VaultOf(t[1]) /\ k # StrategyOf(t)
  BY Addresses DEF RowKinds
<1> QED BY <1>1, <1>2, <1>3 DEF Clear

\* A strategy that has been created takes every row it can have.
LEMMA CreatedTakesRows ==
  ASSUME NEW a, AccountsOK(a), NEW s, NEW w, NEW d, NEW others,
         Accepts(a, CreateStrategy(s, w, d, others)), NEW key \in PossibleRows(s), NEW row
  PROVE  Ready(After(a, CreateStrategy(s, w, d, others)), AddRow(s, w, key, row))
<1> DEFINE ix == CreateStrategy(s, w, d, others)
           b  == After(a, ix)
           v  == VaultOf(s[1])
           k  == StrategyOf(s)
<1>1. /\ ix.do = "create" /\ ix.role = "admin" /\ ix.wallet = w /\ ix.vault = s[1]
      /\ ix.strategy = s /\ ix.key = d /\ ix.needs = {v} /\ ix.close = {} /\ ix.ensure = {}
      /\ DOMAIN ix.init = {k}
  BY DEF CreateStrategy, ByAdmin, Instruction, Row
<1>2. Accepts(a, ix)
  OBVIOUS
<1> HIDE DEF ix
<1>3. v \in DOMAIN a /\ k \notin DOMAIN a /\ a[v].admin = w /\ v # k /\ DOMAIN a[v] = VaultFields
  BY <1>1, <1>2, Addresses DEF Accepts, Usable, Exists, Signed, AccountsOK
<1>4. /\ b[k] = Initial(ix, k) /\ k \in DOMAIN b
      /\ v \in DOMAIN b /\ b[v] = Rewritten(a, ix, v)
      /\ \A l \in DOMAIN b : l = k \/ l \in DOMAIN a
  BY <1>1, <1>3, AfterDomain
<1> HIDE DEF b
<1>5. b[k].active
  <2>1. k[1] = "strategy"
    BY Addresses
  <2> HIDE DEF k
  <2> QED BY <1>4, <2>1 DEF Initial
<1>6. b[v].admin = w
  <2>1. Rewritten(a, ix, v) = Counted(a[v])
    BY <1>1 DEF Rewritten
  <2> HIDE DEF v
  <2> QED BY <1>3, <1>4, <2>1 DEF Counted, VaultFields
<1>7. key \notin DOMAIN b
  <2>1. key[1] \in RowKinds /\ key[2] = s
    BY CatalogueRows
  <2>2. key # k /\ key \notin DOMAIN a
    BY <1>3, <2>1, Addresses DEF AccountsOK, Exists, RowKinds
  <2> QED BY <1>4, <2>2
<1>8. Ready(b, AddRow(s, w, key, row))
  BY <1>4, <1>5, <1>6, <1>7, AddRowReady DEF Exists, Active
<1> QED BY <1>8 DEF b, ix

\* Nothing is left to do.
LEMMA NothingLined ==
  ASSUME NEW a
  PROVE  /\ Lined(a, <<>>)
         /\ \A iy : Ready(a, iy) => Waiting(a, <<>>, iy)
<1> DEFINE q == <<>>
<1>1. IsList(q) /\ Len(q) = 0
  <2>1. DOMAIN q = 1..0 /\ q = [n \in DOMAIN q |-> q[n]]
    OBVIOUS
  <2> HIDE DEF q
  <2>2. IsList(q)
    BY <2>1, IntervalList
  <2> QED BY <2>2 DEF q
<1> HIDE DEF q
<1>2. Lined(a, q) /\ \A iy : Ready(a, iy) => Waiting(a, q, iy)
  BY <1>1 DEF Lined, Waiting
<1> QED BY <1>2 DEF q

\* The next transaction of such a job goes through, and the rest is assured.
LEMMA WorkGoesOn ==
  ASSUME NEW a, AccountsOK(a), NEW s, NEW w, NEW job, DOMAIN job = JobFields,
         Assured(a, s, w, job), job.todo # <<>>
  PROVE  /\ Run(a, Head(job.todo)).ok
         /\ Assured(Run(a, Head(job.todo)).acct, s, w,
                    [job EXCEPT !.todo = Tail(@), !.raced = FALSE])
<1> DEFINE q == job.todo
           k == [job EXCEPT !.todo = Tail(@), !.raced = FALSE]
           r == Run(a, Head(q))
<1>1. k.todo = Tail(q) /\ k.adding = job.adding
  BY DEF JobFields
<1> HIDE DEF k
<1>2. CASE \E d, others : /\ q = <<Single(CreateStrategy(s, w, d, others))>>
                          /\ Accepts(a, CreateStrategy(s, w, d, others))
           /\ job.adding \subseteq PossibleRows(s)
  <2>1. PICK d, others : /\ q = <<Single(CreateStrategy(s, w, d, others))>>
                         /\ Accepts(a, CreateStrategy(s, w, d, others))
                         /\ job.adding \subseteq PossibleRows(s)
    BY <1>2
  <2> DEFINE ix == CreateStrategy(s, w, d, others)
             tx == Single(ix)
  <2>2. Head(q) = tx /\ Tail(q) = <<>>
    <3>1. q = <<tx>>
      BY <2>1
    <3> HIDE DEF tx, q
    <3> QED BY <3>1
  <2>3. r.ok /\ r.acct = After(a, ix)
    <3>1. Accepts(a, ix)
      BY <2>1
    <3> HIDE DEF ix
    <3> QED BY <2>2, <3>1, SingleGoes
  <2> HIDE DEF r, q
  <2>4. \A key \in job.adding : \A row : Ready(r.acct, AddRow(s, w, key, row))
    BY <2>1, <2>3, CreatedTakesRows
  <2>5. Assured(r.acct, s, w, k)
    BY <1>1, <2>2, <2>4, NothingLined DEF Assured
  <2> QED BY <2>3, <2>5 DEF r, k, q
<1>3. CASE /\ Lined(a, q)
           /\ \A key \in job.adding : \A row : Waiting(a, q, AddRow(s, w, key, row))
  <2>1. q # <<>>
    OBVIOUS
  <2> HIDE DEF q
  <2>2. /\ r.ok /\ Lined(r.acct, Tail(q))
        /\ \A iy : Waiting(a, q, iy) => Waiting(r.acct, Tail(q), iy)
    BY <1>3, <2>1, LinedSends
  <2> HIDE DEF r
  <2>3. \A key \in job.adding : \A row : Waiting(r.acct, Tail(q), AddRow(s, w, key, row))
    BY <1>3, <2>2
  <2>4. Assured(r.acct, s, w, k)
    BY <1>1, <2>2, <2>3 DEF Assured
  <2> QED BY <2>2, <2>4 DEF r, k, q
<1> QED BY <1>2, <1>3 DEF Assured


\* A transaction each for a list of instructions: what all of them are clear of waits.
LEMMA SinglesWait ==
  ASSUME NEW a, NEW q, InLine(a, q), NEW txs, DOMAIN txs = DOMAIN q,
         txs = [n \in DOMAIN q |-> Single(q[n])],
         NEW iy, Ready(a, iy), \A n \in DOMAIN q : Clear(q[n], iy)
  PROVE  Waiting(a, txs, iy)
<1>1. \A ix : Len(Single(ix)) = 1 /\ Single(ix)[1] = ix
  BY DEF Single
<1>2. DOMAIN q = 1..Len(q) /\ Len(q) \in Nat
  <2> DEFINE X == {q[n] : n \in DOMAIN q}
  <2>1. q \in Seq(X)
    BY DEF InLine, IsList
  <2> HIDE DEF X
  <2> QED BY <2>1, LenProperties
<1>3. IsList(txs)
  BY <1>2, IntervalList
<1>4. 1..Len(txs) = DOMAIN txs
  <2> DEFINE X == {txs[n] : n \in DOMAIN txs}
  <2>1. txs \in Seq(X)
    BY <1>3 DEF IsList
  <2> HIDE DEF X
  <2> QED BY <2>1, LenProperties
<1>5. \A n \in 1..Len(txs) : txs[n] = Single(q[n]) /\ n \in DOMAIN q
  BY <1>4
<1>6. \A n \in 1..Len(txs) : \A i \in 1..Len(txs[n]) : Clear(txs[n][i], iy)
  <2> SUFFICES ASSUME NEW n \in 1..Len(txs), NEW i \in 1..Len(txs[n])
               PROVE  Clear(txs[n][i], iy)
    OBVIOUS
  <2>1. txs[n] = Single(q[n]) /\ n \in DOMAIN q
    BY <1>5
  <2>2. i \in 1..1 /\ Single(q[n])[1] = q[n]
    BY <1>1, <2>1
  <2>3. i = 1
    BY <2>2
  <2> QED BY <2>1, <2>2, <2>3
<1> QED BY <1>6 DEF Waiting

\* The revocations of rows that are there.
LEMMA ClosingsLined ==
  ASSUME NEW a, NEW s, NEW w, NEW rows, \A key \in rows : Exists(a, key),
         Exists(a, VaultOf(s[1])), a[VaultOf(s[1])].admin = w,
         NEW order, order = InOrder(s, rows), NEW txs,
         txs = [n \in DOMAIN order |-> Single(CloseRow(s, w, order[n]))]
  PROVE  /\ Lined(a, txs)
         /\ \A key : \A row : /\ key \in PossibleRows(s) \ rows
                              /\ Ready(a, AddRow(s, w, key, row))
                              => Waiting(a, txs, AddRow(s, w, key, row))
<1> DEFINE X == rows \cap PossibleRows(s)
           q == [n \in DOMAIN order |-> CloseRow(s, w, order[n])]
<1>1. /\ order \in Seq(X)
      /\ \A i, j \in 1..Len(order) : order[i] = order[j] => i = j
  <2>1. /\ InOrder(s, rows) \in Seq(rows \cap PossibleRows(s))
        /\ \A key \in rows \cap PossibleRows(s) :
             \E n \in 1..Len(InOrder(s, rows)) : InOrder(s, rows)[n] = key
        /\ \A i, j \in 1..Len(InOrder(s, rows)) :
             InOrder(s, rows)[i] = InOrder(s, rows)[j] => i = j
    BY ONLY InOrderLists
  <2> QED BY <2>1
<1>2. \A key \in X : key \in rows /\ key[1] \in RowKinds /\ Exists(a, key)
  BY CatalogueRows
<1> HIDE DEF X
<1>3. Len(order) \in Nat /\ DOMAIN order = 1..Len(order) /\ \A n \in DOMAIN order : order[n] \in X
  BY <1>1, LenProperties, ElementOfSeq
<1>4. DOMAIN q = DOMAIN order /\ q = [n \in DOMAIN q |-> q[n]]
      /\ \A n \in DOMAIN order : q[n] = CloseRow(s, w, order[n])
  OBVIOUS
<1>5. txs = [n \in DOMAIN q |-> Single(q[n])] /\ DOMAIN txs = DOMAIN q
  OBVIOUS
<1> HIDE DEF q
<1>6. IsList(q)
  BY <1>3, <1>4, IntervalList
<1>7. Len(q) = Len(order)
  <2> DEFINE Y == {q[n] : n \in DOMAIN q}
  <2>1. q \in Seq(Y)
    BY <1>6 DEF IsList
  <2> HIDE DEF Y
  <2>2. DOMAIN q = 1..Len(q) /\ Len(q) \in Nat
    BY <2>1, LenProperties
  <2> QED BY <1>3, <1>4, <2>2
<1>8. \A n \in 1..Len(q) : Ready(a, q[n])
  BY <1>2, <1>3, <1>4, <1>7, CloseRowReady
<1>9. \A n, k \in 1..Len(q) : n # k => Clear(q[n], q[k])
  <2> SUFFICES ASSUME NEW n \in 1..Len(q), NEW k \in 1..Len(q), n # k
               PROVE  Clear(q[n], q[k])
    OBVIOUS
  <2> DEFINE x == order[n]
             y == order[k]
  <2>1. /\ x # y /\ x[1] \in RowKinds
        /\ q[n] = CloseRow(s, w, x) /\ q[k] = CloseRow(s, w, y)
    BY <1>1, <1>2, <1>3, <1>4, <1>7
  <2> HIDE DEF x, y
  <2> QED BY <2>1, RowsClear
<1>10. InLine(a, q)
  BY <1>6, <1>8, <1>9 DEF InLine
<1>11. Lined(a, txs)
  BY <1>5, <1>10, SinglesLined
<1>12. ASSUME NEW key \in PossibleRows(s) \ rows, NEW row, Ready(a, AddRow(s, w, key, row))
       PROVE  Waiting(a, txs, AddRow(s, w, key, row))
  <2> DEFINE iy == AddRow(s, w, key, row)
  <2>1. \A n \in DOMAIN q : Clear(q[n], iy)
    <3> SUFFICES ASSUME NEW n \in DOMAIN q PROVE Clear(q[n], iy)
      OBVIOUS
    <3> DEFINE x == order[n]
    <3>1. x # key /\ x[1] \in RowKinds /\ q[n] = CloseRow(s, w, x)
      BY <1>2, <1>3, <1>4
    <3> HIDE DEF x
    <3> QED BY <3>1, RowsClear
  <2> HIDE DEF iy
  <2>2. Ready(a, iy)
    BY <1>12 DEF iy
  <2>3. Waiting(a, txs, iy)
    BY <1>5, <1>10, <2>1, <2>2, SinglesWait
  <2> QED BY <2>3 DEF iy
<1> QED BY <1>11, <1>12

\* The additions of rows that are missing.
LEMMA AddingsLined ==
  ASSUME NEW a, NEW s, NEW w, NEW keys, NEW rows,
         \A key \in keys : \A row : Ready(a, AddRow(s, w, key, row)),
         NEW order, order = InOrder(s, keys), NEW txs,
         txs = [n \in DOMAIN order |-> Single(AddRow(s, w, order[n], rows[order[n]]))]
  PROVE  Lined(a, txs)
<1> DEFINE X == keys \cap PossibleRows(s)
           q == [n \in DOMAIN order |-> AddRow(s, w, order[n], rows[order[n]])]
<1>1. /\ order \in Seq(X)
      /\ \A i, j \in 1..Len(order) : order[i] = order[j] => i = j
  <2>1. /\ InOrder(s, keys) \in Seq(keys \cap PossibleRows(s))
        /\ \A key \in keys \cap PossibleRows(s) :
             \E n \in 1..Len(InOrder(s, keys)) : InOrder(s, keys)[n] = key
        /\ \A i, j \in 1..Len(InOrder(s, keys)) :
             InOrder(s, keys)[i] = InOrder(s, keys)[j] => i = j
    BY ONLY InOrderLists
  <2> QED BY <2>1
<1>2. \A key \in X : key \in keys /\ key[1] \in RowKinds
  BY CatalogueRows
<1> HIDE DEF X
<1>3. Len(order) \in Nat /\ DOMAIN order = 1..Len(order) /\ \A n \in DOMAIN order : order[n] \in X
  BY <1>1, LenProperties, ElementOfSeq
<1>4. DOMAIN q = DOMAIN order /\ q = [n \in DOMAIN q |-> q[n]]
      /\ \A n \in DOMAIN order : q[n] = AddRow(s, w, order[n], rows[order[n]])
  OBVIOUS
<1>5. txs = [n \in DOMAIN q |-> Single(q[n])] /\ DOMAIN txs = DOMAIN q
  OBVIOUS
<1> HIDE DEF q
<1>6. IsList(q)
  BY <1>3, <1>4, IntervalList
<1>7. Len(q) = Len(order)
  <2> DEFINE Y == {q[n] : n \in DOMAIN q}
  <2>1. q \in Seq(Y)
    BY <1>6 DEF IsList
  <2> HIDE DEF Y
  <2>2. DOMAIN q = 1..Len(q) /\ Len(q) \in Nat
    BY <2>1, LenProperties
  <2> QED BY <1>3, <1>4, <2>2
<1>8. \A n \in 1..Len(q) : Ready(a, q[n])
  BY <1>2, <1>3, <1>4, <1>7
<1>9. \A n, k \in 1..Len(q) : n # k => Clear(q[n], q[k])
  <2> SUFFICES ASSUME NEW n \in 1..Len(q), NEW k \in 1..Len(q), n # k
               PROVE  Clear(q[n], q[k])
    OBVIOUS
  <2> DEFINE x == order[n]
             y == order[k]
             c == rows[x]
             d == rows[y]
  <2>1. /\ x # y /\ x[1] \in RowKinds
        /\ q[n] = AddRow(s, w, x, c) /\ q[k] = AddRow(s, w, y, d)
    BY <1>1, <1>2, <1>3, <1>4, <1>7
  <2> HIDE DEF x, y, c, d
  <2> QED BY <2>1, RowsClear
<1>10. InLine(a, q)
  BY <1>6, <1>8, <1>9 DEF InLine
<1> QED BY <1>5, <1>10, SinglesLined

\* "Change preset" on a page that shows the strategy as it is.
LEMMA PresetAssured ==
  ASSUME AccountsOK(acct), Exists(acct, VaultOf(Vault)), DOMAIN page = Pages, NEW t \in Pages,
         PageOK(acct, page[t]), WorkOK(acct, page[t]), NEW name, StartPreset(t, name)
  PROVE  WorkOK(acct, page'[t])
<1>0. PICK shown \in Previews(t, name) : Start(t, PresetJob(t, name, shown))
  BY DEF StartPreset
<1> DEFINE s      == page[t].strategy
           w      == page[t].wallet
           seen   == page[t].seen
           rows   == seen \ shown
           order  == InOrder(s, rows)
           q      == Revocations(t, rows)
           adds   == IF name = "custom" THEN {} ELSE ToAdd(seen, shown)
           fresh  == Fresh(t) /\ Active(acct, s)
           asked  == [Idle EXCEPT !.kind = "preset", !.target = name, !.had = seen,
                                  !.shown = shown, !.todo = q, !.adding = adds, !.fresh = fresh]
           job    == [asked EXCEPT !.state = "running"]
<1>1. page' = [page EXCEPT ![t].job = job] /\ w # "none"
  BY <1>0 DEF Start, PresetJob
<1>2. DOMAIN page[t] = PageFields
  BY DEF PageOK
<1>3. page'[t].job = job /\ page'[t].strategy = s /\ page'[t].wallet = w
  <2> HIDE DEF job
  <2> QED BY <1>1, <1>2 DEF PageFields
<1>4. job.todo = q /\ job.adding = adds /\ job.state = "running"
  <2> HIDE DEF q, adds, fresh, seen
  <2> QED BY DEF Idle
<1>5. job.fresh => fresh
  <2> HIDE DEF fresh
  <2>1. job.fresh = fresh
    OBVIOUS
  <2> QED BY <2>1
<1>6. q = [n \in DOMAIN order |-> Single(CloseRow(s, w, order[n]))]
  BY DEF Revocations, Revoke
<1>7. s[1] = Vault
  BY <1>1 DEF WorkOK
<1> HIDE DEF job, q, order
<1>8. ASSUME job.fresh
      PROVE  Assured(acct, s, w, job)
  <2>1. seen = RowsOf(acct, s) /\ acct[VaultOf(Vault)].admin = w /\ Active(acct, s)
    BY <1>5, <1>8 DEF Fresh, UpToDate
  <2>2. adds \subseteq PossibleRows(s) /\ adds \cap seen = {}
    BY <1>0, PreviewPossible DEF ToAdd
  <2>3. \A key \in rows : Exists(acct, key)
    BY <2>1 DEF RowsOf, Exists
  <2>4. \A key \in adds : key[1] \in RowKinds /\ key[2] = s
    BY <2>2, CatalogueRows
  <2>5. \A key \in adds : ~Exists(acct, key)
    BY <2>1, <2>2, <2>4 DEF RowsOf, Exists, IsRow
  <2>6. \A key \in adds : \A row : Ready(acct, AddRow(s, w, key, row))
    <3> HIDE DEF s, w, seen, adds
    <3> QED BY <1>7, <2>1, <2>2, <2>5, AddRowReady
  <2>7. \A key \in adds : key \in PossibleRows(s) \ rows
    BY <2>2
  <2>8. order = InOrder(s, rows)
    BY DEF order
  <2> HIDE DEF rows, adds, s, w
  <2>9. /\ Lined(acct, q)
        /\ \A key : \A row : /\ key \in PossibleRows(s) \ rows
                             /\ Ready(acct, AddRow(s, w, key, row))
                             => Waiting(acct, q, AddRow(s, w, key, row))
    BY <1>6, <1>7, <2>1, <2>3, <2>8, ClosingsLined
  <2>10. \A key \in adds : \A row : Waiting(acct, q, AddRow(s, w, key, row))
    BY <2>6, <2>7, <2>9
  <2> QED BY <1>4, <2>9, <2>10 DEF Assured
<1> DEFINE p == page'[t]
<1> HIDE DEF s, w, fresh, adds, p
<1>9. p.job = job /\ p.strategy = s /\ p.wallet = w
  BY <1>3 DEF p
<1>10. WorkOK(acct, p)
  BY <1>4, <1>7, <1>8, <1>9 DEF WorkOK
<1> QED BY <1>10 DEF p

\* "Create strategy" on a page that knows the strategies there are.
LEMMA CreateAssured ==
  ASSUME AccountsOK(acct), Exists(acct, VaultOf(Vault)), DOMAIN page = Pages, NEW t \in Pages,
         PageOK(acct, page[t]), NEW name, NEW d, StartCreate(t, name, d)
  PROVE  WorkOK(acct, page'[t])
<1> DEFINE n      == page[t].count
           w      == page[t].wallet
           s      == <<Vault, n>>
           target == TargetRows(acct, name, s)
           others == FirstStrategies(n)
           ix     == CreateStrategy(s, w, d, others)
           tx     == Single(ix)
           adds   == IF name = "custom" THEN {} ELSE PossibleRows(s)
           fresh  == /\ Fresh(t) /\ Buildable(acct, name)
                     /\ \A u \in Strategies(acct) :
                          Active(acct, u) => acct[StrategyOf(u)].delegate # d
           job    == [Idle EXCEPT !.kind = "create", !.state = "running", !.target = name,
                                  !.shown = target, !.todo = <<tx>>, !.adding = adds,
                                  !.fresh = fresh]
<1>1. page' = [page EXCEPT ![t].strategy = s, ![t].seen = {}, ![t].job = job]
  BY DEF StartCreate
<1>2. DOMAIN page[t] = PageFields
  BY DEF PageOK
<1>3. page'[t].job = job /\ page'[t].strategy = s /\ page'[t].wallet = w
  <2> HIDE DEF job, s
  <2> QED BY <1>1, <1>2 DEF PageFields
<1>4. job.todo = <<tx>> /\ job.adding = adds /\ job.state = "running"
  <2> HIDE DEF tx, adds, target, fresh
  <2> QED BY DEF Idle
<1>5. job.fresh => fresh
  <2> HIDE DEF fresh
  <2>1. job.fresh = fresh
    OBVIOUS
  <2> QED BY <2>1
<1> HIDE DEF job
<1>6. ASSUME job.fresh
      PROVE  Accepts(acct, ix)
  <2>1. n = Count(acct) /\ acct[VaultOf(Vault)].admin = w
    BY <1>5, <1>6 DEF Fresh, UpToDate
  <2>2. ~Exists(acct, StrategyOf(s))
    <3> SUFFICES ASSUME Exists(acct, StrategyOf(s)) PROVE FALSE
      OBVIOUS
    <3>1. s \in StrategiesIn(acct, s[1]) /\ s[1] = Vault /\ s[2] = n
      BY DEF AccountsOK
    <3>2. Exists(acct, VaultOf(Vault)) /\ \E k \in 0..(n - 1) : s = <<Vault, k>>
      BY <2>1, <3>1 DEF StrategiesIn, StrategiesUpTo, Count
    <3>3. n \in Nat
      BY <2>1, <3>2 DEF AccountsOK, Count
    <3> HIDE DEF n
    <3> QED BY <3>2, <3>3
  <2>3. /\ ix.do = "create" /\ ix.role = "admin" /\ ix.wallet = w /\ ix.vault = Vault
        /\ ix.strategy = s /\ ix.key = d /\ ix.needs = {VaultOf(Vault)} /\ ix.close = {}
        /\ DOMAIN ix.init = {StrategyOf(s)} /\ ix.others = others
    BY DEF CreateStrategy, ByAdmin, Instruction, Row
  <2>4. \A u \in others : Active(acct, u) => acct[StrategyOf(u)].delegate # d
    <3>1. others = Strategies(acct)
      BY <2>1 DEF FirstStrategies, Strategies, StrategiesIn, Count
    <3> HIDE DEF others
    <3> QED BY <1>5, <1>6, <3>1
  <2>5. s[1] = Vault /\ s[2] = n /\ s = <<Vault, s[2]>>
    OBVIOUS
  <2>6. StrategyOf(s)[1] = "strategy"
    BY Addresses
  <2>7. acct[VaultOf(Vault)].count = n
    BY <2>1 DEF Count
  <2> HIDE DEF ix, s, others, n
  <2>8. Derived(ix)
    BY <2>3, <2>5, <2>6 DEF Derived, RowKinds
  <2>9. \A k \in ix.needs : Usable(acct, k)
    BY <2>3, Addresses DEF Usable
  <2>10. Signed(acct, ix)
    BY <2>1, <2>3 DEF Signed
  <2>11. DelegateFree(acct, ix)
    BY <2>3, <2>4 DEF DelegateFree
  <2>12. Guard(acct, ix)
    BY <2>3, <2>5, <2>7, <2>11 DEF Guard
  <2> QED BY <2>2, <2>3, <2>8, <2>9, <2>10, <2>12 DEF Accepts
<1>7. adds \subseteq PossibleRows(s) /\ s[1] = Vault
  OBVIOUS
<1>8. \E x, y : job.todo = <<Single(CreateStrategy(s, w, x, y))>>
                /\ (job.fresh => Accepts(acct, CreateStrategy(s, w, x, y)))
  BY <1>4, <1>6
<1> HIDE DEF s, w, tx, adds, ix
<1>9. job.fresh => Assured(acct, s, w, job)
  BY <1>4, <1>7, <1>8 DEF Assured
<1> DEFINE p == page'[t]
<1> HIDE DEF p, fresh, target
<1>10. p.job = job /\ p.strategy = s /\ p.wallet = w
  BY <1>3 DEF p
<1>11. WorkOK(acct, p)
  BY <1>4, <1>7, <1>9, <1>10 DEF WorkOK
<1> QED BY <1>11 DEF p

\* The additions of such a job are computed when nothing is left to revoke.
LEMMA AdditionsAssured ==
  ASSUME DOMAIN page = Pages, NEW t \in Pages, PageOK(acct, page[t]), WorkOK(acct, page[t]),
         BuildAdditions(t)
  PROVE  WorkOK(acct, page'[t])
<1> DEFINE s   == page[t].strategy
           w   == page[t].wallet
           job == page[t].job
           p   == page'[t]
<1>1. DOMAIN page[t] = PageFields /\ DOMAIN job = JobFields
  BY DEF PageOK
<1>2. job.state = "running" /\ job.todo = <<>> /\ job.adding # {}
  BY DEF BuildAdditions, Running, Todo
<1>3. CASE ~Buildable(acct, job.target)
  <2> DEFINE failed == [Idle EXCEPT !.state = "failed"]
  <2>1. page' = [page EXCEPT ![t].job = failed]
    BY <1>3 DEF BuildAdditions
  <2>2. ~failed.fresh
    BY DEF Idle
  <2> HIDE DEF failed
  <2>3. p.job = failed /\ p.wallet = w /\ p.strategy = s
    BY <1>1, <2>1 DEF PageFields
  <2> QED BY <2>2, <2>3 DEF WorkOK
<1>4. CASE Buildable(acct, job.target)
  <2>1. PICK order \in SetToSeqs(VaultMints(acct)) :
          page' = [page EXCEPT ![t].job.todo = Additions(t, order), ![t].job.adding = {}]
    BY <1>4 DEF BuildAdditions
  <2> DEFINE o    == IF job.kind = "create" THEN "obligation" ELSE "synthetic"
             rows == Preset(job.target, s, o, order)
             keys == job.adding \cap DOMAIN rows
             adds == InOrder(s, keys)
             q    == Additions(t, order)
  <2>2. q = [n \in DOMAIN adds |-> Single(AddRow(s, w, adds[n], rows[adds[n]]))]
    BY DEF Additions
  <2> HIDE DEF rows, q
  <2>3. /\ p.strategy = s /\ p.wallet = w
        /\ p.job = [job EXCEPT !.todo = q, !.adding = {}]
    BY <1>1, <2>1 DEF PageFields, JobFields, q
  <2>4. /\ p.job.todo = q /\ p.job.adding = {} /\ p.job.state = job.state
        /\ p.job.fresh = job.fresh
    <3> DEFINE k == p.job
    <3>1. k = [job EXCEPT !.todo = q, !.adding = {}]
      BY <2>3
    <3> HIDE DEF k
    <3>2. k.todo = q /\ k.adding = {} /\ k.state = job.state /\ k.fresh = job.fresh
      BY <1>1, <3>1 DEF JobFields
    <3> QED BY <3>2 DEF k
  <2>5. ASSUME Assured(acct, s, w, job) PROVE Lined(acct, q)
    <3>1. \A x : job.todo # <<x>>
      BY <1>2
    <3>2. \A key \in job.adding : \A row : Waiting(acct, job.todo, AddRow(s, w, key, row))
      BY <2>5, <3>1 DEF Assured
    <3>3. \A key \in keys : \A row : Ready(acct, AddRow(s, w, key, row))
      BY <3>2 DEF Waiting
    <3>4. adds = InOrder(s, keys)
      OBVIOUS
    <3> HIDE DEF s, w, keys, adds
    <3> QED BY <2>2, <3>3, <3>4, AddingsLined
  <2>6. WorkOK(acct, page[t])
    OBVIOUS
  <2> HIDE DEF p, s, w, job
  <2>7. /\ w # "none" => s[1] = Vault
        /\ job.fresh => Assured(acct, s, w, job)
    BY <1>2, <2>6 DEF WorkOK, s, w, job
  <2>8. job.fresh => Assured(acct, s, w, p.job)
    BY <2>4, <2>5, <2>7 DEF Assured
  <2>9. WorkOK(acct, p)
    BY <1>2, <2>3, <2>4, <2>7, <2>8 DEF WorkOK
  <2> QED BY <2>9 DEF p
<1> QED BY <1>3, <1>4

-----------------------------------------------------------------------------
(***************************************************************************)
(* The token panel: its instructions open accounts of their own, in slots  *)
(* that are handed out once.                                               *)
(***************************************************************************)
\* The active strategies, one by one.
LEMMA ActivesOnce ==
  ASSUME NEW a, Exists(a, VaultOf(Vault)), Count(a) \in Nat
  PROVE  /\ ActiveOf(a) \in Seq({s \in Strategies(a) : Active(a, s)})
         /\ \A s \in Strategies(a) : Active(a, s) =>
              \E k \in 1..Len(ActiveOf(a)) : ActiveOf(a)[k] = s
         /\ \A i, j \in 1..Len(ActiveOf(a)) : ActiveOf(a)[i] = ActiveOf(a)[j] => i = j
<1> DEFINE N    == Count(a)
           S    == {s \in Strategies(a) : Active(a, s)}
           all  == [n \in 1..N |-> <<Vault, n - 1>>]
           X    == Strategies(a)
           q    == ActiveOf(a)
<1>1. Strategies(a) = {<<Vault, k>> : k \in 0..(N - 1)}
  BY DEF Strategies, StrategiesIn, StrategiesUpTo, Count
<1>2. /\ all \in [1..N -> X] /\ \A n \in 1..N : all[n] = <<Vault, n - 1>>
      /\ \A s \in X : \E n \in 1..N : s = <<Vault, n - 1>>
  <2> HIDE DEF X, N
  <2>1. N \in Nat /\ X = {<<Vault, k>> : k \in 0..(N - 1)}
    BY <1>1 DEF N, X
  <2>2. \A n \in 1..N : n - 1 \in 0..(N - 1) /\ <<Vault, n - 1>> \in X
    BY <2>1
  <2>3. \A k \in 0..(N - 1) : k + 1 \in 1..N /\ (k + 1) - 1 = k
    BY <2>1
  <2>4. \A k \in 0..(N - 1) : \E n \in 1..N : n - 1 = k
    BY <2>3
  <2>5. \A s \in X : \E k \in 0..(N - 1) : s = <<Vault, k>>
    BY <2>1
  <2> QED BY <2>2, <2>4, <2>5
<1>3. \A n, k \in 1..N : all[n] = all[k] => n = k
  <2>1. \A n, k \in 1..N : <<Vault, n - 1>> = <<Vault, k - 1>> => n = k
    <3> HIDE DEF N
    <3> QED BY DEF N
  <2> HIDE DEF all
  <2> QED BY <1>2, <2>1
<1> HIDE DEF all
<1>4. all \in Seq(X) /\ Len(all) = N
  <2> HIDE DEF X, N
  <2>1. N \in Nat
    BY DEF N
  <2>2. all \in Seq(X)
    BY <1>2, <2>1, SeqDef
  <2>3. DOMAIN all = 1..N
    BY <1>2
  <2>4. DOMAIN all = 1..Len(all) /\ Len(all) \in Nat
    BY <2>2, LenProperties
  <2>5. Len(all) = N
    BY <2>1, <2>3, <2>4
  <2> QED BY <2>2, <2>5
<1>5. q = Among(all, S)
  BY DEF ActiveOf, all
<1> HIDE DEF q, S
<1>6. {all[n] : n \in 1..Len(all)} \cap S = S
  <2>1. S \subseteq X
    BY DEF S
  <2> HIDE DEF X
  <2>2. \A s \in S : \E n \in 1..N : s = all[n]
    BY <1>2, <2>1
  <2> QED BY <1>4, <2>2
<1>7. /\ Among(all, S) \in Seq({all[n] : n \in 1..Len(all)} \cap S)
      /\ \A x \in {all[n] : n \in 1..Len(all)} \cap S :
           \E k \in 1..Len(Among(all, S)) : Among(all, S)[k] = x
      /\ (\A n, k \in 1..Len(all) : all[n] = all[k] => n = k) =>
           \A i, j \in 1..Len(Among(all, S)) : Among(all, S)[i] = Among(all, S)[j] => i = j
  <2> HIDE DEF X
  <2>1. all \in Seq(X)
    BY <1>4
  <2> QED BY ONLY <2>1, AmongLists
<1>8. /\ q \in Seq(S) /\ \A x \in S : \E k \in 1..Len(q) : q[k] = x
      /\ \A i, j \in 1..Len(q) : q[i] = q[j] => i = j
  BY <1>3, <1>4, <1>5, <1>6, <1>7
<1> QED BY <1>8 DEF q, S

\* The free slots of a strategy, one by one.
LEMMA HandedOnce ==
  ASSUME NEW a, NEW s
  PROVE  /\ Handed(a, s) \in Seq(Slots \ SourceSlots(a, s))
         /\ \A x \in Slots \ SourceSlots(a, s) :
              \E i \in 1..Len(Handed(a, s)) : Handed(a, s)[i] = x
         /\ \A i, j \in 1..Len(Handed(a, s)) : Handed(a, s)[i] = Handed(a, s)[j] => i = j
<1> DEFINE S == Slots \ SourceSlots(a, s)
<1>1. S \in SUBSET Nat /\ IsFiniteSet(S)
  <2>1. Slots \in SUBSET Nat /\ IsFiniteSet(Slots)
    <3>1. 0..(MaxSources - 1) \in SUBSET Nat
      BY ConfigAssumption
    <3>2. IsFiniteSet(0..(MaxSources - 1))
      BY ConfigAssumption, FS_Interval
    <3> QED BY <3>1, <3>2 DEF Slots
  <2> QED BY <2>1, FS_Subset
<1> HIDE DEF S
<1>2. /\ Ascending(S) \in Seq(S)
      /\ \A i, j \in 1..Len(Ascending(S)) : i < j => Ascending(S)[i] < Ascending(S)[j]
      /\ \A x \in S : \E i \in 1..Len(Ascending(S)) : Ascending(S)[i] = x
  BY ONLY <1>1, AscendingLists
<1> DEFINE q == Ascending(S)
<1> HIDE DEF q
<1>3. /\ q \in Seq(S) /\ \A i, j \in 1..Len(q) : i < j => q[i] < q[j]
      /\ \A x \in S : \E i \in 1..Len(q) : q[i] = x
  BY <1>2 DEF q
<1>4. \A i \in 1..Len(q) : q[i] \in Nat
  BY <1>1, <1>3, ElementOfSeq
<1>5. Len(q) \in Nat
  BY <1>3, LenProperties
<1>6. ASSUME NEW i \in 1..Len(q), NEW j \in 1..Len(q), q[i] = q[j] PROVE i = j
  <2> DEFINE x == q[i]
             y == q[j]
  <2>1. x \in Nat /\ x = y
    BY <1>4, <1>6
  <2>2. (i < j => x < y) /\ (j < i => y < x)
    BY <1>3
  <2> HIDE DEF x, y
  <2>3. ~(i < j) /\ ~(j < i)
    BY <2>1, <2>2
  <2> QED BY <1>5, <2>3
<1>7. Handed(a, s) = q
  BY DEF Handed, S, q
<1> QED BY <1>3, <1>6, <1>7 DEF S

\* A list of ready instructions that initialise accounts of S, each of them once,
\* close none and ask for none of the vault's token list.
Opening(a, q, S) ==
  /\ InLine(a, q)
  /\ \A i \in 1..Len(q) :
       /\ q[i].close = {} /\ DOMAIN q[i].init \subseteq S
       /\ \A key \in q[i].needs : key[1] # "vault_allowed_token"

\* Instructions with accounts of their own are clear of each other.
LEMMA OpeningClear ==
  ASSUME NEW ix, NEW iy, ix.close = {}, NEW S, NEW T, S \cap T = {},
         DOMAIN ix.init \subseteq S, DOMAIN iy.init \subseteq T
  PROVE  Clear(ix, iy)
BY DEF Clear

\* Lists with accounts of their own, one after the other.
LEMMA OpeningConcat ==
  ASSUME NEW a, NEW q, NEW r, NEW S, NEW T, Opening(a, q, S), Opening(a, r, T), S \cap T = {}
  PROVE  Opening(a, q \o r, S \cup T)
<1> DEFINE t == q \o r
<1>1. ASSUME NEW i \in 1..Len(q), NEW j \in 1..Len(r)
      PROVE  Clear(q[i], r[j]) /\ Clear(r[j], q[i])
  <2> DEFINE x == q[i]
             y == r[j]
  <2>1. x.close = {} /\ y.close = {} /\ DOMAIN x.init \subseteq S /\ DOMAIN y.init \subseteq T
    BY DEF Opening
  <2> HIDE DEF x, y
  <2>2. Clear(x, y)
    BY <2>1, OpeningClear
  <2>3. T \cap S = {}
    OBVIOUS
  <2>4. Clear(y, x)
    BY <2>1, <2>3, OpeningClear
  <2> QED BY <2>2, <2>4 DEF x, y
<1>2. /\ InLine(a, t)
      /\ \A k \in 1..Len(t) : \/ \E i \in 1..Len(q) : t[k] = q[i]
                              \/ \E j \in 1..Len(r) : t[k] = r[j]
  <2>1. InLine(a, q) /\ InLine(a, r)
    BY DEF Opening
  <2> QED BY <1>1, <2>1, LinesConcat
<1> HIDE DEF t
<1>3. ASSUME NEW k \in 1..Len(t)
      PROVE  /\ t[k].close = {} /\ DOMAIN t[k].init \subseteq S \cup T
             /\ \A key \in t[k].needs : key[1] # "vault_allowed_token"
  <2>1. CASE \E i \in 1..Len(q) : t[k] = q[i]
    BY <2>1 DEF Opening
  <2>2. CASE \E j \in 1..Len(r) : t[k] = r[j]
    BY <2>2 DEF Opening
  <2> QED BY <1>2, <2>1, <2>2
<1>4. Opening(a, t, S \cup T)
  BY <1>2, <1>3 DEF Opening
<1> QED BY <1>4 DEF t

\* And any number of them, joined.
LEMMA OpeningJoin ==
  ASSUME NEW a, NEW N \in Nat, NEW q, DOMAIN q = 1..N, q = [n \in DOMAIN q |-> q[n]],
         NEW F, \A n \in 1..N : Opening(a, q[n], F[n]),
         \A n, k \in 1..N : n # k => F[n] \cap F[k] = {},
         NEW S, \A n \in 1..N : F[n] \subseteq S
  PROVE  Opening(a, FlattenSeq(q), S)
<1> DEFINE t == FlattenSeq(q)
<1>1. ASSUME NEW n \in 1..N, NEW k \in 1..N, n # k,
             NEW i \in 1..Len(q[n]), NEW j \in 1..Len(q[k])
      PROVE  Clear(q[n][i], q[k][j])
  <2> DEFINE x == q[n][i]
             y == q[k][j]
             X == F[n]
             Y == F[k]
  <2>1. x.close = {} /\ DOMAIN x.init \subseteq X /\ DOMAIN y.init \subseteq Y /\ X \cap Y = {}
    BY <1>1 DEF Opening
  <2> HIDE DEF x, y, X, Y
  <2>2. Clear(x, y)
    BY <2>1, OpeningClear
  <2> QED BY <2>2 DEF x, y
<1>2. \A n \in 1..N : InLine(a, q[n])
  BY DEF Opening
<1>3. /\ InLine(a, t)
      /\ \A p \in 1..Len(t) : \E n \in 1..N : \E i \in 1..Len(q[n]) : t[p] = q[n][i]
  <2>1. \A n, k \in 1..N : n # k =>
          \A i \in 1..Len(q[n]), j \in 1..Len(q[k]) : Clear(q[n][i], q[k][j])
    BY <1>1
  <2>2. Lines(a, q, N)
    BY <1>2, <2>1 DEF Lines
  <2>3. InLine(a, t) /\ DrawnFrom(t, q, N)
    BY <2>2, LinesJoin
  <2> QED BY <2>3 DEF DrawnFrom
<1> HIDE DEF t
<1>4. ASSUME NEW p \in 1..Len(t)
      PROVE  /\ t[p].close = {} /\ DOMAIN t[p].init \subseteq S
             /\ \A key \in t[p].needs : key[1] # "vault_allowed_token"
  <2>1. PICK n \in 1..N : \E i \in 1..Len(q[n]) : t[p] = q[n][i]
    BY <1>3
  <2>2. PICK i \in 1..Len(q[n]) : t[p] = q[n][i]
    BY <2>1
  <2>3. Opening(a, q[n], F[n]) /\ F[n] \subseteq S
    OBVIOUS
  <2> QED BY <2>2, <2>3 DEF Opening
<1>5. Opening(a, t, S)
  BY <1>3, <1>4 DEF Opening
<1> QED BY <1>5 DEF t

\* Lists of none, one and two instructions.
LEMMA OpeningFew ==
  ASSUME NEW a
  PROVE  /\ Opening(a, <<>>, {})
         /\ \A ix, S : /\ Ready(a, ix) /\ ix.close = {} /\ DOMAIN ix.init \subseteq S
                       /\ \A key \in ix.needs : key[1] # "vault_allowed_token"
                       => Opening(a, <<ix>>, S)
<1>1. Opening(a, <<>>, {})
  <2> DEFINE q == <<>>
  <2>1. 0 \in Nat /\ DOMAIN q = 1..0 /\ q = [n \in DOMAIN q |-> q[n]] /\ Len(q) = 0
    OBVIOUS
  <2> HIDE DEF q
  <2>2. IsList(q)
    BY <2>1, IntervalList
  <2>3. Opening(a, q, {})
    BY <2>1, <2>2 DEF Opening, InLine
  <2> QED BY <2>3 DEF q
<1>2. ASSUME NEW ix, NEW S, Ready(a, ix), ix.close = {}, DOMAIN ix.init \subseteq S,
             \A key \in ix.needs : key[1] # "vault_allowed_token"
      PROVE  Opening(a, <<ix>>, S)
  <2> DEFINE q == <<ix>>
  <2>1. DOMAIN q = 1..1 /\ q = [n \in DOMAIN q |-> q[n]] /\ Len(q) = 1 /\ q[1] = ix
    OBVIOUS
  <2> HIDE DEF q
  <2>2. IsList(q)
    BY <2>1, IntervalList
  <2>3. \A i \in 1..Len(q) : i = 1 /\ q[i] = ix
    BY <2>1
  <2>4. Opening(a, q, S)
    BY <1>2, <2>2, <2>3 DEF Opening, InLine
  <2> QED BY <2>4 DEF q
<1> QED BY <1>1, <1>2

\* A list of two.
LEMMA PairJoined ==
  ASSUME NEW x, NEW y
  PROVE  <<x, y>> = <<x>> \o <<y>>
<1> DEFINE p == <<x>>
           q == <<y>>
           c == p \o q
           d == <<x, y>>
           X == {x, y}
<1>1. p \in Seq(X) /\ Len(p) = 1 /\ p[1] = x /\ q \in Seq(X) /\ Len(q) = 1 /\ q[1] = y
  OBVIOUS
<1>2. d \in Seq(X) /\ Len(d) = 2 /\ d[1] = x /\ d[2] = y
  OBVIOUS
<1> HIDE DEF p, q, d, X
<1>3. c \in Seq(X) /\ Len(c) = 2 /\ c[1] = x /\ c[2] = y
  BY <1>1, ConcatProperties
<1> HIDE DEF c
<1>4. \A i \in 1..Len(d) : c[i] = d[i]
  BY <1>2, <1>3
<1>5. c = d
  BY <1>2, <1>3, <1>4, SeqEqual
<1> QED BY <1>5 DEF c, d, p, q

\* The rows the panel opens in a strategy for the n-th mint.
Turn(a, s, n) == {Handed(a, s)[j] : j \in {2 * n - 1, 2 * n} \cap DOMAIN Handed(a, s)}
Owned(a, s, n) == {SourceOf(s, slot) : slot \in Turn(a, s, n)}

\* Two turns of the panel write to different slots.
LEMMA TurnsApart ==
  ASSUME NEW a, NEW s, NEW u, NEW n \in Nat, NEW k \in Nat, s # u \/ n # k
  PROVE  Owned(a, s, n) \cap Owned(a, u, k) = {}
<1>1. CASE s # u
  <2>1. \A x \in Owned(a, s, n) : x[2] = s
    BY DEF Owned, SourceOf
  <2>2. \A x \in Owned(a, u, k) : x[2] = u
    BY DEF Owned, SourceOf
  <2> QED BY <1>1, <2>1, <2>2
<1>2. CASE s = u /\ n # k
  <2> DEFINE q == Handed(a, s)
             S == Slots \ SourceSlots(a, s)
  <2>1. q \in Seq(S) /\ \A i, j \in 1..Len(q) : q[i] = q[j] => i = j
    <3>1. /\ Handed(a, s) \in Seq(Slots \ SourceSlots(a, s))
          /\ \A x \in Slots \ SourceSlots(a, s) :
               \E i \in 1..Len(Handed(a, s)) : Handed(a, s)[i] = x
          /\ \A i, j \in 1..Len(Handed(a, s)) : Handed(a, s)[i] = Handed(a, s)[j] => i = j
      BY ONLY HandedOnce
    <3> QED BY <3>1
  <2> HIDE DEF S
  <2>2. DOMAIN q = 1..Len(q)
    BY <2>1, LenProperties
  <2>3. SUFFICES ASSUME NEW x \in Turn(a, s, n), x \in Turn(a, s, k) PROVE FALSE
    BY <1>2 DEF Owned, SourceOf
  <2> HIDE DEF q
  <2>4. PICK i \in DOMAIN q : i \in {2 * n - 1, 2 * n} /\ x = q[i]
    BY DEF Turn, q
  <2>5. PICK j \in DOMAIN q : j \in {2 * k - 1, 2 * k} /\ x = q[j]
    BY <2>3 DEF Turn, q
  <2>6. i = j
    BY <2>1, <2>2, <2>4, <2>5
  <2> QED BY <1>2, <2>4, <2>5, <2>6
<1> QED BY <1>1, <1>2

\* The instructions for one strategy and one mint.
LEMMA PlumbingOpens ==
  ASSUME NEW a, NEW s, NEW w, NEW m, NEW n \in Nat, Exists(a, VaultOf(s[1])),
         a[VaultOf(s[1])].admin = w, Active(a, s)
  PROVE  Opening(a, Plumbing(a, s, w, m, n), Owned(a, s, n))
<1> DEFINE free  == Handed(a, s)
           one   == 2 * n - 1
           two   == 2 * n
           x     == CreateTokenAccount(s, m)
           y     == AddValueSource(s, w, free[one], Balance(m, 0))
           z     == AddValueSource(s, w, free[two], Price(m, free[one]))
           S     == IF one \in DOMAIN free THEN {SourceOf(s, free[one])} ELSE {}
           T     == IF two \in DOMAIN free THEN {SourceOf(s, free[two])} ELSE {}
           q     == IF one \in DOMAIN free THEN <<x, y>> ELSE <<>>
           r     == IF two \in DOMAIN free THEN <<z>> ELSE <<>>
<1>1. Plumbing(a, s, w, m, n) = q \o r
  BY DEF Plumbing
<1>2. /\ \A j \in DOMAIN free : free[j] \in Slots \ SourceSlots(a, s)
      /\ \A i, j \in DOMAIN free : free[i] = free[j] => i = j
  <2>1. /\ Handed(a, s) \in Seq(Slots \ SourceSlots(a, s))
        /\ \A v \in Slots \ SourceSlots(a, s) :
             \E i \in 1..Len(Handed(a, s)) : Handed(a, s)[i] = v
        /\ \A i, j \in 1..Len(Handed(a, s)) : Handed(a, s)[i] = Handed(a, s)[j] => i = j
    BY ONLY HandedOnce
  <2>2. DOMAIN free = 1..Len(free) /\ \A j \in 1..Len(free) : free[j] \in Slots \ SourceSlots(a, s)
    BY <2>1, LenProperties, ElementOfSeq
  <2> QED BY <2>1, <2>2
<1>3. Owned(a, s, n) = S \cup T
  BY DEF Owned, Turn
<1>4. one # two
  OBVIOUS
<1> HIDE DEF free, one, two
<1>5. S \cap T = {}
  BY <1>2, <1>4 DEF SourceOf
<1>6. ASSUME NEW slot \in Slots \ SourceSlots(a, s), NEW row
      PROVE  /\ Ready(a, AddValueSource(s, w, slot, row))
             /\ AddValueSource(s, w, slot, row).close = {}
             /\ DOMAIN AddValueSource(s, w, slot, row).init = {SourceOf(s, slot)}
             /\ \A key \in AddValueSource(s, w, slot, row).needs : key[1] # "vault_allowed_token"
  <2> DEFINE key == SourceOf(s, slot)
             ix  == AddValueSource(s, w, slot, row)
  <2>1. ix = AddRow(s, w, key, row)
    BY DEF AddValueSource, AddRow
  <2>2. key \in PossibleRows(s)
    BY CatalogueRows
  <2>3. ~Exists(a, key)
    BY DEF SourceSlots
  <2>4. ix.close = {} /\ DOMAIN ix.init = {key} /\ ix.needs = {VaultOf(s[1]), StrategyOf(s)}
    BY DEF AddValueSource, OnStrategy, ByAdmin, Instruction, Row
  <2> HIDE DEF key
  <2>5. Ready(a, AddRow(s, w, key, row))
    BY <2>2, <2>3, AddRowReady
  <2> HIDE DEF ix
  <2>6. \A k \in ix.needs : k[1] # "vault_allowed_token"
    BY <2>4, Addresses
  <2> QED BY <2>1, <2>4, <2>5, <2>6 DEF ix, key
<1>7. /\ Ready(a, x) /\ x.close = {} /\ DOMAIN x.init = {}
      /\ \A key \in x.needs : key[1] # "vault_allowed_token"
  <2>1. /\ x.do = "configure" /\ x.role = "anyone" /\ x.needs = {} /\ x.close = {}
        /\ DOMAIN x.init = {}
    BY DEF CreateTokenAccount, Instruction, Empty
  <2> HIDE DEF x
  <2>2. Plain(x) /\ Derived(x) /\ Signed(a, x) /\ Guard(a, x)
    BY <2>1 DEF Plain, Derived, Signed, Guard
  <2> QED BY <2>1, <2>2 DEF Ready, Accepts
<1>8. one \in DOMAIN free =>
        /\ Ready(a, y) /\ y.close = {} /\ DOMAIN y.init = {SourceOf(s, free[one])}
        /\ \A key \in y.needs : key[1] # "vault_allowed_token"
  BY <1>2, <1>6
<1>9. two \in DOMAIN free =>
        /\ Ready(a, z) /\ z.close = {} /\ DOMAIN z.init = {SourceOf(s, free[two])}
        /\ \A key \in z.needs : key[1] # "vault_allowed_token"
  BY <1>2, <1>6
<1> HIDE DEF x, y, z
<1>10. Opening(a, q, S)
  <2>1. CASE one \notin DOMAIN free
    BY <2>1, OpeningFew
  <2>2. CASE one \in DOMAIN free
    <3> DEFINE F == {SourceOf(s, free[one])}
    <3>1. Opening(a, <<x>>, {})
      BY <1>7, OpeningFew
    <3>2. Opening(a, <<y>>, F)
      BY <1>8, <2>2, OpeningFew
    <3>3. S = F /\ q = <<x, y>>
      BY <2>2
    <3>4. <<x, y>> = <<x>> \o <<y>>
      BY PairJoined
    <3>5. {} \cup F = F
      OBVIOUS
    <3> HIDE DEF q, S, F
    <3>6. Opening(a, <<x>> \o <<y>>, {} \cup F)
      BY <3>1, <3>2, OpeningConcat
    <3> QED BY <3>3, <3>4, <3>5, <3>6
  <2> QED BY <2>1, <2>2
<1>11. Opening(a, r, T)
  BY <1>9, OpeningFew
<1> HIDE DEF q, r, S, T
<1>12. Opening(a, q \o r, S \cup T)
  BY <1>5, <1>10, <1>11, OpeningConcat
<1> QED BY <1>1, <1>3, <1>12

\* A mint that governance lists and the vault does not.
LEMMA ListingOpens ==
  ASSUME NEW a, NEW w, NEW m, Exists(a, VaultOf(Vault)), a[VaultOf(Vault)].admin = w,
         Exists(a, Listed(m)), ~Exists(a, VaultListed(Vault, m))
  PROVE  Opening(a, <<AddVaultAllowedToken(Vault, w, m)>>, {VaultListed(Vault, m)})
<1> DEFINE ix == AddVaultAllowedToken(Vault, w, m)
           v  == VaultOf(Vault)
           k  == Listed(m)
           l  == VaultListed(Vault, m)
<1>1. /\ ix.do = "configure" /\ ix.role = "admin" /\ ix.wallet = w /\ ix.vault = Vault
      /\ ix.needs = {v, k} /\ ix.close = {} /\ DOMAIN ix.init = {l}
  BY DEF AddVaultAllowedToken, ByAdmin, Instruction, Row
<1>2. v[1] = "vault" /\ k[1] = "allowed_token" /\ l[1] = "vault_allowed_token"
  BY DEF VaultOf, Listed, VaultListed
<1>3. Exists(a, v) /\ Exists(a, k) /\ ~Exists(a, l) /\ a[v].admin = w
  OBVIOUS
<1>4. v = VaultOf(ix.vault)
  BY <1>1
<1> HIDE DEF ix, v, k, l
<1>5. Plain(ix) /\ Derived(ix)
  BY <1>1, <1>2, <1>4 DEF Plain, Derived, RowKinds
<1>6. \A key \in ix.needs : Usable(a, key)
  BY <1>1, <1>2, <1>3 DEF Usable
<1>7. Signed(a, ix) /\ Guard(a, ix)
  BY <1>1, <1>3, <1>4 DEF Signed, Guard
<1>8. Ready(a, ix)
  BY <1>1, <1>3, <1>5, <1>6, <1>7 DEF Ready, Accepts
<1>9. Opening(a, <<ix>>, {l})
  BY <1>1, <1>2, <1>8, OpeningFew
<1> QED BY <1>9 DEF ix, l

\* What the panel adds for the n-th mint, in all active strategies.
Theirs(a, m, n) ==
  {VaultListed(Vault, m)} \cup UNION {Owned(a, s, n) : s \in {u \in Strategies(a) : Active(a, u)}}

\* The additions for one mint open that mint's row and slots of its turn.
LEMMA AdditionsOpen ==
  ASSUME NEW a, AccountsOK(a), NEW w, NEW m, NEW n \in Nat, Exists(a, VaultOf(Vault)),
         a[VaultOf(Vault)].admin = w, Exists(a, Listed(m)), ~Exists(a, VaultListed(Vault, m))
  PROVE  Opening(a, PanelAdditions(a, w, m, n), Theirs(a, m, n))
<1> DEFINE X == {u \in Strategies(a) : Active(a, u)}
           actives == ActiveOf(a)
           N == Len(actives)
           q == [k \in DOMAIN actives |-> Plumbing(a, actives[k], w, m, n)]
           F == [k \in DOMAIN actives |-> Owned(a, actives[k], n)]
           T == UNION {Owned(a, s, n) : s \in X}
           S == {VaultListed(Vault, m)}
<1>1. PanelAdditions(a, w, m, n) = <<AddVaultAllowedToken(Vault, w, m)>> \o FlattenSeq(q)
  BY DEF PanelAdditions, ForActive
<1>2. Count(a) \in Nat
  BY DEF AccountsOK, Count
<1>3. actives \in Seq(X) /\ \A i, j \in 1..N : actives[i] = actives[j] => i = j
  BY <1>2, ActivesOnce
<1>4. \A s \in X : s[1] = Vault /\ Active(a, s)
  BY DEF Strategies, StrategiesIn, StrategiesUpTo
<1> HIDE DEF X, actives
<1>5. N \in Nat /\ DOMAIN actives = 1..N /\ \A k \in 1..N : actives[k] \in X
  BY <1>3, LenProperties, ElementOfSeq
<1>6. /\ DOMAIN q = 1..N /\ q = [k \in DOMAIN q |-> q[k]]
      /\ \A k \in 1..N : q[k] = Plumbing(a, actives[k], w, m, n) /\ F[k] = Owned(a, actives[k], n)
  BY <1>5
<1> HIDE DEF N, q, F
<1>7. \A k \in 1..N : Opening(a, q[k], F[k])
  <2> TAKE k \in 1..N
  <2> DEFINE s == actives[k]
  <2>1. s[1] = Vault /\ Active(a, s)
    BY <1>4, <1>5
  <2> HIDE DEF s
  <2>2. Opening(a, Plumbing(a, s, w, m, n), Owned(a, s, n))
    BY <2>1, PlumbingOpens
  <2> QED BY <1>6, <2>2 DEF s
<1>8. \A k, l \in 1..N : k # l => F[k] \cap F[l] = {}
  <2> TAKE k, l \in 1..N
  <2> DEFINE s == actives[k]
             u == actives[l]
  <2>1. k # l => s # u
    BY <1>3
  <2>2. F[k] = Owned(a, s, n) /\ F[l] = Owned(a, u, n)
    BY <1>6
  <2> HIDE DEF s, u
  <2>3. s # u => Owned(a, s, n) \cap Owned(a, u, n) = {}
    BY TurnsApart
  <2> QED BY <2>1, <2>2, <2>3
<1>9. \A k \in 1..N : F[k] \subseteq T
  BY <1>5, <1>6
<1> HIDE DEF T
<1>10. Opening(a, FlattenSeq(q), T)
  BY <1>5, <1>6, <1>7, <1>8, <1>9, OpeningJoin
<1>11. S \cap T = {}
  <2>1. \A x \in T : x[1] = "source"
    BY DEF T, Owned, SourceOf
  <2>2. VaultListed(Vault, m)[1] # "source"
    BY DEF VaultListed
  <2> QED BY <2>1, <2>2
<1> DEFINE h == <<AddVaultAllowedToken(Vault, w, m)>>
           r == FlattenSeq(q)
<1>12. Opening(a, h, S)
  BY ListingOpens
<1> HIDE DEF S, h, r
<1>13. Opening(a, h \o r, S \cup T)
  BY <1>10, <1>11, <1>12, OpeningConcat DEF r
<1>14. S \cup T = Theirs(a, m, n)
  BY DEF S, T, X, Theirs
<1> QED BY <1>1, <1>13, <1>14 DEF h, r

\* The mints the panel adds or removes, one by one.
LEMMA PanelMints ==
  ASSUME NEW S \in SUBSET Mints
  PROVE  /\ Among(Alphabet, S) \in Seq(S)
         /\ \A m \in S : \E n \in 1..Len(Among(Alphabet, S)) : Among(Alphabet, S)[n] = m
         /\ \A i, j \in 1..Len(Among(Alphabet, S)) :
              Among(Alphabet, S)[i] = Among(Alphabet, S)[j] => i = j
<1> DEFINE list == Alphabet
           q == Among(list, S)
<1>1. list \in Seq(Mints) /\ IsInjective(list) /\ ToSet(list) = Mints
  BY ConsoleAssumption
<1>2. DOMAIN list = 1..Len(list)
  BY <1>1, LenProperties
<1>3. \A n, k \in 1..Len(list) : list[n] = list[k] => n = k
  BY <1>1, <1>2 DEF IsInjective
<1>4. {list[n] : n \in 1..Len(list)} \cap S = S
  BY <1>1, <1>2 DEF ToSet
<1> HIDE DEF list
<1>5. /\ Among(list, S) \in Seq({list[n] : n \in 1..Len(list)} \cap S)
      /\ \A x \in {list[n] : n \in 1..Len(list)} \cap S :
           \E k \in 1..Len(Among(list, S)) : Among(list, S)[k] = x
      /\ (\A n, k \in 1..Len(list) : list[n] = list[k] => n = k) =>
           \A i, j \in 1..Len(Among(list, S)) : Among(list, S)[i] = Among(list, S)[j] => i = j
  <2>1. list \in Seq(Mints)
    BY <1>1
  <2> QED BY ONLY <2>1, AmongLists
<1> HIDE DEF q
<1>6. /\ q \in Seq(S) /\ \A m \in S : \E n \in 1..Len(q) : q[n] = m
      /\ \A i, j \in 1..Len(q) : q[i] = q[j] => i = j
  BY <1>3, <1>4, <1>5 DEF q
<1> QED BY <1>6 DEF q, list

\* What the panel takes away is clear of what it adds.
LEMMA PanelInLine ==
  ASSUME NEW a, AccountsOK(a), NEW w, Exists(a, VaultOf(Vault)), a[VaultOf(Vault)].admin = w,
         NEW added \in SUBSET Mints, \A m \in added : Exists(a, Listed(m)) /\ ~Exists(a, VaultListed(Vault, m)),
         NEW removed \in SUBSET Mints, \A m \in removed : Exists(a, VaultListed(Vault, m))
  PROVE  InLine(a, PanelInstructions(a, w, added, removed))
<1> DEFINE new  == Among(Alphabet, added)
           gone == Among(Alphabet, removed)
           N    == Len(new)
           M    == Len(gone)
           q    == [n \in DOMAIN new |-> PanelAdditions(a, w, new[n], n)]
           F    == [n \in DOMAIN new |-> Theirs(a, new[n], n)]
           r    == PanelRemovals(w, removed)
           S    == UNION {F[n] : n \in DOMAIN new}
<1>1. PanelInstructions(a, w, added, removed) = FlattenSeq(q) \o r
  BY DEF PanelInstructions
<1>2. /\ new \in Seq(added) /\ \A i, j \in 1..N : new[i] = new[j] => i = j
      /\ gone \in Seq(removed) /\ \A i, j \in 1..M : gone[i] = gone[j] => i = j
  BY PanelMints
<1> HIDE DEF new, gone
<1>3. /\ N \in Nat /\ DOMAIN new = 1..N /\ \A n \in 1..N : new[n] \in added
      /\ M \in Nat /\ DOMAIN gone = 1..M /\ \A n \in 1..M : gone[n] \in removed
  BY <1>2, LenProperties, ElementOfSeq
<1>4. /\ DOMAIN q = 1..N /\ q = [n \in DOMAIN q |-> q[n]]
      /\ \A n \in 1..N : q[n] = PanelAdditions(a, w, new[n], n) /\ F[n] = Theirs(a, new[n], n)
  BY <1>3
<1>5. /\ DOMAIN r = 1..M /\ r = [n \in DOMAIN r |-> r[n]]
      /\ \A n \in 1..M : r[n] = RemoveVaultAllowedToken(Vault, w, gone[n])
  BY <1>3 DEF PanelRemovals, gone
<1> HIDE DEF q, F, r
<1>6. \A n \in 1..N : F[n] \subseteq S
  BY <1>3
<1> HIDE DEF N, M
<1>7. \A n \in 1..N : Opening(a, q[n], F[n])
  <2> TAKE n \in 1..N
  <2> DEFINE m == new[n]
  <2>1. Exists(a, Listed(m)) /\ ~Exists(a, VaultListed(Vault, m)) /\ n \in Nat
    BY <1>3
  <2> HIDE DEF m
  <2>2. Opening(a, PanelAdditions(a, w, m, n), Theirs(a, m, n))
    BY <2>1, AdditionsOpen
  <2> QED BY <1>4, <2>2 DEF m
<1>8. \A n, k \in 1..N : n # k => F[n] \cap F[k] = {}
  <2> SUFFICES ASSUME NEW n \in 1..N, NEW k \in 1..N, n # k, NEW x \in F[n], x \in F[k]
               PROVE  FALSE
    OBVIOUS
  <2> DEFINE b == new[n]
             c == new[k]
  <2>1. x \in Theirs(a, b, n) /\ x \in Theirs(a, c, k) /\ b # c /\ n \in Nat /\ k \in Nat
    BY <1>2, <1>3, <1>4 DEF N
  <2> HIDE DEF b, c
  <2>2. CASE x[1] = "vault_allowed_token"
    <3>1. \A s, i : \A y \in Owned(a, s, i) : y[1] = "source"
      BY DEF Owned, SourceOf
    <3>2. x = VaultListed(Vault, b) /\ x = VaultListed(Vault, c)
      BY <2>1, <2>2, <3>1 DEF Theirs
    <3> QED BY <2>1, <3>2 DEF VaultListed
  <2>3. CASE x[1] # "vault_allowed_token"
    <3>1. \A m : VaultListed(Vault, m)[1] = "vault_allowed_token"
      BY DEF VaultListed
    <3>2. PICK s : x \in Owned(a, s, n)
      BY <2>1, <2>3, <3>1 DEF Theirs
    <3>3. PICK u : x \in Owned(a, u, k)
      BY <2>1, <2>3, <3>1 DEF Theirs
    <3>4. Owned(a, s, n) \cap Owned(a, u, k) = {}
      BY <2>1, TurnsApart
    <3> QED BY <3>2, <3>3, <3>4
  <2> QED BY <2>2, <2>3
<1> DEFINE t == FlattenSeq(q)
<1> HIDE DEF S
<1>9. Opening(a, t, S)
  BY <1>3, <1>4, <1>6, <1>7, <1>8, OpeningJoin
<1> HIDE DEF t
<1>10. \A n \in 1..M : /\ Ready(a, r[n]) /\ r[n].close = {VaultListed(Vault, gone[n])}
                       /\ DOMAIN r[n].init = {} /\ r[n].needs = {VaultOf(Vault)}
  <2> TAKE n \in 1..M
  <2> DEFINE m  == gone[n]
             l  == VaultListed(Vault, m)
             v  == VaultOf(Vault)
             ix == RemoveVaultAllowedToken(Vault, w, m)
  <2>1. /\ ix.do = "configure" /\ ix.role = "admin" /\ ix.wallet = w /\ ix.vault = Vault
        /\ ix.needs = {v} /\ ix.close = {l} /\ DOMAIN ix.init = {}
    BY DEF RemoveVaultAllowedToken, ByAdmin, Instruction, Empty
  <2>2. v[1] = "vault" /\ l[1] = "vault_allowed_token"
    BY DEF VaultOf, VaultListed
  <2>3. Exists(a, v) /\ Exists(a, l) /\ a[v].admin = w
    BY <1>3
  <2>4. v = VaultOf(ix.vault)
    BY <2>1
  <2>5. r[n] = ix
    BY <1>5
  <2> HIDE DEF ix, v, l
  <2>6. Plain(ix) /\ Derived(ix)
    BY <2>1, <2>2, <2>4 DEF Plain, Derived
  <2>7. \A key \in ix.needs : Usable(a, key)
    BY <2>1, <2>2, <2>3 DEF Usable
  <2>8. Signed(a, ix) /\ Guard(a, ix)
    BY <2>1, <2>3, <2>4 DEF Signed, Guard
  <2>9. Ready(a, ix)
    BY <2>1, <2>3, <2>6, <2>7, <2>8 DEF Ready, Accepts
  <2> QED BY <2>1, <2>5, <2>9 DEF l, v
<1>11. \A n, k \in 1..M : n # k => Clear(r[n], r[k])
  <2> SUFFICES ASSUME NEW n \in 1..M, NEW k \in 1..M, n # k PROVE Clear(r[n], r[k])
    OBVIOUS
  <2> DEFINE x == r[n]
             y == r[k]
             b == gone[n]
             c == gone[k]
  <2>1. /\ x.close = {VaultListed(Vault, b)} /\ DOMAIN x.init = {}
        /\ y.close = {VaultListed(Vault, c)} /\ y.needs = {VaultOf(Vault)} /\ b # c
    BY <1>2, <1>10 DEF M
  <2> HIDE DEF x, y, b, c
  <2>2. Clear(x, y)
    BY <2>1 DEF Clear, VaultListed, VaultOf
  <2> QED BY <2>2 DEF x, y
<1>12. IsList(r)
  BY <1>3, <1>5, IntervalList
<1>13. Len(r) = M
  <2>1. r \in Seq({r[n] : n \in DOMAIN r})
    BY <1>12 DEF IsList
  <2>2. DOMAIN r = 1..Len(r) /\ Len(r) \in Nat
    BY <2>1, LenProperties
  <2> QED BY <1>3, <1>5, <2>2
<1>14. InLine(a, r)
  BY <1>10, <1>11, <1>12, <1>13 DEF InLine
<1>15. ASSUME NEW i \in 1..Len(t), NEW j \in 1..Len(r)
       PROVE  Clear(t[i], r[j]) /\ Clear(r[j], t[i])
  <2> DEFINE x == t[i]
             y == r[j]
             m == gone[j]
  <2>1. /\ x.close = {} /\ \A key \in x.needs : key[1] # "vault_allowed_token"
        /\ y.close = {VaultListed(Vault, m)} /\ DOMAIN y.init = {}
    BY <1>9, <1>10, <1>13 DEF Opening
  <2>2. VaultListed(Vault, m)[1] = "vault_allowed_token"
    BY DEF VaultListed
  <2> HIDE DEF x, y, m
  <2>3. Clear(x, y) /\ Clear(y, x)
    BY <2>1, <2>2 DEF Clear
  <2> QED BY <2>3 DEF x, y
<1>16. InLine(a, t)
  BY <1>9 DEF Opening
<1>17. InLine(a, t \o r)
  BY <1>14, <1>15, <1>16, LinesConcat
<1> QED BY <1>1, <1>17 DEF t

\* The token panel applied on a page that is up to date.
LEMMA TokensAssured ==
  ASSUME AccountsOK(acct), Exists(acct, VaultOf(Vault)), DOMAIN page = Pages, NEW t \in Pages,
         PageOK(acct, page[t]), WorkOK(acct, page[t]), NEW target \in SUBSET Mints,
         StartTokens(t, target)
  PROVE  WorkOK(acct, page'[t])
<1> DEFINE s       == page[t].strategy
           w       == page[t].wallet
           added   == target \ page[t].mints
           removed == page[t].mints \ target
           shown   == {pair \in Strategies(acct) \X added :
                         /\ Active(acct, pair[1]) /\ PricesPaired(acct, pair[1])
                         /\ pair[2] \notin MintsIn(acct, pair[1])}
           ixs     == PanelInstructions(acct, w, added, removed)
           q       == Chunked(ixs)
           fresh   == Fresh(t)
           asked   == [Idle EXCEPT !.kind = "tokens", !.shown = shown, !.todo = q, !.fresh = fresh]
           job     == [asked EXCEPT !.state = "running"]
<1>1. page' = [page EXCEPT ![t].job = job] /\ w # "none" /\ target \subseteq page[t].listed
  BY DEF StartTokens, Start
<1>2. DOMAIN page[t] = PageFields
  BY DEF PageOK
<1>3. page'[t].job = job /\ page'[t].strategy = s /\ page'[t].wallet = w
  <2> HIDE DEF job
  <2> QED BY <1>1, <1>2 DEF PageFields
<1>4. job.todo = q /\ job.adding = {} /\ job.state = "running"
  <2> HIDE DEF q, shown, fresh
  <2> QED BY DEF Idle
<1>5. job.fresh => fresh
  <2> HIDE DEF fresh
  <2>1. job.fresh = fresh
    OBVIOUS
  <2> QED BY <2>1
<1> HIDE DEF job
<1>6. ASSUME job.fresh
      PROVE  Lined(acct, q)
  <2>1. /\ page[t].mints = VaultMints(acct)
        /\ page[t].listed = {m \in Mints : Exists(acct, Listed(m))}
        /\ acct[VaultOf(Vault)].admin = w
    BY <1>5, <1>6 DEF Fresh, UpToDate
  <2>2. \A m \in added : Exists(acct, Listed(m)) /\ ~Exists(acct, VaultListed(Vault, m))
    BY <1>1, <2>1 DEF VaultMints
  <2>3. \A m \in removed : Exists(acct, VaultListed(Vault, m))
    BY <2>1 DEF VaultMints
  <2>4. added \in SUBSET Mints /\ removed \in SUBSET Mints
    BY <2>1 DEF VaultMints
  <2> HIDE DEF added, removed, w
  <2>5. InLine(acct, ixs)
    BY <2>1, <2>2, <2>3, <2>4, PanelInLine
  <2> HIDE DEF ixs
  <2> QED BY <2>5, ChunksLined
<1>7. w # "none" => s[1] = Vault
  BY DEF WorkOK
<1> DEFINE p == page'[t]
<1> HIDE DEF s, w, fresh, shown, q, p
<1>8. p.job = job /\ p.strategy = s /\ p.wallet = w
  BY <1>3 DEF p
<1>9. job.fresh => Assured(acct, s, w, job)
  BY <1>4, <1>6 DEF Assured
<1>10. WorkOK(acct, p)
  BY <1>4, <1>7, <1>8, <1>9 DEF WorkOK
<1> QED BY <1>10 DEF p

-----------------------------------------------------------------------------
(***************************************************************************)
(* Every step leaves the work of the pages assured.                        *)
(***************************************************************************)
\* The accounts a transaction goes through.
Stages(h, a, tx) ==
  /\ h[0] = a
  /\ \A k \in 1..Len(tx) : Accepts(h[k - 1], tx[k]) /\ h[k] = After(h[k - 1], tx[k])

\* A list of transactions that goes through has a state after each of them.
LEMMA RunStages ==
  ASSUME NEW a, NEW tx, Run(a, tx).ok
  PROVE  Len(tx) \in Nat /\ \E h : Stages(h, a, tx) /\ Run(a, tx).acct = h[Len(tx)]
<1> DEFINE N == Len(tx)
<1>1. N \in Nat
  BY RunIsChain
<1>2. PICK g : /\ g[0] = Outset(a)
               /\ \A k \in 1..N : g[k] = Executed(a, g[k - 1], tx[k])
               /\ Run(a, tx) = g[N]
  BY RunIsChain
<1> HIDE DEF N
<1>3. \A so, ix : Executed(a, so, ix).ok =>
        so.ok /\ Accepts(so.acct, ix) /\ Executed(a, so, ix).acct = After(so.acct, ix)
  <2> SUFFICES ASSUME NEW so, NEW ix, Executed(a, so, ix).ok
               PROVE  so.ok /\ Accepts(so.acct, ix)
                      /\ Executed(a, so, ix).acct = After(so.acct, ix)
    OBVIOUS
  <2>1. ~Failure(a).ok
    BY DEF Failure
  <2>2. so.ok /\ Accepts(so.acct, ix)
    BY <2>1 DEF Executed
  <2> DEFINE all == so.listed /\ ListsAll(so.acct, ix)
  <2>3. Executed(a, so, ix) = [ok |-> TRUE, acct |-> After(so.acct, ix), listed |-> all]
    BY <2>2 DEF Executed
  <2> HIDE DEF all
  <2> QED BY <2>2, <2>3
<1> DEFINE B == {d \in 0..N : ~g[N - d].ok}
<1>4. ASSUME B # {} PROVE FALSE
  <2>1. B \in SUBSET Nat
    OBVIOUS
  <2>2. \A d \in B : d \in 0..N /\ ~g[N - d].ok
    OBVIOUS
  <2>3. \A d \in 0..N : ~g[N - d].ok => d \in B
    OBVIOUS
  <2> HIDE DEF B
  <2>4. PICK d \in B : \A e \in B : d <= e
    BY <1>4, <2>1, LeastNat
  <2>5. N - 0 = N
    BY <1>1
  <2>6. g[N].ok
    BY <1>2 DEF N
  <2>7. d \in 0..N /\ d # 0
    BY <2>2, <2>5, <2>6
  <2>8. d - 1 \in 0..N /\ ~(d <= d - 1)
    BY <1>1, <2>7
  <2>9. g[N - (d - 1)].ok
    BY <2>3, <2>4, <2>8
  <2> DEFINE k == N - (d - 1)
  <2>10. k \in 1..N /\ k - 1 = N - d
    BY <1>1, <2>7
  <2> HIDE DEF k
  <2>11. g[k - 1].ok
    BY <1>2, <1>3, <2>9, <2>10 DEF k
  <2> QED BY <2>2, <2>10, <2>11
<1>5. \A k \in 0..N : g[k].ok
  <2> TAKE k \in 0..N
  <2>1. N - k \in 0..N /\ N - (N - k) = k
    BY <1>1
  <2>2. N - k \notin B
    BY <1>4
  <2> QED BY <2>1, <2>2
<1> DEFINE h == [k \in 0..N |-> g[k].acct]
<1>6. \A k \in 0..N : h[k] = g[k].acct
  OBVIOUS
<1>7. 0 \in 0..N /\ N \in 0..N /\ \A k \in 1..N : k \in 0..N /\ k - 1 \in 0..N
  BY <1>1
<1> HIDE DEF h
<1>8. h[0] = a
  BY <1>2, <1>6, <1>7 DEF Outset
<1>9. \A k \in 1..N : Accepts(h[k - 1], tx[k]) /\ h[k] = After(h[k - 1], tx[k])
  <2> TAKE k \in 1..N
  <2>1. g[k] = Executed(a, g[k - 1], tx[k]) /\ g[k].ok
    BY <1>2, <1>5, <1>7
  <2>2. h[k] = g[k].acct /\ h[k - 1] = g[k - 1].acct
    BY <1>6, <1>7
  <2> QED BY <1>3, <2>1, <2>2
<1>10. Run(a, tx).acct = h[N]
  BY <1>2, <1>6, <1>7
<1>11. Stages(h, a, tx)
  BY <1>8, <1>9 DEF Stages, N
<1> QED BY <1>1, <1>10, <1>11 DEF N

\* Vaults and strategies are never closed.
LEMMA VaultsStay ==
  ASSUME NEW a, NEW tx, Run(a, tx).ok, NEW key, key[1] \in {"vault", "strategy", "config"},
         Exists(a, key)
  PROVE  Exists(Run(a, tx).acct, key)
<1> DEFINE N == Len(tx)
<1>1. PICK h : Stages(h, a, tx) /\ Run(a, tx).acct = h[N]
  BY RunStages
<1>2. N \in Nat
  BY RunStages
<1>3. h[0] = a /\ \A k \in 1..N : Accepts(h[k - 1], tx[k]) /\ h[k] = After(h[k - 1], tx[k])
  BY <1>1 DEF Stages
<1> HIDE DEF N
<1>4. ASSUME NEW b, NEW ix, Accepts(b, ix), Exists(b, key)
      PROVE  Exists(After(b, ix), key)
  <2>1. key \notin ix.close
    BY <1>4 DEF Accepts, Derived
  <2> QED BY <1>4, <2>1, AfterDomain DEF Exists
<1> DEFINE B == {k \in 0..N : ~Exists(h[k], key)}
<1>5. ASSUME B # {} PROVE FALSE
  <2>1. B \in SUBSET Nat /\ (\A k \in B : k \in 0..N /\ ~Exists(h[k], key))
    OBVIOUS
  <2>2. \A k \in 0..N : k \notin B => Exists(h[k], key)
    OBVIOUS
  <2> HIDE DEF B
  <2>3. PICK k \in B : \A m \in B : k <= m
    BY <1>5, <2>1, LeastNat
  <2>4. k \in 0..N /\ k # 0
    BY <1>3, <2>1
  <2>5. k \in 1..N /\ k - 1 \in 0..N /\ ~(k <= k - 1)
    BY <1>2, <2>4
  <2>6. Exists(h[k - 1], key)
    BY <2>2, <2>3, <2>5
  <2> QED BY <1>3, <1>4, <2>1, <2>5, <2>6
<1>6. Exists(h[N], key)
  <2>1. N \in 0..N
    BY <1>2
  <2> QED BY <1>5, <2>1
<1> QED BY <1>1, <1>6

\* The vault, once initialised, is never closed.
LEMMA VaultThere ==
  ASSUME Exists(acct, VaultOf(Vault)), Stays \/ Sent
  PROVE  Exists(acct', VaultOf(Vault))
<1>1. CASE Stays
  BY <1>1 DEF Stays
<1>2. CASE Sent
  <2>1. PICK tx : Run(acct, tx).ok /\ Lands(Run(acct, tx))
    BY <1>2 DEF Sent
  <2>2. acct' = Run(acct, tx).acct /\ VaultOf(Vault)[1] = "vault"
    BY <2>1, Addresses DEF Lands
  <2>3. Exists(Run(acct, tx).acct, VaultOf(Vault))
    BY <2>1, <2>2, VaultsStay
  <2> QED BY <2>2, <2>3
<1> QED BY <1>1, <1>2

\* A page whose job is idle, has been overtaken or has failed.
LEMMA WorkIdle ==
  ASSUME NEW a, NEW p, p.wallet # "none" => p.strategy[1] = Vault,
         ~p.job.fresh \/ p.job.state \notin {"running", "refused"}
  PROVE  WorkOK(a, p)
BY DEF WorkOK

\* A page whose picture has been overtaken has no work that must go through.
LEMMA WorkOvertaken ==
  ASSUME NEW a, NEW b, NEW p, DOMAIN p = PageFields, DOMAIN p.job = JobFields, WorkOK(a, p)
  PROVE  WorkOK(b, Overtaken(p))
<1> DEFINE q == Overtaken(p)
<1>1. CASE p.job.state = "running"
  <2> DEFINE r == [p EXCEPT !.job.fresh = FALSE, !.job.raced = TRUE]
  <2>1. ~r.job.fresh /\ r.wallet = p.wallet /\ r.strategy = p.strategy
    BY DEF PageFields, JobFields
  <2>2. q = r
    BY <1>1 DEF Overtaken
  <2> HIDE DEF q, r
  <2>3. WorkOK(b, q)
    BY <2>1, <2>2 DEF WorkOK
  <2> QED BY <2>3 DEF q
<1>2. CASE p.job.state # "running"
  <2> DEFINE r == [p EXCEPT !.job = Idle]
  <2>1. ~r.job.fresh /\ r.wallet = p.wallet /\ r.strategy = p.strategy
    BY DEF PageFields, Idle
  <2>2. q = r
    BY <1>2 DEF Overtaken
  <2> HIDE DEF q, r
  <2>3. WorkOK(b, q)
    BY <2>1, <2>2 DEF WorkOK
  <2> QED BY <2>3 DEF q
<1> QED BY <1>1, <1>2

\* A step of one page that leaves the accounts alone.
LEMMA WorkOfOne ==
  ASSUME JobsInv, WorkInv, NEW t \in Pages, NEW p, page' = [page EXCEPT ![t] = p],
         WorkOK(acct, p), UNCHANGED acct
  PROVE  WorkInv'
<1>1. \A u \in Pages : page'[u] = IF u = t THEN p ELSE page[u]
  BY DEF JobsInv
<1>2. acct' = acct
  OBVIOUS
<1>3. \A u \in Pages : WorkOK(acct', page'[u])
  <2>1. \A u \in Pages : WorkOK(acct, IF u = t THEN p ELSE page[u])
    BY DEF WorkInv
  <2> QED BY <1>1, <1>2, <2>1
<1> QED BY <1>2, <1>3 DEF WorkInv

\* A transaction overtakes the jobs of the other pages.
LEMMA WorkOfOthers ==
  ASSUME JobsInv, WorkInv, NEW t \in Pages, NEW p, OnPage(t, p), Stays \/ Sent, WorkOK(acct', p)
  PROVE  WorkInv'
<1>1. \A u \in Pages : page'[u] = IF u = t THEN p ELSE Overtaken(page[u])
  BY DEF OnPage
<1>2. \A u \in Pages : WorkOK(acct', Overtaken(page[u]))
  <2> SUFFICES ASSUME NEW u \in Pages PROVE WorkOK(acct', Overtaken(page[u]))
    OBVIOUS
  <2> DEFINE q == page[u]
  <2>1. DOMAIN q = PageFields /\ DOMAIN q.job = JobFields /\ WorkOK(acct, q)
    BY DEF JobsInv, PageOK, WorkInv
  <2> HIDE DEF q
  <2>2. WorkOK(acct', Overtaken(q))
    BY <2>1, WorkOvertaken
  <2> QED BY <2>2 DEF q
<1>3. \A u \in Pages : WorkOK(acct', page'[u])
  BY <1>1, <1>2
<1>4. Exists(acct', VaultOf(Vault))
  BY VaultThere DEF WorkInv
<1> QED BY <1>3, <1>4 DEF WorkInv

\* So do those of governance, of scripts and of other clients.
LEMMA WorkOfNone ==
  ASSUME JobsInv, WorkInv, page' = [u \in Pages |-> Overtaken(page[u])], Stays \/ Sent
  PROVE  WorkInv'
<1>1. \A u \in Pages : WorkOK(acct', Overtaken(page[u]))
  <2> SUFFICES ASSUME NEW u \in Pages PROVE WorkOK(acct', Overtaken(page[u]))
    OBVIOUS
  <2> DEFINE q == page[u]
  <2>1. DOMAIN q = PageFields /\ DOMAIN q.job = JobFields /\ WorkOK(acct, q)
    BY DEF JobsInv, PageOK, WorkInv
  <2> HIDE DEF q
  <2>2. WorkOK(acct', Overtaken(q))
    BY <2>1, WorkOvertaken
  <2> QED BY <2>2 DEF q
<1>2. \A u \in Pages : WorkOK(acct', page'[u])
  BY <1>1
<1>3. Exists(acct', VaultOf(Vault))
  BY VaultThere DEF WorkInv
<1> QED BY <1>2, <1>3 DEF WorkInv

\* The next transaction of a fresh job goes through.
LEMMA FreshGoesOn ==
  ASSUME AccountsOK(acct), JobsInv, WorkInv, NEW t \in Pages, Running(t), Todo(t) # <<>>,
         page[t].job.fresh
  PROVE  Run(acct, Head(Todo(t))).ok /\ WorkOK(Run(acct, Head(Todo(t))).acct, Advance(t))
<1> DEFINE job == page[t].job
           s   == page[t].strategy
           w   == page[t].wallet
           p   == Advance(t)
           k   == [job EXCEPT !.todo = Tail(@), !.raced = FALSE]
           b   == Run(acct, Head(job.todo)).acct
<1>1. DOMAIN page[t] = PageFields /\ DOMAIN job = JobFields /\ WorkOK(acct, page[t])
  BY DEF JobsInv, PageOK, WorkInv
<1>2. p.job = k /\ p.strategy = s /\ p.wallet = w
  BY <1>1 DEF Advance, PageFields, JobFields
<1>3. job.state = "running" /\ job.todo # <<>> /\ job.fresh
  BY DEF Running, Todo
<1>4. Assured(acct, s, w, job) /\ (w # "none" => s[1] = Vault)
  BY <1>1, <1>3 DEF WorkOK
<1> HIDE DEF job, s, w, p
<1>5. Run(acct, Head(job.todo)).ok /\ Assured(b, s, w, k)
  BY <1>1, <1>3, <1>4, WorkGoesOn
<1>6. k.state = "running"
  BY <1>1, <1>3 DEF JobFields
<1> HIDE DEF k, b
<1>7. WorkOK(b, p)
  BY <1>2, <1>4, <1>5, <1>6 DEF WorkOK
<1> QED BY <1>5, <1>7 DEF b, p, job, Todo

\* A page that goes on or stops, and is not fresh.
LEMMA StaleGoesOn ==
  ASSUME JobsInv, WorkInv, NEW t \in Pages, NEW b
  PROVE  /\ ~page[t].job.fresh => WorkOK(b, Advance(t))
         /\ \A state : ~page[t].job.fresh \/ state = "failed" => WorkOK(b, Stopped(t, state))
<1> DEFINE job == page[t].job
<1>1. DOMAIN page[t] = PageFields /\ DOMAIN job = JobFields /\ WorkOK(acct, page[t])
  BY DEF JobsInv, PageOK, WorkInv
<1>2. /\ Advance(t).job.fresh = job.fresh
      /\ Advance(t).strategy = page[t].strategy /\ Advance(t).wallet = page[t].wallet
  BY <1>1 DEF Advance, PageFields, JobFields
<1>3. \A state : /\ Stopped(t, state).job.fresh = job.fresh
                 /\ Stopped(t, state).job.state = state
                 /\ Stopped(t, state).strategy = page[t].strategy
                 /\ Stopped(t, state).wallet = page[t].wallet
  <2> TAKE state
  <2> DEFINE fresh == job.fresh
             k == [Idle EXCEPT !.state = state, !.fresh = fresh]
  <2>1. k.state = state /\ k.fresh = fresh
    <3> HIDE DEF fresh
    <3> QED BY DEF Idle
  <2>2. Stopped(t, state) = [page[t] EXCEPT !.job = k]
    BY DEF Stopped
  <2> HIDE DEF k
  <2> QED BY <1>1, <2>1, <2>2 DEF PageFields
<1>4. page[t].wallet # "none" => page[t].strategy[1] = Vault
  BY <1>1 DEF WorkOK
<1> QED BY <1>2, <1>3, <1>4, WorkIdle

\* The work after an action of one page.
LEMMA WorkOfPage ==
  ASSUME AccountsOK(acct), JobsInv, WorkInv, NEW t \in Pages,
         \/ \E w \in {Admin}, s \in Strategies(acct), failed \in {{}, {"action"}} :
              LoadPage(t, w, s, failed)
         \/ RefreshPage(t)
         \/ \E name \in Presets : StartPreset(t, name) \/ \E d \in Agents : StartCreate(t, name, d)
         \/ \E target \in SUBSET Mints : StartTokens(t, target)
         \/ BuildAdditions(t) \/ Send(t) \/ FailUnnoticed(t) \/ AnswerLost(t)
         \/ CloseTab(t) \/ Finish(t)
         \/ EditActions(t) \/ EditAutoActions(t) \/ EditSources(t) \/ EditDelegate(t)
         \/ Deactivate(t) \/ ProposeSuccessor(t)
  PROVE  WorkInv'
<1> DEFINE p == page[t]
<1>0. /\ DOMAIN page = Pages /\ PageOK(acct, p) /\ DOMAIN p = PageFields /\ DOMAIN p.job = JobFields
      /\ WorkOK(acct, p) /\ (p.wallet # "none" => p.strategy[1] = Vault)
      /\ Exists(acct, VaultOf(Vault))
  BY DEF JobsInv, PageOK, WorkInv, WorkOK
<1>s. Stays \/ Sent
  BY PageSends
<1>a. ASSUME UNCHANGED acct, DOMAIN page' = Pages, \A u \in Pages \ {t} : page'[u] = page[u],
             WorkOK(acct, page'[t])
      PROVE  WorkInv'
  <2>1. \A u \in Pages : WorkOK(acct, page'[u])
    BY <1>a DEF WorkInv
  <2>2. acct' = acct
    BY <1>a
  <2>3. \A u \in Pages : WorkOK(acct', page'[u])
    BY <2>1, <2>2
  <2> QED BY <1>0, <2>2, <2>3 DEF WorkInv
<1>1. CASE \E w \in {Admin}, s \in Strategies(acct), failed \in {{}, {"action"}} :
             LoadPage(t, w, s, failed)
  <2>1. PICK w \in {Admin}, s \in Strategies(acct), failed \in {{}, {"action"}} :
          LoadPage(t, w, s, failed)
    BY <1>1
  <2> DEFINE seen   == {key \in RowsOf(acct, s) : ~IsRow(key, failed)}
             mints  == VaultMints(acct)
             listed == {m \in Mints : Exists(acct, Listed(m))}
             n      == Count(acct)
             idle   == Idle
             q      == [wallet |-> w, strategy |-> s, seen |-> seen, mints |-> mints,
                        listed |-> listed, count |-> n, job |-> idle]
  <2>2. page' = [page EXCEPT ![t] = q] /\ UNCHANGED acct
    BY <2>1 DEF LoadPage
  <2>3. ~idle.fresh
    BY DEF Idle
  <2>4. s[1] = Vault
    BY DEF Strategies, StrategiesIn, StrategiesUpTo
  <2> HIDE DEF idle, seen, mints, listed, n
  <2>5. q.job = idle /\ q.strategy = s
    OBVIOUS
  <2> HIDE DEF q
  <2>6. WorkOK(acct, q)
    BY <2>3, <2>4, <2>5, WorkIdle
  <2> QED BY <2>2, <2>6, WorkOfOne
<1>2. CASE RefreshPage(t)
  <2> DEFINE q == Reread(t)
  <2>1. page' = [page EXCEPT ![t] = q] /\ UNCHANGED acct
    BY <1>2 DEF RefreshPage
  <2>2. q.job = p.job /\ q.strategy = p.strategy /\ q.wallet = p.wallet
    BY <1>0 DEF Reread, PageFields
  <2> HIDE DEF q, p
  <2>3. WorkOK(acct, q)
    BY <1>0, <2>2 DEF WorkOK
  <2> QED BY <2>1, <2>3, WorkOfOne
<1>3. ASSUME NEW name, StartPreset(t, name)
      PROVE  WorkInv'
  <2>1. WorkOK(acct, page'[t])
    BY <1>0, <1>3, PresetAssured
  <2>2. UNCHANGED acct /\ DOMAIN page' = Pages /\ \A u \in Pages \ {t} : page'[u] = page[u]
    BY <1>0, <1>3 DEF StartPreset, Start
  <2> QED BY <1>a, <2>1, <2>2
<1>4. ASSUME NEW name, NEW d, StartCreate(t, name, d)
      PROVE  WorkInv'
  <2>1. WorkOK(acct, page'[t])
    BY <1>0, <1>4, CreateAssured
  <2>2. UNCHANGED acct /\ DOMAIN page' = Pages /\ \A u \in Pages \ {t} : page'[u] = page[u]
    BY <1>0, <1>4 DEF StartCreate
  <2> QED BY <1>a, <2>1, <2>2
<1>5. ASSUME NEW target \in SUBSET Mints, StartTokens(t, target)
      PROVE  WorkInv'
  <2>1. WorkOK(acct, page'[t])
    BY <1>0, <1>5, TokensAssured
  <2>2. PICK job : Start(t, job)
    BY <1>5 DEF StartTokens
  <2>3. UNCHANGED acct /\ DOMAIN page' = Pages /\ \A u \in Pages \ {t} : page'[u] = page[u]
    BY <1>0, <2>2 DEF Start
  <2> QED BY <1>a, <2>1, <2>3
<1>6. CASE BuildAdditions(t)
  <2>1. WorkOK(acct, page'[t])
    BY <1>0, <1>6, AdditionsAssured
  <2>2. UNCHANGED acct /\ DOMAIN page' = Pages /\ \A u \in Pages \ {t} : page'[u] = page[u]
    BY <1>0, <1>6 DEF BuildAdditions
  <2> QED BY <1>a, <2>1, <2>2
<1>7. CASE Send(t)
  <2> DEFINE r == Run(acct, Head(Todo(t)))
             q == Advance(t)
  <2>0. Running(t) /\ Todo(t) # <<>>
    BY <1>7 DEF Send
  <2>1. CASE r.ok
    <3>1. acct' = r.acct /\ OnPage(t, q)
      BY <1>7, <2>1 DEF Send, Lands
    <3>2. WorkOK(r.acct, q)
      BY <2>0, FreshGoesOn, StaleGoesOn
    <3> HIDE DEF r, q
    <3>3. WorkOK(acct', q)
      BY <3>1, <3>2
    <3> QED BY <1>s, <3>1, <3>3, WorkOfOthers
  <2>2. CASE ~r.ok
    <3> DEFINE k == Stopped(t, "refused")
    <3>1. page' = [page EXCEPT ![t] = k] /\ UNCHANGED acct
      BY <1>7, <2>2 DEF Send
    <3>2. ~page[t].job.fresh
      BY <2>0, <2>2, FreshGoesOn
    <3>3. WorkOK(acct, k)
      BY <3>2, StaleGoesOn
    <3> HIDE DEF k
    <3> QED BY <3>1, <3>3, WorkOfOne
  <2> QED BY <2>1, <2>2
<1>8. CASE FailUnnoticed(t)
  <2> DEFINE q == Advance(t)
  <2>1. /\ page' = [page EXCEPT ![t] = q] /\ UNCHANGED acct
        /\ Running(t) /\ Todo(t) # <<>> /\ ~Run(acct, Head(Todo(t))).ok
    BY <1>8 DEF FailUnnoticed
  <2>2. ~page[t].job.fresh
    BY <2>1, FreshGoesOn
  <2>3. WorkOK(acct, q)
    BY <2>2, StaleGoesOn
  <2> HIDE DEF q
  <2> QED BY <2>1, <2>3, WorkOfOne
<1>9. CASE AnswerLost(t)
  <2> DEFINE q == Stopped(t, "failed")
  <2>1. OnPage(t, q) \/ (page' = [page EXCEPT ![t] = q] /\ UNCHANGED acct)
    BY <1>9 DEF AnswerLost
  <2>2. \A b : WorkOK(b, q)
    BY StaleGoesOn
  <2> HIDE DEF q
  <2>3. WorkOK(acct, q) /\ WorkOK(acct', q)
    BY <2>2
  <2> QED BY <1>s, <2>1, <2>3, WorkOfOne, WorkOfOthers
<1>10. CASE CloseTab(t)
  <2> DEFINE q == Closed
  <2>1. page' = [page EXCEPT ![t] = q] /\ UNCHANGED acct
    BY <1>10 DEF CloseTab
  <2>2. q.wallet = "none" /\ ~q.job.fresh
    BY DEF Closed, Idle
  <2> HIDE DEF q
  <2>3. WorkOK(acct, q)
    BY <2>2, WorkIdle
  <2> QED BY <2>1, <2>3, WorkOfOne
<1>11. CASE Finish(t)
  <2> DEFINE q == page'[t]
             job == p.job
             k == [job EXCEPT !.state = "applied"]
  <2>1. q.job = k /\ q.strategy = p.strategy /\ q.wallet = p.wallet
    <3>1. CASE job.kind = "tokens"
      BY <1>0, <1>11, <3>1 DEF Finish, PageFields, JobFields
    <3>2. CASE job.kind # "tokens"
      BY <1>0, <1>11, <3>2 DEF Finish, Reread, PageFields, JobFields
    <3> QED BY <3>1, <3>2
  <2>2. k.state = "applied"
    <3> HIDE DEF job
    <3> QED BY <1>0 DEF JobFields, job
  <2>3. UNCHANGED acct /\ DOMAIN page' = Pages /\ \A u \in Pages \ {t} : page'[u] = page[u]
    BY <1>0, <1>11 DEF Finish
  <2> HIDE DEF q, k, p
  <2>4. WorkOK(acct, q)
    BY <1>0, <2>1, <2>2, WorkIdle
  <2> QED BY <1>a, <2>3, <2>4 DEF q
<1>12. ASSUME NEW q, OnPage(t, q), ~q.job.fresh, q.strategy = p.strategy, q.wallet = p.wallet
       PROVE  WorkInv'
  <2>1. q.wallet # "none" => q.strategy[1] = Vault
    BY <1>0, <1>12
  <2>2. WorkOK(acct', q)
    BY <1>12, <2>1, WorkIdle
  <2> QED BY <1>s, <1>12, <2>2, WorkOfOthers
<1>13. CASE EditActions(t)
  <2> DEFINE q == ActionsReread(t)
  <2>1. OnPage(t, q)
    BY <1>13 DEF EditActions
  <2>2. q.job = Idle /\ q.strategy = p.strategy /\ q.wallet = p.wallet
    BY <1>0 DEF ActionsReread, PageFields
  <2>3. ~Idle.fresh
    BY DEF Idle
  <2> HIDE DEF q
  <2> QED BY <1>12, <2>1, <2>2, <2>3
<1>14. ASSUME NEW ixs, Submits(t, ixs)
       PROVE  WorkInv'
  <2> DEFINE q == OnlyCount(t)
  <2>1. OnPage(t, q)
    BY <1>14 DEF Submits
  <2>2. q.job = Idle /\ q.strategy = p.strategy /\ q.wallet = p.wallet
    BY <1>0 DEF OnlyCount, PageFields
  <2>3. ~Idle.fresh
    BY DEF Idle
  <2> HIDE DEF q
  <2> QED BY <1>12, <2>1, <2>2, <2>3
<1>15. CASE \/ EditAutoActions(t) \/ EditSources(t) \/ EditDelegate(t)
            \/ Deactivate(t) \/ ProposeSuccessor(t)
  BY <1>14, <1>15
    DEF EditAutoActions, EditSources, EditDelegate, Deactivate, ProposeSuccessor
<1> QED BY <1>1, <1>2, <1>3, <1>4, <1>5, <1>6, <1>7, <1>8, <1>9, <1>10, <1>11, <1>13, <1>15

\* So with every step of the console.
LEMMA WorkKept ==
  ASSUME AccountsOK(acct), JobsInv, WorkInv, ConsoleNext
  PROVE  WorkInv'
<1>1. CASE Elsewhere
  <2>1. page' = [u \in Pages |-> Overtaken(page[u])]
    BY <1>1 DEF Elsewhere
  <2>2. Stays \/ Sent
    BY ConsoleSends
  <2> QED BY <2>1, <2>2, WorkOfNone
<1> QED BY <1>1, WorkOfPage DEF ConsoleNext

\* What is ready does not depend on how an action's cooldown stands.
LEMMA ReadyElapses ==
  ASSUME NEW a, NEW b, DOMAIN b = DOMAIN a,
         \A key \in DOMAIN a : key[1] # "action" => b[key] = a[key]
  PROVE  /\ \A ix : Ready(a, ix) => Ready(b, ix)
         /\ \A s, w, d, others : Accepts(a, CreateStrategy(s, w, d, others)) =>
              Accepts(b, CreateStrategy(s, w, d, others))
<1>1. \A key : Exists(b, key) <=> Exists(a, key)
  BY DEF Exists
<1>2. \A key : Usable(a, key) => Usable(b, key)
  BY <1>1 DEF Usable, Exists
<1>3. ASSUME NEW ix, Ready(a, ix)
      PROVE  Ready(b, ix)
  <2>1. Plain(ix) /\ Accepts(a, ix)
    BY <1>3 DEF Ready
  <2>2. Signed(b, ix)
    <3>1. CASE ix.role = "anyone"
      BY <3>1 DEF Signed
    <3>2. CASE ix.role = "governance"
      <4>1. Config \in DOMAIN a /\ Config[1] = "config"
        BY <2>1, <3>2 DEF Plain, Accepts, Usable, Exists, Config
      <4>2. b[Config] = a[Config]
        BY <4>1
      <4> QED BY <2>1, <3>2, <4>2 DEF Accepts, Signed
    <3>3. CASE ix.role = "admin"
      <4> DEFINE v == VaultOf(ix.vault)
      <4>1. v \in DOMAIN a /\ v[1] = "vault"
        BY <2>1, <3>3, Addresses DEF Plain, Accepts, Usable, Exists
      <4>2. b[v] = a[v]
        BY <4>1
      <4> QED BY <2>1, <3>3, <4>2 DEF Accepts, Signed
    <3> QED BY <2>1, <3>1, <3>2, <3>3 DEF Plain
  <2>3. Guard(b, ix)
    BY <2>1 DEF Plain, Guard
  <2>4. Accepts(b, ix)
    BY <1>1, <1>2, <2>1, <2>2, <2>3 DEF Accepts
  <2> QED BY <2>1, <2>4 DEF Ready
<1>4. ASSUME NEW s, NEW w, NEW d, NEW others, Accepts(a, CreateStrategy(s, w, d, others))
      PROVE  Accepts(b, CreateStrategy(s, w, d, others))
  <2> DEFINE ix == CreateStrategy(s, w, d, others)
             v  == VaultOf(s[1])
  <2>1. /\ ix.do = "create" /\ ix.role = "admin" /\ ix.wallet = w /\ ix.vault = s[1]
        /\ ix.needs = {v}
    BY DEF CreateStrategy, ByAdmin, Instruction
  <2>2. Accepts(a, ix)
    BY <1>4
  <2> HIDE DEF ix
  <2>3. v \in DOMAIN a /\ b[v] = a[v]
    <3>1. v \in DOMAIN a /\ v[1] = "vault"
      BY <2>1, <2>2, Addresses DEF Accepts, Usable, Exists
    <3> QED BY <3>1
  <2>4. Signed(b, ix)
    BY <2>1, <2>2, <2>3 DEF Accepts, Signed
  <2>5. DelegateFree(b, ix)
    <3>1. DelegateFree(a, ix)
      BY <2>1, <2>2 DEF Accepts, Guard
    <3>2. \A u : Active(b, u) =>
            Active(a, u) /\ b[StrategyOf(u)].delegate = a[StrategyOf(u)].delegate
      BY Addresses DEF Active, Exists
    <3> QED BY <3>1, <3>2 DEF DelegateFree
  <2>6. Guard(b, ix)
    BY <2>1, <2>2, <2>3, <2>5 DEF Accepts, Guard
  <2>7. Accepts(b, ix)
    BY <1>1, <1>2, <2>2, <2>4, <2>6 DEF Accepts
  <2> QED BY <2>7 DEF ix
<1> QED BY <1>3, <1>4

\* A cooldown that elapses takes nothing from what a page still has to send.
LEMMA ElapsesLeavesWork ==
  ASSUME WorkInv, CooldownElapses
  PROVE  WorkInv'
<1> DEFINE b == acct'
<1>1. page' = page /\ DOMAIN b = DOMAIN acct
      /\ \A key \in DOMAIN acct : key[1] # "action" => b[key] = acct[key]
  BY DEF CooldownElapses, IsRow
<1> HIDE DEF b
<1>2. /\ \A ix : Ready(acct, ix) => Ready(b, ix)
      /\ \A s, w, d, others : Accepts(acct, CreateStrategy(s, w, d, others)) =>
           Accepts(b, CreateStrategy(s, w, d, others))
  BY <1>1, ReadyElapses
<1>3. /\ \A txs : Lined(acct, txs) => Lined(b, txs)
      /\ \A txs, iy : Waiting(acct, txs, iy) => Waiting(b, txs, iy)
  BY <1>2 DEF Lined, Waiting
<1>4. \A s, w, job : Assured(acct, s, w, job) => Assured(b, s, w, job)
  BY <1>2, <1>3 DEF Assured
<1>5. \A p : WorkOK(acct, p) => WorkOK(b, p)
  BY <1>4 DEF WorkOK
<1>6. \A t \in Pages : WorkOK(b, page'[t])
  BY <1>1, <1>5 DEF WorkInv
<1>7. Exists(b, VaultOf(Vault))
  BY <1>1 DEF WorkInv, Exists
<1> QED BY <1>6, <1>7 DEF WorkInv, b

\* And with every step of the scripts and the other clients.
LEMMA WorkSurvives ==
  ASSUME AccountsOK(acct), JobsInv, WorkInv, ScriptsNext
  PROVE  WorkInv'
<1>0. Stays \/ Sent \/ CooldownElapses
  BY ScriptsSends
<1>1. ASSUME UNCHANGED <<acct, page>> PROVE WorkInv'
  BY <1>1 DEF WorkInv
<1>2. CASE CooldownElapses
  BY <1>2, ElapsesLeavesWork
<1>3. ASSUME page' = [u \in Pages |-> Overtaken(page[u])]
      PROVE  WorkInv'
  BY <1>0, <1>2, <1>3, WorkOfNone
<1>4. CASE StartScript
  <2>1. ASSUME NEW name, NEW steps, Launch(name, steps) PROVE UNCHANGED <<acct, page>>
    BY <2>1 DEF Launch
  <2>2. UNCHANGED <<acct, page>>
    BY <1>4, <2>1 DEF StartScript, StartListScript, StartSetupScript, StartVaultScript,
                      StartSourceScript
  <2> QED BY <1>1, <2>2
<1>5. CASE RunStep
  BY <1>1, <1>3, <1>5 DEF RunStep, ScriptLands
<1>6. CASE ScriptDies
  BY <1>1, <1>3, <1>6 DEF ScriptDies, ScriptLands
<1>7. CASE FinishScript
  BY <1>1, <1>7 DEF FinishScript, consoleVars
<1>8. CASE ConsoleNext
  BY <1>8, WorkKept
<1>9. CASE UseElsewhere
  BY <1>3, <1>9 DEF UseElsewhere
<1> QED BY <1>2, <1>4, <1>5, <1>6, <1>7, <1>8, <1>9 DEF ScriptsNext

\* No page has begun anything at the start.
LEMMA WorkStart ==
  ASSUME ConsoleInit
  PROVE  WorkInv
<1> DEFINE q == Closed
<1>1. page = [t \in Pages |-> q]
  BY DEF ConsoleInit
<1>2. q.wallet = "none" /\ ~q.job.fresh
  BY DEF Closed, Idle
<1> HIDE DEF q
<1>3. WorkOK(acct, q)
  BY <1>2, WorkIdle
<1>4. Exists(acct, VaultOf(Vault))
  BY DEF ConsoleInit, Exists
<1> QED BY <1>1, <1>3, <1>4 DEF WorkInv

\* A page that shows the chain as it is finishes its job, whatever rows and full
\* strategies it finds: presets, created strategies and the token panel.
THEOREM FreshGoesThrough == ConsoleSpec => []FreshIsNeverRefused
<1>1. ConsoleInit => ConfigInv /\ JobsInv /\ WorkInv
  BY ConfigStart, JobsStart, WorkStart
<1>2. ConfigInv /\ JobsInv /\ WorkInv /\ [ConsoleNext]_consoleVars
        => ConfigInv' /\ JobsInv' /\ WorkInv'
  <2> SUFFICES ASSUME ConfigInv, JobsInv, WorkInv, [ConsoleNext]_consoleVars
               PROVE  ConfigInv' /\ JobsInv' /\ WorkInv'
    OBVIOUS
  <2>1. ConfigInv'
    BY ConsoleKeeps
  <2>2. CASE ConsoleNext
    BY <2>1, <2>2, JobsKept, WorkKept DEF ConfigInv
  <2>3. CASE UNCHANGED consoleVars
    BY <2>1, <2>3 DEF consoleVars, JobsInv, WorkInv
  <2> QED BY <2>2, <2>3
<1>3. WorkInv => FreshIsNeverRefused
  BY DEF WorkInv, WorkOK, FreshIsNeverRefused
<1> QED BY <1>1, <1>2, <1>3, PTL DEF ConsoleSpec

\* Scripts that died halfway and other clients leave nothing behind that would have
\* such a page refused.
THEOREM ScriptsFreshGoesThrough == ScriptsSpec => []FreshIsNeverRefused
<1>1. ScriptsInit => JobsInv /\ WorkInv
  BY JobsStart, WorkStart DEF ScriptsInit
<1>2. ConfigInv /\ JobsInv /\ WorkInv /\ [ScriptsNext]_scriptsVars => JobsInv' /\ WorkInv'
  <2> SUFFICES ASSUME ConfigInv, JobsInv, WorkInv, [ScriptsNext]_scriptsVars
               PROVE  JobsInv' /\ WorkInv'
    OBVIOUS
  <2>1. CASE ScriptsNext
    BY <2>1, JobsSurvive, WorkSurvives DEF ConfigInv
  <2>2. CASE UNCHANGED scriptsVars
    BY <2>2 DEF scriptsVars, consoleVars, JobsInv, WorkInv
  <2> QED BY <2>1, <2>2
<1>3. WorkInv => FreshIsNeverRefused
  BY DEF WorkInv, WorkOK, FreshIsNeverRefused
<1> QED BY <1>1, <1>2, <1>3, ConfigInvariant, PTL DEF ScriptsSpec

-----------------------------------------------------------------------------
(***************************************************************************)
(* What a mint counts for when the token panel is done: the sources a      *)
(* strategy has, and those that the transactions left are going to add.    *)
(***************************************************************************)
Entries(q) == {q[i] : i \in 1..Len(q)}

\* One list after the other has the entries of both.
LEMMA EntriesConcat ==
  ASSUME NEW q, NEW r, IsList(q), IsList(r)
  PROVE  IsList(q \o r) /\ Entries(q \o r) = Entries(q) \cup Entries(r)
<1> DEFINE X == {q[n] : n \in DOMAIN q} \cup {r[n] : n \in DOMAIN r}
           t == q \o r
           L == Len(q)
           M == Len(r)
<1>1. q \in Seq(X) /\ r \in Seq(X)
  <2> DEFINE Y == {q[n] : n \in DOMAIN q}
             Z == {r[n] : n \in DOMAIN r}
  <2>1. q \in Seq(Y) /\ r \in Seq(Z) /\ Y \subseteq X /\ Z \subseteq X
    BY DEF IsList
  <2> HIDE DEF X, Y, Z
  <2> QED BY <2>1
<1> HIDE DEF X
<1>2. L \in Nat /\ M \in Nat
  BY <1>1, LenProperties
<1>3. /\ t \in Seq(X) /\ Len(t) = L + M
      /\ \A k \in 1..(L + M) : t[k] = IF k <= L THEN q[k] ELSE r[k - L]
  BY <1>1, ConcatProperties
<1>4. IsList(t)
  <2> HIDE DEF t
  <2>1. DOMAIN t = 1..(L + M) /\ t = [n \in DOMAIN t |-> t[n]] /\ L + M \in Nat
    BY <1>2, <1>3
  <2> QED BY <2>1, IntervalList
<1> HIDE DEF t, L, M
<1>5. ASSUME NEW k \in 1..(L + M)
      PROVE  (\E i \in 1..L : t[k] = q[i]) \/ \E i \in 1..M : t[k] = r[i]
  <2>1. CASE k <= L
    <3>1. k \in 1..L /\ t[k] = q[k]
      BY <1>2, <1>3, <2>1
    <3> QED BY <3>1
  <2>2. CASE ~(k <= L)
    <3>1. k - L \in 1..M /\ t[k] = r[k - L]
      BY <1>2, <1>3, <2>2
    <3> QED BY <3>1
  <2> QED BY <2>1, <2>2
<1>6. ASSUME NEW i \in 1..L
      PROVE  \E k \in 1..(L + M) : t[k] = q[i]
  <2>1. i \in 1..(L + M) /\ t[i] = q[i]
    BY <1>2, <1>3
  <2> QED BY <2>1
<1>7. ASSUME NEW i \in 1..M
      PROVE  \E k \in 1..(L + M) : t[k] = r[i]
  <2> DEFINE k == i + L
  <2>1. k \in 1..(L + M) /\ ~(k <= L) /\ k - L = i
    BY <1>2
  <2> HIDE DEF k
  <2>2. t[k] = r[i]
    BY <1>3, <2>1
  <2> QED BY <2>1, <2>2
<1>8. {t[k] : k \in 1..(L + M)} = {q[i] : i \in 1..L} \cup {r[i] : i \in 1..M}
  BY <1>5, <1>6, <1>7
<1> QED BY <1>3, <1>4, <1>8 DEF Entries, L, M, t

\* Lists that are joined have the entries of all,
LEMMA EntriesJoin ==
  ASSUME NEW N \in Nat, NEW q, DOMAIN q = 1..N, q = [n \in DOMAIN q |-> q[n]],
         \A n \in 1..N : IsList(q[n])
  PROVE  IsList(FlattenSeq(q)) /\ Entries(FlattenSeq(q)) = UNION {Entries(q[n]) : n \in 1..N}
<1> DEFINE X == UNION {{q[n][i] : i \in DOMAIN q[n]} : n \in 1..N}
           t == FlattenSeq(q)
<1>1. \A n \in 1..N : q[n] \in Seq(X)
  <2> TAKE n \in 1..N
  <2> DEFINE Y == {q[n][i] : i \in DOMAIN q[n]}
  <2>1. q[n] \in Seq(Y) /\ Y \subseteq X
    BY DEF IsList
  <2> HIDE DEF X, Y
  <2> QED BY <2>1
<1> HIDE DEF X
<1>2. q \in Seq(Seq(X)) /\ Len(q) = N
  <2>1. \E n \in Nat : DOMAIN q = 1..n
    OBVIOUS
  <2>2. q \in [1..N -> Seq(X)]
    BY <1>1
  <2>3. q \in Seq(Seq(X))
    BY <2>2, SeqDef
  <2> QED BY <2>3, LenProperties
<1>3. t \in Seq(X) /\ IsJoined(t, q, N)
  BY <1>2, FlattenJoins
<1>4. PICK part, off : Places(t, q, N, part, off)
  BY <1>3 DEF IsJoined
<1>5. /\ \A i \in 1..Len(t) : /\ part[i] \in 1..N /\ off[i] \in 1..Len(q[part[i]])
                              /\ t[i] = q[part[i]][off[i]]
      /\ \A n \in 1..N : \A k \in 1..Len(q[n]) : \E i \in 1..Len(t) : part[i] = n /\ off[i] = k
  BY <1>4 DEF Places
<1> HIDE DEF t
<1>6. IsList(t)
  <2>1. Len(t) \in Nat /\ DOMAIN t = 1..Len(t) /\ t = [n \in DOMAIN t |-> t[n]]
    BY <1>3, LenProperties
  <2> QED BY <2>1, IntervalList
<1>7. ASSUME NEW i \in 1..Len(t)
      PROVE  \E n \in 1..N : \E k \in 1..Len(q[n]) : t[i] = q[n][k]
  <2> DEFINE n == part[i]
             k == off[i]
  <2>1. n \in 1..N /\ k \in 1..Len(q[n]) /\ t[i] = q[n][k]
    BY <1>5
  <2> HIDE DEF n, k
  <2> QED BY <2>1
<1>8. ASSUME NEW n \in 1..N, NEW k \in 1..Len(q[n])
      PROVE  \E i \in 1..Len(t) : t[i] = q[n][k]
  <2>1. PICK i \in 1..Len(t) : part[i] = n /\ off[i] = k
    BY <1>5
  <2>2. t[i] = q[n][k]
    BY <1>5, <2>1
  <2> QED BY <2>2
<1>9. \A x : x \in Entries(t) <=> \E n \in 1..N : x \in Entries(q[n])
  <2>1. \A x : x \in Entries(t) <=> \E i \in 1..Len(t) : x = t[i]
    BY DEF Entries
  <2>3. ASSUME NEW x, NEW i \in 1..Len(t), x = t[i]
        PROVE  \E n \in 1..N : \E k \in 1..Len(q[n]) : x = q[n][k]
    BY <1>7, <2>3
  <2>4. ASSUME NEW x, NEW n \in 1..N, NEW k \in 1..Len(q[n]), x = q[n][k]
        PROVE  \E i \in 1..Len(t) : x = t[i]
    BY <1>8, <2>4
  <2>5. ASSUME NEW x, x \in Entries(t)
        PROVE  \E n \in 1..N : x \in Entries(q[n])
    <3>1. PICK i \in 1..Len(t) : x = t[i]
      BY <2>1, <2>5
    <3>2. PICK n \in 1..N : \E k \in 1..Len(q[n]) : x = q[n][k]
      BY <2>3, <3>1
    <3> QED BY <3>2 DEF Entries
  <2>6. ASSUME NEW x, NEW n \in 1..N, x \in Entries(q[n])
        PROVE  x \in Entries(t)
    <3>1. PICK k \in 1..Len(q[n]) : x = q[n][k]
      BY <2>6 DEF Entries
    <3> QED BY <2>1, <2>4, <3>1
  <2> QED BY <2>5, <2>6
<1>10. Entries(t) = UNION {Entries(q[n]) : n \in 1..N}
  BY <1>9
<1> QED BY <1>6, <1>10 DEF t

\* and so have the transactions a list is cut into.
LEMMA EntriesCut ==
  ASSUME NEW q, IsList(q)
  PROVE  UNION {Entries(Chunked(q)[n]) : n \in 1..Len(Chunked(q))} = Entries(q)
<1> DEFINE X == {q[n] : n \in DOMAIN q}
           c == Chunked(q)
<1>1. q \in Seq(X)
  BY DEF IsList
<1> HIDE DEF X
<1>2. CutsUp(c, q)
  BY <1>1, ChunkedCuts
<1> HIDE DEF c
<1>3. /\ \A n \in 1..Len(c) : \A i \in 1..Len(c[n]) :
           4 * n - 4 + i \in 1..Len(q) /\ c[n][i] = q[4 * n - 4 + i]
      /\ \A p \in 1..Len(q) : \E n \in 1..Len(c) : \E i \in 1..Len(c[n]) : p = 4 * n - 4 + i
  BY <1>2 DEF CutsUp
<1>4. ASSUME NEW n \in 1..Len(c), NEW i \in 1..Len(c[n])
      PROVE  \E p \in 1..Len(q) : c[n][i] = q[p]
  <2> DEFINE p == 4 * n - 4 + i
  <2>1. p \in 1..Len(q) /\ c[n][i] = q[p]
    BY <1>3
  <2> HIDE DEF p
  <2> QED BY <2>1
<1>5. ASSUME NEW p \in 1..Len(q)
      PROVE  \E n \in 1..Len(c) : \E i \in 1..Len(c[n]) : c[n][i] = q[p]
  <2>1. PICK n \in 1..Len(c) : \E i \in 1..Len(c[n]) : p = 4 * n - 4 + i
    BY <1>3
  <2>2. PICK i \in 1..Len(c[n]) : p = 4 * n - 4 + i
    BY <2>1
  <2>3. c[n][i] = q[p]
    BY <1>3, <2>2
  <2> QED BY <2>3
<1>6. \A x : x \in Entries(q) <=> \E n \in 1..Len(c) : x \in Entries(c[n])
  <2>1. \A x : x \in Entries(q) <=> \E p \in 1..Len(q) : x = q[p]
    BY DEF Entries
  <2>3. ASSUME NEW x, NEW p \in 1..Len(q), x = q[p]
        PROVE  \E n \in 1..Len(c) : \E i \in 1..Len(c[n]) : x = c[n][i]
    BY <1>5, <2>3
  <2>4. ASSUME NEW x, NEW n \in 1..Len(c), NEW i \in 1..Len(c[n]), x = c[n][i]
        PROVE  \E p \in 1..Len(q) : x = q[p]
    BY <1>4, <2>4
  <2>5. ASSUME NEW x, x \in Entries(q)
        PROVE  \E n \in 1..Len(c) : x \in Entries(c[n])
    <3>1. PICK p \in 1..Len(q) : x = q[p]
      BY <2>1, <2>5
    <3>2. PICK n \in 1..Len(c) : \E i \in 1..Len(c[n]) : x = c[n][i]
      BY <2>3, <3>1
    <3> QED BY <3>2 DEF Entries
  <2>6. ASSUME NEW x, NEW n \in 1..Len(c), x \in Entries(c[n])
        PROVE  x \in Entries(q)
    <3>1. PICK i \in 1..Len(c[n]) : x = c[n][i]
      BY <2>6 DEF Entries
    <3> QED BY <2>1, <2>4, <3>1
  <2> QED BY <2>5, <2>6
<1>7. UNION {Entries(c[n]) : n \in 1..Len(c)} = Entries(q)
  BY <1>6
<1> QED BY <1>7 DEF c

\* None, one and two entries.
LEMMA EntriesFew ==
  /\ IsList(<<>>) /\ Entries(<<>>) = {}
  /\ \A x : IsList(<<x>>) /\ Entries(<<x>>) = {x}
  /\ \A x, y : IsList(<<x, y>>) /\ Entries(<<x, y>>) = {x, y}
<1>1. IsList(<<>>) /\ Entries(<<>>) = {}
  BY DEF IsList, Entries
<1>2. ASSUME NEW x PROVE IsList(<<x>>) /\ Entries(<<x>>) = {x}
  BY DEF IsList, Entries
<1>3. ASSUME NEW x, NEW y PROVE IsList(<<x, y>>) /\ Entries(<<x, y>>) = {x, y}
  <2> DEFINE q == <<x, y>>
  <2>1. Len(q) = 2 /\ DOMAIN q = {1, 2} /\ q[1] = x /\ q[2] = y /\ q = [n \in DOMAIN q |-> q[n]]
    OBVIOUS
  <2> HIDE DEF q
  <2>2. DOMAIN q = 1..2 /\ 2 \in Nat
    BY <2>1
  <2>3. IsList(q)
    BY <2>1, <2>2, IntervalList
  <2>4. Entries(q) = {x, y}
    BY <2>1, <2>2 DEF Entries
  <2> QED BY <2>3, <2>4 DEF q
<1> QED BY <1>1, <1>2, <1>3

\* An account that has this content, one that is given it by an instruction, one
\* that is given it by a list of transactions, and one that is going to have it.
Holds(a, key, row) == Exists(a, key) /\ a[key] = row
Gives(ix, key, row) == key \in DOMAIN ix.init /\ ix.init[key] = row
Due(txs, key, row) == \E n \in 1..Len(txs) : \E ix \in Entries(txs[n]) : Gives(ix, key, row)
Will(a, txs, key, row) == Holds(a, key, row) \/ Due(txs, key, row)

\* Transactions that close none of the sources.
Gentle(txs) ==
  /\ IsList(txs)
  /\ \A n \in 1..Len(txs) : \A ix \in Entries(txs[n]) : \A key \in ix.close : key[1] # "source"

\* No instruction writes into a source that is there.
LEMMA SourceUnwritten ==
  ASSUME NEW a, NEW ix, Accepts(a, ix), NEW key, key[1] = "source"
  PROVE  Rewritten(a, ix, key) = a[key]
<1>1. key # VaultOf(ix.vault) /\ key # StrategyOf(ix.strategy)
  BY Addresses
<1>2. ix.do = "execute" => key # ix.key[1]
  BY DEF Accepts, Derived
<1> QED BY <1>1, <1>2 DEF Rewritten

\* After instructions that leave it open a source has the content it had or is given.
LEMMA SourcesStaged ==
  ASSUME NEW a, NEW tx, Len(tx) \in Nat, NEW h, Stages(h, a, tx), NEW key, key[1] = "source",
         NEW row, \A ix \in Entries(tx) : key \notin ix.close
  PROVE  Holds(h[Len(tx)], key, row)
           <=> Holds(a, key, row) \/ \E ix \in Entries(tx) : Gives(ix, key, row)
<1> DEFINE N == Len(tx)
<1>1. N \in Nat
  OBVIOUS
<1>2. h[0] = a /\ \A k \in 1..N : Accepts(h[k - 1], tx[k]) /\ h[k] = After(h[k - 1], tx[k])
  BY DEF Stages
<1>3. \A k \in 1..N : key \notin tx[k].close
  BY DEF Entries
<1>4. ASSUME NEW b, NEW ix, Accepts(b, ix), key \notin ix.close
      PROVE  Holds(After(b, ix), key, row) <=> Holds(b, key, row) \/ Gives(ix, key, row)
  <2>1. key \in DOMAIN After(b, ix) => key \in DOMAIN ix.init \/ key \in DOMAIN b \ ix.close
    BY AfterDomain, Addresses
  <2>2. CASE key \in DOMAIN ix.init
    <3>1. ~Exists(b, key)
      BY <1>4, <2>2 DEF Accepts
    <3>2. key \in DOMAIN After(b, ix) /\ After(b, ix)[key] = Initial(ix, key)
      BY <2>2, AfterDomain
    <3>3. Initial(ix, key) = ix.init[key]
      BY DEF Initial
    <3> QED BY <2>2, <3>1, <3>2, <3>3 DEF Holds, Exists, Gives
  <2>3. CASE key \notin DOMAIN ix.init
    <3>1. key \in DOMAIN b => key \in DOMAIN After(b, ix) /\ After(b, ix)[key] = Rewritten(b, ix, key)
      BY <1>4, <2>3, AfterDomain
    <3>2. Rewritten(b, ix, key) = b[key]
      BY <1>4, SourceUnwritten
    <3> QED BY <2>1, <2>3, <3>1, <3>2 DEF Holds, Exists, Gives
  <2> QED BY <2>2, <2>3
<1> HIDE DEF N
<1> DEFINE Given(k) == \E i \in 1..k : Gives(tx[i], key, row)
           Good(k) == Holds(h[k], key, row) <=> Holds(a, key, row) \/ Given(k)
           B == {k \in 0..N : ~Good(k)}
<1>5. ASSUME B # {} PROVE FALSE
  <2>1. B \in SUBSET Nat /\ (\A k \in B : k \in 0..N /\ ~Good(k))
    OBVIOUS
  <2>2. \A k \in 0..N : k \notin B => Good(k)
    OBVIOUS
  <2> HIDE DEF B
  <2>3. PICK k \in B : \A m \in B : k <= m
    BY <1>5, <2>1, LeastNat
  <2>4. Good(0)
    BY <1>2
  <2>5. k \in 1..N /\ k - 1 \in 0..N /\ ~(k <= k - 1)
    <3>1. k # 0
      BY <2>1, <2>4
    <3> QED BY <1>1, <2>1, <3>1
  <2>6. Good(k - 1)
    BY <2>2, <2>3, <2>5
  <2>7. Holds(h[k], key, row) <=> Holds(h[k - 1], key, row) \/ Gives(tx[k], key, row)
    BY <1>2, <1>3, <1>4, <2>5
  <2>8. 1..k = 1..(k - 1) \cup {k}
    BY <1>1, <2>5
  <2>9. Given(k) <=> Given(k - 1) \/ Gives(tx[k], key, row)
    BY <2>8
  <2>10. Good(k)
    BY <2>6, <2>7, <2>9
  <2> QED BY <2>1, <2>10
<1>6. Good(N)
  <2>1. N \in 0..N
    BY <1>1
  <2> QED BY <1>5, <2>1
<1> QED BY <1>6 DEF Entries, N

\* So with a transaction.
LEMMA SourcesWritten ==
  ASSUME NEW a, NEW tx, Run(a, tx).ok, NEW key, key[1] = "source", NEW row,
         \A ix \in Entries(tx) : key \notin ix.close
  PROVE  Holds(Run(a, tx).acct, key, row)
           <=> Holds(a, key, row) \/ \E ix \in Entries(tx) : Gives(ix, key, row)
<1>1. PICK h : Stages(h, a, tx) /\ Run(a, tx).acct = h[Len(tx)]
  BY RunStages
<1>2. Len(tx) \in Nat
  BY RunStages
<1> QED BY <1>1, <1>2, SourcesStaged

\* A transaction that goes through makes nothing different of what is going to be.
LEMMA WillStays ==
  ASSUME NEW a, NEW txs, Gentle(txs), txs # <<>>, Run(a, Head(txs)).ok
  PROVE  /\ Gentle(Tail(txs))
         /\ \A key, row : key[1] = "source" =>
              (Will(Run(a, Head(txs)).acct, Tail(txs), key, row) <=> Will(a, txs, key, row))
<1> DEFINE tx == Head(txs)
           r  == Tail(txs)
           b  == Run(a, tx).acct
<1>1. /\ Len(txs) \in Nat /\ 1 \in 1..Len(txs) /\ tx = txs[1] /\ IsList(r)
      /\ Len(r) = Len(txs) - 1
      /\ \A k \in 1..Len(r) : k + 1 \in 1..Len(txs) /\ k + 1 # 1 /\ r[k] = txs[k + 1]
  BY TailPlaces DEF Gentle
<1> HIDE DEF r, tx
<1>2. \A n \in 1..Len(txs) : \A ix \in Entries(txs[n]) :
        \A key \in ix.close : key[1] # "source"
  BY DEF Gentle
<1>3. Gentle(r)
  BY <1>1, <1>2 DEF Gentle
<1>4. ASSUME NEW key, NEW row, key[1] = "source"
      PROVE  Will(b, r, key, row) <=> Will(a, txs, key, row)
  <2>1. \A ix \in Entries(tx) : key \notin ix.close
    BY <1>1, <1>2, <1>4
  <2>2. Run(a, tx).ok
    BY DEF tx
  <2>3. Holds(b, key, row) <=> Holds(a, key, row) \/ (\E ix \in Entries(tx) : Gives(ix, key, row))
    BY <1>4, <2>1, <2>2, SourcesWritten
  <2>4. Due(txs, key, row) <=> (\E ix \in Entries(tx) : Gives(ix, key, row)) \/ Due(r, key, row)
    <3>1. ASSUME NEW n \in 1..Len(txs), \E ix \in Entries(txs[n]) : Gives(ix, key, row)
          PROVE  (\E ix \in Entries(tx) : Gives(ix, key, row)) \/ Due(r, key, row)
      <4>1. CASE n = 1
        BY <1>1, <3>1, <4>1
      <4>2. CASE n # 1
        <5>1. n - 1 \in 1..Len(r) /\ n - 1 + 1 = n
          BY <1>1, <4>2
        <5>2. r[n - 1] = txs[n]
          BY <1>1, <5>1
        <5> QED BY <3>1, <5>1, <5>2 DEF Due
      <4> QED BY <4>1, <4>2
    <3>2. ASSUME NEW k \in 1..Len(r), \E ix \in Entries(r[k]) : Gives(ix, key, row)
          PROVE  Due(txs, key, row)
      BY <1>1, <3>2 DEF Due
    <3>3. (\E ix \in Entries(tx) : Gives(ix, key, row)) => Due(txs, key, row)
      BY <1>1 DEF Due
    <3> QED BY <3>1, <3>2, <3>3 DEF Due
  <2> QED BY <2>3, <2>4 DEF Will
<1> QED BY <1>3, <1>4 DEF b, r, tx

\* What the panel adds to a strategy for the n-th mint, by slot.
Piped(a, s, m, n, slot, row) ==
  \/ /\ 2 * n - 1 \in DOMAIN Handed(a, s) /\ slot = Handed(a, s)[2 * n - 1]
     /\ row = Balance(m, 0)
  \/ /\ 2 * n \in DOMAIN Handed(a, s) /\ slot = Handed(a, s)[2 * n]
     /\ row = Price(m, Handed(a, s)[2 * n - 1])

\* The instructions for one strategy and one mint.
LEMMA PlumbingGives ==
  ASSUME NEW a, NEW s, NEW w, NEW m, NEW n
  PROVE  /\ IsList(Plumbing(a, s, w, m, n))
         /\ \A ix \in Entries(Plumbing(a, s, w, m, n)) : ix.close = {}
         /\ \A u, slot, row :
              (\E ix \in Entries(Plumbing(a, s, w, m, n)) : Gives(ix, SourceOf(u, slot), row))
                <=> u = s /\ Piped(a, s, m, n, slot, row)
<1> DEFINE free  == Handed(a, s)
           one   == 2 * n - 1
           two   == 2 * n
           x     == CreateTokenAccount(s, m)
           y     == AddValueSource(s, w, free[one], Balance(m, 0))
           z     == AddValueSource(s, w, free[two], Price(m, free[one]))
           q     == IF one \in DOMAIN free THEN <<x, y>> ELSE <<>>
           r     == IF two \in DOMAIN free THEN <<z>> ELSE <<>>
<1>1. Plumbing(a, s, w, m, n) = q \o r
  BY DEF Plumbing
<1>2. x.close = {} /\ DOMAIN x.init = {}
  BY DEF CreateTokenAccount, Instruction, Empty
<1>3. \A slot, row : /\ AddValueSource(s, w, slot, row).close = {}
                     /\ \A key, other : Gives(AddValueSource(s, w, slot, row), key, other)
                          <=> key = SourceOf(s, slot) /\ other = row
  <2> SUFFICES ASSUME NEW slot, NEW row, NEW key, NEW other
               PROVE  /\ AddValueSource(s, w, slot, row).close = {}
                      /\ Gives(AddValueSource(s, w, slot, row), key, other)
                           <=> key = SourceOf(s, slot) /\ other = row
    OBVIOUS
  <2>1. /\ AddValueSource(s, w, slot, row).close = {}
        /\ AddValueSource(s, w, slot, row).init = Row(SourceOf(s, slot), row)
    BY DEF AddValueSource, OnStrategy, ByAdmin, Instruction
  <2> DEFINE k  == SourceOf(s, slot)
             ix == AddValueSource(s, w, slot, row)
  <2>2. ix.init = [l \in {k} |-> row]
    BY <2>1 DEF Row
  <2> HIDE DEF k, ix
  <2>3. DOMAIN ix.init = {k} /\ ix.init[k] = row
    BY <2>2
  <2>4. Gives(ix, key, other) <=> key = k /\ other = row
    BY <2>3 DEF Gives
  <2> QED BY <2>1, <2>4 DEF k, ix
<1>4. \A u, slot : SourceOf(u, slot) = SourceOf(s, slot) <=> u = s
  BY DEF SourceOf
<1>5. \A u, slot, other : SourceOf(u, slot) = SourceOf(s, other) <=> u = s /\ slot = other
  BY DEF SourceOf
<1>6. /\ y.close = {} /\ z.close = {}
      /\ \A key, other : Gives(y, key, other) <=> key = SourceOf(s, free[one]) /\ other = Balance(m, 0)
      /\ \A key, other : Gives(z, key, other)
           <=> key = SourceOf(s, free[two]) /\ other = Price(m, free[one])
  BY <1>3
<1>7. \A key, row : ~Gives(x, key, row)
  BY <1>2 DEF Gives
<1>8. IsList(q) /\ Entries(q) = IF one \in DOMAIN free THEN {x, y} ELSE {}
  <2> HIDE DEF x, y
  <2> QED BY EntriesFew
<1>9. IsList(r) /\ Entries(r) = IF two \in DOMAIN free THEN {z} ELSE {}
  <2> HIDE DEF z
  <2> QED BY EntriesFew
<1>10. \A u, slot, row : Piped(a, s, m, n, slot, row) <=>
         \/ one \in DOMAIN free /\ slot = free[one] /\ row = Balance(m, 0)
         \/ two \in DOMAIN free /\ slot = free[two] /\ row = Price(m, free[one])
  BY DEF Piped
<1> HIDE DEF free, one, two, x, y, z, q, r
<1>11. IsList(q \o r) /\ Entries(q \o r) = Entries(q) \cup Entries(r)
  BY <1>8, <1>9, EntriesConcat
<1>12. \A ix \in Entries(q \o r) : ix.close = {}
  BY <1>2, <1>6, <1>8, <1>9, <1>11
<1>13. ASSUME NEW u, NEW slot, NEW row
       PROVE  (\E ix \in Entries(q \o r) : Gives(ix, SourceOf(u, slot), row))
                <=> u = s /\ Piped(a, s, m, n, slot, row)
  <2> DEFINE key == SourceOf(u, slot)
  <2>1. (\E ix \in Entries(q \o r) : Gives(ix, key, row)) <=>
          \/ one \in DOMAIN free /\ Gives(y, key, row)
          \/ two \in DOMAIN free /\ Gives(z, key, row)
    BY <1>7, <1>8, <1>9, <1>11
  <2>2. /\ Gives(y, key, row) <=> u = s /\ slot = free[one] /\ row = Balance(m, 0)
        /\ Gives(z, key, row) <=> u = s /\ slot = free[two] /\ row = Price(m, free[one])
    BY <1>5, <1>6
  <2> QED BY <1>10, <2>1, <2>2
<1> QED BY <1>1, <1>11, <1>12, <1>13

\* Those for one mint and every active strategy.
LEMMA AdditionsGive ==
  ASSUME NEW a, Exists(a, VaultOf(Vault)), Count(a) \in Nat, NEW w, NEW m, NEW n
  PROVE  /\ IsList(PanelAdditions(a, w, m, n))
         /\ \A ix \in Entries(PanelAdditions(a, w, m, n)) : ix.close = {}
         /\ \A u, slot, row :
              (\E ix \in Entries(PanelAdditions(a, w, m, n)) : Gives(ix, SourceOf(u, slot), row))
                <=> u \in Strategies(a) /\ Active(a, u) /\ Piped(a, u, m, n, slot, row)
<1> DEFINE X == {u \in Strategies(a) : Active(a, u)}
           actives == ActiveOf(a)
           N == Len(actives)
           q == [k \in DOMAIN actives |-> Plumbing(a, actives[k], w, m, n)]
           x == AddVaultAllowedToken(Vault, w, m)
           r == FlattenSeq(q)
<1>1. PanelAdditions(a, w, m, n) = <<x>> \o r
  BY DEF PanelAdditions, ForActive
<1>2. actives \in Seq(X) /\ \A s \in X : \E k \in 1..N : actives[k] = s
  BY ActivesOnce
<1> HIDE DEF actives
<1>3. N \in Nat /\ DOMAIN actives = 1..N /\ \A k \in 1..N : actives[k] \in X
  <2> HIDE DEF X
  <2> QED BY <1>2, LenProperties, ElementOfSeq
<1>4. /\ DOMAIN q = 1..N /\ q = [k \in DOMAIN q |-> q[k]]
      /\ \A k \in 1..N : q[k] = Plumbing(a, actives[k], w, m, n)
  BY <1>3
<1>5. x.close = {} /\ \A u, slot, row : ~Gives(x, SourceOf(u, slot), row)
  <2>1. x.close = {} /\ DOMAIN x.init = {VaultListed(Vault, m)}
    BY DEF AddVaultAllowedToken, ByAdmin, Instruction, Row
  <2>2. \A u, slot : SourceOf(u, slot) # VaultListed(Vault, m)
    BY DEF SourceOf, VaultListed
  <2> HIDE DEF x
  <2> QED BY <2>1, <2>2 DEF Gives
<1> HIDE DEF N, q, x
<1>6. \A k \in 1..N :
        /\ IsList(q[k]) /\ \A ix \in Entries(q[k]) : ix.close = {}
        /\ \A u, slot, row : (\E ix \in Entries(q[k]) : Gives(ix, SourceOf(u, slot), row))
             <=> u = actives[k] /\ Piped(a, actives[k], m, n, slot, row)
  <2> TAKE k \in 1..N
  <2> DEFINE s == actives[k]
  <2>1. q[k] = Plumbing(a, s, w, m, n)
    BY <1>4
  <2> HIDE DEF s
  <2>2. /\ IsList(q[k]) /\ \A ix \in Entries(q[k]) : ix.close = {}
        /\ \A u, slot, row : (\E ix \in Entries(q[k]) : Gives(ix, SourceOf(u, slot), row))
             <=> u = s /\ Piped(a, s, m, n, slot, row)
    BY <2>1, PlumbingGives
  <2> QED BY <2>2 DEF s
<1>7. IsList(r) /\ Entries(r) = UNION {Entries(q[k]) : k \in 1..N}
  BY <1>3, <1>4, <1>6, EntriesJoin
<1>8. IsList(<<x>>) /\ Entries(<<x>>) = {x}
  BY EntriesFew
<1> DEFINE h == <<x>>
           t == h \o r
<1> HIDE DEF r, h, X
<1>9. IsList(t) /\ Entries(t) = Entries(h) \cup Entries(r)
  BY <1>7, <1>8, EntriesConcat DEF h
<1>10. Entries(t) = {x} \cup Entries(r)
  BY <1>8, <1>9 DEF h
<1> HIDE DEF t
<1>11. \A ix \in Entries(t) : ix.close = {}
  BY <1>5, <1>6, <1>7, <1>10
<1>12. ASSUME NEW u, NEW slot, NEW row
       PROVE  (\E ix \in Entries(t) : Gives(ix, SourceOf(u, slot), row))
                <=> u \in X /\ Piped(a, u, m, n, slot, row)
  <2> DEFINE key == SourceOf(u, slot)
  <2>1. (\E ix \in Entries(t) : Gives(ix, key, row)) <=>
          \E k \in 1..N : \E ix \in Entries(q[k]) : Gives(ix, key, row)
    BY <1>5, <1>7, <1>10
  <2>2. ASSUME NEW k \in 1..N, \E ix \in Entries(q[k]) : Gives(ix, key, row)
        PROVE  u \in X /\ Piped(a, u, m, n, slot, row)
    <3> DEFINE s == actives[k]
    <3>1. s \in X
      BY <1>3
    <3>2. u = s /\ Piped(a, s, m, n, slot, row)
      BY <1>6, <2>2
    <3> HIDE DEF s
    <3> QED BY <3>1, <3>2
  <2>3. ASSUME u \in X, Piped(a, u, m, n, slot, row)
        PROVE  \E k \in 1..N : \E ix \in Entries(q[k]) : Gives(ix, key, row)
    <3>1. PICK k \in 1..N : actives[k] = u
      BY <1>2, <2>3 DEF N
    <3> QED BY <1>6, <2>3, <3>1
  <2> QED BY <2>1, <2>2, <2>3
<1> QED BY <1>1, <1>9, <1>11, <1>12 DEF t, h, X

\* Those of a panel with several mints; what it takes away are no sources.
LEMMA PanelGives ==
  ASSUME NEW a, Exists(a, VaultOf(Vault)), Count(a) \in Nat, NEW w,
         NEW added \in SUBSET Mints, NEW removed \in SUBSET Mints
  PROVE  /\ IsList(PanelInstructions(a, w, added, removed))
         /\ \A ix \in Entries(PanelInstructions(a, w, added, removed)) :
              \A key \in ix.close : key[1] # "source"
         /\ \A u, slot, row :
              (\E ix \in Entries(PanelInstructions(a, w, added, removed)) :
                 Gives(ix, SourceOf(u, slot), row))
              <=> /\ u \in Strategies(a) /\ Active(a, u)
                  /\ \E n \in 1..Len(Among(Alphabet, added)) :
                       Piped(a, u, Among(Alphabet, added)[n], n, slot, row)
<1> DEFINE new  == Among(Alphabet, added)
           gone == Among(Alphabet, removed)
           N    == Len(new)
           M    == Len(gone)
           q    == [n \in DOMAIN new |-> PanelAdditions(a, w, new[n], n)]
           t    == FlattenSeq(q)
           r    == PanelRemovals(w, removed)
           S(u) == u \in Strategies(a) /\ Active(a, u)
<1>1. PanelInstructions(a, w, added, removed) = t \o r
  BY DEF PanelInstructions
<1>2. new \in Seq(added) /\ gone \in Seq(removed)
  BY PanelMints
<1> HIDE DEF new, gone
<1>3. N \in Nat /\ DOMAIN new = 1..N /\ M \in Nat /\ DOMAIN gone = 1..M
  BY <1>2, LenProperties
<1>4. /\ DOMAIN q = 1..N /\ q = [n \in DOMAIN q |-> q[n]]
      /\ \A n \in 1..N : q[n] = PanelAdditions(a, w, new[n], n)
  BY <1>3
<1>5. /\ DOMAIN r = 1..M /\ r = [n \in DOMAIN r |-> r[n]]
      /\ \A n \in 1..M : r[n] = RemoveVaultAllowedToken(Vault, w, gone[n])
  BY <1>3 DEF PanelRemovals, gone
<1> HIDE DEF N, M, q, r, S
<1>6. \A n \in 1..N :
        /\ IsList(q[n]) /\ \A ix \in Entries(q[n]) : ix.close = {}
        /\ \A u, slot, row : (\E ix \in Entries(q[n]) : Gives(ix, SourceOf(u, slot), row))
             <=> S(u) /\ Piped(a, u, new[n], n, slot, row)
  <2> TAKE n \in 1..N
  <2> DEFINE m == new[n]
  <2>1. q[n] = PanelAdditions(a, w, m, n)
    BY <1>4
  <2> HIDE DEF m
  <2> DEFINE p == PanelAdditions(a, w, m, n)
  <2>2. /\ IsList(p) /\ \A ix \in Entries(p) : ix.close = {}
        /\ \A u, slot, row : (\E ix \in Entries(p) : Gives(ix, SourceOf(u, slot), row))
             <=> u \in Strategies(a) /\ Active(a, u) /\ Piped(a, u, m, n, slot, row)
    BY AdditionsGive
  <2> HIDE DEF p
  <2>3. /\ IsList(p) /\ \A ix \in Entries(p) : ix.close = {}
        /\ \A u, slot, row : (\E ix \in Entries(p) : Gives(ix, SourceOf(u, slot), row))
             <=> S(u) /\ Piped(a, u, m, n, slot, row)
    BY <2>2 DEF S
  <2> QED BY <2>1, <2>3 DEF m, p
<1>7. IsList(t) /\ Entries(t) = UNION {Entries(q[n]) : n \in 1..N}
  BY <1>3, <1>4, <1>6, EntriesJoin
<1> HIDE DEF t
<1>8. IsList(r) /\ Len(r) = M
  <2>1. IsList(r)
    BY <1>3, <1>5, IntervalList
  <2>2. r \in Seq({r[n] : n \in DOMAIN r})
    BY <2>1 DEF IsList
  <2>3. DOMAIN r = 1..Len(r) /\ Len(r) \in Nat
    BY <2>2, LenProperties
  <2> QED BY <1>3, <1>5, <2>1, <2>3
<1>9. \A ix \in Entries(r) : DOMAIN ix.init = {} /\ \A key \in ix.close : key[1] # "source"
  <2> TAKE ix \in Entries(r)
  <2>1. PICK n \in 1..M : ix = r[n]
    BY <1>8 DEF Entries
  <2>2. ix = RemoveVaultAllowedToken(Vault, w, gone[n])
    BY <1>5, <2>1
  <2>3. DOMAIN ix.init = {} /\ ix.close = {VaultListed(Vault, gone[n])}
    BY <2>2 DEF RemoveVaultAllowedToken, ByAdmin, Instruction, Empty
  <2> QED BY <2>3 DEF VaultListed
<1>10. IsList(t \o r) /\ Entries(t \o r) = Entries(t) \cup Entries(r)
  BY <1>7, <1>8, EntriesConcat
<1>11. \A ix \in Entries(t \o r) : \A key \in ix.close : key[1] # "source"
  BY <1>6, <1>7, <1>9, <1>10
<1>12. ASSUME NEW u, NEW slot, NEW row
       PROVE  (\E ix \in Entries(t \o r) : Gives(ix, SourceOf(u, slot), row))
                <=> S(u) /\ \E n \in 1..N : Piped(a, u, new[n], n, slot, row)
  <2> DEFINE key == SourceOf(u, slot)
  <2>1. \A ix \in Entries(r) : ~Gives(ix, key, row)
    BY <1>9 DEF Gives
  <2>2. (\E ix \in Entries(t \o r) : Gives(ix, key, row)) <=>
          \E n \in 1..N : \E ix \in Entries(q[n]) : Gives(ix, key, row)
    BY <1>7, <1>10, <2>1
  <2>3. \A n \in 1..N : (\E ix \in Entries(q[n]) : Gives(ix, key, row))
          <=> S(u) /\ Piped(a, u, new[n], n, slot, row)
    BY <1>6
  <2> QED BY <2>2, <2>3
<1> QED BY <1>1, <1>10, <1>11, <1>12 DEF S, N, new

\* A source that will count the balance of a mint.
CountsFor(a, txs, s, m, row) ==
  \/ row.kind = "balance" /\ row.of = m /\ row.counts
  \/ /\ row.kind = "price"
     /\ \E other : Will(a, txs, SourceOf(s, row.pair), other) /\ other.of = m

\* A mint is going to be counted once, unless the strategy's slots run out.
Priced(a, txs, s, m) ==
  \/ \A slot \in Slots : \E row : Will(a, txs, SourceOf(s, slot), row)
  \/ \E one \in Slots :
       /\ \E row : Will(a, txs, SourceOf(s, one), row)
       /\ \A slot \in Slots : \A row :
            Will(a, txs, SourceOf(s, slot), row) => (CountsFor(a, txs, s, m, row) <=> slot = one)

\* It depends on what is going to be only.
LEMMA PricedStays ==
  ASSUME NEW a, NEW txs, NEW b, NEW r,
         \A key, row : key[1] = "source" => (Will(b, r, key, row) <=> Will(a, txs, key, row)),
         NEW s, NEW m, Priced(a, txs, s, m)
  PROVE  Priced(b, r, s, m)
<1>1. \A slot, row : Will(b, r, SourceOf(s, slot), row) <=> Will(a, txs, SourceOf(s, slot), row)
  <2>1. \A slot : SourceOf(s, slot)[1] = "source"
    BY DEF SourceOf
  <2> QED BY <2>1
<1>2. \A row : CountsFor(b, r, s, m, row) <=> CountsFor(a, txs, s, m, row)
  BY <1>1 DEF CountsFor
<1> QED BY <1>1, <1>2 DEF Priced

\* When nothing is left to do, it is counted once.
LEMMA PricedCounts ==
  ASSUME NEW a, NEW s, NEW m, Priced(a, <<>>, s, m)
  PROVE  TimesCounted(a, s, m) = 1 \/ SourceSlots(a, s) = Slots
<1>1. \A slot, row : Will(a, <<>>, SourceOf(s, slot), row) <=> Holds(a, SourceOf(s, slot), row)
  BY DEF Will, Due
<1>2. CASE \A slot \in Slots : \E row : Will(a, <<>>, SourceOf(s, slot), row)
  BY <1>1, <1>2 DEF Holds, SourceSlots
<1>3. ASSUME NEW one \in Slots, \E row : Will(a, <<>>, SourceOf(s, one), row),
             \A slot \in Slots : \A row : Will(a, <<>>, SourceOf(s, slot), row)
               => (CountsFor(a, <<>>, s, m, row) <=> slot = one)
      PROVE  TimesCounted(a, s, m) = 1
  <2> DEFINE C(row) == \/ row.kind = "balance" /\ row.of = m /\ row.counts
                       \/ /\ row.kind = "price" /\ Exists(a, SourceOf(s, row.pair))
                          /\ SourceAt(a, s, row.pair).of = m
             S == {slot \in SourceSlots(a, s) : C(SourceAt(a, s, slot))}
  <2>1. \A row : CountsFor(a, <<>>, s, m, row) <=> C(row)
    BY <1>1 DEF CountsFor, Holds, SourceAt
  <2>2. \A slot \in SourceSlots(a, s) :
          slot \in Slots /\ Will(a, <<>>, SourceOf(s, slot), SourceAt(a, s, slot))
    BY <1>1 DEF SourceSlots, Holds, SourceAt
  <2>3. one \in SourceSlots(a, s)
    BY <1>1, <1>3 DEF SourceSlots, Holds
  <2>4. \A slot \in SourceSlots(a, s) : C(SourceAt(a, s, slot)) <=> slot = one
    BY <1>3, <2>1, <2>2
  <2>5. TimesCounted(a, s, m) = Cardinality(S)
    BY DEF TimesCounted
  <2> HIDE DEF C
  <2>6. S = {one}
    BY <2>3, <2>4
  <2> QED BY <2>5, <2>6, FS_Singleton
<1> QED BY <1>2, <1>3 DEF Priced

\* The slots of possible sources.
LEMMA SourceSlotsPossible ==
  ASSUME NEW s, NEW slot, SourceOf(s, slot) \in PossibleRows(s)
  PROVE  slot \in Slots
<1> DEFINE A == <<ActionOf(s, "kamino", "deposit"), ActionOf(s, "kamino", "withdraw"),
                  ActionOf(s, "kamino", "borrow"), ActionOf(s, "kamino", "repay"),
                  ActionOf(s, "lulo", "deposit"), ActionOf(s, "lulo", "withdraw"),
                  ActionOf(s, "jupiter", "route"),
                  AutoOf(s, "deposit"), AutoOf(s, "withdraw")>>
           B == [n \in 1..MaxSources |-> SourceOf(s, n - 1)]
           c == Catalogue(s)
           X == {A[n] : n \in 1..9} \cup {B[n] : n \in 1..MaxSources}
<1>1. MaxSources \in Nat
  BY ConfigAssumption
<1>2. A \in Seq(X) /\ Len(A) = 9
  OBVIOUS
<1>3. B \in Seq(X) /\ Len(B) = MaxSources
  <2>1. B \in [1..MaxSources -> X]
    OBVIOUS
  <2>2. B \in Seq(X)
    BY <1>1, <2>1, SeqDef
  <2> QED BY <1>1, <2>2, LenProperties
<1>4. c = A \o B
  BY DEF Catalogue
<1>5. /\ \A n \in 1..9 : A[n][1] # "source"
      /\ \A k \in 1..MaxSources : B[k] = SourceOf(s, k - 1)
  BY DEF ActionOf, AutoOf
<1> HIDE DEF X, A, B, c
<1>6. /\ c \in Seq(X) /\ Len(c) = 9 + MaxSources
      /\ \A i \in 1..(9 + MaxSources) : c[i] = IF i <= 9 THEN A[i] ELSE B[i - 9]
  <2>1. /\ A \o B \in Seq(X) /\ Len(A \o B) = Len(A) + Len(B)
        /\ \A i \in 1..(Len(A) + Len(B)) :
             (A \o B)[i] = IF i <= Len(A) THEN A[i] ELSE B[i - Len(A)]
    BY <1>2, <1>3, ConcatProperties
  <2> QED BY <1>2, <1>3, <1>4, <2>1
<1>7. DOMAIN c = 1..(9 + MaxSources)
  BY <1>6, LenProperties
<1>8. PICK n \in 1..(9 + MaxSources) : SourceOf(s, slot) = c[n]
  BY <1>7 DEF PossibleRows, c
<1>9. CASE n <= 9
  <2>1. n \in 1..9 /\ c[n] = A[n]
    BY <1>1, <1>6, <1>9
  <2> QED BY <1>5, <1>8, <2>1 DEF SourceOf
<1>10. CASE ~(n <= 9)
  <2> DEFINE k == n - 9
  <2>1. k \in 1..MaxSources /\ c[n] = B[k]
    BY <1>1, <1>6, <1>10
  <2>2. B[k] = SourceOf(s, k - 1)
    BY <1>5, <2>1
  <2>3. slot = k - 1
    <3> HIDE DEF k
    <3> QED BY <1>8, <2>1, <2>2 DEF SourceOf
  <2> QED BY <1>1, <2>1, <2>3 DEF Slots
<1> QED BY <1>9, <1>10

\* The panel gives a mint no source counts yet one source that does.
LEMMA PanelPrices ==
  ASSUME NEW a, AccountsOK(a), NEW s, PricesPaired(a, s), NEW N \in Nat, NEW new,
         \A i, j \in 1..N : new[i] = new[j] => i = j,
         NEW b \in 1..N, new[b] \notin MintsIn(a, s), NEW txs,
         \A slot, row : Will(a, txs, SourceOf(s, slot), row) <=>
           \/ Holds(a, SourceOf(s, slot), row)
           \/ \E n \in 1..N : Piped(a, s, new[n], n, slot, row)
  PROVE  Priced(a, txs, s, new[b])
<1> DEFINE free == Handed(a, s)
           L    == Len(free)
           m    == new[b]
           Key(slot)  == SourceOf(s, slot)
           W(slot, row) == Will(a, txs, SourceOf(s, slot), row)
           P(n, slot, row) == Piped(a, s, new[n], n, slot, row)
<1>1. /\ free \in Seq(Slots \ SourceSlots(a, s))
      /\ \A x \in Slots \ SourceSlots(a, s) : \E i \in 1..L : free[i] = x
      /\ \A i, j \in 1..L : free[i] = free[j] => i = j
  BY HandedOnce
<1>2. \A n, slot, row : P(n, slot, row) <=>
        \/ 2 * n - 1 \in DOMAIN free /\ slot = free[2 * n - 1] /\ row = Balance(new[n], 0)
        \/ 2 * n \in DOMAIN free /\ slot = free[2 * n] /\ row = Price(new[n], free[2 * n - 1])
  BY DEF Piped
<1>3. \A slot, row : W(slot, row) <=> Holds(a, Key(slot), row) \/ \E n \in 1..N : P(n, slot, row)
  OBVIOUS
<1> HIDE DEF free, P, W
<1>4. DOMAIN free = 1..L /\ L \in Nat /\ \A i \in 1..L : free[i] \in Slots \ SourceSlots(a, s)
  <2> DEFINE F == Slots \ SourceSlots(a, s)
  <2>1. free \in Seq(F)
    BY <1>1
  <2> HIDE DEF F
  <2>2. DOMAIN free = 1..L /\ L \in Nat /\ \A i \in 1..L : free[i] \in F
    BY <2>1, LenProperties, ElementOfSeq
  <2> QED BY <2>2 DEF F
<1>5. \A slot, row : Holds(a, Key(slot), row) => slot \in SourceSlots(a, s) /\ row = SourceAt(a, s, slot)
  <2> SUFFICES ASSUME NEW slot, NEW row, Holds(a, Key(slot), row)
               PROVE  slot \in SourceSlots(a, s) /\ row = SourceAt(a, s, slot)
    OBVIOUS
  <2>1. Key(slot) \in DOMAIN a /\ a[Key(slot)] = row
    BY DEF Holds, Exists
  <2>2. Key(slot)[1] \in RowKinds /\ Key(slot)[2] = s
    BY DEF SourceOf, RowKinds
  <2>3. slot \in Slots
    BY <2>1, <2>2, SourceSlotsPossible DEF AccountsOK
  <2> QED BY <2>1, <2>3 DEF SourceSlots, SourceAt, Exists
<1> HIDE DEF L, m, Key
<1>6. \A i \in 1..L : \A row : ~Holds(a, Key(free[i]), row)
  BY <1>4, <1>5
<1>7. CASE ~(2 * b <= L)
  <2>1. ASSUME NEW slot \in Slots PROVE \E row : W(slot, row)
    <3>1. CASE slot \in SourceSlots(a, s)
      <4>1. Holds(a, Key(slot), a[Key(slot)])
        BY <3>1 DEF SourceSlots, Holds, Key
      <4> QED BY <1>3, <4>1
    <3>2. CASE slot \notin SourceSlots(a, s)
      <4>1. PICK i \in 1..L : free[i] = slot
        BY <1>1, <2>1, <3>2
      <4>2. PICK n \in 1..N : i = 2 * n - 1 \/ i = 2 * n
        <5> DEFINE k == (i + 1) \div 2
        <5>1. k \in Nat /\ (i = 2 * k - 1 \/ i = 2 * k)
          BY <1>4
        <5> HIDE DEF k
        <5>2. k \in 1..N
          BY <1>4, <1>7, <5>1
        <5> QED BY <5>1, <5>2
      <4>3. \E row : P(n, slot, row)
        BY <1>2, <1>4, <4>1, <4>2
      <4> QED BY <1>3, <4>3
    <3> QED BY <3>1, <3>2
  <2> QED BY <2>1 DEF Priced, W
<1>8. CASE 2 * b <= L
  <2> DEFINE one == free[2 * b]
             C(row) == CountsFor(a, txs, s, m, row)
  <2>1. 2 * b \in 1..L /\ one \in Slots \ SourceSlots(a, s)
    BY <1>4, <1>8
  <2>2. \E row : W(one, row)
    <3>1. P(b, one, Price(new[b], free[2 * b - 1]))
      BY <1>2, <1>4, <2>1
    <3> QED BY <1>3, <3>1
  <2>3. ASSUME NEW slot \in Slots, NEW row, Holds(a, Key(slot), row)
        PROVE  C(row) <=> slot = one
    <3>1. slot \in SourceSlots(a, s) /\ row = SourceAt(a, s, slot) /\ slot # one
      BY <1>5, <2>1, <2>3
    <3>2. \A x \in SourceSlots(a, s) : SourceAt(a, s, x).of # m
      BY DEF MintsIn, m
    <3>3. ASSUME row.kind = "price", NEW other, W(row.pair, other), other.of = m
          PROVE  FALSE
      <4>1. Exists(a, Key(row.pair))
        BY <3>1, <3>3 DEF PricesPaired, Key
      <4>2. Holds(a, Key(row.pair), a[Key(row.pair)])
        BY <4>1 DEF Holds
      <4>3. row.pair \in SourceSlots(a, s)
        BY <1>5, <4>2
      <4>4. \A n : ~P(n, row.pair, other)
        BY <1>2, <1>4, <4>3
      <4>5. other = SourceAt(a, s, row.pair)
        BY <1>3, <1>5, <3>3, <4>4
      <4> QED BY <3>2, <3>3, <4>3, <4>5
    <3> QED BY <3>1, <3>2, <3>3 DEF CountsFor, W
  <2>4. ASSUME NEW n \in 1..N, 2 * n - 1 \in 1..L
        PROVE  ~C(Balance(new[n], 0)) /\ free[2 * n - 1] # one
    <3>1. 2 * n - 1 # 2 * b
      OBVIOUS
    <3>2. free[2 * n - 1] # one
      BY <1>1, <2>1, <2>4, <3>1 DEF L
    <3>3. ~Balance(new[n], 0).counts /\ Balance(new[n], 0).kind # "price"
      <4> DEFINE z == 0 > 0
      <4>1. ~z
        OBVIOUS
      <4>2. Balance(new[n], 0) = [kind |-> "balance", of |-> new[n], pair |-> 0, counts |-> z]
        BY DEF Balance
      <4> HIDE DEF z
      <4> QED BY <4>1, <4>2
    <3> QED BY <3>2, <3>3 DEF CountsFor
  <2>5. ASSUME NEW n \in 1..N, 2 * n \in 1..L
        PROVE  C(Price(new[n], free[2 * n - 1])) <=> free[2 * n] = one
    <3> DEFINE x == free[2 * n - 1]
    <3>1. 2 * n - 1 \in 1..L
      BY <1>4, <2>5
    <3>2. ASSUME NEW other, W(x, other) PROVE other = Balance(new[n], 0)
      <4>1. PICK k \in 1..N : P(k, x, other)
        BY <1>3, <1>6, <3>1, <3>2
      <4>2. CASE 2 * k - 1 \in 1..L /\ x = free[2 * k - 1] /\ other = Balance(new[k], 0)
        <5>1. 2 * k - 1 = 2 * n - 1
          BY <1>1, <3>1, <4>2 DEF L
        <5>2. k = n
          BY <5>1
        <5> QED BY <4>2, <5>2
      <4>3. CASE 2 * k \in 1..L /\ x = free[2 * k]
        <5>1. 2 * k = 2 * n - 1
          BY <1>1, <3>1, <4>3 DEF L
        <5> QED BY <5>1
      <4> QED BY <1>2, <1>4, <4>1, <4>2, <4>3
    <3>3. W(x, Balance(new[n], 0))
      <4>1. P(n, x, Balance(new[n], 0))
        BY <1>2, <1>4, <3>1
      <4> QED BY <1>3, <4>1
    <3>4. Balance(new[n], 0).of = new[n]
      BY DEF Balance
    <3>5. (\E other : W(x, other) /\ other.of = m) <=> new[n] = m
      BY <3>2, <3>3, <3>4
    <3>6. new[n] = m <=> n = b
      BY DEF m
    <3>7. n = b <=> free[2 * n] = one
      <4>1. 2 * n = 2 * b <=> n = b
        OBVIOUS
      <4>2. free[2 * n] = free[2 * b] => 2 * n = 2 * b
        BY <1>1, <2>1, <2>5 DEF L
      <4> QED BY <4>1, <4>2
    <3> DEFINE row == Price(new[n], x)
    <3>8. row.kind = "price" /\ row.pair = x
      BY DEF Price
    <3> HIDE DEF x, row, one
    <3>9. C(row) <=> \E other : W(x, other) /\ other.of = m
      BY <3>8 DEF CountsFor, W
    <3> QED BY <3>5, <3>6, <3>7, <3>9 DEF x, row
  <2>6. ASSUME NEW slot \in Slots, NEW row, W(slot, row)
        PROVE  C(row) <=> slot = one
    <3>1. CASE Holds(a, Key(slot), row)
      BY <2>3, <3>1
    <3>2. ASSUME NEW n \in 1..N, P(n, slot, row)
          PROVE  C(row) <=> slot = one
      <4>1. CASE 2 * n - 1 \in 1..L /\ slot = free[2 * n - 1] /\ row = Balance(new[n], 0)
        BY <2>4, <4>1
      <4>2. CASE 2 * n \in 1..L /\ slot = free[2 * n] /\ row = Price(new[n], free[2 * n - 1])
        BY <2>5, <4>2
      <4> QED BY <1>2, <1>4, <3>2, <4>1, <4>2
    <3> QED BY <1>3, <2>6, <3>1, <3>2
  <2> HIDE DEF one
  <2>7. Priced(a, txs, s, m)
    BY <2>1, <2>2, <2>6 DEF Priced, W
  <2> QED BY <2>7 DEF m
<1> QED BY <1>7, <1>8

-----------------------------------------------------------------------------
(***************************************************************************)
(* Every step leaves the mints a panel has shown priced.                   *)
(***************************************************************************)
PricesOK(a, p) ==
  p.job.fresh /\ p.job.kind = "tokens" =>
    /\ p.job.state = "running" =>
         /\ p.job.adding = {} /\ Gentle(p.job.todo)
         /\ \A pair \in p.job.shown : Priced(a, p.job.todo, pair[1], pair[2])
    /\ p.job.state = "applied" => \A pair \in p.job.shown : Priced(a, <<>>, pair[1], pair[2])
PricesInv == \A t \in Pages : PricesOK(acct, page[t])

\* A page whose job is of another kind, has been overtaken or has stopped.
LEMMA PricesIdle ==
  ASSUME NEW a, NEW p,
         ~p.job.fresh \/ p.job.kind # "tokens" \/ p.job.state \notin {"running", "applied"}
  PROVE  PricesOK(a, p)
BY DEF PricesOK

\* A page that somebody else's transaction overtakes is not fresh any more.
LEMMA OvertakenStale ==
  ASSUME NEW p, DOMAIN p = PageFields, DOMAIN p.job = JobFields
  PROVE  ~Overtaken(p).job.fresh
<1>1. CASE p.job.state = "running"
  BY <1>1 DEF Overtaken, PageFields, JobFields
<1>2. CASE p.job.state # "running"
  BY <1>2 DEF Overtaken, PageFields, Idle
<1> QED BY <1>1, <1>2

\* The panel applied on a page that is up to date.
LEMMA TokensPriced ==
  ASSUME AccountsOK(acct), Exists(acct, VaultOf(Vault)), DOMAIN page = Pages, NEW t \in Pages,
         PageOK(acct, page[t]), NEW target \in SUBSET Mints, StartTokens(t, target)
  PROVE  PricesOK(acct, page'[t])
<1> DEFINE w       == page[t].wallet
           added   == target \ page[t].mints
           removed == page[t].mints \ target
           shown   == {pair \in Strategies(acct) \X added :
                         /\ Active(acct, pair[1]) /\ PricesPaired(acct, pair[1])
                         /\ pair[2] \notin MintsIn(acct, pair[1])}
           ixs     == PanelInstructions(acct, w, added, removed)
           q       == Chunked(ixs)
           fresh   == Fresh(t)
           asked   == [Idle EXCEPT !.kind = "tokens", !.shown = shown, !.todo = q, !.fresh = fresh]
           job     == [asked EXCEPT !.state = "running"]
<1>1. page' = [page EXCEPT ![t].job = job] /\ target \subseteq page[t].listed
  BY DEF StartTokens, Start
<1>2. DOMAIN page[t] = PageFields
  BY DEF PageOK
<1>3. page'[t].job = job
  <2> HIDE DEF job
  <2> QED BY <1>1, <1>2 DEF PageFields
<1>4. job.todo = q /\ job.adding = {} /\ job.state = "running" /\ job.shown = shown
  <2> HIDE DEF q, shown, fresh
  <2> QED BY DEF Idle
<1>5. job.fresh => fresh
  <2> HIDE DEF fresh
  <2>1. job.fresh = fresh
    OBVIOUS
  <2> QED BY <2>1
<1> HIDE DEF job
<1>6. ASSUME job.fresh
      PROVE  Gentle(q) /\ \A pair \in shown : Priced(acct, q, pair[1], pair[2])
  <2>1. /\ page[t].mints = VaultMints(acct)
        /\ page[t].listed = {m \in Mints : Exists(acct, Listed(m))}
        /\ acct[VaultOf(Vault)].admin = w
    BY <1>5, <1>6 DEF Fresh, UpToDate
  <2>2. \A m \in added : Exists(acct, Listed(m)) /\ ~Exists(acct, VaultListed(Vault, m))
    BY <1>1, <2>1 DEF VaultMints
  <2>3. \A m \in removed : Exists(acct, VaultListed(Vault, m))
    BY <2>1 DEF VaultMints
  <2>4. added \in SUBSET Mints /\ removed \in SUBSET Mints
    BY <2>1 DEF VaultMints
  <2>5. Count(acct) \in Nat
    BY DEF AccountsOK, Count
  <2> DEFINE new == Among(Alphabet, added)
             N   == Len(new)
             A   == added
  <2> HIDE DEF A, added, removed, w
  <2>6. InLine(acct, ixs)
    BY <2>1, <2>2, <2>3, <2>4, PanelInLine
  <2>7. /\ \A ix \in Entries(ixs) : \A key \in ix.close : key[1] # "source"
        /\ \A u, slot, row : (\E ix \in Entries(ixs) : Gives(ix, SourceOf(u, slot), row))
             <=> /\ u \in Strategies(acct) /\ Active(acct, u)
                 /\ \E n \in 1..N : Piped(acct, u, new[n], n, slot, row)
    BY <2>4, <2>5, PanelGives
  <2>8. /\ new \in Seq(added) /\ \A m \in added : \E n \in 1..N : new[n] = m
        /\ \A i, j \in 1..N : new[i] = new[j] => i = j
    BY <2>4, PanelMints
  <2> HIDE DEF ixs, new
  <2>9. N \in Nat
    BY <2>8, LenProperties
  <2>10. IsList(ixs)
    BY <2>6 DEF InLine
  <2>11. UNION {Entries(q[n]) : n \in 1..Len(q)} = Entries(ixs) /\ Lined(acct, q)
    BY <2>6, <2>10, EntriesCut, ChunksLined
  <2> HIDE DEF q, N
  <2>12. Gentle(q)
    <3>1. IsList(q)
      BY <2>11 DEF Lined
    <3>2. \A n \in 1..Len(q) : \A ix \in Entries(q[n]) : ix \in Entries(ixs)
      BY <2>11
    <3> QED BY <2>7, <3>1, <3>2 DEF Gentle
  <2>13. \A key, row : Due(q, key, row) <=> \E ix \in Entries(ixs) : Gives(ix, key, row)
    <3> TAKE key, row
    <3>1. Due(q, key, row) <=> \E n \in 1..Len(q) : \E ix \in Entries(q[n]) : Gives(ix, key, row)
      BY DEF Due
    <3> QED BY <2>11, <3>1
  <2>14. ASSUME NEW pair \in shown
         PROVE  Priced(acct, q, pair[1], pair[2])
    <3> DEFINE s == pair[1]
               m == pair[2]
    <3>1. /\ s \in Strategies(acct) /\ m \in added /\ Active(acct, s) /\ PricesPaired(acct, s)
          /\ m \notin MintsIn(acct, s)
      OBVIOUS
    <3> HIDE DEF s, m
    <3>2. PICK b \in 1..N : new[b] = m
      BY <2>8, <3>1
    <3>3. \A slot, row : Will(acct, q, SourceOf(s, slot), row) <=>
            \/ Holds(acct, SourceOf(s, slot), row)
            \/ \E n \in 1..N : Piped(acct, s, new[n], n, slot, row)
      <4> TAKE slot, row
      <4> DEFINE key == SourceOf(s, slot)
      <4>1. (\E ix \in Entries(ixs) : Gives(ix, key, row))
              <=> \E n \in 1..N : Piped(acct, s, new[n], n, slot, row)
        BY <2>7, <3>1
      <4>2. Due(q, key, row) <=> \E ix \in Entries(ixs) : Gives(ix, key, row)
        BY <2>13
      <4> QED BY <4>1, <4>2 DEF Will
    <3>4. new[b] \notin MintsIn(acct, s)
      BY <3>1, <3>2
    <3>5. Priced(acct, q, s, new[b])
      BY <2>8, <2>9, <3>1, <3>3, <3>4, PanelPrices
    <3> QED BY <3>2, <3>5 DEF s, m
  <2> QED BY <2>12, <2>14
<1> DEFINE p == page'[t]
<1> HIDE DEF shown, q, p
<1>7. p.job = job
  BY <1>3 DEF p
<1>8. PricesOK(acct, p)
  BY <1>4, <1>6, <1>7 DEF PricesOK
<1> QED BY <1>8 DEF p

\* A transaction of the job that goes through.
LEMMA PricesGoOn ==
  ASSUME JobsInv, PricesInv, NEW t \in Pages, Running(t), Todo(t) # <<>>,
         Run(acct, Head(Todo(t))).ok
  PROVE  PricesOK(Run(acct, Head(Todo(t))).acct, Advance(t))
<1> DEFINE job == page[t].job
           q   == job.todo
           p   == Advance(t)
           k   == [job EXCEPT !.todo = Tail(@), !.raced = FALSE]
           b   == Run(acct, Head(q)).acct
<1>1. DOMAIN page[t] = PageFields /\ DOMAIN job = JobFields /\ PricesOK(acct, page[t])
  BY DEF JobsInv, PageOK, PricesInv
<1>2. p.job = k
  BY <1>1 DEF Advance, PageFields, JobFields
<1>3. /\ k.todo = Tail(q) /\ k.kind = job.kind /\ k.shown = job.shown /\ k.state = job.state
      /\ k.fresh = job.fresh /\ k.adding = job.adding
  BY <1>1 DEF JobFields
<1>4. job.state = "running" /\ q # <<>> /\ Run(acct, Head(q)).ok
  BY DEF Running, Todo
<1> HIDE DEF k, p
<1>5. ASSUME job.fresh, job.kind = "tokens"
      PROVE  /\ k.adding = {} /\ Gentle(k.todo)
             /\ \A pair \in k.shown : Priced(b, k.todo, pair[1], pair[2])
  <2>1. /\ job.adding = {} /\ Gentle(q)
        /\ \A pair \in job.shown : Priced(acct, q, pair[1], pair[2])
    BY <1>1, <1>4, <1>5 DEF PricesOK
  <2> DEFINE shown == job.shown
  <2> HIDE DEF job, b, q, shown
  <2>2. /\ Gentle(Tail(q))
        /\ \A key, row : key[1] = "source" => (Will(b, Tail(q), key, row) <=> Will(acct, q, key, row))
    BY <1>4, <2>1, WillStays DEF b
  <2>3. \A pair \in shown : Priced(b, Tail(q), pair[1], pair[2])
    BY <2>1, <2>2, PricedStays DEF shown
  <2> QED BY <1>3, <2>1, <2>2, <2>3 DEF shown
<1> HIDE DEF job, b
<1>6. PricesOK(b, p)
  BY <1>2, <1>3, <1>4, <1>5 DEF PricesOK
<1> QED BY <1>6 DEF b, p, job, Todo

\* A step of one page that leaves the accounts alone.
LEMMA PricesOfOne ==
  ASSUME PricesInv, NEW t \in Pages, DOMAIN page' = Pages,
         \A u \in Pages \ {t} : page'[u] = page[u], PricesOK(acct, page'[t]), UNCHANGED acct
  PROVE  PricesInv'
<1>1. \A u \in Pages : PricesOK(acct, page'[u])
  BY DEF PricesInv
<1>2. acct' = acct
  OBVIOUS
<1> QED BY <1>1, <1>2 DEF PricesInv

\* A transaction overtakes the jobs of the other pages.
LEMMA PricesOfOthers ==
  ASSUME JobsInv, NEW t \in Pages, NEW p, OnPage(t, p), PricesOK(acct', p)
  PROVE  PricesInv'
<1>1. \A u \in Pages : page'[u] = IF u = t THEN p ELSE Overtaken(page[u])
  BY DEF OnPage
<1>2. \A u \in Pages : PricesOK(acct', Overtaken(page[u]))
  BY OvertakenStale, PricesIdle DEF JobsInv, PageOK
<1> QED BY <1>1, <1>2 DEF PricesInv

\* So do those of governance, of scripts and of other clients.
LEMMA PricesOfNone ==
  ASSUME JobsInv, page' = [u \in Pages |-> Overtaken(page[u])]
  PROVE  PricesInv'
<1>1. \A u \in Pages : PricesOK(acct', Overtaken(page[u]))
  BY OvertakenStale, PricesIdle DEF JobsInv, PageOK
<1> QED BY <1>1 DEF PricesInv

\* The mints shown after an action of one page.
LEMMA PricesOfPage ==
  ASSUME AccountsOK(acct), JobsInv, PricesInv, Exists(acct, VaultOf(Vault)), NEW t \in Pages,
         \/ \E w \in {Admin}, s \in Strategies(acct), failed \in {{}, {"action"}} :
              LoadPage(t, w, s, failed)
         \/ RefreshPage(t)
         \/ \E name \in Presets : StartPreset(t, name) \/ \E d \in Agents : StartCreate(t, name, d)
         \/ \E target \in SUBSET Mints : StartTokens(t, target)
         \/ BuildAdditions(t) \/ Send(t) \/ FailUnnoticed(t) \/ AnswerLost(t)
         \/ CloseTab(t) \/ Finish(t)
         \/ EditActions(t) \/ EditAutoActions(t) \/ EditSources(t) \/ EditDelegate(t)
         \/ Deactivate(t) \/ ProposeSuccessor(t)
  PROVE  PricesInv'
<1> DEFINE p == page[t]
<1>0. /\ DOMAIN page = Pages /\ PageOK(acct, p) /\ DOMAIN p = PageFields /\ DOMAIN p.job = JobFields
      /\ PricesOK(acct, p)
  BY DEF JobsInv, PageOK, PricesInv
<1>a. ASSUME NEW q, page' = [page EXCEPT ![t] = q], UNCHANGED acct, PricesOK(acct, q)
      PROVE  PricesInv'
  <2>1. DOMAIN page' = Pages /\ page'[t] = q /\ \A u \in Pages \ {t} : page'[u] = page[u]
    BY <1>0, <1>a
  <2> QED BY <1>a, <2>1, PricesOfOne
<1>i. ASSUME NEW q, q.job = Idle
      PROVE  \A b : PricesOK(b, q)
  BY <1>i, PricesIdle DEF Idle
<1>1. CASE \E w \in {Admin}, s \in Strategies(acct), failed \in {{}, {"action"}} :
             LoadPage(t, w, s, failed)
  <2>1. PICK w \in {Admin}, s \in Strategies(acct), failed \in {{}, {"action"}} :
          LoadPage(t, w, s, failed)
    BY <1>1
  <2> DEFINE seen   == {key \in RowsOf(acct, s) : ~IsRow(key, failed)}
             mints  == VaultMints(acct)
             listed == {m \in Mints : Exists(acct, Listed(m))}
             n      == Count(acct)
             idle   == Idle
             q      == [wallet |-> w, strategy |-> s, seen |-> seen, mints |-> mints,
                        listed |-> listed, count |-> n, job |-> idle]
  <2>2. page' = [page EXCEPT ![t] = q] /\ UNCHANGED acct
    BY <2>1 DEF LoadPage
  <2> HIDE DEF idle, seen, mints, listed, n
  <2>3. q.job = Idle
    BY DEF idle
  <2> HIDE DEF q
  <2> QED BY <1>a, <1>i, <2>2, <2>3
<1>2. CASE RefreshPage(t)
  <2> DEFINE q == Reread(t)
  <2>1. page' = [page EXCEPT ![t] = q] /\ UNCHANGED acct
    BY <1>2 DEF RefreshPage
  <2>2. q.job = p.job
    BY <1>0 DEF Reread, PageFields
  <2> HIDE DEF q, p
  <2>3. PricesOK(acct, q)
    BY <1>0, <2>2 DEF PricesOK
  <2> QED BY <1>a, <2>1, <2>3
<1>3. ASSUME NEW name, StartPreset(t, name)
      PROVE  PricesInv'
  <2>0. PICK shown \in Previews(t, name) : Start(t, PresetJob(t, name, shown))
    BY <1>3 DEF StartPreset
  <2> DEFINE seen   == p.seen
             todo   == Revocations(t, seen \ shown)
             adding == IF name = "custom" THEN {} ELSE ToAdd(seen, shown)
             fresh  == Fresh(t) /\ Active(acct, p.strategy)
             asked  == [Idle EXCEPT !.kind = "preset", !.target = name, !.had = seen,
                                    !.shown = shown, !.todo = todo, !.adding = adding,
                                    !.fresh = fresh]
             job    == [asked EXCEPT !.state = "running"]
             q      == [page[t] EXCEPT !.job = job]
  <2>1. page' = [page EXCEPT ![t].job = job] /\ UNCHANGED acct
    BY <2>0 DEF Start, PresetJob
  <2> HIDE DEF seen, todo, adding, fresh
  <2>2. job.kind = "preset"
    BY DEF Idle
  <2> HIDE DEF job
  <2>3. page' = [page EXCEPT ![t] = q] /\ q.job = job
    BY <1>0, <2>1 DEF PageFields
  <2> HIDE DEF q
  <2>4. PricesOK(acct, q)
    BY <2>2, <2>3, PricesIdle
  <2> QED BY <1>a, <2>1, <2>3, <2>4
<1>4. ASSUME NEW name, NEW d, StartCreate(t, name, d)
      PROVE  PricesInv'
  <2> DEFINE q == page'[t]
  <2>1. UNCHANGED acct /\ DOMAIN page' = Pages /\ \A u \in Pages \ {t} : page'[u] = page[u]
    BY <1>0, <1>4 DEF StartCreate
  <2>2. q.job.kind = "create"
    <3> DEFINE s      == <<Vault, p.count>>
               shown  == TargetRows(acct, name, s)
               todo   == <<Single(CreateStrategy(s, p.wallet, d, FirstStrategies(p.count)))>>
               adding == IF name = "custom" THEN {} ELSE PossibleRows(s)
               fresh  == Fresh(t) /\ Buildable(acct, name)
                           /\ \A u \in Strategies(acct) :
                                Active(acct, u) => acct[StrategyOf(u)].delegate # d
               job    == [Idle EXCEPT !.kind = "create", !.state = "running", !.target = name,
                                      !.shown = shown, !.todo = todo, !.adding = adding,
                                      !.fresh = fresh]
    <3>1. page' = [page EXCEPT ![t].strategy = s, ![t].seen = {}, ![t].job = job]
      BY <1>4 DEF StartCreate
    <3> HIDE DEF s, shown, todo, adding, fresh
    <3>2. job.kind = "create"
      BY DEF Idle
    <3> HIDE DEF job
    <3>3. q.job = job
      BY <1>0, <3>1 DEF PageFields
    <3> QED BY <3>2, <3>3
  <2> HIDE DEF q
  <2>3. PricesOK(acct, q)
    BY <2>2, PricesIdle
  <2> QED BY <2>1, <2>3, PricesOfOne DEF q
<1>5. ASSUME NEW target \in SUBSET Mints, StartTokens(t, target)
      PROVE  PricesInv'
  <2>1. PricesOK(acct, page'[t])
    BY <1>0, <1>5, TokensPriced
  <2>2. PICK job : Start(t, job)
    BY <1>5 DEF StartTokens
  <2>3. UNCHANGED acct /\ DOMAIN page' = Pages /\ \A u \in Pages \ {t} : page'[u] = page[u]
    BY <1>0, <2>2 DEF Start
  <2> QED BY <2>1, <2>3, PricesOfOne
<1>6. CASE BuildAdditions(t)
  <2> DEFINE q == page'[t]
  <2>1. UNCHANGED acct /\ DOMAIN page' = Pages /\ \A u \in Pages \ {t} : page'[u] = page[u]
    BY <1>0, <1>6 DEF BuildAdditions
  <2>2. ~(p.job.fresh /\ p.job.kind = "tokens")
    BY <1>0, <1>6 DEF BuildAdditions, Running, PricesOK
  <2>3. \/ q.job.fresh = p.job.fresh /\ q.job.kind = p.job.kind
        \/ q.job.kind = "none"
    <3>1. ASSUME NEW order,
                 page' = [page EXCEPT ![t].job.todo = Additions(t, order), ![t].job.adding = {}]
          PROVE  q.job.fresh = p.job.fresh /\ q.job.kind = p.job.kind
      <4> DEFINE adds == Additions(t, order)
      <4>1. page' = [page EXCEPT ![t].job.todo = adds, ![t].job.adding = {}]
        BY <3>1
      <4> HIDE DEF adds
      <4> QED BY <1>0, <4>1 DEF PageFields, JobFields
    <3>2. ASSUME page' = [page EXCEPT ![t].job = [Idle EXCEPT !.state = "failed"]]
          PROVE  q.job.kind = "none"
      BY <1>0, <3>2 DEF PageFields, Idle
    <3> QED BY <1>6, <3>1, <3>2 DEF BuildAdditions
  <2> HIDE DEF q
  <2>4. PricesOK(acct, q)
    BY <2>2, <2>3, PricesIdle
  <2> QED BY <2>1, <2>4, PricesOfOne DEF q
<1>7. ASSUME NEW state, state \notin {"running", "applied"}
      PROVE  \A b : PricesOK(b, Stopped(t, state))
  <2> DEFINE q == Stopped(t, state)
             k == [Idle EXCEPT !.state = state, !.fresh = p.job.fresh]
  <2>1. q.job = k
    BY <1>0 DEF Stopped, PageFields
  <2>2. k.kind = "none"
    BY DEF Idle
  <2> HIDE DEF q, k
  <2> QED BY <2>1, <2>2, PricesIdle DEF q
<1>8. CASE Send(t)
  <2> DEFINE r == Run(acct, Head(Todo(t)))
             q == Advance(t)
  <2>0. Running(t) /\ Todo(t) # <<>>
    BY <1>8 DEF Send
  <2>1. CASE r.ok
    <3>1. acct' = r.acct /\ OnPage(t, q)
      BY <1>8, <2>1 DEF Send, Lands
    <3>2. PricesOK(r.acct, q)
      BY <2>0, <2>1, PricesGoOn
    <3> HIDE DEF r, q
    <3>3. PricesOK(acct', q)
      BY <3>1, <3>2
    <3> QED BY <3>1, <3>3, PricesOfOthers
  <2>2. CASE ~r.ok
    <3> DEFINE k == Stopped(t, "refused")
    <3>1. page' = [page EXCEPT ![t] = k] /\ UNCHANGED acct
      BY <1>8, <2>2 DEF Send
    <3>2. PricesOK(acct, k)
      BY <1>7
    <3> HIDE DEF k
    <3> QED BY <1>a, <3>1, <3>2
  <2> QED BY <2>1, <2>2
<1>9. CASE FailUnnoticed(t)
  <2> DEFINE q == Advance(t)
             k == [p.job EXCEPT !.todo = Tail(@), !.raced = FALSE]
  <2>1. page' = [page EXCEPT ![t] = q] /\ UNCHANGED acct /\ p.job.kind \in {"preset", "create"}
    BY <1>9 DEF FailUnnoticed
  <2>2. q.job = k
    BY <1>0 DEF Advance, PageFields, JobFields
  <2>3. k.kind = p.job.kind
    BY <1>0 DEF JobFields
  <2> HIDE DEF q, k, p
  <2>4. PricesOK(acct, q)
    BY <2>1, <2>2, <2>3, PricesIdle
  <2> QED BY <1>a, <2>1, <2>4
<1>10. CASE AnswerLost(t)
  <2> DEFINE q == Stopped(t, "failed")
  <2>1. OnPage(t, q) \/ (page' = [page EXCEPT ![t] = q] /\ UNCHANGED acct)
    BY <1>10 DEF AnswerLost
  <2>2. \A b : PricesOK(b, q)
    BY <1>7
  <2> HIDE DEF q
  <2>3. PricesOK(acct, q) /\ PricesOK(acct', q)
    BY <2>2
  <2> QED BY <1>a, <2>1, <2>3, PricesOfOthers
<1>11. CASE CloseTab(t)
  <2> DEFINE q == Closed
  <2>1. page' = [page EXCEPT ![t] = q] /\ UNCHANGED acct
    BY <1>11 DEF CloseTab
  <2>2. q.job = Idle
    BY DEF Closed
  <2> HIDE DEF q
  <2> QED BY <1>a, <1>i, <2>1, <2>2
<1>12. CASE Finish(t)
  <2> DEFINE q == page'[t]
             job == p.job
             k == [job EXCEPT !.state = "applied"]
  <2>1. q.job = k
    <3>1. CASE job.kind = "tokens"
      BY <1>0, <1>12, <3>1 DEF Finish, PageFields, JobFields
    <3>2. CASE job.kind # "tokens"
      BY <1>0, <1>12, <3>2 DEF Finish, Reread, PageFields, JobFields
    <3> QED BY <3>1, <3>2
  <2>2. /\ k.state = "applied" /\ k.kind = job.kind /\ k.fresh = job.fresh
        /\ k.shown = job.shown
    <3> HIDE DEF job
    <3> QED BY <1>0 DEF JobFields, job
  <2>3. UNCHANGED acct /\ DOMAIN page' = Pages /\ \A u \in Pages \ {t} : page'[u] = page[u]
    BY <1>0, <1>12 DEF Finish
  <2>4. job.state = "running" /\ job.todo = <<>>
    BY <1>12 DEF Finish, Running, Todo
  <2>5. job.fresh /\ job.kind = "tokens" =>
          \A pair \in job.shown : Priced(acct, <<>>, pair[1], pair[2])
    BY <1>0, <2>4 DEF PricesOK
  <2> HIDE DEF q, k, job, p
  <2>6. PricesOK(acct, q)
    BY <2>1, <2>2, <2>5 DEF PricesOK
  <2> QED BY <2>3, <2>6, PricesOfOne DEF q
<1>13. ASSUME NEW q, OnPage(t, q), q.job = Idle
       PROVE  PricesInv'
  <2>1. PricesOK(acct', q)
    BY <1>i, <1>13
  <2> QED BY <1>13, <2>1, PricesOfOthers
<1>14. CASE EditActions(t)
  <2> DEFINE q == ActionsReread(t)
  <2>1. OnPage(t, q)
    BY <1>14 DEF EditActions
  <2>2. q.job = Idle
    BY <1>0 DEF ActionsReread, PageFields
  <2> HIDE DEF q
  <2> QED BY <1>13, <2>1, <2>2
<1>15. ASSUME NEW ixs, Submits(t, ixs)
       PROVE  PricesInv'
  <2> DEFINE q == OnlyCount(t)
  <2>1. OnPage(t, q)
    BY <1>15 DEF Submits
  <2>2. q.job = Idle
    BY <1>0 DEF OnlyCount, PageFields
  <2> HIDE DEF q
  <2> QED BY <1>13, <2>1, <2>2
<1>16. CASE \/ EditAutoActions(t) \/ EditSources(t) \/ EditDelegate(t)
            \/ Deactivate(t) \/ ProposeSuccessor(t)
  BY <1>15, <1>16
    DEF EditAutoActions, EditSources, EditDelegate, Deactivate, ProposeSuccessor
<1> QED BY <1>1, <1>2, <1>3, <1>4, <1>5, <1>6, <1>8, <1>9, <1>10, <1>11, <1>12, <1>14, <1>16

\* After any step of the console.
LEMMA PricesKept ==
  ASSUME AccountsOK(acct), JobsInv, PricesInv, Exists(acct, VaultOf(Vault)), ConsoleNext
  PROVE  PricesInv'
<1>1. CASE Elsewhere
  BY <1>1, PricesOfNone DEF Elsewhere
<1> QED BY <1>1, PricesOfPage DEF ConsoleNext

\* A cooldown that elapses leaves the sources alone.
LEMMA PricesElapse ==
  ASSUME PricesInv, CooldownElapses
  PROVE  PricesInv'
<1> DEFINE b == acct'
<1>1. page' = page /\ DOMAIN b = DOMAIN acct
      /\ \A key \in DOMAIN acct : key[1] # "action" => b[key] = acct[key]
  BY DEF CooldownElapses, IsRow
<1> HIDE DEF b
<1>2. \A txs, key, row : key[1] = "source" => (Will(b, txs, key, row) <=> Will(acct, txs, key, row))
  BY <1>1 DEF Will, Holds, Exists
<1>3. \A txs, s, m : Priced(acct, txs, s, m) => Priced(b, txs, s, m)
  BY <1>2, PricedStays
<1>4. \A p : PricesOK(acct, p) => PricesOK(b, p)
  BY <1>3 DEF PricesOK
<1> QED BY <1>1, <1>4 DEF PricesInv, b

\* After any step of the scripts and the other clients.
LEMMA PricesSurvive ==
  ASSUME AccountsOK(acct), JobsInv, PricesInv, Exists(acct, VaultOf(Vault)), ScriptsNext
  PROVE  PricesInv'
<1>1. ASSUME UNCHANGED <<acct, page>> PROVE PricesInv'
  BY <1>1 DEF PricesInv
<1>2. CASE CooldownElapses
  BY <1>2, PricesElapse
<1>3. ASSUME page' = [u \in Pages |-> Overtaken(page[u])]
      PROVE  PricesInv'
  BY <1>3, PricesOfNone
<1>4. CASE StartScript
  <2>1. ASSUME NEW name, NEW steps, Launch(name, steps) PROVE UNCHANGED <<acct, page>>
    BY <2>1 DEF Launch
  <2>2. UNCHANGED <<acct, page>>
    BY <1>4, <2>1 DEF StartScript, StartListScript, StartSetupScript, StartVaultScript,
                      StartSourceScript
  <2> QED BY <1>1, <2>2
<1>5. CASE RunStep
  BY <1>1, <1>3, <1>5 DEF RunStep, ScriptLands
<1>6. CASE ScriptDies
  BY <1>1, <1>3, <1>6 DEF ScriptDies, ScriptLands
<1>7. CASE FinishScript
  BY <1>1, <1>7 DEF FinishScript, consoleVars
<1>8. CASE ConsoleNext
  BY <1>8, PricesKept
<1>9. CASE UseElsewhere
  BY <1>3, <1>9 DEF UseElsewhere
<1> QED BY <1>2, <1>4, <1>5, <1>6, <1>7, <1>8, <1>9 DEF ScriptsNext

\* No panel has been applied at the start.
LEMMA PricesStart ==
  ASSUME ConsoleInit
  PROVE  PricesInv
<1> DEFINE q == Closed
<1>1. page = [t \in Pages |-> q]
  BY DEF ConsoleInit
<1>2. ~q.job.fresh
  BY DEF Closed, Idle
<1> HIDE DEF q
<1>3. PricesOK(acct, q)
  BY <1>2, PricesIdle
<1> QED BY <1>1, <1>3 DEF PricesInv

\* What the sources have come to when the panel is done.
LEMMA PricesImply ==
  ASSUME PricesInv
  PROVE  PanelPricesOnce
<1> SUFFICES ASSUME NEW t \in Pages, page[t].job.state = "applied", page[t].job.fresh,
                    page[t].job.kind = "tokens", NEW pair \in page[t].job.shown
             PROVE  \/ TimesCounted(acct, pair[1], pair[2]) = 1
                    \/ SourceSlots(acct, pair[1]) = Slots
  BY DEF PanelPricesOnce
<1>1. Priced(acct, <<>>, pair[1], pair[2])
  BY DEF PricesInv, PricesOK
<1> QED BY <1>1, PricedCounts

\* The token panel on a page that shows the chain as it is, alone: every mint it
\* adds counts once in the value of every active strategy that had no source for it
\* and has slots left, however many strategies and mints there are.
THEOREM TokensPricedOnce == ConsoleSpec => []PanelPricesOnce
<1>1. ConsoleInit => ConfigInv /\ JobsInv /\ WorkInv /\ PricesInv
  BY ConfigStart, JobsStart, WorkStart, PricesStart
<1>2. ConfigInv /\ JobsInv /\ WorkInv /\ PricesInv /\ [ConsoleNext]_consoleVars
        => ConfigInv' /\ JobsInv' /\ WorkInv' /\ PricesInv'
  <2> SUFFICES ASSUME ConfigInv, JobsInv, WorkInv, PricesInv, [ConsoleNext]_consoleVars
               PROVE  ConfigInv' /\ JobsInv' /\ WorkInv' /\ PricesInv'
    OBVIOUS
  <2>1. ConfigInv'
    BY ConsoleKeeps
  <2>2. CASE ConsoleNext
    <3>1. AccountsOK(acct) /\ Exists(acct, VaultOf(Vault))
      BY DEF ConfigInv, WorkInv
    <3> QED BY <2>1, <2>2, <3>1, JobsKept, WorkKept, PricesKept DEF ConfigInv
  <2>3. CASE UNCHANGED consoleVars
    BY <2>1, <2>3 DEF consoleVars, JobsInv, WorkInv, PricesInv
  <2> QED BY <2>2, <2>3
<1>3. PricesInv => PanelPricesOnce
  BY PricesImply
<1> QED BY <1>1, <1>2, <1>3, PTL DEF ConsoleSpec

\* Whatever sources scripts have left in the slots before.
THEOREM ScriptsTokensPricedOnce == ScriptsSpec => []PanelPricesOnce
<1>1. ScriptsInit => JobsInv /\ WorkInv /\ PricesInv
  BY JobsStart, WorkStart, PricesStart DEF ScriptsInit
<1>2. ConfigInv /\ JobsInv /\ WorkInv /\ PricesInv /\ [ScriptsNext]_scriptsVars
        => JobsInv' /\ WorkInv' /\ PricesInv'
  <2> SUFFICES ASSUME ConfigInv, JobsInv, WorkInv, PricesInv, [ScriptsNext]_scriptsVars
               PROVE  JobsInv' /\ WorkInv' /\ PricesInv'
    OBVIOUS
  <2>1. CASE ScriptsNext
    <3>1. AccountsOK(acct) /\ Exists(acct, VaultOf(Vault))
      BY DEF ConfigInv, WorkInv
    <3> QED BY <2>1, <3>1, JobsSurvive, WorkSurvives, PricesSurvive DEF ConfigInv
  <2>2. CASE UNCHANGED scriptsVars
    BY <2>2 DEF scriptsVars, consoleVars, JobsInv, WorkInv, PricesInv
  <2> QED BY <2>1, <2>2
<1>3. PricesInv => PanelPricesOnce
  BY PricesImply
<1> QED BY <1>1, <1>2, <1>3, ConfigInvariant, PTL DEF ScriptsSpec
=============================================================================
