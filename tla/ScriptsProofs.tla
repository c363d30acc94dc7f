--------------------------- MODULE ScriptsProofs ---------------------------
(***************************************************************************)
(* What the operator scripts achieve, whatever earlier runs, the console   *)
(* and other clients have left behind: none of the transactions of those   *)
(* that can be run again is refused, and one that comes to its end has     *)
(* done its work, if nobody has interfered with it.                        *)
(***************************************************************************)
EXTENDS ConfigProofs

-----------------------------------------------------------------------------
(***************************************************************************)
(* Delegates: those people choose, and those scripts generate, each for    *)
(* the strategies of one number.                                           *)
(***************************************************************************)
Chosen == Agents \cup {"agent", Lender}
Known(s) == Chosen \cup {Generated[s[2] + 1]}

\* The demo vault's roles are changed by its own script only, which may be interrupted
\* anywhere: once the demo key is its administrator, the authority is the demo key too,
\* or offered to it.
Ours == VaultOf(DemoVault)
RoleSteps == {"propose_authority", "accept_admin", "accept_authority"}
Promised(a) == Exists(a, Ours) /\ DemoKey \in {a[Ours].authority, a[Ours].pendingAuthority}
Secured(a) == Exists(a, Ours) /\ a[Ours].admin = DemoKey => Promised(a)

\* An instruction that gives its strategy such a delegate, or none,
Fits(ix) == ix.do \in {"create", "delegate"} => ix.key \in Known(ix.strategy)
\* and leaves the demo vault to its script.
Named(ix) == Fits(ix) /\ (ix.vault = DemoVault => ix.do \notin RoleSteps)

\* Governance stays who it is, and every strategy has such a delegate.
KnownOK(a) ==
  /\ Exists(a, Config) /\ a[Config].governance = Governance
  /\ \A s : Exists(a, StrategyOf(s)) => a[StrategyOf(s)].delegate \in Known(s)
  /\ Secured(a)

\* The accounts b after the accounts a are in such order, and nothing is taken back.
Keeps(a, b) == KnownOK(b) /\ (Promised(a) => Promised(b))

\* What an instruction makes of a vault's roles.
LEMMA RolesAfter ==
  ASSUME NEW a, AccountsOK(a), NEW ix, Accepts(a, ix)
  PROVE  LET b == After(a, ix)
             asked(what) == ix.vault = DemoVault /\ ix.do = what
         IN  /\ Exists(a, Ours) =>
                  /\ Exists(b, Ours)
                  /\ b[Ours].admin = IF asked("accept_admin") THEN ix.wallet ELSE a[Ours].admin
                  /\ b[Ours].authority =
                       IF asked("accept_authority") THEN ix.wallet ELSE a[Ours].authority
                  /\ b[Ours].pendingAuthority =
                       IF asked("propose_authority") THEN ix.key
                       ELSE IF asked("accept_authority") THEN "none"
                       ELSE a[Ours].pendingAuthority
             /\ Exists(b, Ours) /\ ~Exists(a, Ours) => b[Ours].authority = b[Ours].admin
<1> DEFINE b == After(a, ix)
           asked(what) == ix.vault = DemoVault /\ ix.do = what
<1>1. Ours[1] = "vault"
  BY Addresses DEF Ours
<1>2. Ours \notin ix.close
  BY <1>1 DEF Accepts, Derived
<1>3. ASSUME Exists(a, Ours)
      PROVE  /\ Exists(b, Ours)
             /\ b[Ours].admin = IF asked("accept_admin") THEN ix.wallet ELSE a[Ours].admin
             /\ b[Ours].authority =
                  IF asked("accept_authority") THEN ix.wallet ELSE a[Ours].authority
             /\ b[Ours].pendingAuthority =
                  IF asked("propose_authority") THEN ix.key
                  ELSE IF asked("accept_authority") THEN "none" ELSE a[Ours].pendingAuthority
  <2>1. Ours \notin DOMAIN ix.init
    BY <1>3 DEF Accepts
  <2>2. Exists(b, Ours) /\ b[Ours] = Rewritten(a, ix, Ours)
    BY <1>2, <1>3, <2>1, AfterDomain DEF Exists
  <2>3. DOMAIN a[Ours] = VaultFields
    BY <1>3 DEF AccountsOK, Ours
  <2>4. ix.do = "execute" => Ours # ix.key[1]
    BY <1>1 DEF Accepts, Derived
  <2>5. Ours # StrategyOf(ix.strategy) /\ (Ours = VaultOf(ix.vault) <=> ix.vault = DemoVault)
    BY Addresses DEF Ours
  <2> HIDE DEF b
  <2> DEFINE r == Rewritten(a, ix, Ours)
  <2>6. CASE ix.vault = DemoVault /\ ix.do \in RoleSteps \cup {"propose_admin", "create"}
    <3>1. r = CASE ix.do = "create" -> Counted(a[Ours])
                [] ix.do = "propose_admin" -> [a[Ours] EXCEPT !.pendingAdmin = ix.key]
                [] ix.do = "propose_authority" -> [a[Ours] EXCEPT !.pendingAuthority = ix.key]
                [] ix.do = "accept_admin" ->
                     [a[Ours] EXCEPT !.admin = ix.wallet, !.pendingAdmin = "none"]
                [] OTHER -> [a[Ours] EXCEPT !.authority = ix.wallet, !.pendingAuthority = "none"]
      BY <2>5, <2>6 DEF Rewritten, RoleSteps
    <3> HIDE DEF r
    <3>2. /\ r.admin = IF asked("accept_admin") THEN ix.wallet ELSE a[Ours].admin
          /\ r.authority = IF asked("accept_authority") THEN ix.wallet ELSE a[Ours].authority
          /\ r.pendingAuthority =
               IF asked("propose_authority") THEN ix.key
               ELSE IF asked("accept_authority") THEN "none" ELSE a[Ours].pendingAuthority
      BY <2>3, <2>6, <3>1 DEF Counted, VaultFields, RoleSteps
    <3> QED BY <2>2, <3>2 DEF r
  <2>7. CASE ~(ix.vault = DemoVault /\ ix.do \in RoleSteps \cup {"propose_admin", "create"})
    <3>1. r = a[Ours]
      BY <2>4, <2>5, <2>7 DEF Rewritten, RoleSteps
    <3> HIDE DEF r
    <3> QED BY <2>2, <2>7, <3>1 DEF r, RoleSteps
  <2> QED BY <2>6, <2>7
<1>4. ASSUME Exists(b, Ours), ~Exists(a, Ours)
      PROVE  b[Ours].authority = b[Ours].admin
  <2>1. Ours \in DOMAIN ix.init
    BY <1>1, <1>4, AfterDomain, Addresses DEF Exists
  <2>2. b[Ours] = Initial(ix, Ours)
    BY <2>1, AfterDomain
  <2> QED BY <1>1, <2>2 DEF Initial
<1> HIDE DEF b
<1> QED BY <1>3, <1>4 DEF b

\* An instruction that leaves them to the script leaves them as they were.
LEMMA RolesLeft ==
  ASSUME NEW a, AccountsOK(a), NEW ix, Accepts(a, ix), ix.vault = DemoVault => ix.do \notin RoleSteps
  PROVE  /\ Promised(a) => Promised(After(a, ix))
         /\ Secured(a) => Secured(After(a, ix))
<1> DEFINE b == After(a, ix)
<1>1. /\ Exists(a, Ours) =>
           /\ Exists(b, Ours) /\ b[Ours].admin = a[Ours].admin
           /\ b[Ours].authority = a[Ours].authority
           /\ b[Ours].pendingAuthority = a[Ours].pendingAuthority
      /\ Exists(b, Ours) /\ ~Exists(a, Ours) => b[Ours].authority = b[Ours].admin
  BY RolesAfter DEF RoleSteps
<1> HIDE DEF b
<1> QED BY <1>1 DEF Promised, Secured, b

\* What an instruction leaves of it,
LEMMA KnownAfter ==
  ASSUME NEW a, AccountsOK(a), KnownOK(a), NEW ix, Accepts(a, ix), Fits(ix),
         Secured(After(a, ix))
  PROVE  KnownOK(After(a, ix))
<1> DEFINE b == After(a, ix)
<1>1. Exists(a, Config) /\ a[Config].governance = Governance /\ Config[1] = "config"
  BY DEF KnownOK, Config
<1>2. Config \notin ix.close /\ Config \notin DOMAIN ix.init
  BY <1>1 DEF Accepts, Derived
<1>3. Exists(b, Config) /\ b[Config] = Rewritten(a, ix, Config)
  BY <1>1, <1>2, AfterDomain DEF Exists
<1>4. Rewritten(a, ix, Config) = a[Config]
  <2>1. Config # VaultOf(ix.vault) /\ Config # StrategyOf(ix.strategy)
    BY <1>1, Addresses
  <2>2. ix.do = "execute" => Config # ix.key[1]
    BY <1>1 DEF Accepts, Derived
  <2> QED BY <2>1, <2>2 DEF Rewritten
<1> HIDE DEF b
<1>5. ASSUME NEW s, Exists(b, StrategyOf(s))
      PROVE  b[StrategyOf(s)].delegate \in Known(s)
  <2>1. CASE Exists(a, StrategyOf(s))
    <3>1. b[StrategyOf(s)].delegate =
            IF ix.do = "delegate" /\ ix.strategy = s THEN ix.key ELSE a[StrategyOf(s)].delegate
      BY <2>1, StrategyAfter DEF b
    <3> QED BY <2>1, <3>1 DEF KnownOK, Fits
  <2>2. CASE ~Exists(a, StrategyOf(s))
    <3>1. ix.do = "create" /\ ix.strategy = s /\ b[StrategyOf(s)].delegate = ix.key
      BY <1>5, <2>2, StrategyAfter DEF b
    <3> QED BY <3>1 DEF Fits
  <2> QED BY <2>1, <2>2
<1>6. KnownOK(b)
  BY <1>1, <1>3, <1>4, <1>5 DEF KnownOK, b
<1> QED BY <1>6 DEF b

\* and a transaction of such instructions.
LEMMA RunKnown ==
  ASSUME NEW a, AccountsOK(a), KnownOK(a), NEW tx, Run(a, tx).ok,
         \A ix \in Entries(tx) : Named(ix)
  PROVE  Keeps(a, Run(a, tx).acct)
<1> DEFINE N == Len(tx)
<1>1. PICK h : Stages(h, a, tx) /\ Run(a, tx).acct = h[N]
  BY RunStages
<1>2. N \in Nat
  BY RunStages
<1>3. h[0] = a /\ \A k \in 1..N : Accepts(h[k - 1], tx[k]) /\ h[k] = After(h[k - 1], tx[k])
  BY <1>1 DEF Stages
<1>4. \A k \in 1..N : Named(tx[k])
  BY DEF Entries
<1> HIDE DEF N
<1> DEFINE G == {k \in 0..N : AccountsOK(h[k]) /\ Keeps(a, h[k])}
<1>5. 0 \in G
  BY <1>2, <1>3 DEF Keeps
<1>6. ASSUME NEW k \in 1..N, k - 1 \in G
      PROVE  k \in G
  <2> DEFINE b == h[k - 1]
             c == h[k]
  <2>1. k \in 0..N /\ AccountsOK(b) /\ Keeps(a, b)
    BY <1>2, <1>6
  <2>2. Accepts(b, tx[k]) /\ c = After(b, tx[k]) /\ Named(tx[k])
    BY <1>3, <1>4
  <2> HIDE DEF b, c
  <2>3. (Promised(b) => Promised(c)) /\ (Secured(b) => Secured(c))
    BY <2>1, <2>2, RolesLeft DEF Named
  <2>4. KnownOK(c)
    BY <2>1, <2>2, <2>3, KnownAfter DEF Named, Keeps, KnownOK
  <2>5. AccountsOK(c) /\ Keeps(a, c)
    BY <2>1, <2>2, <2>3, <2>4, AccountsKept DEF Keeps
  <2> QED BY <2>1, <2>5 DEF c
<1> HIDE DEF G
<1>7. \A k \in 0..N : k \in G
  BY <1>2, <1>5, <1>6, Upwards
<1>8. N \in G
  BY <1>2, <1>7
<1> QED BY <1>1, <1>8 DEF G

\* Lists of instructions, lists of transactions and the steps of a script that
\* name such delegates.
ListNamed(q) == IsList(q) /\ \A i \in 1..Len(q) : Named(q[i])
TxsNamed(txs) == IsList(txs) /\ \A n \in 1..Len(txs) : ListNamed(txs[n])
StepsNamed(steps) ==
  IsList(steps) /\ \A n \in 1..Len(steps) : ListNamed(steps[n].tx)

\* One list after the other.
LEMMA NamedConcat ==
  ASSUME NEW q, NEW r
  PROVE  /\ ListNamed(q) /\ ListNamed(r) => ListNamed(q \o r)
         /\ StepsNamed(q) /\ StepsNamed(r) => StepsNamed(q \o r)
<1>1. ASSUME IsList(q), IsList(r)
      PROVE  IsList(q \o r) /\ \A i \in 1..Len(q \o r) :
               (\E j \in 1..Len(q) : (q \o r)[i] = q[j]) \/ \E j \in 1..Len(r) : (q \o r)[i] = r[j]
  <2> DEFINE t == q \o r
  <2>1. IsList(t) /\ Entries(t) = Entries(q) \cup Entries(r)
    BY <1>1, EntriesConcat
  <2> HIDE DEF t
  <2>2. \A i \in 1..Len(t) : t[i] \in Entries(q) \cup Entries(r)
    BY <2>1 DEF Entries
  <2>3. \A i \in 1..Len(t) : (\E j \in 1..Len(q) : t[i] = q[j]) \/ \E j \in 1..Len(r) : t[i] = r[j]
    BY <2>2 DEF Entries
  <2> QED BY <2>1, <2>3 DEF t
<1> DEFINE t == q \o r
<1> HIDE DEF t
<1>2. ASSUME ListNamed(q), ListNamed(r) PROVE ListNamed(t)
  <2>1. IsList(t) /\ \A i \in 1..Len(t) :
               (\E j \in 1..Len(q) : t[i] = q[j]) \/ \E j \in 1..Len(r) : t[i] = r[j]
    BY <1>1, <1>2 DEF t, ListNamed
  <2> QED BY <1>2, <2>1 DEF ListNamed
<1>3. ASSUME StepsNamed(q), StepsNamed(r) PROVE StepsNamed(t)
  <2>1. IsList(t) /\ \A i \in 1..Len(t) :
               (\E j \in 1..Len(q) : t[i] = q[j]) \/ \E j \in 1..Len(r) : t[i] = r[j]
    BY <1>1, <1>3 DEF t, StepsNamed
  <2> QED BY <1>3, <2>1 DEF StepsNamed
<1> QED BY <1>2, <1>3 DEF t

\* Joined lists.
LEMMA NamedJoin ==
  ASSUME NEW N \in Nat, NEW q, DOMAIN q = 1..N, q = [n \in DOMAIN q |-> q[n]],
         \A n \in 1..N : ListNamed(q[n])
  PROVE  ListNamed(FlattenSeq(q))
<1> DEFINE t == FlattenSeq(q)
<1>1. IsList(t) /\ Entries(t) = UNION {Entries(q[n]) : n \in 1..N}
  BY EntriesJoin DEF ListNamed
<1> HIDE DEF t
<1>2. ASSUME NEW i \in 1..Len(t) PROVE Named(t[i])
  <2>1. t[i] \in Entries(t)
    BY DEF Entries
  <2>2. PICK n \in 1..N : t[i] \in Entries(q[n])
    BY <1>1, <2>1
  <2> QED BY <2>2 DEF Entries, ListNamed
<1> QED BY <1>1, <1>2 DEF ListNamed, t

\* Lists given place by place.
LEMMA NamedEach ==
  ASSUME NEW q, NEW N \in Nat, DOMAIN q = 1..N, q = [n \in DOMAIN q |-> q[n]]
  PROVE  /\ IsList(q) /\ Len(q) = N
         /\ (\A n \in 1..N : Named(q[n])) => ListNamed(q)
         /\ (\A n \in 1..N : ListNamed(q[n].tx)) => StepsNamed(q)
<1>1. IsList(q)
  BY IntervalList
<1>2. Len(q) = N
  BY <1>1, LenProperties DEF IsList
<1> QED BY <1>1, <1>2 DEF ListNamed, StepsNamed

\* Lists of at most two instructions.
LEMMA NamedFew ==
  /\ ListNamed(<<>>) /\ StepsNamed(<<>>) /\ TxsNamed(<<>>)
  /\ \A x : Named(x) => ListNamed(<<x>>) /\ ListNamed(Single(x))
  /\ \A x, y : Named(x) /\ Named(y) => ListNamed(<<x, y>>)
<1>1. ListNamed(<<>>) /\ StepsNamed(<<>>) /\ TxsNamed(<<>>)
  BY DEF ListNamed, StepsNamed, TxsNamed, IsList
<1>2. ASSUME NEW x, Named(x) PROVE ListNamed(<<x>>)
  <2>1. IsList(<<x>>) /\ Len(<<x>>) = 1 /\ <<x>>[1] = x
    BY DEF IsList
  <2> QED BY <1>2, <2>1 DEF ListNamed
<1>3. ASSUME NEW x, NEW y, Named(x), Named(y) PROVE ListNamed(<<x, y>>)
  <2> DEFINE q == <<x, y>>
  <2>1. IsList(q) /\ Len(q) = 2 /\ q[1] = x /\ q[2] = y
    <3>1. q \in Seq({x, y}) /\ DOMAIN q = 1..2 /\ Len(q) = 2 /\ q[1] = x /\ q[2] = y
      OBVIOUS
    <3> QED BY <3>1, IntervalList
  <2> HIDE DEF q
  <2>2. \A i \in 1..Len(q) : i = 1 \/ i = 2
    BY <2>1
  <2>3. ListNamed(q)
    BY <1>3, <2>1, <2>2 DEF ListNamed
  <2> QED BY <2>3 DEF q
<1> QED BY <1>1, <1>2, <1>3 DEF Single

\* What the rest of a list names.
LEMMA NamedTail ==
  ASSUME NEW q, q # <<>>
  PROVE  /\ TxsNamed(q) => ListNamed(Head(q)) /\ TxsNamed(Tail(q))
         /\ StepsNamed(q) => ListNamed(Head(q).tx) /\ StepsNamed(Tail(q))
<1> SUFFICES ASSUME IsList(q)
             PROVE  /\ TxsNamed(q) => ListNamed(Head(q)) /\ TxsNamed(Tail(q))
                    /\ StepsNamed(q) => ListNamed(Head(q).tx) /\ StepsNamed(Tail(q))
  BY DEF TxsNamed, StepsNamed
<1>1. /\ 1 \in 1..Len(q) /\ Head(q) = q[1] /\ IsList(Tail(q))
      /\ \A k \in 1..Len(Tail(q)) : k + 1 \in 1..Len(q) /\ Tail(q)[k] = q[k + 1]
  BY TailPlaces
<1> QED BY <1>1 DEF TxsNamed, StepsNamed

\* Four to a transaction.
LEMMA NamedChunks ==
  ASSUME NEW q, ListNamed(q)
  PROVE  /\ TxsNamed(Chunked(q))
         /\ StepsNamed(FourByFour(q))
<1> DEFINE c == Chunked(q)
           X == {q[n] : n \in DOMAIN q}
           N == Len(c)
           e == FourByFour(q)
<1>1. q \in Seq(X)
  BY DEF ListNamed, IsList
<1>2. c \in Seq(Seq(X)) /\ CutsUp(c, q)
  BY <1>1, ChunkedCuts
<1> HIDE DEF X, c
<1>3. N \in Nat /\ DOMAIN c = 1..N /\ c = [n \in DOMAIN c |-> c[n]]
  BY <1>2, LenProperties
<1>4. \A n \in 1..N : c[n] \in Seq(X)
  BY <1>2, <1>3, ElementOfSeq
<1>5. \A n \in 1..N : ListNamed(c[n])
  <2> TAKE n \in 1..N
  <2> DEFINE k == c[n]
  <2>1. k \in Seq(X)
    BY <1>4
  <2>2. \A i \in 1..Len(k) : 4 * n - 4 + i \in 1..Len(q) /\ k[i] = q[4 * n - 4 + i]
    BY <1>2 DEF CutsUp
  <2> HIDE DEF k
  <2>3. IsList(k)
    <3>1. Len(k) \in Nat /\ DOMAIN k = 1..Len(k) /\ k = [i \in DOMAIN k |-> k[i]]
      BY <2>1, LenProperties
    <3> QED BY <3>1, IntervalList
  <2>4. ListNamed(k)
    BY <2>2, <2>3 DEF ListNamed
  <2> QED BY <2>4 DEF k
<1>6. IsList(c)
  BY <1>3, IntervalList
<1>7. TxsNamed(c)
  BY <1>5, <1>6 DEF TxsNamed
<1>8. StepsNamed(e)
  <2>1. DOMAIN e = 1..N /\ e = [n \in DOMAIN e |-> e[n]] /\ \A n \in 1..N : e[n].tx = c[n]
    BY <1>3 DEF FourByFour, Each, Must, c
  <2> HIDE DEF e, N
  <2> QED BY <1>3, <1>5, <2>1, NamedEach
<1> QED BY <1>7, <1>8 DEF c, e

\* The instructions that configure, and those of the gateway, name no delegate.
LEMMA NamedConfigures ==
  /\ \A s, w, p, i, row : Named(AddAllowedAction(s, w, p, i, row))
  /\ \A s, w, slot, row : Named(AddValueSource(s, w, slot, row))
  /\ \A s, w, key, row : Named(AddRow(s, w, key, row)) /\ Named(CloseRow(s, w, key))
  /\ \A w, m : Named(AddAllowedToken(w, m)) /\ Named(RemoveAllowedToken(w, m))
  /\ \A v, w, m : Named(AddVaultAllowedToken(v, w, m)) /\ Named(RemoveVaultAllowedToken(v, w, m))
  /\ \A s, m : Named(CreateTokenAccount(s, m)) /\ Named(OpenAccount(s, m))
<1>1. \A ix : ix.do = "configure" => Named(ix)
  BY DEF Named, Fits, RoleSteps
<1>2. \A s, w : OnStrategy(s, w).do = "configure" /\ DOMAIN OnStrategy(s, w) = DOMAIN Instruction
  BY DEF OnStrategy, ByAdmin, Instruction
<1>3. \A v, w : ByAdmin(v, w).do = "configure" /\ DOMAIN ByAdmin(v, w) = DOMAIN Instruction
  BY DEF ByAdmin, Instruction
<1>4. \A w : ByGovernance(w).do = "configure" /\ DOMAIN ByGovernance(w) = DOMAIN Instruction
  BY DEF ByGovernance, Instruction
<1>5. \A s, w, p, i, row : AddAllowedAction(s, w, p, i, row).do = "configure"
  BY <1>2 DEF AddAllowedAction, Instruction
<1>6. \A s, w, slot, row : AddValueSource(s, w, slot, row).do = "configure"
  BY <1>2 DEF AddValueSource, Instruction
<1>7. \A s, w, key, row : AddRow(s, w, key, row).do = "configure" /\ CloseRow(s, w, key).do = "configure"
  BY <1>2, <1>3 DEF AddRow, CloseRow, Instruction
<1>8. \A w, m : AddAllowedToken(w, m).do = "configure" /\ RemoveAllowedToken(w, m).do = "configure"
  BY <1>4 DEF AddAllowedToken, RemoveAllowedToken, Instruction
<1>9. \A v, w, m : /\ AddVaultAllowedToken(v, w, m).do = "configure"
                   /\ RemoveVaultAllowedToken(v, w, m).do = "configure"
  BY <1>3 DEF AddVaultAllowedToken, RemoveVaultAllowedToken, Instruction
<1>10. \A s, m : CreateTokenAccount(s, m).do = "configure" /\ OpenAccount(s, m).do = "configure"
  BY DEF CreateTokenAccount, OpenAccount, Instruction
<1> QED BY <1>1, <1>5, <1>6, <1>7, <1>8, <1>9, <1>10

\* Neither do those of vaults, roles and settlements; a strategy is created, or its
\* delegate updated, with the one that is asked for.
LEMMA NamedOthers ==
  /\ \A v, w : Named(InitializeVault(v, w))
  /\ \A v, w, k : /\ Named(ProposeAdmin(v, w, k))
                  /\ v # DemoVault => Named(ProposeAuthority(v, w, k))
  /\ \A v, w : v # DemoVault => Named(AcceptAdmin(v, w)) /\ Named(AcceptAuthority(v, w))
  /\ \A s, w, p, i, m, beyond : Named(ExecuteAction(s, w, p, i, m, beyond))
  /\ \A s, w, slots : Named(Settle(s, w, slots))
  /\ \A s, w : Named(DeactivateStrategy(s, w))
  /\ \A s, w, d, others : d \in Known(s) =>
       Named(CreateStrategy(s, w, d, others)) /\ Named(UpdateDelegate(s, w, d, others))
<1>1. \A v, w : Named(InitializeVault(v, w))
  BY DEF Named, Fits, RoleSteps, InitializeVault, Instruction
<1>2. \A v, w, k : ProposeAdmin(v, w, k).do = "propose_admin"
                   /\ ProposeAuthority(v, w, k).do = "propose_authority"
                   /\ ProposeAuthority(v, w, k).vault = v
  BY DEF ProposeAdmin, ProposeAuthority, ByAdmin, Instruction
<1>3. \A v, w : /\ AcceptAdmin(v, w).do = "accept_admin" /\ AcceptAdmin(v, w).vault = v
               /\ AcceptAuthority(v, w).do = "accept_authority" /\ AcceptAuthority(v, w).vault = v
  BY DEF AcceptAdmin, AcceptAuthority, Instruction
<1>4. \A s, w, p, i, m, beyond : ExecuteAction(s, w, p, i, m, beyond).do = "execute"
  BY DEF ExecuteAction, Instruction
<1>5. \A s, w : DOMAIN OnStrategy(s, w) = DOMAIN Instruction
  BY DEF OnStrategy, ByAdmin, Instruction
<1>6. \A s, w, slots : Settle(s, w, slots).do = "settle"
  BY <1>5 DEF Settle, Instruction
<1>7. \A s, w : DeactivateStrategy(s, w).do = "deactivate"
  BY <1>5 DEF DeactivateStrategy, Instruction
<1>8. \A s, w, d, others : CreateStrategy(s, w, d, others).key = d
                           /\ CreateStrategy(s, w, d, others).strategy = s
                           /\ CreateStrategy(s, w, d, others).do = "create"
  BY DEF CreateStrategy, ByAdmin, Instruction
<1>9. \A s, w, d, others : UpdateDelegate(s, w, d, others).key = d
                           /\ UpdateDelegate(s, w, d, others).strategy = s
                           /\ UpdateDelegate(s, w, d, others).do = "delegate"
  BY DEF UpdateDelegate, OnStrategy, ByAdmin, Instruction
<1>10. \A ix : /\ ix.do \notin {"create", "delegate"} /\ ix.vault # DemoVault => Named(ix)
               /\ ix.do \notin {"create", "delegate"} \cup RoleSteps => Named(ix)
  BY DEF Named, Fits
<1>11. \A s, w, d, others : d \in Known(s) =>
         Named(CreateStrategy(s, w, d, others)) /\ Named(UpdateDelegate(s, w, d, others))
  BY <1>8, <1>9 DEF Named, Fits, RoleSteps
<1> QED BY <1>1, <1>2, <1>3, <1>4, <1>6, <1>7, <1>10, <1>11 DEF RoleSteps

\* A step for each instruction.
LEMMA NamedModes ==
  ASSUME NEW q, ListNamed(q)
  PROVE  StepsNamed(Each(Needed, q)) /\ StepsNamed(Each(One, q))
<1> DEFINE e == Each(Needed, q)
           f == Each(One, q)
           N == Len(q)
<1>1. N \in Nat /\ DOMAIN q = 1..N /\ \A n \in 1..N : Named(q[n])
  BY LenProperties DEF ListNamed, IsList
<1>2. DOMAIN e = 1..N /\ e = [n \in DOMAIN e |-> e[n]] /\ \A n \in 1..N : e[n].tx = Single(q[n])
  BY <1>1 DEF Each, Needed
<1>3. DOMAIN f = 1..N /\ f = [n \in DOMAIN f |-> f[n]] /\ \A n \in 1..N : f[n].tx = Single(q[n])
  BY <1>1 DEF Each, One, Must
<1> HIDE DEF e, f, N
<1>4. \A n \in 1..N : ListNamed(Single(q[n]))
  BY <1>1, NamedFew
<1>5. StepsNamed(e)
  BY <1>1, <1>2, <1>4, NamedEach
<1>6. StepsNamed(f)
  BY <1>1, <1>3, <1>4, NamedEach
<1> QED BY <1>5, <1>6 DEF e, f

\* Up to four steps of one instruction each, sent as they are or if needed.
LEMMA NamedSteps ==
  /\ \A x : Named(x) => StepsNamed(<<Needed(x)>>) /\ StepsNamed(<<One(x)>>)
  /\ \A x, y : Named(x) /\ Named(y) => StepsNamed(<<One(x), One(y)>>)
  /\ StepsNamed(<<Overdrawn>>)
<1>1. ASSUME NEW u, ListNamed(u.tx) PROVE StepsNamed(<<u>>)
  <2>1. IsList(<<u>>) /\ Len(<<u>>) = 1 /\ <<u>>[1] = u
    BY DEF IsList
  <2> QED BY <1>1, <2>1 DEF StepsNamed
<1>2. \A x : Needed(x).tx = Single(x) /\ One(x).tx = Single(x)
  BY DEF Needed, One, Must
<1>3. Overdrawn.tx = <<>>
  BY DEF Overdrawn
<1>4. \A x : Named(x) => StepsNamed(<<Needed(x)>>) /\ StepsNamed(<<One(x)>>)
  BY <1>1, <1>2, NamedFew
<1>5. \A x, y : <<One(x), One(y)>> = <<One(x)>> \o <<One(y)>>
  BY PairJoined
<1>6. \A x, y : Named(x) /\ Named(y) => StepsNamed(<<One(x)>> \o <<One(y)>>)
  BY <1>4, NamedConcat
<1> QED BY <1>1, <1>3, <1>4, <1>5, <1>6, NamedFew

\* A list for each active strategy.
LEMMA NamedForActive ==
  ASSUME NEW a, Exists(a, VaultOf(Vault)), Count(a) \in Nat, NEW q, DOMAIN q = DOMAIN ActiveOf(a),
         q = [k \in DOMAIN q |-> q[k]], \A k \in DOMAIN q : ListNamed(q[k])
  PROVE  ListNamed(FlattenSeq(q))
<1> DEFINE X == {s \in Strategies(a) : Active(a, s)}
           N == Len(ActiveOf(a))
<1>1. ActiveOf(a) \in Seq(X)
  BY ActivesOnce
<1> HIDE DEF X
<1>2. N \in Nat /\ DOMAIN q = 1..N
  BY <1>1, LenProperties
<1> QED BY <1>2, NamedJoin

\* The scripts on token lists,
LEMMA NamedTokenScripts ==
  ASSUME NEW w, NEW m
  PROVE  /\ StepsNamed(SeedAllowedTokens(w)) /\ StepsNamed(UnseedAllowedTokens(w))
         /\ StepsNamed(SeedVaultAllowedTokens(w)) /\ StepsNamed(UnseedVaultAllowedTokens(w))
         /\ StepsNamed(InitAllowedToken(w, m)) /\ StepsNamed(UninitAllowedToken(w, m))
<1> DEFINE N == Len(Alphabet)
<1>1. N \in Nat /\ DOMAIN Alphabet = 1..N
  BY ConsoleAssumption, LenProperties
<1> HIDE DEF N
<1>2. ASSUME NEW q, DOMAIN q = DOMAIN Alphabet, q = [n \in DOMAIN q |-> q[n]],
             \A n \in DOMAIN q : Named(q[n])
      PROVE  StepsNamed(Each(Needed, q))
  <2>1. ListNamed(q)
    BY <1>1, <1>2, NamedEach
  <2> QED BY <2>1, NamedModes
<1> DEFINE q1 == [n \in DOMAIN Alphabet |-> AddAllowedToken(w, Alphabet[n])]
           q2 == [n \in DOMAIN Alphabet |-> RemoveAllowedToken(w, Alphabet[n])]
           q3 == [n \in DOMAIN Alphabet |-> AddVaultAllowedToken(Vault, w, Alphabet[n])]
           q4 == [n \in DOMAIN Alphabet |-> RemoveVaultAllowedToken(Vault, w, Alphabet[n])]
<1>3. StepsNamed(Each(Needed, q1))
  BY <1>2, NamedConfigures
<1>4. StepsNamed(Each(Needed, q2))
  BY <1>2, NamedConfigures
<1>5. StepsNamed(Each(Needed, q3))
  BY <1>2, NamedConfigures
<1>6. StepsNamed(Each(Needed, q4))
  BY <1>2, NamedConfigures
<1>7. StepsNamed(InitAllowedToken(w, m)) /\ StepsNamed(UninitAllowedToken(w, m))
  BY NamedConfigures, NamedSteps DEF InitAllowedToken, UninitAllowedToken
<1> QED BY <1>3, <1>4, <1>5, <1>6, <1>7
      DEF SeedAllowedTokens, UnseedAllowedTokens, SeedVaultAllowedTokens, UnseedVaultAllowedTokens

\* on strategies,
LEMMA NamedStrategyScripts ==
  ASSUME NEW a, NEW w
  PROVE  /\ StepsNamed(SetupKaminoStrategy(a, w)) /\ StepsNamed(SetupLuloStrategy(a, w))
         /\ \A s, beyond : StepsNamed(KaminoLoop(s, w, beyond))
         /\ \A s : StepsNamed(RegisterCooldown(s, w))
<1>1. StepsNamed(NextStrategy(a, w))
  <2> DEFINE s == <<Vault, Count(a)>>
             d == Strategies(a)
  <2>1. Lender \in Known(s)
    BY DEF Known, Chosen
  <2> HIDE DEF s, d
  <2>2. Named(CreateStrategy(s, w, Lender, d))
    BY <2>1, NamedOthers
  <2> QED BY <2>2, NamedSteps DEF NextStrategy, s, d
<1>2. ASSUME NEW p, NEW names, NEW N \in Nat, DOMAIN names = 1..N
      PROVE  StepsNamed(Whitelist(a, w, p, names))
  <2> DEFINE s == <<Vault, Count(a)>>
             q == [n \in DOMAIN names |-> Needed(AddAllowedAction(s, w, p, names[n], Uncapped))]
  <2>1. Whitelist(a, w, p, names) = q
    BY DEF Whitelist
  <2> HIDE DEF s
  <2>2. DOMAIN q = 1..N /\ q = [n \in DOMAIN q |-> q[n]]
        /\ \A n \in 1..N : q[n].tx = Single(AddAllowedAction(s, w, p, names[n], Uncapped))
    BY <1>2 DEF Needed
  <2> HIDE DEF q
  <2>3. \A n \in 1..N : ListNamed(q[n].tx)
    BY <2>2, NamedConfigures, NamedFew
  <2> QED BY <2>1, <2>2, <2>3, NamedEach
<1>3. StepsNamed(SetupKaminoStrategy(a, w))
  <2> DEFINE names == <<"deposit", "withdraw", "borrow", "repay">>
  <2>1. DOMAIN names = 1..4 /\ 4 \in Nat
    OBVIOUS
  <2> HIDE DEF names
  <2>2. StepsNamed(Whitelist(a, w, "kamino", names))
    BY <1>2, <2>1
  <2> QED BY <1>1, <2>2, NamedConcat DEF SetupKaminoStrategy, names
<1>4. StepsNamed(SetupLuloStrategy(a, w))
  <2> DEFINE names == <<"deposit", "withdraw">>
  <2>1. DOMAIN names = 1..2 /\ 2 \in Nat
    OBVIOUS
  <2> HIDE DEF names
  <2>2. StepsNamed(Whitelist(a, w, "lulo", names))
    BY <1>2, <2>1
  <2> QED BY <1>1, <2>2, NamedConcat DEF SetupLuloStrategy, names
<1>5. ASSUME NEW s, NEW beyond
      PROVE  StepsNamed(KaminoLoop(s, w, beyond))
  <2> DEFINE x1 == Use(s, w, "deposit", beyond)
             x2 == Use(s, w, "borrow", FALSE)
             x3 == Settle(s, w, Slots)
             x4 == Use(s, w, "repay", beyond)
             x5 == Use(s, w, "withdraw", FALSE)
             q  == <<x1, x2, x3, x4, x5, x3>>
             e  == <<One(x1), One(x2), One(x3), One(x4), One(x5), One(x3)>>
  <2>1. Named(x1) /\ Named(x2) /\ Named(x3) /\ Named(x4) /\ Named(x5)
    BY NamedOthers DEF Use
  <2>2. KaminoLoop(s, w, beyond) = e
    BY DEF KaminoLoop
  <2> HIDE DEF x1, x2, x3, x4, x5
  <2>3. DOMAIN e = 1..6 /\ e = [n \in DOMAIN e |-> e[n]] /\ 6 \in Nat
    OBVIOUS
  <2>4. \A n \in 1..6 : e[n] \in {One(x1), One(x2), One(x3), One(x4), One(x5)}
    OBVIOUS
  <2>5. \A x : One(x).tx = Single(x)
    BY DEF One, Must
  <2> HIDE DEF e
  <2>6. \A n \in 1..6 : ListNamed(e[n].tx)
    BY <2>1, <2>4, <2>5, NamedFew
  <2>7. StepsNamed(e)
    BY <2>3, <2>6, NamedEach
  <2> QED BY <2>2, <2>7
<1>6. \A s : StepsNamed(RegisterCooldown(s, w))
  BY NamedConfigures, NamedSteps DEF RegisterCooldown
<1> QED BY <1>3, <1>4, <1>5, <1>6

\* on vaults and their roles,
LEMMA NamedVaultScripts ==
  ASSUME NEW a, NEW w
  PROVE  /\ \A v, k : v # DemoVault => StepsNamed(HandOver(v, w, k))
         /\ \A v, k : v # DemoVault => StepsNamed(TakeOver(v, k))
         /\ \A v : \A first \in Nat, last \in Nat :
              first <= last + 1 => StepsNamed(CreateStrategies(v, w, first, last))
         /\ StepsNamed(InitVault(w))
         /\ StepsNamed(CreateVault(a, w))
         /\ StepsNamed(SetupMultiVaults(w)) /\ StepsNamed(SetupFull(w)) /\ StepsNamed(TestGateway(w))
<1>1. \A v, k : v # DemoVault => StepsNamed(HandOver(v, w, k))
  BY NamedOthers, NamedSteps DEF HandOver
<1>2. \A v, k : v # DemoVault => StepsNamed(TakeOver(v, k))
  BY NamedOthers, NamedSteps DEF TakeOver
<1>3. ASSUME NEW v, NEW first \in Nat, NEW last \in Int, first <= last + 1
      PROVE  StepsNamed(CreateStrategies(v, w, first, last))
  <2> DEFINE N == last - first + 1
             X(k) == CreateStrategy(<<v, k>>, w, Generated[k + 1], StrategiesUpTo(v, k))
             q == CreateStrategies(v, w, first, last)
  <2>1. N \in Nat
    BY <1>3
  <2>2. \A k \in Nat : Named(X(k))
    <3> TAKE k \in Nat
    <3> DEFINE s == <<v, k>>
               d == Generated[k + 1]
               others == StrategiesUpTo(v, k)
    <3>1. d \in Known(s)
      BY DEF Known
    <3> HIDE DEF s, d, others
    <3>2. Named(CreateStrategy(s, w, d, others))
      BY <3>1, NamedOthers
    <3> QED BY <3>2 DEF s, d, others
  <2> HIDE DEF X
  <2>3. /\ DOMAIN q = 1..N /\ q = [n \in DOMAIN q |-> q[n]]
        /\ \A n \in 1..N : q[n].tx = Single(X(first + n - 1))
    BY DEF CreateStrategies, One, Must, X
  <2> HIDE DEF q, N
  <2>4. \A n \in 1..N : first + n - 1 \in Nat
    BY <2>1
  <2>5. \A n \in 1..N : ListNamed(q[n].tx)
    BY <2>2, <2>3, <2>4, NamedFew
  <2>6. StepsNamed(q)
    BY <2>1, <2>3, <2>5, NamedEach
  <2> QED BY <2>6 DEF q
<1>4. FreshVault # DemoVault
  BY ScriptsAssumption
<1>5. StepsNamed(InitVault(w))
  BY NamedOthers, NamedSteps DEF InitVault
<1> DEFINE h == <<One(InitializeVault(FreshVault, w))>>
           t == HandOver(FreshVault, w, Receiver)
           c == CreateStrategies(FreshVault, w, 0, MaxStrategies - 1)
<1>6. StepsNamed(h)
  BY NamedOthers, NamedSteps
<1>7. StepsNamed(CreateVault(a, w))
  <2>1. CreateVault(a, w) \in {<<>>, h \o t}
    BY DEF CreateVault
  <2> HIDE DEF h, t
  <2> QED BY <1>1, <1>4, <1>6, <2>1, NamedConcat, NamedFew DEF t
<1>8. StepsNamed(c)
  <2>1. 0 \in Nat /\ MaxStrategies - 1 \in Int /\ 0 <= MaxStrategies - 1 + 1
    BY ConsoleAssumption
  <2> QED BY <1>3, <2>1
<1>9. StepsNamed(SetupMultiVaults(w)) /\ SetupMultiVaults(w) = h \o c
  <2>1. SetupMultiVaults(w) = h \o c
    BY DEF SetupMultiVaults
  <2> HIDE DEF h, c
  <2> QED BY <1>6, <1>8, <2>1, NamedConcat
<1>10. StepsNamed(SetupFull(w))
  BY <1>1, <1>4, <1>9, NamedConcat DEF SetupFull
<1>11. StepsNamed(TestGateway(w))
  <2> DEFINE s == <<FreshVault, 0>>
             x1 == InitializeVault(FreshVault, w)
             x2 == CreateStrategy(s, w, TestAgent, {})
             x3 == AddAllowedAction(s, w, "kamino", "deposit", Uncapped)
             x4 == AddAllowedAction(s, w, "kamino", "withdraw", Uncapped)
             x5 == CreateTokenAccount(s, "collateral")
             x6 == Use(s, TestAgent, "deposit", FALSE)
             x7 == Use(s, TestAgent, "withdraw", FALSE)
             e == <<One(x1), One(x2), One(x3), One(x4)>>
             f == <<One(x5), One(x6), One(x7)>>
  <2>1. TestAgent \in Known(s)
    BY DEF TestAgent, Known
  <2>2. TestVault(w) = e /\ TestLoop = f
    BY DEF TestVault, TestLoop
  <2>3. /\ Named(x1) /\ Named(x2) /\ Named(x3) /\ Named(x4) /\ Named(x5) /\ Named(x6) /\ Named(x7)
    <3> HIDE DEF s
    <3> QED BY <2>1, NamedConfigures, NamedOthers DEF Use
  <2> HIDE DEF x1, x2, x3, x4, x5, x6, x7
  <2>4. e = <<One(x1), One(x2)>> \o <<One(x3), One(x4)>>
        /\ f = <<One(x5), One(x6)>> \o <<One(x7)>>
    OBVIOUS
  <2>5. /\ StepsNamed(<<One(x1), One(x2)>>) /\ StepsNamed(<<One(x3), One(x4)>>)
        /\ StepsNamed(<<One(x5), One(x6)>>) /\ StepsNamed(<<One(x7)>>)
    BY <2>3, NamedSteps
  <2> HIDE DEF e, f
  <2>6. StepsNamed(e) /\ StepsNamed(f)
    BY <2>4, <2>5, NamedConcat
  <2>7. StepsNamed(e \o f)
    BY <2>6, NamedConcat
  <2> QED BY <2>2, <2>7, NamedConcat, NamedSteps DEF TestGateway
<1>12. \A v : \A first \in Nat, last \in Nat :
         first <= last + 1 => StepsNamed(CreateStrategies(v, w, first, last))
  BY <1>3
<1> QED BY <1>1, <1>2, <1>4, <1>5, <1>7, <1>9, <1>10, <1>11, <1>12

\* the token panel and the scripts on value sources,
LEMMA NamedPanel ==
  ASSUME NEW a, Exists(a, VaultOf(Vault)), Count(a) \in Nat, NEW w, NEW added, NEW removed
  PROVE  ListNamed(PanelInstructions(a, w, added, removed))
<1>1. \A s, m, n : ListNamed(Plumbing(a, s, w, m, n))
  <2> TAKE s, m, n
  <2> DEFINE x == CreateTokenAccount(s, m)
             free == Handed(a, s)
             balance == free[2 * n - 1]
             y == AddValueSource(s, w, balance, Balance(m, 0))
             z == AddValueSource(s, w, free[2 * n], Price(m, balance))
  <2>1. Plumbing(a, s, w, m, n) \in {<<x, y>> \o <<z>>, <<x, y>> \o <<>>, <<>> \o <<z>>, <<>> \o <<>>}
    BY DEF Plumbing
  <2>2. Named(x) /\ Named(y) /\ Named(z)
    <3> HIDE DEF balance, free
    <3> QED BY NamedConfigures
  <2> HIDE DEF x, y, z
  <2>3. ListNamed(<<x, y>>) /\ ListNamed(<<z>>) /\ ListNamed(<<>>)
    BY <2>2, NamedFew
  <2>4. /\ ListNamed(<<x, y>> \o <<z>>) /\ ListNamed(<<x, y>> \o <<>>)
        /\ ListNamed(<<>> \o <<z>>) /\ ListNamed(<<>> \o <<>>)
    BY <2>3, NamedConcat
  <2> QED BY <2>1, <2>4
<1>2. \A m, n : ListNamed(PanelAdditions(a, w, m, n))
  <2> TAKE m, n
  <2> DEFINE q == [k \in DOMAIN ActiveOf(a) |-> Plumbing(a, ActiveOf(a)[k], w, m, n)]
  <2>1. PanelAdditions(a, w, m, n) = <<AddVaultAllowedToken(Vault, w, m)>> \o FlattenSeq(q)
    BY DEF PanelAdditions, ForActive
  <2>2. DOMAIN q = DOMAIN ActiveOf(a) /\ q = [k \in DOMAIN q |-> q[k]]
        /\ \A k \in DOMAIN q : ListNamed(q[k])
    BY <1>1
  <2> HIDE DEF q
  <2>3. ListNamed(FlattenSeq(q))
    BY <2>2, NamedForActive
  <2>4. ListNamed(<<AddVaultAllowedToken(Vault, w, m)>>)
    BY NamedConfigures, NamedFew
  <2> QED BY <2>1, <2>3, <2>4, NamedConcat
<1>3. \A S : \E N \in Nat : DOMAIN Among(Alphabet, S) = 1..N
  <2> TAKE S
  <2> DEFINE T == S \cap Mints
             list == Among(Alphabet, T)
             N == Len(list)
  <2>1. Among(Alphabet, S) = list
    <3>1. \A n \in DOMAIN Alphabet : Alphabet[n] \in Mints
      BY ConsoleAssumption, LenProperties, ElementOfSeq
    <3>2. {n \in DOMAIN Alphabet : Alphabet[n] \in S} = {n \in DOMAIN Alphabet : Alphabet[n] \in T}
      BY <3>1
    <3> HIDE DEF T
    <3> QED BY <3>2 DEF Among
  <2>2. T \in SUBSET Mints
    OBVIOUS
  <2> HIDE DEF T
  <2>3. list \in Seq(T)
    BY <2>2, PanelMints
  <2> HIDE DEF list
  <2>4. N \in Nat /\ DOMAIN list = 1..N
    BY <2>3, LenProperties
  <2> HIDE DEF N
  <2>5. \E n \in Nat : DOMAIN list = 1..n
    BY <2>4
  <2> QED BY <2>1, <2>5
<1> DEFINE new  == Among(Alphabet, added)
           gone == Among(Alphabet, removed)
           q == [n \in DOMAIN new |-> PanelAdditions(a, w, new[n], n)]
           r == [n \in DOMAIN gone |-> RemoveVaultAllowedToken(Vault, w, gone[n])]
<1>4. PanelInstructions(a, w, added, removed) = FlattenSeq(q) \o r
  BY DEF PanelInstructions, PanelRemovals
<1>5. ListNamed(FlattenSeq(q))
  <2>1. PICK N \in Nat : DOMAIN new = 1..N
    BY <1>3
  <2> HIDE DEF new
  <2>2. DOMAIN q = 1..N /\ q = [n \in DOMAIN q |-> q[n]] /\ \A n \in 1..N : ListNamed(q[n])
    BY <1>2, <2>1
  <2> HIDE DEF q
  <2> QED BY <2>2, NamedJoin
<1>6. ListNamed(r)
  <2>1. PICK N \in Nat : DOMAIN gone = 1..N
    BY <1>3
  <2> HIDE DEF gone
  <2>2. DOMAIN r = 1..N /\ r = [n \in DOMAIN r |-> r[n]] /\ \A n \in 1..N : Named(r[n])
    BY <2>1, NamedConfigures
  <2> HIDE DEF r
  <2> QED BY <2>2, NamedEach
<1> HIDE DEF q, r
<1> QED BY <1>4, <1>5, <1>6, NamedConcat

\* The scripts that write sources, settle and fund name accounts the program can find.
LEMMA NamedSourceScripts ==
  ASSUME NEW a, Exists(a, VaultOf(Vault)), Count(a) \in Nat, NEW w
  PROVE  /\ StepsNamed(BootstrapSources(a, w)) /\ StepsNamed(FlowSteps(a, w))
         /\ \A m : StepsNamed(ToggleToken(a, w, m))
         /\ StepsNamed(SettleAll(a, w))
         /\ StepsNamed(TokenAccounts(a)) /\ StepsNamed(WrapSol(a))
         /\ \A m : StepsNamed(FundWithToken(a, m))
<1>1. ASSUME NEW q, DOMAIN q = DOMAIN ActiveOf(a), q = [k \in DOMAIN q |-> q[k]],
             \A k \in DOMAIN q : ListNamed(q[k])
      PROVE  /\ ListNamed(FlattenSeq(q))
             /\ StepsNamed(Each(One, FlattenSeq(q))) /\ StepsNamed(Each(Needed, FlattenSeq(q)))
  <2>1. ListNamed(FlattenSeq(q))
    BY <1>1, NamedForActive
  <2> QED BY <2>1, NamedModes
<1>2. \A s, x : ListNamed(x) => ListNamed(Missing(a, s, w, x))
  <2> TAKE s, x
  <2> DEFINE pair == PairSlots(a, s)
             y == Carrier(s, w, pair[1])
             z == Feed(s, w, pair[2], pair[1])
  <2>1. Missing(a, s, w, x) \in {(x \o <<y>>) \o <<z>>, (x \o <<y>>) \o <<>>, <<>> \o <<z>>, <<>> \o <<>>}
    BY DEF Missing
  <2>2. Named(y) /\ Named(z)
    <3> HIDE DEF pair
    <3> QED BY NamedConfigures DEF Carrier, Feed
  <2> HIDE DEF y, z
  <2>3. ListNamed(<<y>>) /\ ListNamed(<<z>>) /\ ListNamed(<<>>)
    BY <2>2, NamedFew
  <2>4. ListNamed(x) => /\ ListNamed((x \o <<y>>) \o <<z>>) /\ ListNamed((x \o <<y>>) \o <<>>)
                        /\ ListNamed(<<>> \o <<z>>) /\ ListNamed(<<>> \o <<>>)
    <3>1. ListNamed(x) => ListNamed(x \o <<y>>)
      BY <2>3, NamedConcat
    <3> DEFINE u == x \o <<y>>
    <3> HIDE DEF u
    <3>2. ListNamed(u) => ListNamed(u \o <<z>>) /\ ListNamed(u \o <<>>)
      BY <2>3, NamedConcat
    <3>3. ListNamed(<<>> \o <<z>>) /\ ListNamed(<<>> \o <<>>)
      BY <2>3, NamedConcat
    <3> QED BY <3>1, <3>2, <3>3 DEF u
  <2> QED BY <2>1, <2>4
<1>3. StepsNamed(BootstrapSources(a, w))
  <2> DEFINE q == [k \in DOMAIN ActiveOf(a) |-> Missing(a, ActiveOf(a)[k], w, <<>>)]
  <2>1. BootstrapSources(a, w) = Each(One, FlattenSeq(q))
    BY DEF BootstrapSources, ForActive
  <2>2. \A k \in DOMAIN q : ListNamed(q[k])
    BY <1>2, NamedFew
  <2>3. DOMAIN q = DOMAIN ActiveOf(a) /\ q = [k \in DOMAIN q |-> q[k]]
    OBVIOUS
  <2> HIDE DEF q
  <2> QED BY <1>1, <2>1, <2>2, <2>3
<1>4. \A m : StepsNamed(FundWithToken(a, m))
  <2> TAKE m
  <2> DEFINE q == [k \in DOMAIN ActiveOf(a) |-> <<CreateTokenAccount(ActiveOf(a)[k], m)>>]
  <2>1. FundWithToken(a, m) = Each(One, FlattenSeq(q))
    BY DEF FundWithToken, ForActive
  <2>2. \A k \in DOMAIN q : ListNamed(q[k])
    BY NamedConfigures, NamedFew
  <2>3. DOMAIN q = DOMAIN ActiveOf(a) /\ q = [k \in DOMAIN q |-> q[k]]
    OBVIOUS
  <2> HIDE DEF q
  <2> QED BY <1>1, <2>1, <2>2, <2>3
<1>5. StepsNamed(TokenAccounts(a))
  <2>1. TokenAccounts(a) = FundWithToken(a, WrappedSol)
    BY DEF TokenAccounts, FundWithToken, ForActive
  <2> QED BY <1>4, <2>1
<1>6. StepsNamed(WrapSol(a))
  <2> DEFINE q == [k \in DOMAIN ActiveOf(a) |-> <<OpenAccount(ActiveOf(a)[k], WrappedSol)>>]
  <2>1. WrapSol(a) = Each(Needed, FlattenSeq(q))
    BY DEF WrapSol, ForActive
  <2>2. \A k \in DOMAIN q : ListNamed(q[k])
    BY NamedConfigures, NamedFew
  <2>3. DOMAIN q = DOMAIN ActiveOf(a) /\ q = [k \in DOMAIN q |-> q[k]]
    OBVIOUS
  <2> HIDE DEF q
  <2> QED BY <1>1, <2>1, <2>2, <2>3
<1>7. StepsNamed(FlowSteps(a, w))
  <2> DEFINE q == [k \in DOMAIN ActiveOf(a) |->
                     Missing(a, ActiveOf(a)[k], w, <<CreateTokenAccount(ActiveOf(a)[k], WrappedSol)>>)]
             r == [k \in DOMAIN ActiveOf(a) |->
                     <<Settle(ActiveOf(a)[k], w, ToSet(PairSlots(a, ActiveOf(a)[k])))>>]
             x == AddVaultAllowedToken(Vault, w, WrappedSol)
             h == IF WrappedSol \in VaultMints(a) THEN <<>> ELSE <<x>>
  <2>1. FlowSteps(a, w) = (FourByFour(h \o FlattenSeq(q)) \o TokenAccounts(a))
                            \o Each(One, FlattenSeq(r))
    BY DEF FlowSteps, ForActive
  <2>2. \A k \in DOMAIN q : ListNamed(q[k])
    BY <1>2, NamedConfigures, NamedFew
  <2>3. DOMAIN q = DOMAIN ActiveOf(a) /\ q = [k \in DOMAIN q |-> q[k]]
    OBVIOUS
  <2>4. \A k \in DOMAIN r : ListNamed(r[k])
    <3> TAKE k \in DOMAIN r
    <3> DEFINE u == Settle(ActiveOf(a)[k], w, ToSet(PairSlots(a, ActiveOf(a)[k])))
    <3>1. Named(u)
      BY NamedOthers
    <3>2. r[k] = <<u>>
      OBVIOUS
    <3> QED BY <3>1, <3>2, NamedFew
  <2>5. DOMAIN r = DOMAIN ActiveOf(a) /\ r = [k \in DOMAIN r |-> r[k]]
    OBVIOUS
  <2>6. ListNamed(h)
    BY NamedConfigures, NamedFew
  <2> HIDE DEF q, r, h
  <2>7. ListNamed(h \o FlattenSeq(q))
    BY <1>1, <2>2, <2>3, <2>6, NamedConcat
  <2> DEFINE f == FourByFour(h \o FlattenSeq(q))
             g == Each(One, FlattenSeq(r))
  <2>8. StepsNamed(f) /\ StepsNamed(g)
    BY <1>1, <2>4, <2>5, <2>7, NamedChunks
  <2> HIDE DEF f, g
  <2>9. StepsNamed((f \o TokenAccounts(a)) \o g)
    BY <1>5, <2>8, NamedConcat
  <2> QED BY <2>1, <2>9 DEF f, g
<1>8. \A m : StepsNamed(ToggleToken(a, w, m))
  BY NamedPanel, NamedChunks DEF ToggleToken
<1>9. StepsNamed(SettleAll(a, w))
  <2> DEFINE X == {s \in Strategies(a) : Active(a, s)}
             N == Len(ActiveOf(a))
             q == SettleAll(a, w)
  <2>1. ActiveOf(a) \in Seq(X)
    BY ActivesOnce
  <2> HIDE DEF X
  <2>2. N \in Nat /\ DOMAIN ActiveOf(a) = 1..N
    BY <2>1, LenProperties
  <2>3. DOMAIN q = 1..N /\ q = [n \in DOMAIN q |-> q[n]]
        /\ \A n \in 1..N : q[n].tx = Single(Settle(ActiveOf(a)[n], w, SourceSlots(a, ActiveOf(a)[n])))
    BY <2>2 DEF SettleAll, One, Must
  <2> HIDE DEF q, N
  <2>4. \A n \in 1..N : ListNamed(q[n].tx)
    BY <2>3, NamedOthers, NamedFew
  <2>5. StepsNamed(q)
    BY <2>2, <2>3, <2>4, NamedEach
  <2> QED BY <2>5 DEF q
<1> QED BY <1>3, <1>4, <1>5, <1>6, <1>7, <1>8, <1>9

\* and those that repair them.
LEMMA NamedRepairScripts ==
  ASSUME NEW a, Exists(a, VaultOf(Vault)), Count(a) \in Nat, NEW w
  PROVE  /\ StepsNamed(RepairSources(a, w)) /\ StepsNamed(DropDuplicates(a, w))
         /\ \A authority \in BOOLEAN : StepsNamed(MintAndSettle(a, w, authority))
         /\ \A s : StepsNamed(InitCtokenAccount(s))
         /\ \A g, s, m : StepsNamed(NewTokenScenario(g, w, s, m))
<1> DEFINE actives == ActiveOf(a)
<1> HIDE DEF actives
<1>1. ASSUME NEW q, DOMAIN q = DOMAIN actives, q = [k \in DOMAIN q |-> q[k]],
             \A k \in DOMAIN q : ListNamed(q[k])
      PROVE  ListNamed(FlattenSeq(q))
  BY <1>1, NamedForActive DEF actives
<1>2. ASSUME NEW s, NEW rows
      PROVE  ListNamed([n \in DOMAIN InOrder(s, rows) |-> CloseRow(s, w, InOrder(s, rows)[n])])
  <2> DEFINE order == InOrder(s, rows)
             X == rows \cap PossibleRows(s)
             N == Len(order)
             q == [n \in DOMAIN order |-> CloseRow(s, w, order[n])]
  <2>1. order \in Seq(X)
    BY InOrderLists
  <2> HIDE DEF order, X
  <2>2. N \in Nat /\ DOMAIN q = 1..N /\ q = [n \in DOMAIN q |-> q[n]]
    BY <2>1, LenProperties
  <2>3. \A n \in 1..N : Named(q[n])
    BY <2>2, NamedConfigures
  <2> HIDE DEF q, N
  <2>4. ListNamed(q)
    BY <2>2, <2>3, NamedEach
  <2> QED BY <2>4 DEF q, order
<1>3. StepsNamed(RepairSources(a, w))
  <2> DEFINE x(s) == CreateTokenAccount(s, WrappedSol)
             y(s) == Carrier(s, w, 0)
             z(s) == Feed(s, w, 1, 0)
             u(s) == Settle(s, w, {0, 1})
             q == [k \in DOMAIN actives |-> TearDown(a, actives[k], w)]
             r == [k \in DOMAIN actives |-> <<x(actives[k]), y(actives[k]), z(actives[k])>>]
             t == [k \in DOMAIN actives |-> <<u(actives[k])>>]
  <2>1. RepairSources(a, w) = FourByFour((FlattenSeq(q) \o FlattenSeq(r)) \o FlattenSeq(t))
    BY DEF RepairSources, ForActive, actives
  <2>2. \A s : Named(x(s)) /\ Named(y(s)) /\ Named(z(s)) /\ Named(u(s))
    BY NamedConfigures, NamedOthers DEF Carrier, Feed
  <2> HIDE DEF x, y, z, u
  <2>3. /\ DOMAIN q = DOMAIN actives /\ q = [k \in DOMAIN q |-> q[k]]
        /\ DOMAIN r = DOMAIN actives /\ r = [k \in DOMAIN r |-> r[k]]
        /\ DOMAIN t = DOMAIN actives /\ t = [k \in DOMAIN t |-> t[k]]
    OBVIOUS
  <2>4. \A k \in DOMAIN q : ListNamed(q[k])
    BY <1>2 DEF TearDown
  <2>5. \A s : ListNamed(<<x(s), y(s), z(s)>>)
    <3> TAKE s
    <3> DEFINE x1 == x(s)
               y1 == y(s)
               z1 == z(s)
    <3>1. ListNamed(<<x1, y1>>) /\ ListNamed(<<z1>>)
      BY <2>2, NamedFew
    <3> HIDE DEF x1, y1, z1
    <3>2. <<x1, y1, z1>> = <<x1, y1>> \o <<z1>>
      OBVIOUS
    <3>3. ListNamed(<<x1, y1, z1>>)
      BY <3>1, <3>2, NamedConcat
    <3> QED BY <3>3 DEF x1, y1, z1
  <2>6. \A k \in DOMAIN r : ListNamed(r[k])
    BY <2>5
  <2>7. \A k \in DOMAIN t : ListNamed(t[k])
    BY <2>2, NamedFew
  <2> HIDE DEF q, r, t
  <2> DEFINE fq == FlattenSeq(q)
             fr == FlattenSeq(r)
             ft == FlattenSeq(t)
  <2>8. ListNamed(fq) /\ ListNamed(fr) /\ ListNamed(ft)
    BY <1>1, <2>3, <2>4, <2>6, <2>7
  <2> HIDE DEF fq, fr, ft
  <2>9. ListNamed((fq \o fr) \o ft)
    BY <2>8, NamedConcat
  <2>10. StepsNamed(FourByFour((fq \o fr) \o ft))
    BY <2>9, NamedChunks
  <2> QED BY <2>1, <2>10 DEF fq, fr, ft
<1>4. StepsNamed(DropDuplicates(a, w))
  <2> DEFINE balance(s) == SourcesFor(a, s, {"balance"})
             price(s)   == SourcesFor(a, s, {"price"})
             extra(s)   == {SourceOf(s, slot) : slot \in
                              (balance(s) \ {Min(balance(s))}) \cup (price(s) \ {Min(price(s))})}
             drops(s)   == [n \in DOMAIN InOrder(s, extra(s)) |-> CloseRow(s, w, InOrder(s, extra(s))[n])]
             u(s) == Settle(s, w, {Min(balance(s)), Min(price(s))})
             q == [k \in DOMAIN actives |-> IF WholePair(a, actives[k]) THEN drops(actives[k]) ELSE <<>>]
             r == [k \in DOMAIN actives |-> IF WholePair(a, actives[k]) THEN <<u(actives[k])>> ELSE <<>>]
  <2>1. DropDuplicates(a, w) = TokenAccounts(a) \o Each(One, FlattenSeq(q) \o FlattenSeq(r))
    BY DEF DropDuplicates, ForActive, actives
  <2>2. \A s : ListNamed(drops(s)) /\ Named(u(s))
    <3> HIDE DEF extra, balance, price
    <3> QED BY <1>2, NamedOthers
  <2> HIDE DEF drops, u
  <2>3. /\ DOMAIN q = DOMAIN actives /\ q = [k \in DOMAIN q |-> q[k]]
        /\ DOMAIN r = DOMAIN actives /\ r = [k \in DOMAIN r |-> r[k]]
    OBVIOUS
  <2>4. (\A k \in DOMAIN q : ListNamed(q[k])) /\ \A k \in DOMAIN r : ListNamed(r[k])
    BY <2>2, NamedFew
  <2> HIDE DEF q, r
  <2> DEFINE fq == FlattenSeq(q)
             fr == FlattenSeq(r)
  <2>5. ListNamed(fq) /\ ListNamed(fr)
    BY <1>1, <2>3, <2>4
  <2> HIDE DEF fq, fr
  <2>6. ListNamed(fq \o fr)
    BY <2>5, NamedConcat
  <2>7. StepsNamed(Each(One, fq \o fr))
    BY <2>6, NamedModes
  <2>8. StepsNamed(TokenAccounts(a))
    BY NamedSourceScripts
  <2> QED BY <2>1, <2>7, <2>8, NamedConcat DEF fq, fr
<1>5. ASSUME NEW authority \in BOOLEAN
      PROVE  StepsNamed(MintAndSettle(a, w, authority))
  <2> DEFINE x(s) == CreateTokenAccount(s, WrappedSol)
             u(s) == Settle(s, w, SourceSlots(a, s))
             q == [k \in DOMAIN actives |-> IF WholePair(a, actives[k]) THEN <<x(actives[k])>> ELSE <<>>]
             r == [k \in DOMAIN actives |-> IF WholePair(a, actives[k]) THEN <<u(actives[k])>> ELSE <<>>]
             e == Each(One, FlattenSeq(q))
             f == Each(One, FlattenSeq(r))
  <2>1. MintAndSettle(a, w, authority) \in {e \o f, e \o <<>>}
    BY DEF MintAndSettle, ForActive, actives
  <2>2. \A s : Named(x(s)) /\ Named(u(s))
    BY NamedConfigures, NamedOthers
  <2> HIDE DEF x, u
  <2>3. /\ DOMAIN q = DOMAIN actives /\ q = [k \in DOMAIN q |-> q[k]]
        /\ DOMAIN r = DOMAIN actives /\ r = [k \in DOMAIN r |-> r[k]]
    OBVIOUS
  <2>4. (\A k \in DOMAIN q : ListNamed(q[k])) /\ \A k \in DOMAIN r : ListNamed(r[k])
    BY <2>2, NamedFew
  <2> HIDE DEF q, r
  <2>5. StepsNamed(e) /\ StepsNamed(f)
    BY <1>1, <2>3, <2>4, NamedModes
  <2> HIDE DEF e, f
  <2>6. StepsNamed(e \o f) /\ StepsNamed(e \o <<>>)
    BY <2>5, NamedConcat, NamedFew
  <2> QED BY <2>1, <2>6
<1>6. \A s : StepsNamed(InitCtokenAccount(s))
  BY NamedConfigures, NamedSteps DEF InitCtokenAccount
<1>7. ASSUME NEW g, NEW s, NEW m
      PROVE  StepsNamed(NewTokenScenario(g, w, s, m))
  <2> DEFINE x1 == AddAllowedToken(g, m)
             x2 == AddVaultAllowedToken(Vault, w, m)
             x3 == CreateTokenAccount(s, m)
             x4 == AddValueSource(s, w, 0, Balance(m, 1))
             x5 == Settle(s, w, Slots)
             e  == <<One(x1), One(x2), One(x3), One(x4), One(x5)>>
  <2>1. Named(x1) /\ Named(x2) /\ Named(x3) /\ Named(x4) /\ Named(x5)
    BY NamedConfigures, NamedOthers
  <2>2. NewTokenScenario(g, w, s, m) = e
    BY DEF NewTokenScenario
  <2> HIDE DEF x1, x2, x3, x4, x5
  <2>3. e = (<<One(x1), One(x2)>> \o <<One(x3), One(x4)>>) \o <<One(x5)>>
    OBVIOUS
  <2>4. /\ StepsNamed(<<One(x1), One(x2)>>) /\ StepsNamed(<<One(x3), One(x4)>>)
        /\ StepsNamed(<<One(x5)>>)
    BY <2>1, NamedSteps
  <2>5. StepsNamed(<<One(x1), One(x2)>> \o <<One(x3), One(x4)>>)
    BY <2>4, NamedConcat
  <2>6. StepsNamed((<<One(x1), One(x2)>> \o <<One(x3), One(x4)>>) \o <<One(x5)>>)
    BY <2>4, <2>5, NamedConcat
  <2> QED BY <2>2, <2>3, <2>6
<1> QED BY <1>3, <1>4, <1>5, <1>6, <1>7

-----------------------------------------------------------------------------
(***************************************************************************)
(* Whatever a page or a script is going to send names such delegates only. *)
(***************************************************************************)
ShellFields == {"script", "state", "steps", "alone", "raced"}
PagesNamed == \A t \in Pages : TxsNamed(page[t].job.todo)

\* The demo vault's script is all that hands it over.  Before it takes the role of the
\* administrator, the authority is offered, by itself or by an earlier run.
Offer == One(ProposeAuthority(DemoVault, Admin, DemoKey))
Take  == One(AcceptAdmin(DemoVault, DemoKey))
Close == One(AcceptAuthority(DemoVault, DemoKey))
ReadyAt(a, steps, n) ==
  \/ ListNamed(steps[n].tx)
  \/ steps[n] \in {Offer, Close}
  \/ steps[n] = Take /\ (Promised(a) \/ \E j \in 1..(n - 1) : steps[j] = Offer)
StepsReady(a, steps) == IsList(steps) /\ \A n \in 1..Len(steps) : ReadyAt(a, steps, n)

NamedInv ==
  /\ KnownOK(acct) /\ PagesNamed
  /\ DOMAIN shell = ShellFields /\ StepsReady(acct, shell.steps)

\* Steps that leave the demo vault alone are ready,
LEMMA ReadyNamed ==
  ASSUME NEW a, NEW steps, StepsNamed(steps)
  PROVE  StepsReady(a, steps)
BY DEF StepsNamed, StepsReady, ReadyAt

\* so are those of its script,
LEMMA ReadyDemo ==
  ASSUME NEW a, NEW b
  PROVE  StepsReady(a, SetupDemoVault(b, Admin))
<1> DEFINE y0 == Needed(InitializeVault(DemoVault, Admin))
           y1 == One(ProposeAdmin(DemoVault, Admin, DemoKey))
           y2 == Offer
           y3 == Take
           y4 == Close
           h  == <<y0>>
           t  == <<y1, y2, y3, y4>>
<1>1. SetupDemoVault(b, Admin) \in {h \o <<>>, h \o t}
  BY DEF SetupDemoVault, Offer, Take, Close
<1>2. StepsNamed(<<y0>>) /\ StepsNamed(<<y1>>)
  <2> DEFINE x0 == InitializeVault(DemoVault, Admin)
             x1 == ProposeAdmin(DemoVault, Admin, DemoKey)
  <2>1. Named(x0) /\ Named(x1)
    BY NamedOthers
  <2> HIDE DEF x0, x1
  <2> QED BY <2>1, NamedSteps DEF x0, x1
<1> HIDE DEF y0, y1, y2, y3, y4
<1>3. ListNamed(y0.tx) /\ ListNamed(y1.tx)
  <2>1. ASSUME NEW u, StepsNamed(<<u>>) PROVE ListNamed(u.tx)
    <3>1. Len(<<u>>) = 1 /\ <<u>>[1] = u
      OBVIOUS
    <3> QED BY <2>1, <3>1 DEF StepsNamed
  <2> QED BY <1>2, <2>1
<1>4. h \o <<>> = h /\ h \o t = <<y0, y1, y2, y3, y4>>
  <2>1. h \o <<>> = h
    OBVIOUS
  <2>2. h \o t = <<y0, y1, y2, y3, y4>>
    <3> DEFINE X == {y0, y1, y2, y3, y4}
               c == h \o t
               d == <<y0, y1, y2, y3, y4>>
    <3>1. /\ h \in Seq(X) /\ Len(h) = 1 /\ h[1] = y0
          /\ t \in Seq(X) /\ Len(t) = 4 /\ t[1] = y1 /\ t[2] = y2 /\ t[3] = y3 /\ t[4] = y4
      OBVIOUS
    <3>2. /\ d \in Seq(X) /\ Len(d) = 5
          /\ d[1] = y0 /\ d[2] = y1 /\ d[3] = y2 /\ d[4] = y3 /\ d[5] = y4
      OBVIOUS
    <3> HIDE DEF h, t, d, X
    <3>3. /\ c \in Seq(X) /\ Len(c) = 5
          /\ c[1] = y0 /\ c[2] = y1 /\ c[3] = y2 /\ c[4] = y3 /\ c[5] = y4
      <4>1. /\ c \in Seq(X) /\ Len(c) = Len(h) + Len(t)
            /\ \A i \in 1..(Len(h) + Len(t)) : c[i] = IF i <= Len(h) THEN h[i] ELSE t[i - Len(h)]
        BY <3>1, ConcatProperties
      <4> HIDE DEF c
      <4>2. \A i \in 1..5 : c[i] = IF i <= 1 THEN h[i] ELSE t[i - 1]
        BY <3>1, <4>1
      <4>3. c[1] = h[1] /\ c[2] = t[1] /\ c[3] = t[2] /\ c[4] = t[3] /\ c[5] = t[4]
        <5>1. /\ c[1] = h[1] /\ c[2] = t[2 - 1] /\ c[3] = t[3 - 1] /\ c[4] = t[4 - 1]
              /\ c[5] = t[5 - 1]
          BY <4>2
        <5> QED BY <5>1
      <4> QED BY <3>1, <4>1, <4>3
    <3> HIDE DEF c
    <3>4. \A i \in 1..Len(d) : c[i] = d[i]
      BY <3>2, <3>3
    <3>5. c = d
      BY <3>2, <3>3, <3>4, SeqEqual
    <3> QED BY <3>5 DEF c, d
  <2> QED BY <2>1, <2>2
<1>5. StepsReady(a, h)
  BY <1>2, ReadyNamed
<1>6. StepsReady(a, <<y0, y1, y2, y3, y4>>)
  <2> DEFINE q == <<y0, y1, y2, y3, y4>>
  <2>1. /\ DOMAIN q = 1..5 /\ q = [n \in DOMAIN q |-> q[n]]
        /\ q[1] = y0 /\ q[2] = y1 /\ q[3] = y2 /\ q[4] = y3 /\ q[5] = y4
    OBVIOUS
  <2> HIDE DEF q
  <2>2. IsList(q) /\ Len(q) = 5
    BY <2>1, NamedEach
  <2>3. ReadyAt(a, q, 1) /\ ReadyAt(a, q, 2)
    BY <1>3, <2>1 DEF ReadyAt
  <2>4. ReadyAt(a, q, 3) /\ ReadyAt(a, q, 5)
    BY <2>1 DEF ReadyAt, y2, y4
  <2>5. ReadyAt(a, q, 4)
    <3>1. 3 \in 1..(4 - 1)
      OBVIOUS
    <3> QED BY <2>1, <3>1 DEF ReadyAt, y2, y3
  <2>6. \A n \in 1..5 : n = 1 \/ n = 2 \/ n = 3 \/ n = 4 \/ n = 5
    OBVIOUS
  <2>7. \A n \in 1..5 : ReadyAt(a, q, n)
    BY <2>3, <2>4, <2>5, <2>6
  <2>8. StepsReady(a, q)
    BY <2>2, <2>7 DEF StepsReady
  <2> QED BY <2>8 DEF q
<1> QED BY <1>1, <1>4, <1>5, <1>6

\* and so they stay while others send what is named.
LEMMA ReadyStays ==
  ASSUME NEW a, NEW b, Promised(a) => Promised(b), NEW steps, StepsReady(a, steps)
  PROVE  StepsReady(b, steps)
BY DEF StepsReady, ReadyAt

\* A step of the script leaves the accounts in order and the rest of it ready.
LEMMA ReadyTail ==
  ASSUME NEW a, AccountsOK(a), KnownOK(a), NEW steps, steps # <<>>, StepsReady(a, steps)
  PROVE  LET step == Head(steps)
             r    == Run(a, step.tx)
         IN  /\ r.ok => Keeps(a, r.acct) /\ StepsReady(r.acct, Tail(steps))
             /\ ListNamed(step.tx) => StepsReady(a, Tail(steps))
<1> DEFINE step == Head(steps)
           r    == Run(a, step.tx)
           rest == Tail(steps)
<1>1. /\ step = steps[1] /\ 1 \in 1..Len(steps) /\ IsList(rest) /\ Len(steps) \in Nat
      /\ Len(rest) = Len(steps) - 1
      /\ \A k \in 1..Len(rest) : k + 1 \in 1..Len(steps) /\ rest[k] = steps[k + 1]
  BY TailPlaces DEF StepsReady
<1> HIDE DEF step, r, rest
<1>2. ListNamed(step.tx) \/ step \in {Offer, Close} \/ (step = Take /\ Promised(a))
  <2>1. ReadyAt(a, steps, 1)
    BY <1>1 DEF StepsReady
  <2>2. ~\E j \in 1..(1 - 1) : steps[j] = Offer
    OBVIOUS
  <2> QED BY <1>1, <2>1, <2>2 DEF ReadyAt
<1>3. ASSUME NEW b, Promised(a) => Promised(b), step = Offer => Promised(b)
      PROVE  StepsReady(b, rest)
  <2>1. ASSUME NEW k \in 1..Len(rest) PROVE ReadyAt(b, rest, k)
    <3>1. ReadyAt(a, steps, k + 1) /\ rest[k] = steps[k + 1] /\ k \in Nat
      BY <1>1 DEF StepsReady
    <3>2. ASSUME NEW j \in 1..((k + 1) - 1), steps[j] = Offer
          PROVE  Promised(b) \/ \E i \in 1..(k - 1) : rest[i] = Offer
      <4>1. CASE j = 1
        BY <1>1, <1>3, <3>2, <4>1
      <4>2. CASE j # 1
        <5>1. j - 1 \in 1..(k - 1) /\ j - 1 \in 1..Len(rest) /\ (j - 1) + 1 = j
          BY <1>1, <3>1, <4>2
        <5> QED BY <1>1, <3>2, <5>1
      <4> QED BY <4>1, <4>2
    <3> QED BY <1>3, <3>1, <3>2 DEF ReadyAt
  <2> QED BY <1>1, <2>1 DEF StepsReady
<1>4. ASSUME ListNamed(step.tx)
      PROVE  StepsReady(a, rest) /\ (r.ok => Keeps(a, r.acct) /\ StepsReady(r.acct, rest))
  <2>1. \A ix \in Entries(step.tx) : Named(ix)
    BY <1>4 DEF ListNamed, Entries
  <2>2. step # Offer
    <3>1. SUFFICES ASSUME step = Offer PROVE FALSE
      OBVIOUS
    <3> DEFINE x == ProposeAuthority(DemoVault, Admin, DemoKey)
    <3>2. x.do = "propose_authority" /\ x.vault = DemoVault
      BY DEF ProposeAuthority, ByAdmin, Instruction
    <3> HIDE DEF x
    <3>3. step.tx = <<x>>
      BY <3>1 DEF Offer, One, Must, Single, x
    <3>4. Len(<<x>>) = 1 /\ <<x>>[1] = x
      OBVIOUS
    <3>5. Named(x)
      BY <1>4, <3>3, <3>4 DEF ListNamed
    <3> QED BY <3>2, <3>5 DEF Named, RoleSteps
  <2>3. StepsReady(a, rest)
    BY <1>3, <2>2
  <2>4. r.ok => Keeps(a, r.acct)
    BY <2>1, RunKnown DEF r
  <2> QED BY <1>3, <2>2, <2>3, <2>4 DEF Keeps
<1>5. ASSUME NEW ix, step.tx = Single(ix), r.ok, ix.do \in RoleSteps, ix.vault = DemoVault,
             ix.do = "propose_authority" => ix.key = DemoKey,
             ix.do = "accept_admin" => Promised(a),
             ix.do = "accept_authority" => ix.wallet = DemoKey,
             ix.needs = {Ours}
      PROVE  Keeps(a, r.acct) /\ (ix.do = "propose_authority" => Promised(r.acct))
  <2>1. Accepts(a, ix) /\ r.acct = After(a, ix)
    BY <1>5, SingleRuns, SingleGoes DEF r
  <2> DEFINE b == After(a, ix)
  <2>2. Exists(a, Ours)
    <3>1. Usable(a, Ours)
      BY <1>5, <2>1 DEF Accepts
    <3> QED BY <3>1 DEF Usable
  <2>3. /\ Exists(b, Ours)
        /\ b[Ours].admin = IF ix.do = "accept_admin" THEN ix.wallet ELSE a[Ours].admin
        /\ b[Ours].authority = IF ix.do = "accept_authority" THEN ix.wallet ELSE a[Ours].authority
        /\ b[Ours].pendingAuthority =
             IF ix.do = "propose_authority" THEN ix.key
             ELSE IF ix.do = "accept_authority" THEN "none" ELSE a[Ours].pendingAuthority
    BY <1>5, <2>1, <2>2, RolesAfter
  <2> HIDE DEF b
  <2>4. /\ Promised(a) => Promised(b)
        /\ ix.do = "propose_authority" => Promised(b)
        /\ ix.do = "accept_authority" => Promised(b)
        /\ ix.do = "accept_admin" => Promised(b)
    BY <1>5, <2>2, <2>3 DEF Promised
  <2>5. Secured(b)
    BY <1>5, <2>4 DEF Secured, RoleSteps
  <2>6. KnownOK(b)
    <3>1. Fits(ix)
      BY <1>5 DEF Fits, RoleSteps
    <3> QED BY <2>1, <2>5, <3>1, KnownAfter DEF b
  <2> QED BY <2>1, <2>4, <2>6 DEF Keeps, b
<1>6. ASSUME step = Offer, r.ok
      PROVE  Keeps(a, r.acct) /\ StepsReady(r.acct, rest)
  <2> DEFINE x == ProposeAuthority(DemoVault, Admin, DemoKey)
  <2>1. /\ x.do = "propose_authority" /\ x.vault = DemoVault /\ x.key = DemoKey
        /\ x.needs = {Ours}
    BY DEF ProposeAuthority, ByAdmin, Instruction, Ours
  <2>2. step.tx = Single(x)
    BY <1>6 DEF Offer, One, Must
  <2> HIDE DEF x
  <2>3. Keeps(a, r.acct) /\ Promised(r.acct)
    BY <1>5, <1>6, <2>1, <2>2 DEF RoleSteps
  <2> QED BY <1>3, <2>3
<1>7. ASSUME step = Take, Promised(a), r.ok
      PROVE  Keeps(a, r.acct) /\ StepsReady(r.acct, rest)
  <2> DEFINE x == AcceptAdmin(DemoVault, DemoKey)
  <2>1. x.do = "accept_admin" /\ x.vault = DemoVault /\ x.needs = {Ours}
    BY DEF AcceptAdmin, Instruction, Ours
  <2>2. step.tx = Single(x)
    BY <1>7 DEF Take, One, Must
  <2> HIDE DEF x
  <2>3. Keeps(a, r.acct)
    BY <1>5, <1>7, <2>1, <2>2 DEF RoleSteps
  <2> QED BY <1>3, <1>7, <2>3 DEF Keeps
<1>8. ASSUME step = Close, r.ok
      PROVE  Keeps(a, r.acct) /\ StepsReady(r.acct, rest)
  <2> DEFINE x == AcceptAuthority(DemoVault, DemoKey)
             y == ProposeAuthority(DemoVault, Admin, DemoKey)
  <2>1. /\ x.do = "accept_authority" /\ x.vault = DemoVault /\ x.wallet = DemoKey
        /\ x.needs = {Ours}
    BY DEF AcceptAuthority, Instruction, Ours
  <2>2. step.tx = Single(x)
    BY <1>8 DEF Close, One, Must
  <2>3. y.do = "propose_authority"
    BY DEF ProposeAuthority, ByAdmin, Instruction
  <2> HIDE DEF x, y
  <2>4. Keeps(a, r.acct)
    BY <1>5, <1>8, <2>1, <2>2 DEF RoleSteps
  <2>5. step # Offer
    <3>1. Single(x) # Single(y)
      BY <2>1, <2>3 DEF Single
    <3>2. Offer.tx = Single(y)
      BY DEF Offer, One, Must, y
    <3> QED BY <2>2, <3>1, <3>2
  <2> QED BY <1>3, <2>4, <2>5 DEF Keeps
<1> QED BY <1>2, <1>4, <1>6, <1>7, <1>8 DEF step, r, rest

\* Somebody's single transaction.
LEMMA SubmitKnown ==
  ASSUME AccountsOK(acct), KnownOK(acct), NEW ix, Named(ix), Submit(ix)
  PROVE  Keeps(acct, acct')
<1> DEFINE tx == Single(ix)
<1>1. Run(acct, tx).ok /\ acct' = Run(acct, tx).acct
  BY DEF Submit, Accepted, Lands
<1>2. \A iy \in Entries(tx) : Named(iy)
  BY DEF Single, Entries
<1> HIDE DEF tx
<1> QED BY <1>1, <1>2, RunKnown

\* The transactions a page has left, one that has been overtaken included.
LEMMA TodoOf ==
  ASSUME NEW p, DOMAIN p = PageFields, DOMAIN p.job = JobFields
  PROVE  TxsNamed(p.job.todo) => TxsNamed(Overtaken(p).job.todo)
<1>1. CASE p.job.state = "running"
  BY <1>1 DEF Overtaken, PageFields, JobFields
<1>2. CASE p.job.state # "running"
  <2>1. Overtaken(p).job.todo = <<>>
    BY <1>2 DEF Overtaken, PageFields, Idle
  <2> QED BY <2>1, NamedFew
<1> QED BY <1>1, <1>2

\* A page that goes on while the others stay or are overtaken.
LEMMA NamedOfOne ==
  ASSUME JobsInv, PagesNamed, NEW t \in Pages, NEW p, TxsNamed(p.job.todo),
         OnPage(t, p) \/ page' = [page EXCEPT ![t] = p]
  PROVE  PagesNamed'
<1>1. DOMAIN page = Pages
  BY DEF JobsInv
<1>2. \A u \in Pages : TxsNamed(Overtaken(page[u]).job.todo) /\ TxsNamed(page[u].job.todo)
  BY TodoOf DEF JobsInv, PageOK, PagesNamed
<1>3. \A u \in Pages : page'[u] \in {p, page[u], Overtaken(page[u])}
  BY <1>1 DEF OnPage
<1>4. \A u \in Pages : TxsNamed(page'[u].job.todo)
  <2> TAKE u \in Pages
  <2>1. \A x \in {p, page[u], Overtaken(page[u])} : TxsNamed(x.job.todo)
    BY <1>2
  <2> HIDE DEF TxsNamed
  <2> QED BY <1>3, <2>1
<1> QED BY <1>4 DEF PagesNamed

\* A picture that has been overtaken names nothing new.
LEMMA NamedOfNone ==
  ASSUME JobsInv, PagesNamed, page' = [u \in Pages |-> Overtaken(page[u])]
  PROVE  PagesNamed'
<1>1. \A u \in Pages : TxsNamed(page'[u].job.todo)
  BY TodoOf DEF JobsInv, PageOK, PagesNamed
<1> QED BY <1>1 DEF PagesNamed

\* What a page has left when its first transaction goes through.
LEMMA NamedAdvance ==
  ASSUME JobsInv, PagesNamed, NEW t \in Pages, Todo(t) # <<>>
  PROVE  /\ TxsNamed(Advance(t).job.todo)
         /\ \A ix \in Entries(Head(Todo(t))) : Named(ix)
<1> DEFINE job == page[t].job
<1>1. DOMAIN page[t] = PageFields /\ DOMAIN job = JobFields /\ TxsNamed(job.todo) /\ job.todo # <<>>
  BY DEF JobsInv, PageOK, PagesNamed, Todo
<1>2. Advance(t).job.todo = Tail(job.todo)
  BY <1>1 DEF Advance, PageFields, JobFields
<1> HIDE DEF job
<1>3. TxsNamed(Tail(job.todo)) /\ ListNamed(Head(job.todo))
  BY <1>1, NamedTail
<1> QED BY <1>2, <1>3 DEF ListNamed, Entries, Todo, job

\* A page that has nothing to send is no matter.
LEMMA NamedIdle ==
  /\ TxsNamed(Idle.todo) /\ TxsNamed(Closed.job.todo)
  /\ \A t, state : DOMAIN page[t] = PageFields => TxsNamed(Stopped(t, state).job.todo)
<1>1. Idle.todo = <<>> /\ Closed.job = Idle
  BY DEF Idle, Closed
<1>2. ASSUME NEW t, NEW state, DOMAIN page[t] = PageFields
      PROVE  Stopped(t, state).job.todo = <<>>
  <2> DEFINE k == [Idle EXCEPT !.state = state, !.fresh = page[t].job.fresh]
  <2>1. Stopped(t, state).job = k
    BY <1>2 DEF Stopped, PageFields
  <2>2. k.todo = <<>>
    BY DEF Idle
  <2> HIDE DEF k
  <2> QED BY <2>1, <2>2
<1> QED BY <1>1, <1>2, NamedFew

\* Jobs, as they are started.
LEMMA NamedJobs ==
  ASSUME JobsInv, PagesNamed, Exists(acct, VaultOf(Vault)), Count(acct) \in Nat, NEW t \in Pages,
         \/ \E name \in Presets : StartPreset(t, name) \/ \E d \in Agents : StartCreate(t, name, d)
         \/ \E target \in SUBSET Mints : StartTokens(t, target)
         \/ BuildAdditions(t)
  PROVE  PagesNamed' /\ UNCHANGED acct
<1> DEFINE p == page[t]
<1>0. DOMAIN page = Pages /\ DOMAIN p = PageFields /\ DOMAIN p.job = JobFields
  BY DEF JobsInv, PageOK
<1>a. ASSUME DOMAIN page' = Pages, \A u \in Pages \ {t} : page'[u] = page[u],
             TxsNamed(page'[t].job.todo)
      PROVE  PagesNamed'
  BY <1>a DEF PagesNamed
<1>s. ASSUME NEW asked, DOMAIN asked = JobFields, TxsNamed(asked.todo), Start(t, asked)
      PROVE  PagesNamed' /\ UNCHANGED acct
  <2> DEFINE job == [asked EXCEPT !.state = "running"]
  <2>1. page' = [page EXCEPT ![t].job = job] /\ UNCHANGED acct
    BY <1>s DEF Start
  <2>2. job.todo = asked.todo
    BY <1>s DEF JobFields
  <2> HIDE DEF job
  <2>3. page'[t].job = job /\ DOMAIN page' = Pages /\ \A u \in Pages \ {t} : page'[u] = page[u]
    BY <1>0, <2>1 DEF PageFields
  <2> QED BY <1>a, <1>s, <2>1, <2>2, <2>3
<1>e. \A ix : Named(ix) => ListNamed(Single(ix))
  BY NamedFew
<1>r. ASSUME NEW q, NEW s, NEW rows, NEW f, q = [n \in DOMAIN InOrder(s, rows) |-> f[n]],
             \A n \in DOMAIN InOrder(s, rows) : ListNamed(f[n])
      PROVE  TxsNamed(q)
  <2> DEFINE order == InOrder(s, rows)
             X == rows \cap PossibleRows(s)
             N == Len(order)
  <2>1. order \in Seq(X)
    BY InOrderLists
  <2> HIDE DEF order, X
  <2>2. N \in Nat /\ DOMAIN order = 1..N
    BY <2>1, LenProperties
  <2>3. DOMAIN q = 1..N /\ q = [n \in DOMAIN q |-> q[n]] /\ \A n \in 1..N : ListNamed(q[n])
    BY <1>r, <2>2 DEF order
  <2>4. IsList(q) /\ Len(q) = N
    BY <2>2, <2>3, NamedEach
  <2> QED BY <2>3, <2>4 DEF TxsNamed
<1>1. ASSUME NEW name, StartPreset(t, name)
      PROVE  PagesNamed' /\ UNCHANGED acct
  <2>0. PICK shown \in Previews(t, name) : Start(t, PresetJob(t, name, shown))
    BY <1>1 DEF StartPreset
  <2> DEFINE seen   == p.seen
             todo   == Revocations(t, seen \ shown)
             adding == IF name = "custom" THEN {} ELSE ToAdd(seen, shown)
             fresh  == Fresh(t) /\ Active(acct, p.strategy)
             asked  == [Idle EXCEPT !.kind = "preset", !.target = name, !.had = seen,
                                    !.shown = shown, !.todo = todo, !.adding = adding,
                                    !.fresh = fresh]
  <2>1. Start(t, asked)
    BY <2>0 DEF PresetJob
  <2>2. TxsNamed(todo)
    <3> DEFINE s == p.strategy
               rows == seen \ shown
               order == InOrder(s, rows)
               f == [n \in DOMAIN order |-> Revoke(t, order[n])]
    <3>1. todo = [n \in DOMAIN order |-> f[n]]
      BY DEF Revocations
    <3>2. \A n \in DOMAIN order : ListNamed(f[n])
      <4> TAKE n \in DOMAIN order
      <4>1. f[n] = Single(CloseRow(s, p.wallet, order[n]))
        BY DEF Revoke
      <4> QED BY <1>e, <4>1, NamedConfigures
    <3> HIDE DEF todo, f, rows, s
    <3> QED BY <1>r, <3>1, <3>2
  <2> HIDE DEF seen, todo, adding, fresh
  <2>3. DOMAIN asked = JobFields /\ asked.todo = todo
    BY DEF Idle, JobFields
  <2> HIDE DEF asked
  <2> QED BY <1>s, <2>1, <2>2, <2>3
<1>2. ASSUME NEW name, NEW d \in Agents, StartCreate(t, name, d)
      PROVE  PagesNamed' /\ UNCHANGED acct
  <2> DEFINE s      == <<Vault, p.count>>
             shown  == TargetRows(acct, name, s)
             x      == CreateStrategy(s, p.wallet, d, FirstStrategies(p.count))
             todo   == <<Single(x)>>
             adding == IF name = "custom" THEN {} ELSE PossibleRows(s)
             fresh  == Fresh(t) /\ Buildable(acct, name)
                         /\ \A u \in Strategies(acct) :
                              Active(acct, u) => acct[StrategyOf(u)].delegate # d
             job    == [Idle EXCEPT !.kind = "create", !.state = "running", !.target = name,
                                    !.shown = shown, !.todo = todo, !.adding = adding,
                                    !.fresh = fresh]
  <2>1. page' = [page EXCEPT ![t].strategy = s, ![t].seen = {}, ![t].job = job] /\ UNCHANGED acct
    BY <1>2 DEF StartCreate
  <2>2. TxsNamed(todo)
    <3>1. d \in Known(s)
      BY DEF Known, Chosen
    <3> HIDE DEF s
    <3>2. ListNamed(Single(x))
      BY <1>e, <3>1, NamedOthers
    <3> HIDE DEF x
    <3>3. IsList(todo) /\ Len(todo) = 1 /\ todo[1] = Single(x)
      BY DEF IsList
    <3> QED BY <3>2, <3>3 DEF TxsNamed
  <2> HIDE DEF s, shown, todo, adding, fresh
  <2>3. job.todo = todo
    BY DEF Idle
  <2> HIDE DEF job
  <2>4. page'[t].job = job /\ DOMAIN page' = Pages /\ \A u \in Pages \ {t} : page'[u] = page[u]
    BY <1>0, <2>1 DEF PageFields
  <2> QED BY <1>a, <2>1, <2>2, <2>3, <2>4
<1>3. ASSUME NEW target \in SUBSET Mints, StartTokens(t, target)
      PROVE  PagesNamed' /\ UNCHANGED acct
  <2> DEFINE w       == p.wallet
             added   == target \ p.mints
             removed == p.mints \ target
             shown   == {pair \in Strategies(acct) \X added :
                           /\ Active(acct, pair[1]) /\ PricesPaired(acct, pair[1])
                           /\ pair[2] \notin MintsIn(acct, pair[1])}
             todo    == Chunked(PanelInstructions(acct, w, added, removed))
             fresh   == Fresh(t)
             asked   == [Idle EXCEPT !.kind = "tokens", !.shown = shown, !.todo = todo,
                                     !.fresh = fresh]
  <2>1. Start(t, asked)
    BY <1>3 DEF StartTokens
  <2>2. TxsNamed(todo)
    BY NamedPanel, NamedChunks
  <2> HIDE DEF shown, todo, fresh
  <2>3. DOMAIN asked = JobFields /\ asked.todo = todo
    BY DEF Idle, JobFields
  <2> HIDE DEF asked
  <2> QED BY <1>s, <2>1, <2>2, <2>3
<1>4. CASE BuildAdditions(t)
  <2>1. /\ UNCHANGED acct /\ DOMAIN page' = Pages
        /\ \A u \in Pages \ {t} : page'[u] = page[u]
    BY <1>0, <1>4 DEF BuildAdditions
  <2>2. ASSUME NEW order,
               page' = [page EXCEPT ![t].job.todo = Additions(t, order), ![t].job.adding = {}]
        PROVE  TxsNamed(page'[t].job.todo)
    <3> DEFINE adds == Additions(t, order)
    <3>0. page' = [page EXCEPT ![t].job.todo = adds, ![t].job.adding = {}]
      BY <2>2
    <3>1. TxsNamed(adds)
      <4> DEFINE s     == p.strategy
                 rows  == Preset(p.job.target, s,
                                 IF p.job.kind = "create" THEN "obligation" ELSE "synthetic", order)
                 shown == p.job.adding \cap DOMAIN rows
                 list  == InOrder(s, shown)
                 f     == [n \in DOMAIN list |-> Single(AddRow(s, p.wallet, list[n], rows[list[n]]))]
      <4>1. adds = [n \in DOMAIN list |-> f[n]]
        BY DEF Additions
      <4> HIDE DEF rows, shown
      <4>2. \A n \in DOMAIN list : ListNamed(f[n])
        BY <1>e, NamedConfigures
      <4> HIDE DEF adds, f, s
      <4> QED BY <1>r, <4>1, <4>2
    <3> HIDE DEF adds
    <3>2. page'[t].job.todo = adds
      BY <1>0, <3>0 DEF PageFields, JobFields
    <3> QED BY <3>1, <3>2
  <2>3. ASSUME page' = [page EXCEPT ![t].job = [Idle EXCEPT !.state = "failed"]]
        PROVE  TxsNamed(page'[t].job.todo)
    <3>1. page'[t].job.todo = <<>>
      BY <1>0, <2>3 DEF PageFields, Idle
    <3> QED BY <3>1, NamedFew
  <2>4. TxsNamed(page'[t].job.todo)
    BY <1>4, <2>2, <2>3 DEF BuildAdditions
  <2> QED BY <1>a, <2>1, <2>4
<1> QED BY <1>1, <1>2, <1>3, <1>4

\* What is left to send after an action of one page.
LEMMA NamedOfPage ==
  ASSUME AccountsOK(acct), JobsInv, KnownOK(acct), PagesNamed, Exists(acct, VaultOf(Vault)),
         NEW t \in Pages,
         \/ \E w \in {Admin}, s \in Strategies(acct), failed \in {{}, {"action"}} :
              LoadPage(t, w, s, failed)
         \/ RefreshPage(t)
         \/ \E name \in Presets : StartPreset(t, name) \/ \E d \in Agents : StartCreate(t, name, d)
         \/ \E target \in SUBSET Mints : StartTokens(t, target)
         \/ BuildAdditions(t) \/ Send(t) \/ FailUnnoticed(t) \/ AnswerLost(t)
         \/ CloseTab(t) \/ Finish(t)
         \/ EditActions(t) \/ EditAutoActions(t) \/ EditSources(t) \/ EditDelegate(t)
         \/ Deactivate(t) \/ ProposeSuccessor(t)
  PROVE  Keeps(acct, acct') /\ PagesNamed'
<1> DEFINE p == page[t]
<1>0. /\ DOMAIN page = Pages /\ DOMAIN p = PageFields /\ DOMAIN p.job = JobFields
      /\ TxsNamed(p.job.todo) /\ Count(acct) \in Nat
  BY DEF JobsInv, PageOK, PagesNamed, AccountsOK, Count
<1>a. ASSUME NEW q, page' = [page EXCEPT ![t] = q], UNCHANGED acct, TxsNamed(q.job.todo)
      PROVE  Keeps(acct, acct') /\ PagesNamed'
  <2>1. Keeps(acct, acct')
    BY <1>a DEF Keeps
  <2> QED BY <1>a, <2>1, NamedOfOne
<1>b. ASSUME NEW q, OnPage(t, q), TxsNamed(q.job.todo)
      PROVE  PagesNamed'
  BY <1>b, NamedOfOne
<1>i. \A q : q.job = Idle => TxsNamed(q.job.todo)
  BY NamedIdle
<1>1. CASE \E w \in {Admin}, s \in Strategies(acct), failed \in {{}, {"action"}} :
             LoadPage(t, w, s, failed)
  <2>1. PICK w \in {Admin}, s \in Strategies(acct), failed \in {{}, {"action"}} :
          LoadPage(t, w, s, failed)
    BY <1>1
  <2> DEFINE seen   == {key \in RowsOf(acct, s) : ~IsRow(key, failed)}
             mints  == VaultMints(acct)
             listed == {m \in Mints : Exists(acct, Listed(m))}
             n      == Count(acct)
             idle   == Idle
             q      == [wallet |-> w, strategy |-> s, seen |-> seen, mints |-> mints,
                        listed |-> listed, count |-> n, job |-> idle]
  <2>2. page' = [page EXCEPT ![t] = q] /\ UNCHANGED acct
    BY <2>1 DEF LoadPage
  <2> HIDE DEF idle, seen, mints, listed, n
  <2>3. q.job = Idle
    BY DEF idle
  <2> HIDE DEF q
  <2> QED BY <1>a, <1>i, <2>2, <2>3
<1>2. CASE RefreshPage(t)
  <2> DEFINE q == Reread(t)
  <2>1. page' = [page EXCEPT ![t] = q] /\ UNCHANGED acct
    BY <1>2 DEF RefreshPage
  <2>2. q.job = p.job
    BY <1>0 DEF Reread, PageFields
  <2> HIDE DEF q, p
  <2>3. TxsNamed(q.job.todo)
    BY <1>0, <2>2
  <2> QED BY <1>a, <2>1, <2>3
<1>3. CASE \/ \E name \in Presets : StartPreset(t, name) \/ \E d \in Agents : StartCreate(t, name, d)
           \/ \E target \in SUBSET Mints : StartTokens(t, target)
           \/ BuildAdditions(t)
  <2>1. PagesNamed' /\ UNCHANGED acct
    BY <1>0, <1>3, NamedJobs
  <2> QED BY <2>1 DEF Keeps
<1>4. CASE Send(t)
  <2> DEFINE r == Run(acct, Head(Todo(t)))
             q == Advance(t)
  <2>0. TxsNamed(q.job.todo) /\ \A ix \in Entries(Head(Todo(t))) : Named(ix)
    BY <1>4, NamedAdvance DEF Send
  <2>1. CASE r.ok
    <3>1. acct' = r.acct /\ OnPage(t, q)
      BY <1>4, <2>1 DEF Send, Lands
    <3>2. Keeps(acct, r.acct)
      BY <2>0, <2>1, RunKnown
    <3> HIDE DEF r, q
    <3> QED BY <1>b, <2>0, <3>1, <3>2
  <2>2. CASE ~r.ok
    <3> DEFINE k == Stopped(t, "refused")
    <3>1. page' = [page EXCEPT ![t] = k] /\ UNCHANGED acct
      BY <1>4, <2>2 DEF Send
    <3>2. TxsNamed(k.job.todo)
      BY <1>0, NamedIdle
    <3> HIDE DEF k
    <3> QED BY <1>a, <3>1, <3>2
  <2> QED BY <2>1, <2>2
<1>5. CASE FailUnnoticed(t)
  <2> DEFINE q == Advance(t)
  <2>1. page' = [page EXCEPT ![t] = q] /\ UNCHANGED acct /\ Todo(t) # <<>>
    BY <1>5 DEF FailUnnoticed
  <2>2. TxsNamed(q.job.todo)
    BY <2>1, NamedAdvance
  <2> HIDE DEF q
  <2> QED BY <1>a, <2>1, <2>2
<1>6. CASE AnswerLost(t)
  <2> DEFINE q == Stopped(t, "failed")
             r == Run(acct, Head(Todo(t)))
  <2>1. \/ r.ok /\ acct' = r.acct /\ OnPage(t, q)
        \/ page' = [page EXCEPT ![t] = q] /\ UNCHANGED acct
    BY <1>6 DEF AnswerLost, Lands
  <2>2. TxsNamed(q.job.todo)
    BY <1>0, NamedIdle
  <2>3. \A ix \in Entries(Head(Todo(t))) : Named(ix)
    BY <1>6, NamedAdvance DEF AnswerLost
  <2>4. r.ok => Keeps(acct, r.acct)
    BY <2>3, RunKnown
  <2> HIDE DEF q, r
  <2> QED BY <1>a, <1>b, <2>1, <2>2, <2>4
<1>7. CASE CloseTab(t)
  <2> DEFINE q == Closed
  <2>1. page' = [page EXCEPT ![t] = q] /\ UNCHANGED acct
    BY <1>7 DEF CloseTab
  <2>2. TxsNamed(q.job.todo)
    BY NamedIdle
  <2> HIDE DEF q
  <2> QED BY <1>a, <2>1, <2>2
<1>8. CASE Finish(t)
  <2> DEFINE q == page'[t]
             job == p.job
             k == [job EXCEPT !.state = "applied"]
  <2>1. q.job = k
    <3>1. CASE job.kind = "tokens"
      BY <1>0, <1>8, <3>1 DEF Finish, PageFields, JobFields
    <3>2. CASE job.kind # "tokens"
      BY <1>0, <1>8, <3>2 DEF Finish, Reread, PageFields, JobFields
    <3> QED BY <3>1, <3>2
  <2>2. k.todo = p.job.todo
    <3> HIDE DEF job
    <3> QED BY <1>0 DEF JobFields, job
  <2>3. page' = [page EXCEPT ![t] = q] /\ UNCHANGED acct
    <3>1. UNCHANGED acct /\ \E x : page' = [page EXCEPT ![t] = x]
      BY <1>8 DEF Finish
    <3> QED BY <1>0, <3>1
  <2> HIDE DEF q, k, p
  <2> QED BY <1>0, <1>a, <2>1, <2>2, <2>3
<1>9. CASE EditActions(t)
  <2> DEFINE q == ActionsReread(t)
             s == p.strategy
  <2>1. OnPage(t, q)
    BY <1>9 DEF EditActions
  <2>2. q.job = Idle
    BY <1>0 DEF ActionsReread, PageFields
  <2>3. \/ Submit(AddAllowedAction(s, p.wallet, "jupiter", "route", EnteredAction))
        \/ \E key : Submit(RemoveAllowedAction(s, p.wallet, key[3], key[4]))
    BY <1>9 DEF EditActions
  <2> HIDE DEF q, s
  <2>4. /\ Named(AddAllowedAction(s, p.wallet, "jupiter", "route", EnteredAction))
        /\ \A key : Named(RemoveAllowedAction(s, p.wallet, key[3], key[4]))
    BY NamedConfigures DEF RemoveAllowedAction
  <2>5. Keeps(acct, acct')
    BY <2>3, <2>4, SubmitKnown
  <2> QED BY <1>b, <1>i, <2>1, <2>2, <2>5
<1>10. ASSUME NEW ixs, Submits(t, ixs), \A ix \in ixs : Named(ix)
       PROVE  Keeps(acct, acct') /\ PagesNamed'
  <2> DEFINE q == OnlyCount(t)
  <2>1. OnPage(t, q) /\ \E ix \in ixs : Submit(ix)
    BY <1>10 DEF Submits
  <2>2. q.job = Idle
    BY <1>0 DEF OnlyCount, PageFields
  <2> HIDE DEF q
  <2>3. Keeps(acct, acct')
    BY <1>10, <2>1, SubmitKnown
  <2> QED BY <1>b, <1>i, <2>1, <2>2, <2>3
<1>11. CASE EditAutoActions(t)
  <2>1. \A s, w, kind, row : Named(SetAutoAction(s, w, kind, row)) /\ Named(ClearAutoAction(s, w, kind))
    <3>1. \A s, w, kind, row : SetAutoAction(s, w, kind, row) = AddRow(s, w, AutoOf(s, kind), row)
      BY DEF SetAutoAction, AddRow
    <3> QED BY <3>1, NamedConfigures DEF ClearAutoAction
  <2> QED BY <1>10, <1>11, <2>1 DEF EditAutoActions
<1>12. CASE EditSources(t)
  <2>1. \A s, w, slot : Named(RemoveValueSource(s, w, slot))
    BY NamedConfigures DEF RemoveValueSource
  <2>2. \A s, w, slot, row : Named(AddValueSource(s, w, slot, row))
    BY NamedConfigures
  <2> QED BY <1>10, <1>12, <2>1, <2>2 DEF EditSources
<1>13. CASE EditDelegate(t)
  <2>1. \A d \in Agents : \A s, w, others : Named(UpdateDelegate(s, w, d, others))
    <3>1. \A s : Agents \subseteq Known(s)
      BY DEF Known, Chosen
    <3> QED BY <3>1, NamedOthers
  <2> QED BY <1>10, <1>13, <2>1 DEF EditDelegate
<1>14. CASE Deactivate(t)
  BY <1>10, <1>14, NamedOthers DEF Deactivate
<1>15. CASE ProposeSuccessor(t)
  BY <1>10, <1>15, NamedOthers, ScriptsAssumption DEF ProposeSuccessor
<1> QED BY <1>1, <1>2, <1>3, <1>4, <1>5, <1>6, <1>7, <1>8, <1>9, <1>11, <1>12, <1>13, <1>14, <1>15

\* After any step of the console.
LEMMA NamedKept ==
  ASSUME AccountsOK(acct), JobsInv, KnownOK(acct), PagesNamed, Exists(acct, VaultOf(Vault)),
         ConsoleNext
  PROVE  Keeps(acct, acct') /\ PagesNamed'
<1>1. CASE Elsewhere
  <2>1. page' = [u \in Pages |-> Overtaken(page[u])]
    BY <1>1 DEF Elsewhere
  <2>2. \E ix : Named(ix) /\ Submit(ix)
    <3>1. \A w, m : Named(AddAllowedToken(w, m)) /\ Named(RemoveAllowedToken(w, m))
      BY NamedConfigures
    <3>2. \A w : Named(AcceptAdmin(Vault, w)) /\ Named(AcceptAuthority(Vault, w))
      BY NamedOthers, ScriptsAssumption
    <3> QED BY <1>1, <3>1, <3>2 DEF Elsewhere, GovernanceEdits, RoleAccepted
  <2>3. Keeps(acct, acct')
    BY <2>2, SubmitKnown
  <2> QED BY <2>1, <2>3, NamedOfNone
<1> QED BY <1>1, NamedOfPage DEF ConsoleNext

-----------------------------------------------------------------------------
(***************************************************************************)
(* The shell: what the scripts are launched with, and how they go on.      *)
(***************************************************************************)
Roomy == \A s \in Strategies(acct) : Active(acct, s) => HasRoom(acct, s)

\* The steps under each name the properties speak of, and what has been looked at
\* before they are computed.
Offered(name, steps) ==
  /\ name = "seed_allowed_tokens" => steps = SeedAllowedTokens(Governance)
  /\ name = "unseed_allowed_tokens" => steps = UnseedAllowedTokens(Governance)
  /\ name = "init_token" => \E m \in Mints : steps = InitAllowedToken(Governance, m)
  /\ name = "seed_vault_tokens" => steps = SeedVaultAllowedTokens(Admin)
  /\ name = "setup_kamino" => steps = SetupKaminoStrategy(acct, Admin)
  /\ name = "create_strategies" =>
       /\ IsAdmin(Vault) /\ CanCreate
       /\ steps = CreateStrategies(Vault, Admin, Count(acct), MaxStrategies - 1)
  /\ name = "setup_demo" =>
       /\ Exists(acct, VaultOf(DemoVault)) => acct[VaultOf(DemoVault)].admin \in {Admin, DemoKey}
       /\ steps = SetupDemoVault(acct, Admin)
  /\ name = "init_vault" => steps = InitVault(Admin)
  /\ name = "create_vault" => steps = CreateVault(acct, Admin)
  /\ name = "setup_multi" =>
       ~Exists(acct, VaultOf(FreshVault)) /\ steps = SetupMultiVaults(Admin)
  /\ name = "setup_full" => ~Exists(acct, VaultOf(FreshVault)) /\ steps = SetupFull(Admin)
  /\ name = "bootstrap" => Roomy /\ IsAdmin(Vault) /\ steps = BootstrapSources(acct, Admin)
  /\ name = "flow" => Roomy /\ steps = FlowSteps(acct, Admin)
  /\ name = "repair" => steps = RepairSources(acct, Admin)

\* Only steps that are named are passed over.
LEMMA OnlyNamedSkip ==
  ASSUME NEW a, NEW steps, steps # <<>>, StepsReady(a, steps), Head(steps).mode = "needed"
  PROVE  ListNamed(Head(steps).tx)
<1>1. 1 \in 1..Len(steps) /\ Head(steps) = steps[1]
  BY TailPlaces DEF StepsReady
<1>2. Offer.mode = "must" /\ Take.mode = "must" /\ Close.mode = "must"
  BY DEF Offer, Take, Close, One, Must
<1> QED BY <1>1, <1>2 DEF StepsReady, ReadyAt

\* A script, as it is started.
LEMMA Launched ==
  ASSUME Exists(acct, VaultOf(Vault)), Count(acct) \in Nat, StartScript
  PROVE  \E name, steps :
           Launch(name, steps) /\ StepsReady(acct, steps) /\ Offered(name, steps)
<1>r. \A steps : StepsNamed(steps) => StepsReady(acct, steps)
  BY ReadyNamed
<1>0. \A steps : \A name \in {"unseed_vault_tokens", "uninit_token", "setup_lulo", "kamino_loop",
                               "register", "hand_over", "take_over", "e2e_kamino", "toggle",
                               "settle", "fund", "wrap", "dedupe", "init_ctoken", "mint_settle",
                               "new_token"} : Offered(name, steps)
  BY DEF Offered
<1>1. CASE StartListScript
  <2>1. CASE \/ Launch("seed_allowed_tokens", SeedAllowedTokens(Governance))
             \/ Launch("unseed_allowed_tokens", UnseedAllowedTokens(Governance))
             \/ Launch("seed_vault_tokens", SeedVaultAllowedTokens(Admin))
             \/ Launch("unseed_vault_tokens", UnseedVaultAllowedTokens(Admin))
    BY <1>r, <2>1, NamedTokenScripts DEF Offered
  <2>2. ASSUME NEW m \in Mints, \/ Launch("init_token", InitAllowedToken(Governance, m))
                                \/ Launch("uninit_token", UninitAllowedToken(Governance, m))
        PROVE  \E name, steps :
                 Launch(name, steps) /\ StepsReady(acct, steps) /\ Offered(name, steps)
    BY <1>r, <2>2, NamedTokenScripts DEF Offered
  <2> QED BY <1>1, <2>1, <2>2 DEF StartListScript
<1>2. CASE StartSetupScript
  <2>1. CASE CanCreate /\ Launch("setup_kamino", SetupKaminoStrategy(acct, Admin))
    BY <1>r, <2>1, NamedStrategyScripts DEF Offered
  <2>2. CASE CanCreate /\ Launch("setup_lulo", SetupLuloStrategy(acct, Admin))
    BY <1>r, <2>2, NamedStrategyScripts DEF Offered
  <2>3. CASE /\ IsAdmin(Vault) /\ CanCreate
             /\ Launch("create_strategies",
                       CreateStrategies(Vault, Admin, Count(acct), MaxStrategies - 1))
    <3>1. MaxStrategies - 1 \in Nat /\ Count(acct) <= (MaxStrategies - 1) + 1
      BY <2>3, ConsoleAssumption DEF CanCreate
    <3>2. StepsNamed(CreateStrategies(Vault, Admin, Count(acct), MaxStrategies - 1))
      BY <3>1, NamedVaultScripts
    <3> QED BY <1>r, <2>3, <3>2 DEF Offered
  <2>4. CASE \E s \in Strategies(acct), beyond \in BOOLEAN :
               Launch("kamino_loop", KaminoLoop(s, Admin, beyond))
    BY <1>r, <1>0, <2>4, NamedStrategyScripts
  <2>5. CASE \E s \in Strategies(acct) : Launch("register", RegisterCooldown(s, Admin))
    BY <1>r, <1>0, <2>5, NamedStrategyScripts
  <2> QED BY <1>2, <2>1, <2>2, <2>3, <2>4, <2>5 DEF StartSetupScript
<1>3. CASE StartVaultScript
  <2>1. CASE /\ Exists(acct, VaultOf(DemoVault)) =>
                  acct[VaultOf(DemoVault)].admin \in {Admin, DemoKey}
             /\ Launch("setup_demo", SetupDemoVault(acct, Admin))
    BY <2>1, ReadyDemo DEF Offered
  <2>4. Vault # DemoVault
    BY ScriptsAssumption
  <2>5. /\ StepsReady(acct, InitVault(Admin)) /\ StepsReady(acct, CreateVault(acct, Admin))
        /\ StepsReady(acct, HandOver(Vault, Admin, Receiver))
        /\ StepsReady(acct, TakeOver(Vault, Receiver))
    BY <1>r, <2>4, NamedVaultScripts
  <2>2. CASE \/ Launch("init_vault", InitVault(Admin))
             \/ Launch("create_vault", CreateVault(acct, Admin))
             \/ Launch("hand_over", HandOver(Vault, Admin, Receiver))
             \/ Launch("take_over", TakeOver(Vault, Receiver))
    BY <2>2, <2>5 DEF Offered
  <2>3. CASE /\ ~Exists(acct, VaultOf(FreshVault))
             /\ \/ Launch("setup_multi", SetupMultiVaults(Admin))
                \/ Launch("setup_full", SetupFull(Admin))
                \/ Launch("e2e_kamino", TestGateway(Admin))
    BY <1>r, <2>3, NamedVaultScripts DEF Offered
  <2> QED BY <1>3, <2>1, <2>2, <2>3 DEF StartVaultScript
<1>4. CASE StartSourceScript
  <2>1. CASE Roomy /\ IsAdmin(Vault) /\ Launch("bootstrap", BootstrapSources(acct, Admin))
    BY <1>r, <2>1, NamedSourceScripts DEF Offered
  <2>2. CASE Roomy /\ Launch("flow", FlowSteps(acct, Admin))
    BY <1>r, <2>2, NamedSourceScripts DEF Offered
  <2>3. CASE Launch("repair", RepairSources(acct, Admin))
    BY <1>r, <2>3, NamedRepairScripts DEF Offered
  <2>4. CASE \/ \E m \in Mints : Launch("toggle", ToggleToken(acct, Admin, m))
             \/ Launch("settle", SettleAll(acct, Admin))
             \/ \E m \in Mints : Launch("fund", FundWithToken(acct, m))
             \/ Launch("wrap", WrapSol(acct))
    BY <1>r, <1>0, <2>4, NamedSourceScripts
  <2>5. CASE \/ Launch("dedupe", DropDuplicates(acct, Admin))
             \/ \E s \in Strategies(acct) : Launch("init_ctoken", InitCtokenAccount(s))
             \/ Launch("mint_settle", MintAndSettle(acct, Admin, IsAuthority(Vault)))
             \/ \E s \in Strategies(acct), m \in Mints :
                  Launch("new_token", NewTokenScenario(Governance, Admin, s, m))
    BY <1>r, <1>0, <2>5, NamedRepairScripts DEF IsAuthority
  <2> QED BY <1>4, <2>1, <2>2, <2>3, <2>4, <2>5 DEF StartSourceScript, Roomy
<1> QED BY <1>1, <1>2, <1>3, <1>4 DEF StartScript

\* The shell when it is idle and when its script has ended.
LEMMA ShellEnds ==
  /\ DOMAIN Prompt = ShellFields /\ \A a : StepsReady(a, Prompt.steps)
  /\ \A state : DOMAIN Ended(state) = ShellFields /\ \A a : StepsReady(a, Ended(state).steps)
<1>1. DOMAIN Prompt = ShellFields /\ Prompt.steps = <<>>
  BY DEF Prompt, ShellFields
<1>2. \A state : DOMAIN Ended(state) = ShellFields /\ Ended(state).steps = <<>>
  BY DEF Ended, Prompt, ShellFields
<1>3. \A a : StepsReady(a, <<>>)
  BY NamedFew, ReadyNamed
<1> QED BY <1>1, <1>2, <1>3

\* The steps a script has left, when others have done something.
LEMMA ShellLeft ==
  ASSUME DOMAIN shell = ShellFields, StepsReady(acct, shell.steps), shell' = ShellOvertaken,
         Promised(acct) => Promised(acct')
  PROVE  DOMAIN shell' = ShellFields /\ StepsReady(acct', shell'.steps)
<1>0. StepsReady(acct', shell.steps)
  BY ReadyStays
<1>1. ASSUME shell' = [shell EXCEPT !.alone = FALSE, !.raced = TRUE]
      PROVE  DOMAIN shell' = ShellFields /\ shell'.steps = shell.steps
  BY <1>1 DEF ShellFields
<1> QED BY <1>0, <1>1, ShellEnds DEF ShellOvertaken

\* After any step of the scripts, the console and the other clients.
LEMMA NamedSurvives ==
  ASSUME AccountsOK(acct), JobsInv, NamedInv, Exists(acct, VaultOf(Vault)), ScriptsNext
  PROVE  NamedInv'
<1>0. KnownOK(acct) /\ PagesNamed /\ DOMAIN shell = ShellFields /\ StepsReady(acct, shell.steps)
      /\ Count(acct) \in Nat
  BY DEF NamedInv, AccountsOK, Count
<1>a. ASSUME UNCHANGED <<acct, page>>, DOMAIN shell' = ShellFields, StepsReady(acct', shell'.steps)
      PROVE  NamedInv'
  BY <1>0, <1>a DEF NamedInv, PagesNamed
<1>b. ASSUME Keeps(acct, acct'), page' = [u \in Pages |-> Overtaken(page[u])],
             DOMAIN shell' = ShellFields, StepsReady(acct', shell'.steps)
      PROVE  NamedInv'
  BY <1>0, <1>b, NamedOfNone DEF NamedInv, Keeps
<1>1. CASE StartScript
  <2>1. PICK name, steps : Launch(name, steps) /\ StepsReady(acct, steps)
    BY <1>0, <1>1, Launched
  <2> DEFINE k == [Prompt EXCEPT !.script = name, !.state = "running", !.steps = steps,
                                 !.alone = TRUE]
  <2>2. shell' = k /\ UNCHANGED <<acct, page>>
    BY <2>1 DEF Launch
  <2>3. DOMAIN k = ShellFields /\ k.steps = steps
    BY DEF Prompt, ShellFields
  <2> HIDE DEF k
  <2> QED BY <1>a, <2>1, <2>2, <2>3
<1>2. ASSUME ShellRuns, shell.steps # <<>>
      PROVE  LET step == Head(shell.steps)
                 r    == Run(acct, step.tx)
             IN  /\ DOMAIN NextStep = ShellFields
                 /\ r.ok => Keeps(acct, r.acct) /\ StepsReady(r.acct, NextStep.steps)
                 /\ step.mode = "needed" => StepsReady(acct, NextStep.steps)
  <2> DEFINE steps == shell.steps
  <2>1. DOMAIN NextStep = ShellFields /\ NextStep.steps = Tail(steps)
    BY <1>0 DEF NextStep, ShellFields
  <2> HIDE DEF steps
  <2>2. /\ LET r == Run(acct, Head(steps).tx)
           IN  r.ok => Keeps(acct, r.acct) /\ StepsReady(r.acct, Tail(steps))
        /\ ListNamed(Head(steps).tx) => StepsReady(acct, Tail(steps))
    BY <1>0, <1>2, ReadyTail DEF steps
  <2>3. Head(steps).mode = "needed" => ListNamed(Head(steps).tx)
    BY <1>0, <1>2, OnlyNamedSkip DEF steps
  <2> QED BY <2>1, <2>2, <2>3 DEF steps
<1>3. CASE RunStep
  <2> DEFINE step == Head(shell.steps)
             r    == Run(acct, step.tx)
             next == NextStep
             refused == Ended("refused")
  <2>0. ShellRuns /\ shell.steps # <<>>
    BY <1>3 DEF RunStep
  <2>1. \/ shell' = refused /\ UNCHANGED <<acct, page>>
        \/ shell' = next /\ UNCHANGED <<acct, page>> /\ step.mode = "needed"
        \/ r.ok /\ acct' = r.acct /\ page' = [u \in Pages |-> Overtaken(page[u])] /\ shell' = next
    BY <1>3 DEF RunStep, ScriptLands, Lands
  <2>2. /\ DOMAIN next = ShellFields /\ (r.ok => StepsReady(r.acct, next.steps))
        /\ step.mode = "needed" => StepsReady(acct, next.steps)
    BY <1>2, <2>0
  <2>3. DOMAIN refused = ShellFields /\ \A a : StepsReady(a, refused.steps)
    BY ShellEnds
  <2>4. r.ok => Keeps(acct, r.acct)
    BY <1>0, <1>2, <2>0
  <2> HIDE DEF step, r, next, refused
  <2> QED BY <1>a, <1>b, <2>1, <2>2, <2>3, <2>4
<1>4. CASE ScriptDies
  <2> DEFINE r == Run(acct, Head(shell.steps).tx)
             failed == Ended("failed")
  <2>0. ShellRuns /\ shell.steps # <<>>
    BY <1>4 DEF ScriptDies
  <2>1. /\ shell' = failed
        /\ \/ UNCHANGED <<acct, page>>
           \/ r.ok /\ acct' = r.acct /\ page' = [u \in Pages |-> Overtaken(page[u])]
    BY <1>4 DEF ScriptDies, ScriptLands, Lands
  <2>3. DOMAIN failed = ShellFields /\ \A a : StepsReady(a, failed.steps)
    BY ShellEnds
  <2>4. r.ok => Keeps(acct, r.acct)
    BY <1>0, <1>2, <2>0
  <2> HIDE DEF r, failed
  <2> QED BY <1>a, <1>b, <2>1, <2>3, <2>4
<1>5. CASE FinishScript
  <2> DEFINE done == Ended("done")
  <2>1. shell' = done /\ UNCHANGED <<acct, page>>
    BY <1>5 DEF FinishScript, consoleVars
  <2>2. DOMAIN done = ShellFields /\ \A a : StepsReady(a, done.steps)
    BY ShellEnds
  <2> HIDE DEF done
  <2> QED BY <1>a, <2>1, <2>2
<1>6. CASE ConsoleNext /\ shell' = ShellOvertaken
  <2>1. Keeps(acct, acct') /\ PagesNamed'
    BY <1>0, <1>6, NamedKept
  <2>2. DOMAIN shell' = ShellFields /\ StepsReady(acct', shell'.steps)
    BY <1>0, <1>6, <2>1, ShellLeft DEF Keeps
  <2> QED BY <2>1, <2>2 DEF NamedInv, Keeps
<1>7. CASE UseElsewhere /\ shell' = ShellOvertaken
  <2>1. \E ix : Named(ix) /\ Submit(ix)
    BY <1>7, NamedOthers DEF UseElsewhere
  <2>2. Keeps(acct, acct')
    BY <1>0, <2>1, SubmitKnown
  <2>3. page' = [u \in Pages |-> Overtaken(page[u])]
    BY <1>7 DEF UseElsewhere
  <2>4. DOMAIN shell' = ShellFields /\ StepsReady(acct', shell'.steps)
    BY <1>0, <1>7, <2>2, ShellLeft DEF Keeps
  <2> QED BY <1>b, <2>2, <2>3, <2>4
<1>8. CASE CooldownElapses /\ shell' = ShellOvertaken
  <2> DEFINE b == acct'
  <2>1. page' = page /\ DOMAIN b = DOMAIN acct
        /\ \A key \in DOMAIN acct : key[1] # "action" => b[key] = acct[key]
    BY <1>8 DEF CooldownElapses, IsRow
  <2> HIDE DEF b
  <2>2. Keeps(acct, b)
    <3>1. \A s : StrategyOf(s)[1] = "strategy"
      BY Addresses
    <3>2. Config[1] = "config" /\ Ours[1] = "vault"
      BY Addresses DEF Config, Ours
    <3>3. /\ Exists(b, Ours) <=> Exists(acct, Ours)
          /\ Exists(acct, Ours) => b[Ours] = acct[Ours]
      BY <2>1, <3>2 DEF Exists
    <3>4. (Promised(acct) => Promised(b)) /\ (Secured(acct) => Secured(b))
      BY <3>3 DEF Promised, Secured
    <3>5. Exists(b, Config) /\ b[Config].governance = Governance /\ Secured(b)
      BY <1>0, <2>1, <3>2, <3>4 DEF KnownOK, Exists
    <3>6. \A s : Exists(b, StrategyOf(s)) => b[StrategyOf(s)].delegate \in Known(s)
      BY <1>0, <2>1, <3>1 DEF KnownOK, Exists
    <3> QED BY <3>4, <3>5, <3>6 DEF KnownOK, Keeps
  <2>3. DOMAIN shell' = ShellFields /\ StepsReady(acct', shell'.steps)
    BY <1>0, <1>8, <2>2, ShellLeft DEF Keeps, b
  <2> QED BY <1>0, <2>1, <2>2, <2>3 DEF NamedInv, PagesNamed, Keeps, b
<1> QED BY <1>1, <1>3, <1>4, <1>5, <1>6, <1>7, <1>8 DEF ScriptsNext

\* At the start there is one strategy, and nothing to send.
LEMMA NamedStart ==
  ASSUME ScriptsInit
  PROVE  NamedInv
<1>1. ConsoleInit /\ shell = Prompt
  BY DEF ScriptsInit
<1>2. \A t \in Pages : page[t].job = Idle
  <2> DEFINE q == Closed
  <2>1. q.job = Idle
    BY DEF Closed
  <2>2. page = [t \in Pages |-> q]
    BY <1>1 DEF ConsoleInit
  <2> HIDE DEF q
  <2> QED BY <2>1, <2>2
<1>3. PagesNamed
  BY <1>2, NamedIdle DEF PagesNamed
<1>4. KnownOK(acct)
  <2> DEFINE X == {Config, VaultOf(Vault), StrategyOf(<<Vault, 0>>)} \cup {Listed(m) : m \in Mints}
  <2>1. DOMAIN acct = X /\ acct[Config] = [governance |-> Governance]
        /\ acct[StrategyOf(<<Vault, 0>>)].delegate = "agent"
    BY <1>1 DEF ConsoleInit, Config, VaultOf, StrategyOf, Listed
  <2>2. \A s : StrategyOf(s) \in X => s = <<Vault, 0>>
    BY DEF Config, VaultOf, StrategyOf, Listed
  <2>5. Ours \notin X
    BY ScriptsAssumption DEF Ours, Config, VaultOf, StrategyOf, Listed
  <2> HIDE DEF X
  <2>6. Secured(acct)
    BY <2>1, <2>5 DEF Secured, Exists
  <2>3. Exists(acct, Config)
    BY <2>1 DEF Exists, X
  <2>4. \A s : "agent" \in Known(s)
    BY DEF Known, Chosen
  <2> QED BY <2>1, <2>2, <2>3, <2>4, <2>6 DEF KnownOK, Exists
<1> QED BY <1>1, <1>3, <1>4, ShellEnds DEF NamedInv

-----------------------------------------------------------------------------
(***************************************************************************)
(* What a script comes to when nobody interferes, from the accounts it     *)
(* was started with.  It passes a step over, or sends its transaction;     *)
(* else it is refused.                                                     *)
(***************************************************************************)
Skips(a, step) == step.mode = "needed" /\ Unneeded(a, step.tx[1])
Sends(a, step) == ~Skips(a, step) /\ step.mode # "overdrawn" /\ Run(a, step.tx).ok
Goes(a, step) == Skips(a, step) \/ Sends(a, step)
Thereafter(a, step) == IF Sends(a, step) THEN Run(a, step.tx).acct ELSE a

\* The accounts before the first step and after each one, and whether none of them
\* is refused.
Follows(h, a, steps) ==
  h[0] = a /\ \A k \in 1..Len(steps) : h[k] = Thereafter(h[k - 1], steps[k])
AllGo(h, steps) == \A k \in 1..Len(steps) : Goes(h[k - 1], steps[k])

\* There are such accounts.
LEMMA FollowsExists ==
  ASSUME NEW a, NEW steps, Len(steps) \in Nat
  PROVE  \E h : Follows(h, a, steps)
<1> DEFINE N == Len(steps)
           Is(h, m) == h[0] = a /\ \A k \in 1..m : h[k] = Thereafter(h[k - 1], steps[k])
           G == {m \in 0..N : \E h : Is(h, m)}
<1>0. N \in Nat
  OBVIOUS
<1> HIDE DEF N
<1>1. 0 \in G
  <2> DEFINE h == [k \in {0} |-> a]
  <2>1. Is(h, 0)
    OBVIOUS
  <2> HIDE DEF Is
  <2> QED BY <1>0, <2>1
<1>2. ASSUME NEW m \in 1..N, m - 1 \in G PROVE m \in G
  <2>1. PICK g : Is(g, m - 1)
    BY <1>2
  <2> DEFINE b == Thereafter(g[m - 1], steps[m])
             h == [k \in 0..m |-> IF k = m THEN b ELSE g[k]]
  <2>2. m \in Nat /\ m # 0 /\ m \in 0..N
    BY <1>0, <1>2
  <2>3. h[m] = b /\ \A k \in 0..(m - 1) : h[k] = g[k]
    BY <2>2
  <2> HIDE DEF b, h
  <2>4. h[0] = a
    BY <2>1, <2>2, <2>3
  <2>5. \A k \in 1..m : h[k] = Thereafter(h[k - 1], steps[k])
    <3> TAKE k \in 1..m
    <3>1. CASE k = m
      <4>1. h[k - 1] = g[k - 1]
        BY <2>2, <2>3, <3>1
      <4> QED BY <2>3, <3>1, <4>1 DEF b
    <3>2. CASE k # m
      <4>1. k \in 1..(m - 1) /\ k \in 0..(m - 1) /\ k - 1 \in 0..(m - 1)
        BY <2>2, <3>2
      <4> QED BY <2>1, <2>3, <4>1
    <3> QED BY <3>1, <3>2
  <2>6. Is(h, m)
    BY <2>4, <2>5
  <2> QED BY <2>2, <2>6
<1> HIDE DEF G
<1>3. \A k \in 0..N : k \in G
  BY <1>0, <1>1, <1>2, Upwards
<1>4. N \in G
  BY <1>0, <1>3
<1> QED BY <1>4 DEF G, N, Follows

\* No step is refused; the script has done its work when it comes to its end.
Sure(a, steps) == \A h : Follows(h, a, steps) => AllGo(h, steps)

HasPair(a, s) == SourcesFor(a, s, {"balance"}) # {} /\ SourcesFor(a, s, {"price"}) # {}
Repaired(a, s) == SourceSlots(a, s) = {0, 1} /\ TimesCounted(a, s, WrappedSol) = 1
EachActive(a, s) == s \in Strategies(a) /\ Active(a, s)
ByDemoKey(a) ==
  a[Ours].admin = DemoKey /\ DemoKey \in {a[Ours].authority, a[Ours].pendingAuthority}
Fulfilled(name, a) ==
  /\ name = "repair" => \A s : EachActive(a, s) => Repaired(a, s)
  /\ name = "seed_vault_tokens" =>
       \A m \in Mints : Exists(a, Listed(m)) => Exists(a, VaultListed(Vault, m))
  /\ name = "setup_kamino" =>
       \A i \in {"deposit", "withdraw", "borrow", "repay"} :
         Exists(a, ActionOf(<<Vault, Count(a) - 1>>, "kamino", i))
  /\ name = "setup_demo" => ByDemoKey(a)
  /\ name \in {"bootstrap", "flow"} => \A s : EachActive(a, s) => HasPair(a, s)
Effective(name, a, steps) ==
  \A h : Follows(h, a, steps) /\ AllGo(h, steps) => Fulfilled(name, h[Len(steps)])

\* What was to come after the first step comes after it.
LEMMA FollowsOn ==
  ASSUME NEW a, NEW steps, IsList(steps), steps # <<>>, NEW g,
         Follows(g, Thereafter(a, Head(steps)), Tail(steps))
  PROVE  \E h : /\ Follows(h, a, steps) /\ h[Len(steps)] = g[Len(Tail(steps))]
                /\ AllGo(h, steps) <=> Goes(a, Head(steps)) /\ AllGo(g, Tail(steps))
<1> DEFINE N == Len(steps)
           r == Tail(steps)
           b == Thereafter(a, Head(steps))
           h == [k \in 0..N |-> IF k = 0 THEN a ELSE g[k - 1]]
<1>1. /\ N \in Nat /\ 1 \in 1..N /\ Head(steps) = steps[1] /\ Len(r) = N - 1
      /\ \A k \in 1..Len(r) : k + 1 \in 1..N /\ k + 1 # 1 /\ r[k] = steps[k + 1]
  BY TailPlaces
<1>2. h[0] = a /\ \A k \in 1..N : h[k] = g[k - 1]
  BY <1>1
<1>3. g[0] = b /\ \A k \in 1..Len(r) : g[k] = Thereafter(g[k - 1], r[k])
  BY DEF Follows
<1> HIDE DEF N, r, b, h
<1>4. \A k \in 1..N : k # 1 => /\ k - 1 \in 1..Len(r) /\ r[k - 1] = steps[k]
                               /\ h[k - 1] = g[k - 2] /\ (k - 1) - 1 = k - 2
  <2> TAKE k \in 1..N
  <2> HAVE k # 1
  <2>1. k - 1 \in 1..Len(r) /\ k - 1 \in 1..N /\ (k - 1) + 1 = k /\ (k - 1) - 1 = k - 2
    BY <1>1
  <2> QED BY <1>1, <1>2, <2>1
<1>5. h[1] = b /\ h[1 - 1] = a
  BY <1>1, <1>2, <1>3
<1>6. Follows(h, a, steps)
  <2>1. \A k \in 1..N : h[k] = Thereafter(h[k - 1], steps[k])
    <3> TAKE k \in 1..N
    <3>1. CASE k = 1
      BY <1>1, <1>5, <3>1 DEF b
    <3>2. CASE k # 1
      BY <1>2, <1>3, <1>4, <3>2
    <3> QED BY <3>1, <3>2
  <2> QED BY <1>2, <2>1 DEF Follows, N
<1>7. AllGo(h, steps) <=> Goes(a, Head(steps)) /\ AllGo(g, r)
  <2>1. Goes(h[1 - 1], steps[1]) <=> Goes(a, Head(steps))
    BY <1>1, <1>5
  <2>2. \A k \in 1..N : k # 1 => (Goes(h[k - 1], steps[k]) <=> Goes(g[(k - 1) - 1], r[k - 1]))
    BY <1>4
  <2>3. \A k \in 1..Len(r) : k + 1 \in 1..N /\ k + 1 # 1 /\ (k + 1) - 1 = k
    BY <1>1
  <2>4. ASSUME AllGo(h, steps) PROVE Goes(a, Head(steps)) /\ AllGo(g, r)
    <3>1. \A k \in 1..Len(r) : Goes(g[k - 1], r[k])
      BY <2>2, <2>3, <2>4 DEF AllGo, N
    <3> QED BY <1>1, <2>1, <2>4, <3>1 DEF AllGo, N
  <2>5. ASSUME Goes(a, Head(steps)), AllGo(g, r) PROVE AllGo(h, steps)
    <3>1. \A k \in 1..N : Goes(h[k - 1], steps[k])
      BY <1>4, <2>1, <2>2, <2>5 DEF AllGo
    <3> QED BY <3>1 DEF AllGo, N
  <2> QED BY <2>4, <2>5
<1>8. h[N] = g[Len(r)]
  BY <1>1, <1>2
<1> QED BY <1>6, <1>7, <1>8 DEF N, r

\* The rest of a script.
LEMMA RestGoes ==
  ASSUME NEW a, NEW steps, IsList(steps), steps # <<>>
  PROVE  /\ Sure(a, steps) => /\ Goes(a, Head(steps))
                              /\ Sure(Thereafter(a, Head(steps)), Tail(steps))
         /\ \A name : Effective(name, a, steps) /\ Goes(a, Head(steps)) =>
              Effective(name, Thereafter(a, Head(steps)), Tail(steps))
<1> DEFINE b == Thereafter(a, Head(steps))
           r == Tail(steps)
<1>1. Len(steps) \in Nat /\ Len(r) \in Nat /\ 1 \in 1..Len(steps) /\ Head(steps) = steps[1]
  BY TailPlaces, LenProperties DEF IsList
<1>2. ASSUME Sure(a, steps) PROVE Goes(a, Head(steps)) /\ Sure(b, r)
  <2>1. Goes(a, Head(steps))
    <3>1. PICK h : Follows(h, a, steps)
      BY <1>1, FollowsExists
    <3>2. h[1 - 1] = a /\ Goes(h[1 - 1], steps[1])
      BY <1>1, <1>2, <3>1 DEF Sure, Follows, AllGo
    <3> QED BY <1>1, <3>2
  <2>2. ASSUME NEW g, Follows(g, b, r) PROVE AllGo(g, r)
    <3>1. PICK h : Follows(h, a, steps) /\ (AllGo(h, steps) <=> Goes(a, Head(steps)) /\ AllGo(g, r))
      BY <2>2, FollowsOn
    <3> QED BY <1>2, <3>1 DEF Sure
  <2> QED BY <2>1, <2>2 DEF Sure
<1>3. ASSUME NEW name, Effective(name, a, steps), Goes(a, Head(steps)) PROVE Effective(name, b, r)
  <2> SUFFICES ASSUME NEW g, Follows(g, b, r), AllGo(g, r) PROVE Fulfilled(name, g[Len(r)])
    BY DEF Effective
  <2>1. PICK h : /\ Follows(h, a, steps) /\ h[Len(steps)] = g[Len(r)]
                 /\ AllGo(h, steps) <=> Goes(a, Head(steps)) /\ AllGo(g, r)
    BY FollowsOn
  <2>2. Fulfilled(name, h[Len(steps)])
    BY <1>3, <2>1 DEF Effective
  <2> QED BY <2>1, <2>2
<1> QED BY <1>2, <1>3

\* A script that has come to its end.
LEMMA EndFulfils ==
  ASSUME NEW name, NEW a, Effective(name, a, <<>>)
  PROVE  Fulfilled(name, a)
<1> DEFINE h == [k \in {0} |-> a]
<1>1. Len(<<>>) = 0 /\ h[0] = a
  OBVIOUS
<1> HIDE DEF h
<1>2. Follows(h, a, <<>>) /\ AllGo(h, <<>>)
  BY <1>1 DEF Follows, AllGo
<1>3. Fulfilled(name, h[Len(<<>>)])
  BY <1>2 DEF Effective
<1> QED BY <1>1, <1>3

\* The accounts stay in order whatever a script sends.
AcctOK(a) == AccountsOK(a) /\ CooldownsOK(a) /\ KnownOK(a)

\* So every state between two steps of a script is in order.
LEMMA TraceKept ==
  ASSUME NEW a, AcctOK(a), NEW steps, StepsNamed(steps), NEW h, Follows(h, a, steps)
  PROVE  /\ Len(steps) \in Nat
         /\ \A k \in 0..Len(steps) : AcctOK(h[k])
<1> DEFINE N == Len(steps)
           G == {k \in 0..N : AcctOK(h[k])}
<1>1. N \in Nat
  BY LenProperties DEF StepsNamed, IsList
<1>2. h[0] = a /\ \A k \in 1..N : h[k] = Thereafter(h[k - 1], steps[k])
  BY DEF Follows
<1>3. \A k \in 1..N : \A ix \in Entries(steps[k].tx) : Named(ix)
  BY DEF StepsNamed, ListNamed, Entries
<1> HIDE DEF N
<1>4. 0 \in G
  BY <1>1, <1>2
<1>5. ASSUME NEW k \in 1..N, k - 1 \in G PROVE k \in G
  <2> DEFINE b == h[k - 1]
             tx == steps[k].tx
  <2>1. k \in 0..N /\ AcctOK(b)
    BY <1>1, <1>5
  <2>2. h[k] \in {b, Run(b, tx).acct} /\ (h[k] # b => Run(b, tx).ok)
    BY <1>2 DEF Thereafter, Sends
  <2>3. Run(b, tx).ok => AcctOK(Run(b, tx).acct)
    <3> HIDE DEF b, tx
    <3>1. \A ix \in Entries(tx) : Named(ix)
      BY <1>3 DEF tx
    <3>2. CASE Run(b, tx).ok
      <4>1. AccountsOK(b) /\ CooldownsOK(b) /\ KnownOK(b)
        BY <2>1 DEF AcctOK
      <4>2. AccountsOK(Run(b, tx).acct) /\ CooldownsOK(Run(b, tx).acct)
        BY <3>2, <4>1, RunKeeps
      <4>3. KnownOK(Run(b, tx).acct)
        BY <3>1, <3>2, <4>1, RunKnown DEF Keeps
      <4> QED BY <4>2, <4>3 DEF AcctOK
    <3> QED BY <3>2
  <2>4. AcctOK(h[k])
    <3> HIDE DEF b, tx
    <3> QED BY <2>1, <2>2, <2>3
  <2> QED BY <2>1, <2>4
<1> HIDE DEF G
<1>6. \A k \in 0..N : k \in G
  BY <1>1, <1>4, <1>5, Upwards
<1>7. \A k \in 0..N : AcctOK(h[k])
  BY <1>6 DEF G
<1> QED BY <1>1, <1>7 DEF N

\* The places of one list after the other.
LEMMA ConcatPlaces ==
  ASSUME NEW q, NEW r, IsList(q), IsList(r)
  PROVE  /\ IsList(q \o r) /\ Len(q) \in Nat /\ Len(r) \in Nat
         /\ Len(q \o r) = Len(q) + Len(r)
         /\ \A k \in 1..Len(q) : (q \o r)[k] = q[k]
         /\ \A k \in 1..Len(r) : (q \o r)[Len(q) + k] = r[k]
<1> DEFINE X == {q[n] : n \in DOMAIN q} \cup {r[n] : n \in DOMAIN r}
<1>1. q \in Seq(X) /\ r \in Seq(X)
  <2>1. q \in Seq({q[n] : n \in DOMAIN q}) /\ r \in Seq({r[n] : n \in DOMAIN r})
    BY DEF IsList
  <2> QED BY <2>1
<1> HIDE DEF X
<1>2. q \o r \in Seq(X) /\ Len(q \o r) = Len(q) + Len(r)
  BY <1>1
<1>3. Len(q) \in Nat /\ Len(r) \in Nat
  BY <1>1
<1>4. /\ \A k \in 1..Len(q) : (q \o r)[k] = q[k]
      /\ \A k \in 1..Len(r) : (q \o r)[Len(q) + k] = r[k]
  BY <1>1, <1>3
<1>5. IsList(q \o r)
  BY EntriesConcat
<1> QED BY <1>2, <1>3, <1>4, <1>5

\* Steps after steps.
LEMMA FollowsConcat ==
  ASSUME NEW q, NEW r, IsList(q), IsList(r), NEW a, NEW h, Follows(h, a, q \o r)
  PROVE  /\ Follows(h, a, q)
         /\ \E g : /\ Follows(g, h[Len(q)], r) /\ g[Len(r)] = h[Len(q \o r)]
                   /\ AllGo(h, q \o r) <=> AllGo(h, q) /\ AllGo(g, r)
<1> DEFINE M == Len(q)
           N == Len(r)
           t == q \o r
           g == [k \in 0..N |-> h[M + k]]
<1>1. /\ M \in Nat /\ N \in Nat /\ Len(t) = M + N
      /\ \A k \in 1..M : t[k] = q[k]
      /\ \A k \in 1..N : t[M + k] = r[k]
  BY ConcatPlaces
<1>2. h[0] = a /\ \A k \in 1..(M + N) : h[k] = Thereafter(h[k - 1], t[k])
  BY <1>1 DEF Follows
<1>3. \A k \in 0..N : g[k] = h[M + k]
  OBVIOUS
<1> HIDE DEF M, N, t, g
<1>4. /\ \A k \in 1..M : k \in 1..(M + N)
      /\ \A k \in 1..N : /\ k \in 0..N /\ k - 1 \in 0..N /\ M + k \in 1..(M + N)
                         /\ (M + k) - 1 = M + (k - 1)
  BY <1>1
<1>5. Follows(h, a, q)
  BY <1>1, <1>2, <1>4 DEF Follows, M
<1>6. Follows(g, h[M], r)
  <2>1. g[0] = h[M]
    BY <1>1, <1>3
  <2>2. \A k \in 1..N : g[k] = Thereafter(g[k - 1], r[k])
    BY <1>1, <1>2, <1>3, <1>4
  <2> QED BY <2>1, <2>2 DEF Follows, N
<1>7. g[N] = h[Len(t)]
  BY <1>1, <1>3
<1>8. AllGo(h, t) <=> AllGo(h, q) /\ AllGo(g, r)
  <2>1. \A k \in 1..N : g[k - 1] = h[(M + k) - 1]
    BY <1>3, <1>4
  <2>2. ASSUME AllGo(h, t) PROVE AllGo(h, q) /\ AllGo(g, r)
    <3>1. \A k \in 1..(M + N) : Goes(h[k - 1], t[k])
      BY <1>1, <2>2 DEF AllGo
    <3>2. \A k \in 1..M : Goes(h[k - 1], q[k])
      BY <1>1, <1>4, <3>1
    <3>3. \A k \in 1..N : Goes(g[k - 1], r[k])
      BY <1>1, <1>4, <2>1, <3>1
    <3> QED BY <3>2, <3>3 DEF AllGo, M, N
  <2>3. ASSUME AllGo(h, q), AllGo(g, r) PROVE AllGo(h, t)
    <3>1. \A k \in 1..M : Goes(h[k - 1], t[k])
      BY <1>1, <2>3 DEF AllGo, M
    <3>2. \A k \in 1..N : Goes(h[(M + k) - 1], t[M + k])
      BY <1>1, <2>1, <2>3 DEF AllGo, N
    <3>3. \A k \in 1..(M + N) : k \in 1..M \/ (k - M \in 1..N /\ k = M + (k - M))
      BY <1>1
    <3>4. \A k \in 1..(M + N) : Goes(h[k - 1], t[k])
      <4> TAKE k \in 1..(M + N)
      <4>1. CASE k \in 1..M
        BY <3>1, <4>1
      <4>2. CASE k \notin 1..M
        <5> DEFINE j == k - M
        <5>1. j \in 1..N /\ k = M + j
          BY <3>3, <4>2
        <5> HIDE DEF j
        <5> QED BY <3>2, <5>1
      <4> QED BY <4>1, <4>2
    <3> QED BY <1>1, <3>4 DEF AllGo
  <2> QED BY <2>2, <2>3
<1> QED BY <1>5, <1>6, <1>7, <1>8 DEF M, N, t

\* None of them is refused.
LEMMA SureConcat ==
  ASSUME NEW q, NEW r, IsList(q), IsList(r), NEW a, Sure(a, q),
         \A h : Follows(h, a, q) => Sure(h[Len(q)], r)
  PROVE  Sure(a, q \o r)
<1> SUFFICES ASSUME NEW h, Follows(h, a, q \o r) PROVE AllGo(h, q \o r)
  BY DEF Sure
<1>1. Follows(h, a, q)
  BY FollowsConcat
<1>2. PICK g : /\ Follows(g, h[Len(q)], r)
               /\ AllGo(h, q \o r) <=> AllGo(h, q) /\ AllGo(g, r)
  BY FollowsConcat
<1>3. AllGo(h, q) /\ AllGo(g, r)
  BY <1>1, <1>2 DEF Sure
<1> QED BY <1>2, <1>3

\* A step sent as it is, and one that is looked at before.
LEMMA StepGoes ==
  ASSUME NEW a, NEW ix
  PROVE  /\ Goes(a, One(ix)) <=> Run(a, Single(ix)).ok
         /\ Accepts(a, ix) => Goes(a, One(ix))
         /\ Goes(a, One(ix)) => Accepts(a, ix) /\ Thereafter(a, One(ix)) = After(a, ix)
         /\ Accepts(a, ix) \/ Unneeded(a, ix) => Goes(a, Needed(ix))
         /\ Unneeded(a, ix) => Thereafter(a, Needed(ix)) = a
         /\ Goes(a, Needed(ix)) /\ ~Unneeded(a, ix) =>
              Accepts(a, ix) /\ Thereafter(a, Needed(ix)) = After(a, ix)
         /\ Thereafter(a, One(ix)) \in {a, After(a, ix)}
<1>1. One(ix).mode = "must" /\ One(ix).tx = Single(ix)
  BY DEF One, Must
<1>2. Needed(ix).mode = "needed" /\ Needed(ix).tx = Single(ix) /\ Needed(ix).tx[1] = ix
  BY DEF Needed, Single
<1> DEFINE x == One(ix)
           y == Needed(ix)
           r == Run(a, Single(ix))
<1>3. r.ok <=> Accepts(a, ix)
  BY SingleRuns, SingleGoes
<1>4. r.ok => r.acct = After(a, ix)
  BY SingleRuns
<1>5. ~Skips(a, x) /\ (Sends(a, x) <=> r.ok) /\ Thereafter(a, x) = IF r.ok THEN r.acct ELSE a
  BY <1>1 DEF Skips, Sends, Thereafter
<1>6. /\ Skips(a, y) <=> Unneeded(a, ix)
      /\ Sends(a, y) <=> ~Unneeded(a, ix) /\ r.ok
      /\ Thereafter(a, y) = IF Sends(a, y) THEN r.acct ELSE a
  BY <1>2 DEF Skips, Sends, Thereafter
<1>7. (Goes(a, x) <=> r.ok) /\ (Goes(a, y) <=> Unneeded(a, ix) \/ r.ok)
  BY <1>5, <1>6 DEF Goes
<1> HIDE DEF x, y, r
<1>8. /\ Goes(a, x) <=> r.ok
      /\ Accepts(a, ix) => Goes(a, x)
      /\ Goes(a, x) => Accepts(a, ix) /\ Thereafter(a, x) = After(a, ix)
      /\ Thereafter(a, x) \in {a, After(a, ix)}
  BY <1>3, <1>4, <1>5, <1>7
<1>9. /\ Accepts(a, ix) \/ Unneeded(a, ix) => Goes(a, y)
      /\ Unneeded(a, ix) => Thereafter(a, y) = a
      /\ Goes(a, y) /\ ~Unneeded(a, ix) => Accepts(a, ix) /\ Thereafter(a, y) = After(a, ix)
  BY <1>3, <1>4, <1>6, <1>7
<1> QED BY <1>8, <1>9 DEF x, y, r

\* One step.
LEMMA SureOne ==
  ASSUME NEW a, NEW step
  PROVE  /\ IsList(<<step>>) /\ Len(<<step>>) = 1
         /\ Goes(a, step) => Sure(a, <<step>>)
         /\ \A h : Follows(h, a, <<step>>) => h[1] = Thereafter(a, step)
         /\ \A h : Follows(h, a, <<step>>) /\ AllGo(h, <<step>>) => Goes(a, step)
<1> DEFINE q == <<step>>
<1>1. IsList(q) /\ Len(q) = 1 /\ q[1] = step
  BY DEF IsList
<1> HIDE DEF q
<1>2. 1 \in 1..Len(q) /\ 1 - 1 = 0 /\ \A k \in 1..Len(q) : k = 1
  BY <1>1
<1>3. ASSUME NEW h, Follows(h, a, q)
      PROVE  h[1] = Thereafter(a, step) /\ (AllGo(h, q) <=> Goes(a, step))
  <2>1. h[0] = a /\ h[1] = Thereafter(h[1 - 1], q[1])
    BY <1>2, <1>3 DEF Follows
  <2>2. h[1 - 1] = a
    BY <1>2, <2>1
  <2>3. AllGo(h, q) <=> Goes(h[1 - 1], q[1])
    BY <1>2 DEF AllGo
  <2> QED BY <1>1, <2>1, <2>2, <2>3
<1>4. Goes(a, step) => Sure(a, q)
  BY <1>3 DEF Sure
<1> QED BY <1>1, <1>3, <1>4 DEF q

\* The scripts on the protocol's token list: whatever governance lists, each step is
\* needed and accepted, or not needed.
LEMMA ListingGoes ==
  ASSUME NEW a, KnownOK(a), NEW m
  PROVE  /\ Goes(a, Needed(AddAllowedToken(Governance, m)))
         /\ Goes(a, Needed(RemoveAllowedToken(Governance, m)))
<1> DEFINE x == AddAllowedToken(Governance, m)
           y == RemoveAllowedToken(Governance, m)
<1>1. Usable(a, Config) /\ a[Config].governance = Governance
  BY DEF KnownOK, Usable, Config, Exists
<1>2. /\ x.do = "configure" /\ x.role = "governance" /\ x.wallet = Governance /\ x.needs = {Config}
      /\ DOMAIN x.init = {Listed(m)} /\ x.close = {}
  BY DEF AddAllowedToken, ByGovernance, Instruction, Row
<1>3. /\ y.do = "configure" /\ y.role = "governance" /\ y.wallet = Governance /\ y.needs = {Config}
      /\ DOMAIN y.init = {} /\ y.close = {Listed(m)}
  BY DEF RemoveAllowedToken, ByGovernance, Instruction, Empty
<1>4. Listed(m)[1] = "allowed_token"
  BY DEF Listed
<1> HIDE DEF x, y
<1>5. ~Exists(a, Listed(m)) => Accepts(a, x)
  BY <1>1, <1>2, <1>4 DEF Accepts, Derived, Signed, Guard, RowKinds
<1>6. Exists(a, Listed(m)) => Unneeded(a, x)
  BY <1>2 DEF Unneeded
<1>7. Exists(a, Listed(m)) => Accepts(a, y)
  BY <1>1, <1>3, <1>4 DEF Accepts, Derived, Signed, Guard, RowKinds
<1>8. ~Exists(a, Listed(m)) => Unneeded(a, y)
  BY <1>3 DEF Unneeded
<1> QED BY <1>5, <1>6, <1>7, <1>8, StepGoes DEF x, y

\* A list of steps each of which goes wherever the governance is known.
LEMMA SureAlways ==
  ASSUME NEW a, AcctOK(a), NEW steps, StepsNamed(steps),
         \A k \in 1..Len(steps) : \A b : AcctOK(b) => Goes(b, steps[k])
  PROVE  Sure(a, steps)
<1> SUFFICES ASSUME NEW h, Follows(h, a, steps) PROVE AllGo(h, steps)
  BY DEF Sure
<1>1. Len(steps) \in Nat /\ \A k \in 0..Len(steps) : AcctOK(h[k])
  BY TraceKept
<1>2. \A k \in 1..Len(steps) : k - 1 \in 0..Len(steps)
  BY <1>1
<1> QED BY <1>1, <1>2 DEF AllGo

\* The scripts of the protocol's token list are never refused.
LEMMA SureTokenLists ==
  ASSUME NEW a, AcctOK(a), NEW m
  PROVE  /\ Sure(a, SeedAllowedTokens(Governance)) /\ Sure(a, UnseedAllowedTokens(Governance))
         /\ Sure(a, InitAllowedToken(Governance, m))
<1> DEFINE N == Len(Alphabet)
           p == SeedAllowedTokens(Governance)
           q == UnseedAllowedTokens(Governance)
           r == InitAllowedToken(Governance, m)
<1>1. N \in Nat /\ DOMAIN Alphabet = 1..N
  BY ConsoleAssumption
<1>2. /\ DOMAIN p = 1..N /\ p = [n \in DOMAIN p |-> p[n]]
      /\ \A n \in 1..N : p[n] = Needed(AddAllowedToken(Governance, Alphabet[n]))
  BY <1>1 DEF SeedAllowedTokens, Each
<1>3. /\ DOMAIN q = 1..N /\ q = [n \in DOMAIN q |-> q[n]]
      /\ \A n \in 1..N : q[n] = Needed(RemoveAllowedToken(Governance, Alphabet[n]))
  BY <1>1 DEF UnseedAllowedTokens, Each
<1>4. r = <<Needed(AddAllowedToken(Governance, m))>>
  BY DEF InitAllowedToken
<1>5. StepsNamed(p) /\ StepsNamed(q)
  BY NamedTokenScripts
<1> HIDE DEF p, q, r, N
<1>6. Len(p) = N /\ Len(q) = N
  BY <1>1, <1>2, <1>3, NamedEach
<1>7. \A b, x : AcctOK(b) => /\ Goes(b, Needed(AddAllowedToken(Governance, x)))
                             /\ Goes(b, Needed(RemoveAllowedToken(Governance, x)))
  BY ListingGoes DEF AcctOK
<1>8. Sure(a, p)
  BY <1>2, <1>5, <1>6, <1>7, SureAlways
<1>9. Sure(a, q)
  BY <1>3, <1>5, <1>6, <1>7, SureAlways
<1>10. Sure(a, r)
  BY <1>4, <1>7, SureOne
<1> QED BY <1>8, <1>9, <1>10 DEF p, q, r

\* A vault that is not there yet is initialised by whoever pays for it.
NewVault(w) == [admin |-> w, authority |-> w, count |-> 0,
                pendingAdmin |-> "none", pendingAuthority |-> "none"]

\* Initialising a vault is needed only where there is none, and then goes through.
LEMMA VaultMade ==
  ASSUME NEW a, NEW v, NEW w
  PROVE  /\ Exists(a, VaultOf(v)) => Unneeded(a, InitializeVault(v, w))
         /\ ~Exists(a, VaultOf(v)) =>
              /\ Accepts(a, InitializeVault(v, w)) /\ ~Unneeded(a, InitializeVault(v, w))
              /\ Exists(After(a, InitializeVault(v, w)), VaultOf(v))
              /\ After(a, InitializeVault(v, w))[VaultOf(v)] = NewVault(w)
<1> DEFINE x == InitializeVault(v, w)
<1>1. /\ x.do = "configure" /\ x.role = "anyone" /\ x.wallet = w /\ x.needs = {}
      /\ DOMAIN x.init = {VaultOf(v)} /\ x.close = {}
  BY DEF InitializeVault, Instruction, Row
<1>2. VaultOf(v)[1] = "vault"
  BY Addresses
<1> HIDE DEF x
<1>3. Exists(a, VaultOf(v)) => Unneeded(a, x)
  BY <1>1 DEF Unneeded
<1>4. ASSUME ~Exists(a, VaultOf(v))
      PROVE  /\ Accepts(a, x) /\ ~Unneeded(a, x)
             /\ Exists(After(a, x), VaultOf(v)) /\ After(a, x)[VaultOf(v)] = NewVault(w)
  <2>1. Accepts(a, x)
    BY <1>1, <1>2, <1>4 DEF Accepts, Derived, Signed, Guard, RowKinds
  <2>2. ~Unneeded(a, x)
    BY <1>1, <1>4 DEF Unneeded
  <2>3. Exists(After(a, x), VaultOf(v)) /\ After(a, x)[VaultOf(v)] = Initial(x, VaultOf(v))
    BY <1>1, AfterDomain DEF Exists
  <2>4. Initial(x, VaultOf(v)) = NewVault(w)
    BY <1>1, <1>2 DEF Initial, NewVault
  <2> QED BY <2>1, <2>2, <2>3, <2>4
<1> QED BY <1>3, <1>4 DEF x

\* Its roles are handed over in two steps each.
LEMMA RolesChange ==
  ASSUME NEW a, NEW v, Exists(a, VaultOf(v)), DOMAIN a[VaultOf(v)] = VaultFields,
         NEW ix, ix.vault = v, DOMAIN ix.init = {}, ix.close = {}, ix.needs = {VaultOf(v)},
         ix.do \in {"propose_admin", "propose_authority", "accept_admin", "accept_authority"},
         ix.role \notin {"anyone", "governance", "agent"},
         a[VaultOf(v)][ix.role] = ix.wallet
  PROVE  /\ Accepts(a, ix) /\ Exists(After(a, ix), VaultOf(v))
         /\ DOMAIN After(a, ix)[VaultOf(v)] = VaultFields
         /\ After(a, ix)[VaultOf(v)].admin =
              IF ix.do = "accept_admin" THEN ix.wallet ELSE a[VaultOf(v)].admin
         /\ After(a, ix)[VaultOf(v)].authority =
              IF ix.do = "accept_authority" THEN ix.wallet ELSE a[VaultOf(v)].authority
         /\ After(a, ix)[VaultOf(v)].pendingAdmin =
              IF ix.do = "propose_admin" THEN ix.key
              ELSE IF ix.do = "accept_admin" THEN "none" ELSE a[VaultOf(v)].pendingAdmin
         /\ After(a, ix)[VaultOf(v)].pendingAuthority =
              IF ix.do = "propose_authority" THEN ix.key
              ELSE IF ix.do = "accept_authority" THEN "none" ELSE a[VaultOf(v)].pendingAuthority
<1> DEFINE key == VaultOf(v)
           b == After(a, ix)
<1>1. key[1] = "vault"
  BY Addresses
<1>2. Usable(a, key) /\ Signed(a, ix)
  BY <1>1 DEF Usable, Signed
<1>3. Accepts(a, ix)
  BY <1>2 DEF Accepts, Derived, Guard
<1>4. key \in DOMAIN b /\ b[key] = Rewritten(a, ix, key)
  BY AfterDomain DEF Exists
<1>5. key # StrategyOf(ix.strategy)
  BY Addresses
<1> DEFINE r == Rewritten(a, ix, key)
<1>6. r = CASE ix.do = "propose_admin" -> [a[key] EXCEPT !.pendingAdmin = ix.key]
            [] ix.do = "propose_authority" -> [a[key] EXCEPT !.pendingAuthority = ix.key]
            [] ix.do = "accept_admin" ->
                 [a[key] EXCEPT !.admin = ix.wallet, !.pendingAdmin = "none"]
            [] OTHER -> [a[key] EXCEPT !.authority = ix.wallet, !.pendingAuthority = "none"]
  BY DEF Rewritten
<1> HIDE DEF b, r, key
<1>7. DOMAIN a[key] = VaultFields
  BY DEF key
<1>8. /\ DOMAIN r = VaultFields
      /\ r.admin = IF ix.do = "accept_admin" THEN ix.wallet ELSE a[key].admin
      /\ r.authority = IF ix.do = "accept_authority" THEN ix.wallet ELSE a[key].authority
      /\ r.pendingAdmin = IF ix.do = "propose_admin" THEN ix.key
                          ELSE IF ix.do = "accept_admin" THEN "none" ELSE a[key].pendingAdmin
      /\ r.pendingAuthority =
           IF ix.do = "propose_authority" THEN ix.key
           ELSE IF ix.do = "accept_authority" THEN "none" ELSE a[key].pendingAuthority
  BY <1>6, <1>7 DEF VaultFields
<1> QED BY <1>3, <1>4, <1>8 DEF b, r, key, Exists

\* A vault with its administrator.
VaultBy(a, v, w) ==
  Exists(a, VaultOf(v)) /\ DOMAIN a[VaultOf(v)] = VaultFields /\ a[VaultOf(v)].admin = w

\* The instructions on roles.
LEMMA RolesGo ==
  ASSUME NEW a, NEW v, NEW w, VaultBy(a, v, w), NEW k
  PROVE  LET pa == ProposeAdmin(v, w, k)
             pu == ProposeAuthority(v, w, k)
             aa == AcceptAdmin(v, k)
             au == AcceptAuthority(v, k)
             old == a[VaultOf(v)]
             new(ix) == After(a, ix)[VaultOf(v)]
         IN  /\ Accepts(a, pa) /\ VaultBy(After(a, pa), v, w) /\ new(pa).pendingAdmin = k
             /\ Accepts(a, pu) /\ VaultBy(After(a, pu), v, w) /\ new(pu).pendingAuthority = k
             /\ new(pu).pendingAdmin = old.pendingAdmin
             /\ old.pendingAdmin = k =>
                  /\ Accepts(a, aa) /\ VaultBy(After(a, aa), v, k)
                  /\ new(aa).pendingAuthority = old.pendingAuthority
             /\ old.pendingAuthority = k =>
                  Accepts(a, au) /\ VaultBy(After(a, au), v, w) /\ new(au).authority = k
<1> DEFINE pa == ProposeAdmin(v, w, k)
           pu == ProposeAuthority(v, w, k)
           aa == AcceptAdmin(v, k)
           au == AcceptAuthority(v, k)
           old == a[VaultOf(v)]
<1>0. Exists(a, VaultOf(v)) /\ DOMAIN old = VaultFields /\ old.admin = w
  BY DEF VaultBy
<1>1. /\ pa.do = "propose_admin" /\ pa.vault = v /\ pa.role = "admin" /\ pa.wallet = w
      /\ pa.key = k /\ pa.needs = {VaultOf(v)} /\ DOMAIN pa.init = {} /\ pa.close = {}
  BY DEF ProposeAdmin, ByAdmin, Instruction, Empty
<1>2. /\ pu.do = "propose_authority" /\ pu.vault = v /\ pu.role = "admin" /\ pu.wallet = w
      /\ pu.key = k /\ pu.needs = {VaultOf(v)} /\ DOMAIN pu.init = {} /\ pu.close = {}
  BY DEF ProposeAuthority, ByAdmin, Instruction, Empty
<1>3. /\ aa.do = "accept_admin" /\ aa.vault = v /\ aa.role = "pendingAdmin" /\ aa.wallet = k
      /\ aa.needs = {VaultOf(v)} /\ DOMAIN aa.init = {} /\ aa.close = {}
  BY DEF AcceptAdmin, Instruction, Empty
<1>4. /\ au.do = "accept_authority" /\ au.vault = v /\ au.role = "pendingAuthority" /\ au.wallet = k
      /\ au.needs = {VaultOf(v)} /\ DOMAIN au.init = {} /\ au.close = {}
  BY DEF AcceptAuthority, Instruction, Empty
<1> HIDE DEF pa, pu, aa, au, old
<1>5. old[pa.role] = w /\ old[pu.role] = w /\ old[aa.role] = old.pendingAdmin
      /\ old[au.role] = old.pendingAuthority
  BY <1>0, <1>1, <1>2, <1>3, <1>4
<1>6. /\ Accepts(a, pa) /\ VaultBy(After(a, pa), v, w)
      /\ After(a, pa)[VaultOf(v)].pendingAdmin = k
  BY <1>0, <1>1, <1>5, RolesChange DEF VaultBy, old
<1>7. /\ Accepts(a, pu) /\ VaultBy(After(a, pu), v, w)
      /\ After(a, pu)[VaultOf(v)].pendingAuthority = k
      /\ After(a, pu)[VaultOf(v)].pendingAdmin = old.pendingAdmin
  BY <1>0, <1>2, <1>5, RolesChange DEF VaultBy, old
<1>8. ASSUME old.pendingAdmin = k
      PROVE  /\ Accepts(a, aa) /\ VaultBy(After(a, aa), v, k)
             /\ After(a, aa)[VaultOf(v)].pendingAuthority = old.pendingAuthority
  BY <1>0, <1>3, <1>5, <1>8, RolesChange DEF VaultBy, old
<1>9. ASSUME old.pendingAuthority = k
      PROVE  /\ Accepts(a, au) /\ VaultBy(After(a, au), v, w)
             /\ After(a, au)[VaultOf(v)].authority = k
  BY <1>0, <1>4, <1>5, <1>9, RolesChange DEF VaultBy, old
<1> QED BY <1>6, <1>7, <1>8, <1>9 DEF pa, pu, aa, au, old

\* Both roles are offered to somebody.
LEMMA HandOverGoes ==
  ASSUME NEW a, NEW v, NEW w, VaultBy(a, v, w), NEW k
  PROVE  Sure(a, HandOver(v, w, k))
<1> DEFINE x == ProposeAuthority(v, w, k)
           y == ProposeAdmin(v, w, k)
           b == After(a, x)
<1>1. Accepts(a, x) /\ VaultBy(b, v, w)
  BY RolesGo
<1>2. HandOver(v, w, k) = <<One(x)>> \o <<One(y)>>
  BY PairJoined DEF HandOver
<1> HIDE DEF x
<1>3. Accepts(b, y)
  BY <1>1, RolesGo
<1> HIDE DEF y, b
<1>4. Goes(a, One(x)) /\ Thereafter(a, One(x)) = b /\ Goes(b, One(y))
  BY <1>1, <1>3, StepGoes DEF b
<1> DEFINE q == <<One(x)>>
           r == <<One(y)>>
<1>5. IsList(q) /\ IsList(r) /\ Len(q) = 1 /\ Sure(a, q) /\ Sure(b, r)
  BY <1>4, SureOne
<1>6. \A h : Follows(h, a, q) => h[1] = b
  BY <1>4, SureOne
<1> HIDE DEF q, r
<1>7. Sure(a, q \o r)
  BY <1>5, <1>6, SureConcat
<1> QED BY <1>2, <1>7 DEF q, r

\* One after the other it is offered and accepted.
LEMMA TakingGoes ==
  ASSUME NEW a, NEW v, NEW w, VaultBy(a, v, w), NEW k, NEW steps,
         steps = <<One(ProposeAdmin(v, w, k)), One(ProposeAuthority(v, w, k)),
                   One(AcceptAdmin(v, k)), One(AcceptAuthority(v, k))>>,
         NEW h, Follows(h, a, steps)
  PROVE  /\ Len(steps) = 4 /\ AllGo(h, steps)
         /\ VaultBy(h[4], v, k) /\ h[4][VaultOf(v)].authority = k
<1> DEFINE x1 == ProposeAdmin(v, w, k)
           x2 == ProposeAuthority(v, w, k)
           x3 == AcceptAdmin(v, k)
           x4 == AcceptAuthority(v, k)
           b1 == After(a, x1)
           b2 == After(b1, x2)
           b3 == After(b2, x3)
           b4 == After(b3, x4)
           key == VaultOf(v)
<1>1. Accepts(a, x1) /\ VaultBy(b1, v, w) /\ b1[key].pendingAdmin = k
  BY RolesGo
<1> HIDE DEF b1
<1>2. /\ Accepts(b1, x2) /\ VaultBy(b2, v, w) /\ b2[key].pendingAdmin = k
      /\ b2[key].pendingAuthority = k
  BY <1>1, RolesGo
<1> HIDE DEF b2
<1>3. Accepts(b2, x3) /\ VaultBy(b3, v, k) /\ b3[key].pendingAuthority = k
  BY <1>2, RolesGo
<1> HIDE DEF b3
<1>4. Accepts(b3, x4) /\ VaultBy(b4, v, k) /\ b4[key].authority = k
  BY <1>3, RolesGo
<1> HIDE DEF b4
<1>5. /\ Goes(a, One(x1)) /\ Thereafter(a, One(x1)) = b1
      /\ Goes(b1, One(x2)) /\ Thereafter(b1, One(x2)) = b2
      /\ Goes(b2, One(x3)) /\ Thereafter(b2, One(x3)) = b3
      /\ Goes(b3, One(x4)) /\ Thereafter(b3, One(x4)) = b4
  BY <1>1, <1>2, <1>3, <1>4, StepGoes DEF b1, b2, b3, b4
<1> DEFINE y1 == One(x1)
           y2 == One(x2)
           y3 == One(x3)
           y4 == One(x4)
<1>6. steps = <<y1, y2, y3, y4>>
  OBVIOUS
<1> HIDE DEF y1, y2, y3, y4, x1, x2, x3, x4
<1>7. Len(steps) = 4 /\ steps[1] = y1 /\ steps[2] = y2 /\ steps[3] = y3 /\ steps[4] = y4
  BY <1>6
<1>8. h[0] = a /\ \A n \in 1..4 : h[n] = Thereafter(h[n - 1], steps[n])
  BY <1>7 DEF Follows
<1>9. h[0] = a /\ h[1] = Thereafter(h[0], y1) /\ h[2] = Thereafter(h[1], y2)
      /\ h[3] = Thereafter(h[2], y3) /\ h[4] = Thereafter(h[3], y4)
  <2>1. 1 \in 1..4 /\ 2 \in 1..4 /\ 3 \in 1..4 /\ 4 \in 1..4
        /\ 1 - 1 = 0 /\ 2 - 1 = 1 /\ 3 - 1 = 2 /\ 4 - 1 = 3
    OBVIOUS
  <2>2. /\ h[1] = Thereafter(h[1 - 1], steps[1]) /\ h[2] = Thereafter(h[2 - 1], steps[2])
        /\ h[3] = Thereafter(h[3 - 1], steps[3]) /\ h[4] = Thereafter(h[4 - 1], steps[4])
    BY <1>8, <2>1
  <2> QED BY <1>7, <1>8, <2>1, <2>2
<1>10. h[1] = b1 /\ h[2] = b2 /\ h[3] = b3 /\ h[4] = b4
  BY <1>5, <1>9 DEF y1, y2, y3, y4
<1>11. Goes(h[0], y1) /\ Goes(h[1], y2) /\ Goes(h[2], y3) /\ Goes(h[3], y4)
  BY <1>5, <1>9, <1>10 DEF y1, y2, y3, y4
<1>12. \A n \in 1..4 : Goes(h[n - 1], steps[n])
  <2> TAKE n \in 1..4
  <2>1. (n = 1 /\ n - 1 = 0) \/ (n = 2 /\ n - 1 = 1) \/ (n = 3 /\ n - 1 = 2) \/ (n = 4 /\ n - 1 = 3)
    OBVIOUS
  <2> QED BY <1>7, <1>11, <2>1
<1> QED BY <1>4, <1>7, <1>10, <1>12 DEF AllGo

\* The demo vault, whether it is there and handed over or not.
LEMMA DemoGoes ==
  ASSUME NEW a, AcctOK(a),
         Exists(a, VaultOf(DemoVault)) => a[VaultOf(DemoVault)].admin \in {Admin, DemoKey},
         NEW h, Follows(h, a, SetupDemoVault(a, Admin))
  PROVE  /\ AllGo(h, SetupDemoVault(a, Admin))
         /\ ByDemoKey(h[Len(SetupDemoVault(a, Admin))])
<1> DEFINE v     == DemoVault
           there == Exists(a, VaultOf(v))
           admin == IF there THEN a[VaultOf(v)].admin ELSE Admin
           x     == InitializeVault(v, Admin)
           q     == <<Needed(x)>>
           four  == <<One(ProposeAdmin(v, Admin, DemoKey)), One(ProposeAuthority(v, Admin, DemoKey)),
                      One(AcceptAdmin(v, DemoKey)), One(AcceptAuthority(v, DemoKey))>>
           r     == IF admin = DemoKey THEN <<>> ELSE four
           b     == Thereafter(a, Needed(x))
<1>1. SetupDemoVault(a, Admin) = q \o r
  BY DEF SetupDemoVault
<1>2. Goes(a, Needed(x)) /\ VaultBy(b, v, admin) /\ Secured(b)
  <2>1. CASE there
    <3>1. Unneeded(a, x)
      BY <2>1, VaultMade
    <3>2. Goes(a, Needed(x)) /\ b = a
      BY <3>1, StepGoes
    <3>3. VaultBy(a, v, admin) /\ Secured(a)
      BY <2>1 DEF AcctOK, AccountsOK, KnownOK, VaultBy
    <3> QED BY <3>2, <3>3
  <2>2. CASE ~there
    <3>1. /\ Accepts(a, x) /\ ~Unneeded(a, x) /\ Exists(After(a, x), VaultOf(v))
          /\ After(a, x)[VaultOf(v)] = NewVault(Admin)
      BY <2>2, VaultMade
    <3>2. Goes(a, Needed(x)) /\ b = After(a, x)
      BY <3>1, StepGoes
    <3>3. /\ NewVault(Admin).admin = Admin /\ NewVault(Admin).authority = Admin
          /\ DOMAIN NewVault(Admin) = VaultFields
      BY DEF NewVault, VaultFields
    <3> HIDE DEF x, b
    <3>4. b[Ours] = NewVault(Admin)
      BY <3>1, <3>2 DEF Ours
    <3>5. Secured(b)
      BY <3>3, <3>4 DEF Secured, Promised
    <3> QED BY <2>2, <3>1, <3>2, <3>3, <3>5 DEF VaultBy
  <2> QED BY <2>1, <2>2
<1>3. admin # DemoKey => admin = Admin
  OBVIOUS
<1>4. IsList(four) /\ IsList(<<>>) /\ Len(<<>>) = 0
  <2> DEFINE y1 == One(ProposeAdmin(v, Admin, DemoKey))
             y2 == One(ProposeAuthority(v, Admin, DemoKey))
             y3 == One(AcceptAdmin(v, DemoKey))
             y4 == One(AcceptAuthority(v, DemoKey))
  <2>1. four = <<y1, y2, y3, y4>>
    OBVIOUS
  <2> HIDE DEF y1, y2, y3, y4, four
  <2>2. DOMAIN four = 1..4 /\ four = [n \in DOMAIN four |-> four[n]]
    BY <2>1
  <2> QED BY <2>2, IntervalList, EntriesFew
<1>5. IsList(q) /\ Len(q) = 1 /\ IsList(r)
  BY <1>4, SureOne
<1> HIDE DEF admin, four, r, b
<1>6. Follows(h, a, q \o r)
  BY <1>1
<1>7. Follows(h, a, q)
  BY <1>5, <1>6, FollowsConcat
<1>8. PICK g : /\ Follows(g, h[Len(q)], r) /\ g[Len(r)] = h[Len(q \o r)]
               /\ AllGo(h, q \o r) <=> AllGo(h, q) /\ AllGo(g, r)
  BY <1>5, <1>6, FollowsConcat
<1>9. h[Len(q)] = b /\ AllGo(h, q)
  BY <1>2, <1>5, <1>7, SureOne DEF b, Sure
<1>10. AllGo(g, r) /\ ByDemoKey(g[Len(r)])
  <2>1. CASE admin = DemoKey
    <3>1. r = <<>> /\ g[0] = b
      BY <1>8, <1>9, <2>1 DEF r, Follows
    <3>2. AllGo(g, <<>>)
      BY <1>4 DEF AllGo
    <3>3. ByDemoKey(b)
      BY <1>2, <2>1 DEF VaultBy, Secured, Promised, ByDemoKey, Ours
    <3> QED BY <1>4, <3>1, <3>2, <3>3
  <2>2. CASE admin # DemoKey
    <3>1. r = four /\ VaultBy(b, v, Admin) /\ Follows(g, b, four)
      BY <1>2, <1>3, <1>8, <1>9, <2>2 DEF r
    <3>2. /\ Len(four) = 4 /\ AllGo(g, four)
          /\ VaultBy(g[4], v, DemoKey) /\ g[4][Ours].authority = DemoKey
      BY <3>1, TakingGoes DEF four, Ours
    <3>3. ByDemoKey(g[4])
      BY <3>2 DEF VaultBy, ByDemoKey, Ours
    <3> QED BY <3>1, <3>2, <3>3
  <2> QED BY <2>1, <2>2
<1> QED BY <1>1, <1>8, <1>9, <1>10

\* The next strategy of a vault, with a delegate generated for it: nobody has it yet.
LEMMA CreateGoes ==
  ASSUME NEW a, AcctOK(a), NEW v, NEW w, VaultBy(a, v, w), NEW k \in Nat, k < MaxStrategies,
         a[VaultOf(v)].count = k, NEW ix,
         ix = CreateStrategy(<<v, k>>, w, Generated[k + 1], StrategiesUpTo(v, k))
  PROVE  /\ Accepts(a, ix) /\ VaultBy(After(a, ix), v, w)
         /\ After(a, ix)[VaultOf(v)].count = k + 1
<1> DEFINE s   == <<v, k>>
           key == VaultOf(v)
<1>0. MaxStrategies \in Nat /\ Generated \in Seq(People \ (Agents \cup {"agent", Lender}))
      /\ Len(Generated) >= MaxStrategies /\ IsInjective(Generated)
  BY ConsoleAssumption, ScriptsAssumption
<1>1. /\ ix.do = "create" /\ ix.vault = s[1] /\ ix.strategy = s /\ ix.key = Generated[k + 1]
      /\ ix.role = "admin" /\ ix.wallet = w /\ ix.needs = {VaultOf(s[1])} /\ ix.close = {}
      /\ ix.others = StrategiesUpTo(v, k) /\ DOMAIN ix.init = {StrategyOf(s)}
  BY DEF CreateStrategy, ByAdmin, Instruction, Row
<1>2. s[1] = v /\ s[2] = k /\ s = <<v, s[2]>>
  OBVIOUS
<1>3. key[1] = "vault" /\ StrategyOf(s)[1] = "strategy" /\ key # StrategyOf(s)
  BY Addresses
<1>4. ~Exists(a, StrategyOf(s))
  <2> SUFFICES ASSUME Exists(a, StrategyOf(s)) PROVE FALSE
    OBVIOUS
  <2>1. s \in StrategiesIn(a, v)
    BY <1>2 DEF AcctOK, AccountsOK
  <2>2. s \in StrategiesUpTo(v, k)
    BY <2>1 DEF StrategiesIn, VaultBy
  <2>3. PICK j \in 0..(k - 1) : s = <<v, j>>
    BY <2>2 DEF StrategiesUpTo
  <2>4. k = j
    BY <1>2, <2>3
  <2> QED BY <2>3, <2>4
<1> HIDE DEF s, key
<1>5. ASSUME NEW u \in StrategiesUpTo(v, k), Active(a, u)
      PROVE  a[StrategyOf(u)].delegate # Generated[k + 1]
  <2>1. PICK j \in 0..(k - 1) : u = <<v, j>>
    BY <1>5 DEF StrategiesUpTo
  <2>2. u[2] = j
    BY <2>1
  <2>3. a[StrategyOf(u)].delegate \in Chosen \cup {Generated[j + 1]}
    BY <1>5, <2>2 DEF AcctOK, KnownOK, Known, Active
  <2>4. j + 1 \in DOMAIN Generated /\ k + 1 \in DOMAIN Generated /\ j + 1 # k + 1
    BY <1>0
  <2>5. Generated[j + 1] # Generated[k + 1]
    BY <1>0, <2>4 DEF IsInjective
  <2>6. Generated[k + 1] \notin Chosen
    BY <1>0, <2>4 DEF Chosen
  <2> QED BY <2>3, <2>5, <2>6
<1>6. Guard(a, ix)
  <2>1. DelegateFree(a, ix)
    BY <1>1, <1>5 DEF DelegateFree
  <2> QED BY <1>1, <1>2, <2>1 DEF Guard
<1>7. Accepts(a, ix)
  <2>1. Derived(ix)
    BY <1>1, <1>2, <1>3 DEF Derived, RowKinds
  <2>2. Usable(a, key) /\ Signed(a, ix)
    BY <1>1, <1>2, <1>3 DEF VaultBy, Usable, Signed, key
  <2> QED BY <1>1, <1>2, <1>4, <1>6, <2>1, <2>2 DEF Accepts, key
<1>8. key \in DOMAIN After(a, ix) /\ After(a, ix)[key] = Rewritten(a, ix, key)
  BY <1>1, <1>3, AfterDomain DEF VaultBy, Exists, key
<1>9. Rewritten(a, ix, key) = Counted(a[key])
  BY <1>1, <1>2 DEF Rewritten, key
<1>10. /\ DOMAIN Counted(a[key]) = VaultFields /\ Counted(a[key]).admin = w
       /\ Counted(a[key]).count = k + 1
  BY DEF Counted, VaultBy, VaultFields, key
<1> QED BY <1>7, <1>8, <1>9, <1>10 DEF VaultBy, Exists, key

\* One strategy after the other, up to a number.
LEMMA CreatesGo ==
  ASSUME NEW a, AcctOK(a), NEW v, NEW w, VaultBy(a, v, w), NEW first \in Nat, NEW last \in Int,
         first <= last + 1, last < MaxStrategies, a[VaultOf(v)].count = first,
         NEW steps, steps = CreateStrategies(v, w, first, last), NEW h, Follows(h, a, steps)
  PROVE  IsList(steps) /\ Len(steps) \in Nat /\ AllGo(h, steps) /\ VaultBy(h[Len(steps)], v, w)
<1> DEFINE N == last - first + 1
           ix(n) == CreateStrategy(<<v, first + n - 1>>, w, Generated[first + n - 1 + 1],
                                   StrategiesUpTo(v, first + n - 1))
<1>0. N \in Nat /\ MaxStrategies \in Nat
  BY ConsoleAssumption
<1>1. DOMAIN steps = 1..N /\ steps = [n \in DOMAIN steps |-> steps[n]]
  BY DEF CreateStrategies
<1>2. \A n \in 1..N : steps[n] = One(ix(n))
  BY DEF CreateStrategies
<1>3. StepsNamed(steps)
  <2>1. first <= last + 1 /\ (last \in Nat \/ last = -1)
    BY <1>0
  <2>2. CASE last \in Nat
    BY <2>1, <2>2, NamedVaultScripts
  <2>3. CASE last = -1
    <3>1. N = 0
      BY <1>0, <2>3
    <3>2. \A n \in 1..N : ListNamed(steps[n].tx)
      BY <3>1
    <3> QED BY <1>0, <1>1, <3>2, NamedEach
  <2> QED BY <2>1, <2>2, <2>3
<1>4. IsList(steps) /\ Len(steps) = N
  BY <1>0, <1>1, NamedEach
<1>5. \A k \in 0..N : AcctOK(h[k])
  BY <1>3, <1>4, TraceKept
<1>6. h[0] = a /\ \A k \in 1..N : h[k] = Thereafter(h[k - 1], steps[k])
  BY <1>4 DEF Follows
<1> DEFINE good(b, k) == VaultBy(b, v, w) /\ b[VaultOf(v)].count = first + k
           G == {k \in 0..N : good(h[k], k)}
<1>7. ASSUME NEW k \in 1..N, good(h[k - 1], k - 1)
      PROVE  Goes(h[k - 1], steps[k]) /\ good(h[k], k)
  <2> DEFINE b == h[k - 1]
             x == ix(k)
             m == first + k - 1
  <2>1. m \in Nat /\ m < MaxStrategies /\ first + (k - 1) = m /\ k - 1 \in 0..N /\ m + 1 = first + k
    BY <1>0
  <2>2. AcctOK(b) /\ VaultBy(b, v, w) /\ b[VaultOf(v)].count = m
    BY <1>5, <1>7, <2>1
  <2>3. x = CreateStrategy(<<v, m>>, w, Generated[m + 1], StrategiesUpTo(v, m))
    OBVIOUS
  <2>4. steps[k] = One(x) /\ h[k] = Thereafter(b, steps[k])
    BY <1>2, <1>6
  <2> HIDE DEF x, m, b
  <2>5. Accepts(b, x) /\ VaultBy(After(b, x), v, w) /\ After(b, x)[VaultOf(v)].count = m + 1
    BY <2>1, <2>2, <2>3, CreateGoes
  <2>6. Goes(b, One(x)) /\ Thereafter(b, One(x)) = After(b, x)
    BY <2>5, StepGoes
  <2>7. Goes(b, steps[k]) /\ h[k] = After(b, x)
    BY <2>4, <2>6
  <2>8. good(h[k], k)
    BY <2>1, <2>5, <2>7
  <2> QED BY <2>7, <2>8 DEF b
<1> HIDE DEF N
<1>8. 0 \in G
  <2>1. good(h[0], 0) /\ 0 \in 0..N
    BY <1>0, <1>6
  <2> QED BY <2>1
<1>9. \A k \in 1..N : k - 1 \in G => k \in G
  <2> TAKE k \in 1..N
  <2>1. k \in 0..N
    BY <1>0
  <2> QED BY <1>7, <2>1
<1>10. \A k \in 0..N : k \in G
  <2> HIDE DEF G
  <2> QED BY <1>0, <1>8, <1>9, Upwards
<1>11. \A k \in 1..N : Goes(h[k - 1], steps[k])
  <2> TAKE k \in 1..N
  <2>1. k - 1 \in 0..N
    BY <1>0
  <2> QED BY <1>7, <1>10, <2>1
<1>12. VaultBy(h[N], v, w)
  <2>1. N \in 0..N
    BY <1>0
  <2> QED BY <1>10, <2>1
<1> QED BY <1>0, <1>4, <1>11, <1>12 DEF AllGo

\* The scripts that initialise a vault and hand it over.
LEMMA SureVaults ==
  ASSUME NEW a, AcctOK(a)
  PROVE  Sure(a, InitVault(Admin)) /\ Sure(a, CreateVault(a, Admin))
<1> DEFINE v == FreshVault
           x == InitializeVault(v, Admin)
<1>1. Sure(a, InitVault(Admin))
  <2>0. InitVault(Admin) = <<Needed(x)>>
    BY DEF InitVault
  <2>1. Accepts(a, x) \/ Unneeded(a, x)
    BY VaultMade
  <2> HIDE DEF x
  <2> QED BY <2>0, <2>1, StepGoes, SureOne
<1>2. CASE Exists(a, VaultOf(v))
  <2>1. CreateVault(a, Admin) = <<>>
    BY <1>2 DEF CreateVault
  <2>2. Sure(a, <<>>)
    BY EntriesFew DEF Sure, AllGo
  <2> QED BY <1>1, <2>1, <2>2
<1>3. CASE ~Exists(a, VaultOf(v))
  <2> DEFINE b == After(a, x)
             q == <<One(x)>>
             r == HandOver(v, Admin, Receiver)
  <2>1. Accepts(a, x) /\ Exists(b, VaultOf(v)) /\ b[VaultOf(v)] = NewVault(Admin)
    BY <1>3, VaultMade
  <2>2. CreateVault(a, Admin) = q \o r
    BY <1>3 DEF CreateVault
  <2>3. Goes(a, One(x)) /\ Thereafter(a, One(x)) = b
    <3> HIDE DEF x
    <3> QED BY <2>1, StepGoes
  <2>4. VaultBy(b, v, Admin)
    <3>1. NewVault(Admin).admin = Admin /\ DOMAIN NewVault(Admin) = VaultFields
      BY DEF NewVault, VaultFields
    <3> QED BY <2>1, <3>1 DEF VaultBy
  <2> HIDE DEF x, b
  <2>5. IsList(q) /\ Len(q) = 1 /\ Sure(a, q) /\ \A h : Follows(h, a, q) => h[1] = b
    BY <2>3, SureOne
  <2>6. Sure(b, r) /\ IsList(r)
    BY <2>4, HandOverGoes, NamedVaultScripts, ScriptsAssumption DEF StepsNamed
  <2> HIDE DEF q, r
  <2>7. Sure(a, q \o r)
    BY <2>5, <2>6, SureConcat
  <2> QED BY <1>1, <2>2, <2>7
<1> QED BY <1>2, <1>3

\* A vault with as many strategies as there may be, handed over or not.
LEMMA SureMultiVaults ==
  ASSUME NEW a, AcctOK(a), ~Exists(a, VaultOf(FreshVault))
  PROVE  Sure(a, SetupMultiVaults(Admin)) /\ Sure(a, SetupFull(Admin))
<1> DEFINE v == FreshVault
           x == InitializeVault(v, Admin)
           b == After(a, x)
           q == <<One(x)>>
           c == CreateStrategies(v, Admin, 0, MaxStrategies - 1)
           r == HandOver(v, Admin, Receiver)
<1>0. MaxStrategies \in Nat
  BY ConsoleAssumption
<1>1. Accepts(a, x) /\ Exists(b, VaultOf(v)) /\ b[VaultOf(v)] = NewVault(Admin)
  BY VaultMade
<1>2. SetupMultiVaults(Admin) = q \o c /\ SetupFull(Admin) = (q \o c) \o r
  BY DEF SetupMultiVaults, SetupFull
<1>3. VaultBy(b, v, Admin) /\ b[VaultOf(v)].count = 0
  <2>1. NewVault(Admin).admin = Admin /\ DOMAIN NewVault(Admin) = VaultFields
        /\ NewVault(Admin).count = 0
    BY DEF NewVault, VaultFields
  <2> QED BY <1>1, <2>1 DEF VaultBy
<1>4. StepsNamed(q \o c) /\ IsList(r)
  <2>1. v # DemoVault
    BY ScriptsAssumption
  <2>2. StepsNamed(r)
    BY <2>1, NamedVaultScripts
  <2> QED BY <1>2, <2>2, NamedVaultScripts DEF StepsNamed
<1> HIDE DEF x
<1>5. Goes(a, One(x)) /\ Thereafter(a, One(x)) = b
  BY <1>1, StepGoes
<1>6. IsList(q) /\ Len(q) = 1 /\ Sure(a, q) /\ \A h : Follows(h, a, q) => h[1] = b
  BY <1>5, SureOne
<1>7. IsList(c) /\ \A g : Follows(g, b, c) => AllGo(g, c) /\ VaultBy(g[Len(c)], v, Admin)
  <2>1. AcctOK(b)
    <3>1. \E h : Follows(h, a, q)
      BY <1>6, FollowsExists
    <3>2. PICK h : Follows(h, a, q)
      BY <3>1
    <3>3. StepsNamed(q)
      BY NamedSteps, NamedOthers DEF x
    <3>4. AcctOK(h[1])
      BY <1>6, <3>2, <3>3, TraceKept
    <3> QED BY <1>6, <3>2, <3>4
  <2>2. 0 \in Nat /\ MaxStrategies - 1 \in Int /\ 0 <= MaxStrategies - 1 + 1
        /\ MaxStrategies - 1 < MaxStrategies
    BY <1>0
  <2>3. ASSUME NEW g, Follows(g, b, c)
        PROVE  IsList(c) /\ AllGo(g, c) /\ VaultBy(g[Len(c)], v, Admin)
    <3> HIDE DEF b
    <3> QED BY <1>3, <2>1, <2>2, <2>3, CreatesGo
  <2>4. DOMAIN c = 1..MaxStrategies /\ c = [n \in DOMAIN c |-> c[n]]
    BY <1>0 DEF CreateStrategies
  <2>5. IsList(c)
    BY <1>0, <2>4, NamedEach
  <2> QED BY <2>3, <2>5
<1> HIDE DEF q, c, r, b
<1>8. Sure(a, q \o c)
  <2>1. \A h : Follows(h, a, q) => Sure(h[Len(q)], c)
    BY <1>6, <1>7 DEF Sure
  <2> QED BY <1>6, <1>7, <2>1, SureConcat
<1>9. ASSUME NEW h, Follows(h, a, q \o c)
      PROVE  VaultBy(h[Len(q \o c)], v, Admin)
  <2>1. Follows(h, a, q)
    BY <1>6, <1>7, <1>9, FollowsConcat
  <2>2. PICK g : Follows(g, h[Len(q)], c) /\ g[Len(c)] = h[Len(q \o c)]
    BY <1>6, <1>7, <1>9, FollowsConcat
  <2> QED BY <1>6, <1>7, <2>1, <2>2
<1>10. Sure(a, (q \o c) \o r)
  <2> DEFINE p == q \o c
  <2>1. \A h : Follows(h, a, p) => Sure(h[Len(p)], r)
    BY <1>9, HandOverGoes DEF r
  <2>2. IsList(p)
    BY <1>4 DEF StepsNamed
  <2>3. Sure(a, p)
    BY <1>8
  <2> HIDE DEF p
  <2>4. Sure(a, p \o r)
    BY <1>4, <2>1, <2>2, <2>3, SureConcat
  <2> QED BY <2>4 DEF p
<1> QED BY <1>2, <1>8, <1>10

\* The strategies a vault has room for.
LEMMA SureStrategies ==
  ASSUME NEW a, AcctOK(a), VaultBy(a, Vault, Admin), Count(a) < MaxStrategies
  PROVE  Sure(a, CreateStrategies(Vault, Admin, Count(a), MaxStrategies - 1))
<1> DEFINE c == CreateStrategies(Vault, Admin, Count(a), MaxStrategies - 1)
<1>1. MaxStrategies \in Nat /\ Count(a) \in Nat /\ Count(a) = a[VaultOf(Vault)].count
  BY ConsoleAssumption DEF AcctOK, AccountsOK, VaultBy, Count
<1>2. MaxStrategies - 1 \in Int /\ Count(a) <= MaxStrategies - 1 + 1 /\ MaxStrategies - 1 < MaxStrategies
  BY <1>1
<1>3. ASSUME NEW h, Follows(h, a, c)
      PROVE  AllGo(h, c)
  BY <1>1, <1>2, <1>3, CreatesGo
<1> QED BY <1>3 DEF Sure

\* Instructions that are ready and clear of each other, a step each.
LEMMA LineSure ==
  ASSUME NEW a, NEW q, InLine(a, q)
  PROVE  Sure(a, Each(One, q))
<1> DEFINE steps == Each(One, q)
           N == Len(q)
<1>1. N \in Nat /\ DOMAIN q = 1..N
  BY DEF InLine, IsList
<1>2. DOMAIN steps = 1..N /\ steps = [n \in DOMAIN steps |-> steps[n]]
      /\ \A n \in 1..N : steps[n] = One(q[n])
  BY <1>1 DEF Each
<1> HIDE DEF steps
<1>3. Len(steps) = N
  BY <1>1, <1>2, NamedEach
<1>4. ASSUME NEW h, Follows(h, a, steps)
      PROVE  AllGo(h, steps)
  <2> DEFINE G == {k \in 0..N : \A j \in 1..N : j > k => Ready(h[k], q[j])}
  <2> HIDE DEF N
  <2>1. 0 \in G
    <3>1. h[0] = a
      BY <1>4 DEF Follows
    <3> QED BY <1>1, <3>1 DEF InLine, N
  <2>2. ASSUME NEW k \in 1..N, k - 1 \in G
        PROVE  Goes(h[k - 1], steps[k]) /\ k \in G
    <3>1. k > k - 1 /\ k \in 0..N
      BY <1>1
    <3>2. Ready(h[k - 1], q[k])
      BY <2>2, <3>1
    <3>3. Goes(h[k - 1], One(q[k])) /\ Thereafter(h[k - 1], One(q[k])) = After(h[k - 1], q[k])
      BY <3>2, StepGoes DEF Ready
    <3>4. h[k] = After(h[k - 1], q[k])
      BY <1>2, <1>3, <1>4, <3>3 DEF Follows
    <3>5. ASSUME NEW j \in 1..N, j > k
          PROVE  Ready(h[k], q[j])
      <4>1. j > k - 1 /\ j # k
        BY <1>1, <3>5
      <4>2. Ready(h[k - 1], q[j]) /\ Clear(q[k], q[j])
        BY <2>2, <4>1 DEF InLine, N
      <4> QED BY <3>2, <3>4, <4>2, ReadyKept
    <3> QED BY <1>2, <3>1, <3>3, <3>5
  <2>3. \A k \in 1..N : k - 1 \in G => k \in G
    BY <2>2
  <2>4. \A k \in 0..N : k \in G
    <3> HIDE DEF G
    <3> QED BY <1>1, <2>1, <2>3, Upwards DEF N
  <2>5. \A k \in 1..N : Goes(h[k - 1], steps[k])
    <3> TAKE k \in 1..N
    <3>1. k - 1 \in 0..N
      BY <1>1
    <3> QED BY <2>2, <2>4, <3>1
  <2> QED BY <1>3, <2>5 DEF AllGo, N
<1> QED BY <1>4 DEF Sure, steps

\* The least of some slots.
LEMMA LeastSlot ==
  ASSUME NEW S \in SUBSET Slots, S # {}
  PROVE  Min(S) \in S
<1>1. S \in SUBSET Nat
  BY ConfigAssumption DEF Slots
<1>2. \E n \in S : \A m \in S : n <= m
  BY <1>1, LeastNat
<1> QED BY <1>2 DEF Min

\* The slots are finitely many.
LEMMA SlotsFinite ==
  IsFiniteSet(Slots) /\ \A S \in SUBSET Slots : IsFiniteSet(S) /\ Cardinality(S) \in Nat
<1>1. IsFiniteSet(0..(MaxSources - 1))
  BY ConfigAssumption, FS_Interval
<1>2. IsFiniteSet(Slots)
  BY <1>1 DEF Slots
<1>3. ASSUME NEW S \in SUBSET Slots
      PROVE  IsFiniteSet(S) /\ Cardinality(S) \in Nat
  BY <1>2, FS_Subset, FS_CardinalityType
<1> QED BY <1>2, <1>3

\* A strategy that has room for what it is missing has slots for the pair: free ones
\* for what is missing, and those of the rows it has.
LEMMA PairFits ==
  ASSUME NEW a, NEW s, HasRoom(a, s)
  PROVE  LET balance == SourcesFor(a, s, {"balance"})
             price   == SourcesFor(a, s, {"price"})
             free    == Slots \ SourceSlots(a, s)
             pair    == PairSlots(a, s)
         IN  /\ balance = {} => pair[1] \in free
             /\ balance # {} => pair[1] \in balance
             /\ price = {} => pair[2] \in free
             /\ balance = {} /\ price = {} => pair[1] # pair[2]
<1> DEFINE balance == SourcesFor(a, s, {"balance"})
           price   == SourcesFor(a, s, {"price"})
           free    == Slots \ SourceSlots(a, s)
           pair    == PairSlots(a, s)
           kinds   == {kind \in {"balance", "price"} : SourcesFor(a, s, {kind}) = {}}
           first   == IF balance = {} THEN Min(free) ELSE Min(balance)
<1>1. pair[1] = first /\ pair[2] = IF price = {} THEN Min(free \ {first}) ELSE Min(price)
  BY DEF PairSlots
<1>2. Cardinality(free) >= Cardinality(kinds)
  BY DEF HasRoom
<1>3. balance \subseteq SourceSlots(a, s) /\ balance \in SUBSET Slots /\ free \in SUBSET Slots
  BY DEF SourcesFor, SourceSlots
<1>4. /\ balance = {} /\ price = {} => kinds = {"balance", "price"}
      /\ balance = {} => "balance" \in kinds
      /\ price = {} => "price" \in kinds
      /\ kinds \in SUBSET {"balance", "price"}
  OBVIOUS
<1> HIDE DEF kinds, balance, price, pair
<1>5. IsFiniteSet({"balance", "price"}) /\ Cardinality({"balance", "price"}) = 2
  <2>1. IsFiniteSet({"balance"}) /\ Cardinality({"balance"}) = 1 /\ "price" \notin {"balance"}
    BY FS_Singleton
  <2>2. {"balance"} \cup {"price"} = {"balance", "price"}
    OBVIOUS
  <2>3. IsFiniteSet({"balance"} \cup {"price"})
        /\ Cardinality({"balance"} \cup {"price"}) = Cardinality({"balance"}) + 1
    BY <2>1, FS_AddElement
  <2> QED BY <2>1, <2>2, <2>3
<1>6. IsFiniteSet(kinds) /\ Cardinality(kinds) \in Nat /\ (kinds # {} => Cardinality(kinds) # 0)
  BY <1>4, <1>5, FS_Subset, FS_CardinalityType, FS_EmptySet
<1>7. IsFiniteSet(free) /\ Cardinality(free) \in Nat
  BY <1>3, SlotsFinite
<1>8. kinds # {} => free # {}
  <2>1. free = {} => Cardinality(free) = 0
    BY FS_EmptySet
  <2> QED BY <1>2, <1>6, <1>7, <2>1
<1>9. balance = {} => first \in free
  BY <1>3, <1>4, <1>8, LeastSlot
<1>10. balance # {} => first \in balance
  BY <1>3, LeastSlot
<1>11. price = {} => free \ {first} # {}
  <2> SUFFICES ASSUME price = {} PROVE free \ {first} # {}
    OBVIOUS
  <2>1. CASE balance = {}
    <3>1. Cardinality(kinds) = 2
      BY <1>4, <1>5, <2>1
    <3>2. Cardinality({first}) = 1
      BY FS_Singleton
    <3>3. free # {first}
      BY <1>2, <3>1, <3>2
    <3> QED BY <1>9, <2>1, <3>3
  <2>2. CASE balance # {}
    <3>1. first \notin free
      BY <1>3, <1>10, <2>2
    <3> QED BY <1>4, <1>8, <3>1
  <2> QED BY <2>1, <2>2
<1>12. price = {} => pair[2] \in free \ {first}
  <2>1. free \ {first} \in SUBSET Slots
    BY <1>3
  <2> QED BY <1>1, <1>11, <2>1, LeastSlot
<1> QED BY <1>1, <1>9, <1>10, <1>12 DEF balance, price, pair

\* What a strategy is missing, when it is active.
LEMMA MissingOpens ==
  ASSUME NEW a, NEW s, NEW w, Exists(a, VaultOf(s[1])), a[VaultOf(s[1])].admin = w, Active(a, s),
         HasRoom(a, s)
  PROVE  Opening(a, Missing(a, s, w, <<>>), {SourceOf(s, slot) : slot \in Slots})
<1> DEFINE balance == SourcesFor(a, s, {"balance"})
           price   == SourcesFor(a, s, {"price"})
           free    == Slots \ SourceSlots(a, s)
           pair    == PairSlots(a, s)
           x       == Carrier(s, w, pair[1])
           y       == Feed(s, w, pair[2], pair[1])
           S(c, n) == IF c = {} THEN {SourceOf(s, pair[n])} ELSE {}
           q       == IF balance = {} THEN <<x>> ELSE <<>>
           r       == IF price = {} THEN <<y>> ELSE <<>>
           T       == {SourceOf(s, slot) : slot \in Slots}
<1>1. Missing(a, s, w, <<>>) = q \o r
  <2>1. <<>> \o <<x>> = <<x>>
    OBVIOUS
  <2> QED BY <2>1 DEF Missing
<1>2. /\ balance = {} => pair[1] \in free
      /\ price = {} => pair[2] \in free
      /\ balance = {} /\ price = {} => pair[1] # pair[2]
  BY PairFits
<1> HIDE DEF balance, price, pair
<1>3. ASSUME NEW slot \in free, NEW row
      PROVE  Opening(a, <<AddValueSource(s, w, slot, row)>>, {SourceOf(s, slot)})
  <2> DEFINE ix == AddRow(s, w, SourceOf(s, slot), row)
  <2>1. AddValueSource(s, w, slot, row) = ix
    BY DEF AddValueSource, AddRow
  <2>2. SourceOf(s, slot) \in PossibleRows(s) /\ ~Exists(a, SourceOf(s, slot))
    BY <1>3, CatalogueRows DEF SourceSlots
  <2>3. Ready(a, ix)
    BY <2>2, AddRowReady
  <2>4. ix.close = {} /\ DOMAIN ix.init = {SourceOf(s, slot)}
        /\ ix.needs = {VaultOf(s[1])} \cup {StrategyOf(s)}
    BY DEF AddRow, OnStrategy, ByAdmin, Instruction, Row
  <2>5. \A key \in ix.needs : key[1] # "vault_allowed_token"
    BY <2>4, Addresses
  <2> HIDE DEF ix
  <2> QED BY <2>1, <2>3, <2>4, <2>5, OpeningFew
<1>4. Opening(a, q, S(balance, 1))
  BY <1>2, <1>3, OpeningFew DEF Carrier
<1>5. Opening(a, r, S(price, 2))
  BY <1>2, <1>3, OpeningFew DEF Feed
<1>6. \A k, l : k # l => SourceOf(s, k) # SourceOf(s, l)
  BY DEF SourceOf
<1>7. S(balance, 1) \cap S(price, 2) = {} /\ S(balance, 1) \subseteq T /\ S(price, 2) \subseteq T
  BY <1>2, <1>6
<1> DEFINE U == S(balance, 1)
           V == S(price, 2)
<1> HIDE DEF U, V, q, r, T
<1>8. Opening(a, q \o r, U \cup V)
  BY <1>4, <1>5, <1>7, OpeningConcat DEF U, V
<1>9. U \cup V \subseteq T
  BY <1>7 DEF U, V
<1> QED BY <1>1, <1>8, <1>9 DEF Opening, T

\* What all active strategies are missing.
LEMMA SureBootstrap ==
  ASSUME NEW a, AcctOK(a), VaultBy(a, Vault, Admin),
         \A s \in Strategies(a) : Active(a, s) => HasRoom(a, s)
  PROVE  Sure(a, BootstrapSources(a, Admin))
<1> DEFINE actives == ActiveOf(a)
           q == [k \in DOMAIN actives |-> Missing(a, actives[k], Admin, <<>>)]
           T(s) == {SourceOf(s, slot) : slot \in Slots}
           F == [k \in DOMAIN actives |-> T(actives[k])]
           S == UNION {F[k] : k \in DOMAIN actives}
           N == Len(actives)
<1>1. BootstrapSources(a, Admin) = Each(One, FlattenSeq(q))
  BY DEF BootstrapSources, ForActive
<1>2. Exists(a, VaultOf(Vault)) /\ Count(a) \in Nat
  BY DEF VaultBy, AcctOK, AccountsOK, Count
<1>3. /\ actives \in Seq({s \in Strategies(a) : Active(a, s)})
      /\ \A i, j \in 1..N : actives[i] = actives[j] => i = j
  BY <1>2, ActivesOnce
<1> HIDE DEF actives
<1>4. N \in Nat /\ DOMAIN actives = 1..N
  BY <1>3
<1>5. ASSUME NEW k \in 1..N
      PROVE  Opening(a, q[k], F[k]) /\ F[k] \subseteq S
  <2>1. actives[k] \in Strategies(a) /\ Active(a, actives[k])
    BY <1>3, <1>4
  <2>2. actives[k][1] = Vault
    BY <2>1 DEF Strategies, StrategiesIn, StrategiesUpTo
  <2>3. Opening(a, Missing(a, actives[k], Admin, <<>>), T(actives[k]))
    BY <2>1, <2>2, MissingOpens DEF VaultBy
  <2> QED BY <1>4, <2>3
<1>6. \A n, k \in 1..N : n # k => F[n] \cap F[k] = {}
  <2> TAKE n, k \in 1..N
  <2> HAVE n # k
  <2>1. actives[n] # actives[k]
    BY <1>3
  <2>2. \A x, y : SourceOf(actives[n], x) # SourceOf(actives[k], y)
    BY <2>1 DEF SourceOf
  <2> QED BY <1>4, <2>2
<1>7. DOMAIN q = 1..N /\ q = [n \in DOMAIN q |-> q[n]]
  BY <1>4
<1> HIDE DEF q, F, S, N
<1>8. Opening(a, FlattenSeq(q), S)
  BY <1>4, <1>5, <1>6, <1>7, OpeningJoin
<1> QED BY <1>1, <1>8, LineSure DEF Opening

\* The scripts that can be run again whatever is there.
Rerunnable ==
  {"seed_allowed_tokens", "unseed_allowed_tokens", "init_token", "setup_demo", "init_vault",
   "create_vault", "setup_multi", "setup_full", "create_strategies", "bootstrap"}

\* Such a script is not refused if it is alone.
LEMMA RerunSure ==
  ASSUME AcctOK(acct), Exists(acct, VaultOf(Vault)), NEW name \in Rerunnable, NEW steps,
         Offered(name, steps)
  PROVE  Sure(acct, steps)
<1>1. IsAdmin(Vault) => VaultBy(acct, Vault, Admin)
  BY DEF IsAdmin, VaultBy, AcctOK, AccountsOK
<1>2. CASE name \in {"seed_allowed_tokens", "unseed_allowed_tokens", "init_token"}
  BY <1>2, SureTokenLists DEF Offered
<1>3. CASE name = "setup_demo"
  BY <1>3, DemoGoes DEF Offered, Sure
<1>4. CASE name \in {"init_vault", "create_vault"}
  BY <1>4, SureVaults DEF Offered
<1>5. CASE name \in {"setup_multi", "setup_full"}
  BY <1>5, SureMultiVaults DEF Offered
<1>6. CASE name = "create_strategies"
  BY <1>1, <1>6, SureStrategies DEF Offered, CanCreate
<1>7. CASE name = "bootstrap"
  BY <1>1, <1>7, SureBootstrap DEF Offered, Roomy
<1> QED BY <1>2, <1>3, <1>4, <1>5, <1>6, <1>7 DEF Rerunnable

\* The shell's record after each of its own steps.
LEMMA ShellRecords ==
  ASSUME DOMAIN shell = ShellFields
  PROVE  /\ NextStep.script = shell.script /\ NextStep.state = shell.state
         /\ NextStep.steps = Tail(shell.steps) /\ NextStep.alone = shell.alone /\ ~NextStep.raced
         /\ \A state : /\ Ended(state).script = shell.script /\ Ended(state).state = state
                       /\ Ended(state).alone = shell.alone /\ ~Ended(state).raced
         /\ Prompt.state = "idle" /\ ~Prompt.alone
         /\ \A name, steps : Launch(name, steps) =>
              /\ shell'.script = name /\ shell'.state = "running" /\ shell'.steps = steps
              /\ shell'.alone /\ ~shell'.raced
BY DEF ShellFields, NextStep, Ended, Prompt, Launch

\* What others do leaves the shell as it is, or its script is not alone any more.
LEMMA ShellNotAlone ==
  ASSUME DOMAIN shell = ShellFields, shell' = ShellOvertaken, shell'.alone
  PROVE  shell' = shell /\ acct' = acct
BY ShellRecords DEF ShellOvertaken, ShellFields

\* A step that goes is done or skipped; one that is refused does not go, or has been
\* overtaken since the script looked.
LEMMA StepTaken ==
  ASSUME RunStep
  PROVE  /\ ShellRuns /\ shell.steps # <<>>
         /\ \/ /\ shell' = NextStep /\ Goes(acct, Head(shell.steps))
               /\ acct' = Thereafter(acct, Head(shell.steps))
            \/ shell' = Ended("refused") /\ (shell.raced \/ ~Goes(acct, Head(shell.steps)))
<1> DEFINE step == Head(shell.steps)
           r    == Run(acct, step.tx)
           next == NextStep
           refused == Ended("refused")
<1>1. ShellRuns /\ shell.steps # <<>>
  BY DEF RunStep
<1>2. CASE Skips(acct, step)
  <2>1. Goes(acct, step) /\ Thereafter(acct, step) = acct
    BY <1>2 DEF Goes, Thereafter, Sends
  <2>2. step.mode = "needed" /\ Unneeded(acct, step.tx[1])
    BY <1>2 DEF Skips
  <2>3. /\ shell' \in {next} \cup (IF shell.raced THEN {refused} ELSE {})
        /\ acct' = acct
    BY <2>2 DEF RunStep
  <2> HIDE DEF step, next, refused
  <2>4. \/ shell' = next /\ Goes(acct, step) /\ acct' = Thereafter(acct, step)
        \/ shell' = refused /\ shell.raced
    BY <2>1, <2>3
  <2> QED BY <1>1, <2>4 DEF step, next, refused
<1>3. CASE ~Skips(acct, step) /\ step.mode # "overdrawn" /\ r.ok
  <2>1. Goes(acct, step) /\ Thereafter(acct, step) = r.acct
    BY <1>3 DEF Goes, Thereafter, Sends
  <2>2. ~(step.mode = "needed" /\ Unneeded(acct, step.tx[1]))
    BY <1>3 DEF Skips
  <2>3. ScriptLands(r) /\ shell' = next
    BY <1>3, <2>2 DEF RunStep
  <2>4. acct' = r.acct
    BY <2>3 DEF ScriptLands, Lands
  <2> QED BY <1>1, <2>1, <2>3, <2>4
<1>4. CASE ~Skips(acct, step) /\ ~(step.mode # "overdrawn" /\ r.ok)
  <2>1. ~Goes(acct, step)
    BY <1>4 DEF Goes, Sends
  <2>2. ~(step.mode = "needed" /\ Unneeded(acct, step.tx[1]))
    BY <1>4 DEF Skips
  <2>3. shell' = refused
    BY <1>4, <2>2 DEF RunStep
  <2> QED BY <1>1, <2>1, <2>3
<1> QED BY <1>2, <1>3, <1>4

\* No step such a script has left is going to be refused.
RerunInv ==
  /\ shell.alone => ~shell.raced
  /\ shell.alone /\ shell.script \in Rerunnable =>
       shell.state # "refused" /\ (ShellRuns => Sure(acct, shell.steps))

\* After any step of the scripts, the console and the other clients.
LEMMA RerunSurvives ==
  ASSUME AcctOK(acct), Exists(acct, VaultOf(Vault)), NamedInv, RerunInv, ScriptsNext
  PROVE  RerunInv'
<1>0. DOMAIN shell = ShellFields /\ IsList(shell.steps) /\ Count(acct) \in Nat
  BY DEF NamedInv, StepsReady, AcctOK, AccountsOK, Count
<1>1. CASE StartScript
  <2>1. PICK name, steps :
          Launch(name, steps) /\ StepsReady(acct, steps) /\ Offered(name, steps)
    BY <1>0, <1>1, Launched
  <2>2. /\ shell'.script = name /\ shell'.state = "running" /\ shell'.steps = steps
        /\ shell'.alone /\ ~shell'.raced
    BY <1>0, <2>1, ShellRecords
  <2>4. acct' = acct
    BY <2>1 DEF Launch
  <2>3. name \in Rerunnable => Sure(acct, steps)
    BY <2>1, RerunSure
  <2> QED BY <2>2, <2>3, <2>4 DEF RerunInv
<1>2. CASE RunStep
  <2> DEFINE step == Head(shell.steps)
  <2>1. CASE shell' = NextStep /\ Goes(acct, step) /\ acct' = Thereafter(acct, step)
    <3>1. /\ shell'.script = shell.script /\ shell'.state = shell.state
          /\ shell'.steps = Tail(shell.steps) /\ shell'.alone = shell.alone /\ ~shell'.raced
      BY <1>0, <2>1, ShellRecords
    <3>2. ShellRuns /\ shell.steps # <<>>
      BY <1>2, StepTaken
    <3>3. Sure(acct, shell.steps) => Sure(acct', shell'.steps)
      BY <1>0, <2>1, <3>1, <3>2, RestGoes
    <3> QED BY <3>1, <3>2, <3>3 DEF RerunInv, ShellRuns
  <2>2. CASE shell' = Ended("refused") /\ (shell.raced \/ ~Goes(acct, step))
    <3>1. shell'.script = shell.script /\ shell'.alone = shell.alone /\ ~shell'.raced
          /\ shell'.state = "refused"
      BY <1>0, <2>2, ShellRecords
    <3>2. ShellRuns /\ shell.steps # <<>>
      BY <1>2, StepTaken
    <3>3. Sure(acct, shell.steps) => Goes(acct, step)
      BY <1>0, <3>2, RestGoes
    <3>4. ~(shell.alone /\ shell.script \in Rerunnable)
      BY <2>2, <3>2, <3>3 DEF RerunInv
    <3> QED BY <3>1, <3>4 DEF RerunInv
  <2> QED BY <1>2, <2>1, <2>2, StepTaken
<1>3. CASE ScriptDies \/ FinishScript
  <2>1. \E state \in {"failed", "done"} : shell' = Ended(state)
    BY <1>3 DEF ScriptDies, FinishScript
  <2>2. PICK state \in {"failed", "done"} : shell' = Ended(state)
    BY <2>1
  <2>3. ~shell'.raced /\ shell'.state = state
    BY <1>0, <2>2, ShellRecords
  <2> QED BY <2>3 DEF RerunInv, ShellRuns
<1>4. CASE (ConsoleNext \/ UseElsewhere \/ CooldownElapses) /\ shell' = ShellOvertaken
  <2>1. shell'.alone => shell' = shell /\ acct' = acct
    BY <1>0, <1>4, ShellNotAlone
  <2> QED BY <2>1 DEF RerunInv, ShellRuns
<1> QED BY <1>1, <1>2, <1>3, <1>4 DEF ScriptsNext

\* With the scripts beside the console: accounts, pages and steps.
ShellInv == ConfigInv /\ JobsInv /\ WorkInv /\ NamedInv

\* These hold of every state of console and scripts together.
LEMMA ShellInvariant == ScriptsSpec => []ShellInv
<1>1. ScriptsInit => JobsInv /\ WorkInv /\ NamedInv
  BY JobsStart, WorkStart, NamedStart DEF ScriptsInit
<1>2. ConfigInv /\ JobsInv /\ WorkInv /\ NamedInv /\ [ScriptsNext]_scriptsVars
        => JobsInv' /\ WorkInv' /\ NamedInv'
  <2> SUFFICES ASSUME ConfigInv, JobsInv, WorkInv, NamedInv, [ScriptsNext]_scriptsVars
               PROVE  JobsInv' /\ WorkInv' /\ NamedInv'
    OBVIOUS
  <2>1. CASE ScriptsNext
    <3>1. AccountsOK(acct) /\ Exists(acct, VaultOf(Vault))
      BY DEF ConfigInv, WorkInv
    <3> QED BY <2>1, <3>1, JobsSurvive, WorkSurvives, NamedSurvives DEF ConfigInv
  <2>2. CASE UNCHANGED scriptsVars
    BY <2>2 DEF scriptsVars, consoleVars, JobsInv, WorkInv, NamedInv, PagesNamed
  <2> QED BY <2>1, <2>2
<1>3. ConfigInv /\ JobsInv /\ WorkInv /\ NamedInv => ShellInv
  BY DEF ShellInv
<1> QED BY <1>1, <1>2, <1>3, ConfigInvariant, PTL DEF ScriptsSpec

\* What it says of the accounts.
LEMMA ShellAccounts ==
  ASSUME ShellInv
  PROVE  AcctOK(acct) /\ Exists(acct, VaultOf(Vault)) /\ NamedInv
BY DEF ShellInv, ConfigInv, WorkInv, NamedInv, AcctOK

\* A script that is not interfered with is not refused, whatever earlier runs have
\* left behind: those on the protocol's token list, on new vaults, their roles and
\* their strategies, and the one that gives every strategy its pair of sources.
THEOREM ScriptsRunAgain == ScriptsSpec => []ScriptsRerun
<1>1. ScriptsInit => RerunInv
  BY DEF ScriptsInit, Prompt, RerunInv, ShellRuns
<1>2. ShellInv /\ RerunInv /\ [ScriptsNext]_scriptsVars => RerunInv'
  <2> SUFFICES ASSUME ShellInv, RerunInv, [ScriptsNext]_scriptsVars PROVE RerunInv'
    OBVIOUS
  <2>1. CASE ScriptsNext
    BY <2>1, ShellAccounts, RerunSurvives
  <2>2. CASE UNCHANGED scriptsVars
    BY <2>2 DEF scriptsVars, consoleVars, RerunInv, ShellRuns
  <2> QED BY <2>1, <2>2
<1>3. RerunInv => ScriptsRerun
  BY DEF RerunInv, ScriptsRerun, Rerunnable
<1> QED BY <1>1, <1>2, <1>3, ShellInvariant, PTL DEF ScriptsSpec

-----------------------------------------------------------------------------
(***************************************************************************)
(* What the scripts have done when they come to their end: their           *)
(* instructions, one after the other, whatever transactions they are in.   *)
(***************************************************************************)
\* A step for each of them, and one for four.
LEMMA EachLists ==
  ASSUME NEW q, IsList(q)
  PROVE  IsList(Each(One, q)) /\ IsList(Each(Needed, q)) /\ IsList(FourByFour(q))
<1> DEFINE X == {q[n] : n \in DOMAIN q}
           c == Chunked(q)
           N == Len(q)
           K == Len(c)
<1>1. N \in Nat /\ DOMAIN q = 1..N
  BY LenProperties DEF IsList
<1>2. c \in Seq(Seq(X))
  BY ChunkedCuts DEF IsList
<1>3. K \in Nat /\ DOMAIN c = 1..K
  <2> HIDE DEF c, X
  <2> QED BY <1>2, LenProperties
<1>4. \A f, n : n \in Nat /\ DOMAIN f = 1..n /\ f = [k \in DOMAIN f |-> f[k]] => IsList(f)
  BY IntervalList
<1> DEFINE x == Each(One, q)
           y == Each(Needed, q)
           z == FourByFour(q)
<1>5. x = [n \in 1..N |-> One(q[n])] /\ y = [n \in 1..N |-> Needed(q[n])]
  BY <1>1 DEF Each
<1>6. z = [n \in 1..K |-> Must(c[n])]
  BY <1>3 DEF FourByFour, Each
<1> HIDE DEF N, K, c, X, x, y, z
<1>7. /\ DOMAIN x = 1..N /\ x = [k \in DOMAIN x |-> x[k]]
      /\ DOMAIN y = 1..N /\ y = [k \in DOMAIN y |-> y[k]]
      /\ DOMAIN z = 1..K /\ z = [k \in DOMAIN z |-> z[k]]
  BY <1>5, <1>6
<1> QED BY <1>1, <1>3, <1>4, <1>7 DEF x, y, z

\* A transaction for each instruction.
LEMMA OnesStages ==
  ASSUME NEW a, NEW q, IsList(q), NEW h, Follows(h, a, Each(One, q)), AllGo(h, Each(One, q))
  PROVE  Len(Each(One, q)) = Len(q) /\ Stages(h, a, q)
<1> DEFINE r == Each(One, q)
           N == Len(q)
<1>1. N \in Nat /\ DOMAIN q = 1..N
  BY LenProperties DEF IsList
<1>2. r = [n \in 1..N |-> One(q[n])]
  BY <1>1 DEF Each
<1>3. Len(r) = N /\ \A n \in 1..N : r[n] = One(q[n])
  <2> HIDE DEF N
  <2>1. DOMAIN r = 1..N
    BY <1>2
  <2>2. r = [n \in DOMAIN r |-> r[n]]
    BY <1>2
  <2>3. Len(r) = N
    <3> HIDE DEF r
    <3> QED BY <1>1, <2>1, <2>2, NamedEach
  <2> QED BY <1>2, <2>3
<1> HIDE DEF r, N
<1>4. h[0] = a /\ \A k \in 1..N : h[k] = Thereafter(h[k - 1], r[k]) /\ Goes(h[k - 1], r[k])
  BY <1>3 DEF Follows, AllGo, r
<1>5. \A k \in 1..N : Accepts(h[k - 1], q[k]) /\ h[k] = After(h[k - 1], q[k])
  BY <1>3, <1>4, StepGoes
<1> QED BY <1>3, <1>4, <1>5 DEF Stages, N, r

\* Four to a transaction: the accounts between the instructions of one, too.
LEMMA FoursStages ==
  ASSUME NEW a, NEW q, IsList(q), NEW h, Follows(h, a, FourByFour(q)), AllGo(h, FourByFour(q))
  PROVE  \E g : Stages(g, a, q) /\ g[Len(q)] = h[Len(FourByFour(q))]
<1> DEFINE X == {q[n] : n \in DOMAIN q}
           c == Chunked(q)
           r == FourByFour(q)
           K == Len(c)
           L == Len(q)
<1>1. q \in Seq(X) /\ L \in Nat
  BY LenProperties DEF IsList
<1>2. c \in Seq(Seq(X)) /\ CutsUp(c, q)
  <2> HIDE DEF X
  <2> QED BY <1>1, ChunkedCuts
<1>3. K \in Nat /\ DOMAIN c = 1..K /\ \A n \in 1..K : Len(c[n]) \in Nat
  <2> HIDE DEF X, c
  <2>1. \A n \in 1..K : c[n] \in Seq(X)
    BY <1>2, ElementOfSeq
  <2> QED BY <1>2, <2>1, LenProperties
<1>4. Len(r) = K /\ \A n \in 1..K : r[n] = Must(c[n])
  <2> HIDE DEF c, K
  <2>1. r = [n \in 1..K |-> Must(c[n])]
    BY <1>3 DEF FourByFour, Each, c
  <2>2. DOMAIN r = 1..K
    BY <2>1
  <2>3. r = [n \in DOMAIN r |-> r[n]]
    BY <2>1
  <2>4. Len(r) = K
    <3> HIDE DEF r
    <3> QED BY <1>3, <2>2, <2>3, NamedEach
  <2> QED BY <2>1, <2>4
<1> HIDE DEF X, c, r, K, L
<1>5. h[0] = a /\ \A n \in 1..K : h[n] = Thereafter(h[n - 1], r[n]) /\ Goes(h[n - 1], r[n])
  BY <1>4 DEF Follows, AllGo, r
<1>6. \A n \in 1..K : \E f : Stages(f, h[n - 1], c[n]) /\ h[n] = f[Len(c[n])]
  <2> TAKE n \in 1..K
  <2>1. r[n].tx = c[n] /\ r[n].mode = "must"
    BY <1>4 DEF Must
  <2>2. Run(h[n - 1], c[n]).ok /\ h[n] = Run(h[n - 1], c[n]).acct
    BY <1>5, <2>1 DEF Goes, Skips, Sends, Thereafter
  <2> QED BY <2>2, RunStages
<1> DEFINE F == [n \in 1..K |-> CHOOSE f : Stages(f, h[n - 1], c[n]) /\ h[n] = f[Len(c[n])]]
<1>7. \A n \in 1..K : Stages(F[n], h[n - 1], c[n]) /\ h[n] = F[n][Len(c[n])]
  BY <1>6
<1> HIDE DEF F
<1> DEFINE At(p) == (p + 3) \div 4
           g == [p \in 0..L |-> IF p = 0 THEN a ELSE F[At(p)][p - (4 * At(p) - 4)]]
<1>8. ASSUME NEW p \in 1..L
      PROVE  /\ At(p) \in 1..K /\ p - (4 * At(p) - 4) \in 1..Len(c[At(p)])
             /\ p = 4 * At(p) - 4 + (p - (4 * At(p) - 4))
  <2>1. PICK n \in 1..K : \E i \in 1..Len(c[n]) : p = 4 * n - 4 + i
    BY <1>2 DEF CutsUp, K, L
  <2>2. PICK i \in 1..Len(c[n]) : p = 4 * n - 4 + i
    BY <2>1
  <2>3. i \in 1..4
    BY <1>2, <1>3 DEF CutsUp, K
  <2>4. At(p) = n /\ p - (4 * n - 4) = i
    BY <1>1, <1>3, <2>2, <2>3
  <2> HIDE DEF At
  <2>5. At(p) \in 1..K /\ p - (4 * At(p) - 4) \in 1..Len(c[At(p)])
    BY <2>4
  <2>6. p = 4 * n - 4 + (p - (4 * n - 4))
    BY <2>2, <2>4
  <2> QED BY <2>4, <2>5, <2>6
<1>9. \A n \in 1..K : \A i \in 1..Len(c[n]) :
        /\ 4 * n - 4 + i \in 1..L /\ q[4 * n - 4 + i] = c[n][i] /\ i \in 1..4
        /\ At(4 * n - 4 + i) = n
  <2> TAKE n \in 1..K
  <2> TAKE i \in 1..Len(c[n])
  <2>1. 4 * n - 4 + i \in 1..L /\ q[4 * n - 4 + i] = c[n][i] /\ i \in 1..4
    BY <1>2, <1>3 DEF CutsUp, K, L
  <2> QED BY <1>3, <2>1
<1>10. g[0] = a /\ \A n \in 1..K : \A i \in 1..Len(c[n]) : g[4 * n - 4 + i] = F[n][i]
  <2>1. g[0] = a
    BY <1>1
  <2> HIDE DEF At
  <2>2. ASSUME NEW n \in 1..K, NEW i \in 1..Len(c[n]) PROVE g[4 * n - 4 + i] = F[n][i]
    <3> DEFINE p == 4 * n - 4 + i
    <3>1. p \in 1..L /\ p \in 0..L /\ p # 0 /\ At(p) = n /\ p - (4 * n - 4) = i
      BY <1>1, <1>3, <1>9
    <3> HIDE DEF p
    <3>2. g[p] = F[At(p)][p - (4 * At(p) - 4)]
      BY <3>1
    <3> QED BY <3>1, <3>2 DEF p
  <2> QED BY <2>1, <2>2
<1> HIDE DEF g
<1>11. \A n \in 1..K : 1 \in 1..Len(c[n])
  BY <1>2, <1>3 DEF CutsUp, K
<1>12. \A n \in 1..K : g[4 * n - 4] = h[n - 1]
  <2> TAKE n \in 1..K
  <2>1. CASE n = 1
    <3>1. 4 * n - 4 = 0 /\ n - 1 = 0
      BY <2>1
    <3>2. g[0] = h[0]
      BY <1>5, <1>10
    <3> QED BY <3>1, <3>2
  <2>2. CASE n # 1
    <3> DEFINE p == 4 * n - 4
    <3>1. p \in 1..L
      <4>1. 4 * n - 4 + 1 \in 1..L
        BY <1>9, <1>11
      <4> QED BY <1>1, <1>3, <2>2, <4>1
    <3>2. PICK k \in 1..K : \E i \in 1..Len(c[k]) : p = 4 * k - 4 + i
      <4> HIDE DEF p
      <4> QED BY <1>2, <3>1 DEF CutsUp, K, L
    <3>3. PICK i \in 1..Len(c[k]) : p = 4 * k - 4 + i
      BY <3>2
    <3>4. i \in 1..4
      BY <1>9
    <3>5. k = n - 1 /\ i = 4
      BY <1>3, <3>3, <3>4
    <3>6. Len(c[k]) = 4
      <4>1. Len(c[k]) \in Nat /\ Len(c[k]) <= 4
        BY <1>2, <1>3 DEF CutsUp, K
      <4>2. 4 <= Len(c[k])
        <5>1. i <= Len(c[k])
          BY <4>1
        <5> QED BY <3>5, <5>1
      <4> DEFINE z == Len(c[k])
      <4>3. z \in Nat /\ z <= 4 /\ 4 <= z
        BY <4>1, <4>2
      <4> HIDE DEF z
      <4>4. z = 4
        BY <4>3
      <4> QED BY <4>4 DEF z
    <3>7. g[p] = F[k][i]
      <4> HIDE DEF p
      <4> QED BY <1>10, <3>3
    <3> QED BY <1>7, <3>5, <3>6, <3>7
  <2> QED BY <2>1, <2>2
<1>13. \A p \in 1..L : Accepts(g[p - 1], q[p]) /\ g[p] = After(g[p - 1], q[p])
  <2> TAKE p \in 1..L
  <2>1. PICK n \in 1..K : \E i \in 1..Len(c[n]) : p = 4 * n - 4 + i
    BY <1>2 DEF CutsUp, K, L
  <2>2. PICK i \in 1..Len(c[n]) : p = 4 * n - 4 + i
    BY <2>1
  <2>3. g[p] = F[n][i] /\ q[p] = c[n][i]
    BY <1>9, <1>10, <2>2
  <2>4. g[p - 1] = F[n][i - 1]
    <3>1. CASE i = 1
      <4>1. p - 1 = 4 * n - 4 /\ i - 1 = 0
        BY <1>3, <2>2, <3>1
      <4>2. F[n][0] = h[n - 1]
        BY <1>7 DEF Stages
      <4> QED BY <1>12, <4>1, <4>2
    <3>2. CASE i # 1
      <4>1. i - 1 \in 1..Len(c[n]) /\ p - 1 = 4 * n - 4 + (i - 1)
        BY <1>3, <2>2, <3>2
      <4> QED BY <1>10, <4>1
    <3> QED BY <3>1, <3>2
  <2>5. Accepts(F[n][i - 1], c[n][i]) /\ F[n][i] = After(F[n][i - 1], c[n][i])
    BY <1>7 DEF Stages
  <2> QED BY <2>3, <2>4, <2>5
<1>14. g[L] = h[K]
  <2>1. CASE L = 0
    <3>1. K = 0
      <4>1. CASE K # 0
        <5>1. 1 \in 1..K
          BY <1>3, <4>1
        <5>2. 4 * 1 - 4 + 1 \in 1..L
          BY <1>9, <1>11, <5>1
        <5> QED BY <2>1, <5>2
      <4> QED BY <4>1
    <3> QED BY <1>5, <1>10, <2>1, <3>1
  <2>2. CASE L # 0
    <3>1. L \in 1..L
      BY <1>1, <2>2
    <3>2. PICK n \in 1..K : \E i \in 1..Len(c[n]) : L = 4 * n - 4 + i
      BY <1>2, <3>1 DEF CutsUp, K, L
    <3>3. PICK i \in 1..Len(c[n]) : L = 4 * n - 4 + i
      BY <3>2
    <3>4. i \in 1..4
      BY <1>9
    <3>5. K \in 1..K /\ 4 * K - 4 + 1 \in 1..L
      <4>1. K \in 1..K
        BY <1>3
      <4> QED BY <1>9, <1>11, <4>1
    <3>6. n = K
      BY <1>1, <1>3, <3>3, <3>4, <3>5
    <3>7. i = Len(c[n])
      <4>1. Len(c[n]) \in 1..Len(c[n])
        BY <1>3, <1>11
      <4>2. 4 * n - 4 + Len(c[n]) \in 1..L
        BY <1>9, <4>1
      <4> QED BY <1>1, <1>3, <3>3, <4>2
    <3> QED BY <1>7, <1>10, <3>3, <3>6, <3>7
  <2> QED BY <2>1, <2>2
<1>15. Stages(g, a, q)
  BY <1>10, <1>13 DEF Stages, L
<1> QED BY <1>4, <1>14, <1>15 DEF L, r

\* Instructions after instructions.
LEMMA StagesSplit ==
  ASSUME NEW q, NEW r, IsList(q), IsList(r), NEW a, NEW h, Stages(h, a, q \o r)
  PROVE  /\ Stages(h, a, q)
         /\ \E g : Stages(g, h[Len(q)], r) /\ g[Len(r)] = h[Len(q \o r)]
<1> DEFINE M == Len(q)
           N == Len(r)
           t == q \o r
           g == [k \in 0..N |-> h[M + k]]
<1>1. /\ M \in Nat /\ N \in Nat /\ Len(t) = M + N
      /\ \A k \in 1..M : t[k] = q[k]
      /\ \A k \in 1..N : t[M + k] = r[k]
  BY ConcatPlaces
<1>2. h[0] = a /\ \A k \in 1..(M + N) : Accepts(h[k - 1], t[k]) /\ h[k] = After(h[k - 1], t[k])
  BY <1>1 DEF Stages
<1>3. \A k \in 0..N : g[k] = h[M + k]
  OBVIOUS
<1> HIDE DEF M, N, t, g
<1>4. /\ \A k \in 1..M : k \in 1..(M + N)
      /\ \A k \in 1..N : /\ k \in 0..N /\ k - 1 \in 0..N /\ M + k \in 1..(M + N)
                         /\ (M + k) - 1 = M + (k - 1)
  BY <1>1
<1>5. Stages(h, a, q)
  BY <1>1, <1>2, <1>4 DEF Stages, M
<1>6. Stages(g, h[M], r)
  <2>1. g[0] = h[M]
    BY <1>1, <1>3
  <2>2. \A k \in 1..N : Accepts(g[k - 1], r[k]) /\ g[k] = After(g[k - 1], r[k])
    BY <1>1, <1>2, <1>3, <1>4
  <2> QED BY <2>1, <2>2 DEF Stages, N
<1>7. g[N] = h[Len(t)]
  BY <1>1, <1>3
<1> QED BY <1>5, <1>6, <1>7 DEF M, N, t

\* A source that is not given anything is there in the end if it was and nothing has
\* closed it.
LEMMA SourcesClosed ==
  ASSUME NEW a, NEW q, Len(q) \in Nat, NEW h, Stages(h, a, q), NEW key, key[1] = "source",
         \A ix \in Entries(q) : key \notin DOMAIN ix.init, Exists(h[Len(q)], key)
  PROVE  Exists(a, key) /\ \A ix \in Entries(q) : key \notin ix.close
<1> DEFINE N == Len(q)
<1>1. N \in Nat /\ h[0] = a
  BY DEF Stages
<1>2. ASSUME NEW k \in 1..N, ~Exists(h[k - 1], key) \/ key \in q[k].close
      PROVE  ~Exists(h[k], key)
  <2>1. Accepts(h[k - 1], q[k]) /\ h[k] = After(h[k - 1], q[k])
    BY DEF Stages
  <2>2. key \notin DOMAIN q[k].init
    BY DEF Entries
  <2>3. key \in DOMAIN After(h[k - 1], q[k]) =>
          key \in DOMAIN q[k].init \/ key \in DOMAIN h[k - 1] \ q[k].close
    BY AfterDomain, Addresses
  <2> QED BY <1>2, <2>1, <2>2, <2>3 DEF Exists
<1>3. Exists(h[N], key)
  OBVIOUS
<1> DEFINE G == {d \in 0..N : Exists(h[N - d], key)}
<1> HIDE DEF N
<1>4. 0 \in G
  BY <1>1, <1>3
<1>5. ASSUME NEW d \in 1..N, d - 1 \in G PROVE d \in G
  <2>1. N - d + 1 \in 1..N /\ (N - d + 1) - 1 = N - d /\ N - (d - 1) = N - d + 1 /\ d \in 0..N
    BY <1>1
  <2>2. Exists(h[N - d + 1], key)
    BY <1>5, <2>1
  <2>3. Exists(h[N - d], key)
    BY <1>2, <2>1, <2>2
  <2> QED BY <2>1, <2>3
<1> HIDE DEF G
<1>6. \A d \in 0..N : d \in G
  BY <1>1, <1>4, <1>5, Upwards
<1>7. \A k \in 0..N : Exists(h[k], key)
  <2> TAKE k \in 0..N
  <2>1. N - k \in 0..N /\ N - (N - k) = k
    BY <1>1
  <2> QED BY <1>6, <2>1 DEF G
<1>8. \A k \in 1..N : key \notin q[k].close
  <2> TAKE k \in 1..N
  <2>1. k \in 0..N
    BY <1>1
  <2> QED BY <1>2, <1>7, <2>1
<1>9. Exists(a, key)
  <2>1. 0 \in 0..N
    BY <1>1
  <2> QED BY <1>1, <1>7, <2>1
<1> QED BY <1>8, <1>9 DEF Entries, N

\* Where no strategy is created they stay the same, and none is revived.
LEMMA StrategiesStaged ==
  ASSUME NEW a, AccountsOK(a), Exists(a, VaultOf(Vault)), NEW q, Len(q) \in Nat,
         \A ix \in Entries(q) : ix.do # "create", NEW h, Stages(h, a, q)
  PROVE  /\ AccountsOK(h[Len(q)]) /\ Exists(h[Len(q)], VaultOf(Vault))
         /\ Count(h[Len(q)]) = Count(a)
         /\ \A s : Active(h[Len(q)], s) => Active(a, s)
<1> DEFINE N == Len(q)
           Good(b) == /\ AccountsOK(b) /\ Exists(b, VaultOf(Vault)) /\ Count(b) = Count(a)
                      /\ \A s : Active(b, s) => Active(a, s)
           G == {k \in 0..N : Good(h[k])}
<1>1. N \in Nat /\ h[0] = a
  BY DEF Stages
<1>2. \A k \in 1..N : q[k].do # "create" /\ Accepts(h[k - 1], q[k]) /\ h[k] = After(h[k - 1], q[k])
  BY DEF Stages, Entries
<1> HIDE DEF N
<1>3. 0 \in G
  BY <1>1
<1>4. ASSUME NEW b, Good(b), NEW ix, ix.do # "create", Accepts(b, ix)
      PROVE  Good(After(b, ix))
  <2>1. AccountsOK(b) /\ Exists(b, VaultOf(Vault)) /\ b[VaultOf(Vault)].count \in Nat
    BY <1>4 DEF AccountsOK
  <2>2. AccountsOK(After(b, ix))
    BY <1>4, <2>1, AccountsKept
  <2>3. /\ Exists(After(b, ix), VaultOf(Vault))
        /\ After(b, ix)[VaultOf(Vault)].count
             = b[VaultOf(Vault)].count + (IF ix.do = "create" /\ ix.vault = Vault THEN 1 ELSE 0)
    BY <1>4, <2>1, VaultAfter
  <2>4. Count(After(b, ix)) = Count(b)
    BY <1>4, <2>1, <2>3 DEF Count
  <2>5. \A s : Active(After(b, ix), s) => Active(b, s)
    <3> TAKE s
    <3> HAVE Active(After(b, ix), s)
    <3>1. Exists(After(b, ix), StrategyOf(s)) /\ After(b, ix)[StrategyOf(s)].active
      BY DEF Active
    <3>2. Exists(b, StrategyOf(s))
      BY <1>4, <2>1, <3>1, StrategyAfter
    <3> QED BY <1>4, <2>1, <3>1, <3>2, StrategyAfter DEF Active
  <2> QED BY <1>4, <2>2, <2>3, <2>4, <2>5
<1>5. ASSUME NEW k \in 1..N, k - 1 \in G PROVE k \in G
  <2>1. k \in 0..N /\ Good(h[k - 1])
    BY <1>1, <1>5
  <2> HIDE DEF Good
  <2>2. Good(h[k])
    BY <1>2, <1>4, <2>1
  <2> QED BY <2>1, <2>2
<1> HIDE DEF G
<1>6. \A k \in 0..N : k \in G
  BY <1>1, <1>3, <1>5, Upwards
<1>7. Good(h[N])
  <2>1. N \in 0..N
    BY <1>1
  <2> QED BY <1>6, <2>1 DEF G
<1> QED BY <1>7 DEF N

\* Instructions that neither create a strategy nor close a source: what sources
\* hold in the end they held before or were given.
Mild(q) ==
  /\ IsList(q)
  /\ \A ix \in Entries(q) : ix.do # "create" /\ \A key \in ix.close : key[1] # "source"

\* Steps of that kind change no strategy, and rows only by what they give.
LEMMA MildKeeps ==
  ASSUME NEW a, AccountsOK(a), Exists(a, VaultOf(Vault)), NEW q, Mild(q), NEW h, Stages(h, a, q)
  PROVE  LET b == h[Len(q)]
         IN  /\ AccountsOK(b) /\ Exists(b, VaultOf(Vault)) /\ Strategies(b) = Strategies(a)
             /\ \A s : Active(b, s) => Active(a, s)
             /\ \A key, row : key[1] = "source" =>
                  (Holds(b, key, row)
                     <=> Holds(a, key, row) \/ \E ix \in Entries(q) : Gives(ix, key, row))
<1> DEFINE b == h[Len(q)]
<1>1. Len(q) \in Nat
  BY LenProperties DEF Mild, IsList
<1>2. /\ AccountsOK(b) /\ Exists(b, VaultOf(Vault)) /\ Count(b) = Count(a)
      /\ \A s : Active(b, s) => Active(a, s)
  BY <1>1, StrategiesStaged DEF Mild
<1>3. ASSUME NEW key, NEW row, key[1] = "source"
      PROVE  Holds(b, key, row)
               <=> Holds(a, key, row) \/ \E ix \in Entries(q) : Gives(ix, key, row)
  <2>1. \A ix \in Entries(q) : key \notin ix.close
    BY <1>3 DEF Mild
  <2> QED BY <1>1, <1>3, <2>1, SourcesStaged
<1>4. Strategies(b) = Strategies(a)
  <2> HIDE DEF b
  <2> QED BY <1>2 DEF Strategies, StrategiesIn, Count
<1> QED BY <1>2, <1>3, <1>4

\* What each active strategy is given, joined: entry by entry.
LEMMA ForActiveEntries ==
  ASSUME NEW a, Exists(a, VaultOf(Vault)), Count(a) \in Nat, NEW q, DOMAIN q = DOMAIN ActiveOf(a),
         q = [k \in DOMAIN q |-> q[k]], \A k \in DOMAIN q : IsList(q[k])
  PROVE  /\ IsList(FlattenSeq(q))
         /\ \A x : x \in Entries(FlattenSeq(q)) <=> \E k \in DOMAIN q : x \in Entries(q[k])
         /\ \A k \in DOMAIN q : ActiveOf(a)[k] \in Strategies(a) /\ Active(a, ActiveOf(a)[k])
         /\ \A s \in Strategies(a) : Active(a, s) => \E k \in DOMAIN q : ActiveOf(a)[k] = s
<1> DEFINE actives == ActiveOf(a)
           N == Len(actives)
           S == {s \in Strategies(a) : Active(a, s)}
<1>1. /\ actives \in Seq(S)
      /\ \A s \in Strategies(a) : Active(a, s) => \E k \in 1..Len(actives) : actives[k] = s
  BY ActivesOnce
<1>2. N \in Nat /\ DOMAIN actives = 1..N
  <2> HIDE DEF actives, S
  <2> QED BY <1>1, LenProperties
<1>3. \A k \in 1..N : actives[k] \in S
  <2> HIDE DEF actives, S
  <2> QED BY <1>1, <1>2, ElementOfSeq
<1> HIDE DEF actives, N, S
<1>4. DOMAIN q = 1..N
  BY <1>2 DEF actives
<1>5. IsList(FlattenSeq(q)) /\ Entries(FlattenSeq(q)) = UNION {Entries(q[n]) : n \in 1..N}
  BY <1>2, <1>4, EntriesJoin
<1>6. \A x : x \in Entries(FlattenSeq(q)) <=> \E k \in DOMAIN q : x \in Entries(q[k])
  BY <1>4, <1>5
<1>7. \A k \in DOMAIN q : actives[k] \in Strategies(a) /\ Active(a, actives[k])
  BY <1>3, <1>4 DEF S
<1>8. \A s \in Strategies(a) : Active(a, s) => \E k \in DOMAIN q : actives[k] = s
  BY <1>1, <1>4 DEF N
<1> QED BY <1>5, <1>6, <1>7, <1>8 DEF actives

\* What a strategy is missing: a list, and nothing but sources of its own.
LEMMA MissingMild ==
  ASSUME NEW a, NEW s, NEW w, NEW account, Mild(account)
  PROVE  Mild(Missing(a, s, w, account))
<1> DEFINE pair == PairSlots(a, s)
           carrier == Carrier(s, w, pair[1])
           feed == Feed(s, w, pair[2], pair[1])
<1>1. \A slot, row : LET ix == AddValueSource(s, w, slot, row) IN ix.do # "create" /\ ix.close = {}
  BY DEF AddValueSource, OnStrategy, ByAdmin, Instruction
<1>2. carrier.do # "create" /\ carrier.close = {} /\ feed.do # "create" /\ feed.close = {}
  BY <1>1 DEF Carrier, Feed
<1> HIDE DEF pair, carrier, feed
<1>3. Mild(<<>>) /\ Mild(<<carrier>>) /\ Mild(<<feed>>)
  BY <1>2, EntriesFew DEF Mild
<1>4. \A q, r : Mild(q) /\ Mild(r) => Mild(q \o r)
  BY EntriesConcat DEF Mild
<1> DEFINE x == IF SourcesFor(a, s, {"balance"}) = {} THEN account \o <<carrier>> ELSE <<>>
           y == IF SourcesFor(a, s, {"price"}) = {} THEN <<feed>> ELSE <<>>
<1>5. Mild(x) /\ Mild(y)
  BY <1>3, <1>4
<1>6. Missing(a, s, w, account) = x \o y
  BY DEF Missing, x, y, pair, carrier, feed
<1> HIDE DEF x, y
<1> QED BY <1>4, <1>5, <1>6

\* With what it is missing a strategy has its pair.
LEMMA PairMade ==
  ASSUME NEW a, NEW b, AccountsOK(b), NEW s, NEW w, NEW account, Mild(account),
         \A slot, row : Holds(a, SourceOf(s, slot), row) => Holds(b, SourceOf(s, slot), row),
         \A ix \in Entries(Missing(a, s, w, account)) : \A slot, row :
           Gives(ix, SourceOf(s, slot), row) => Holds(b, SourceOf(s, slot), row)
  PROVE  HasPair(b, s)
<1> DEFINE pair == PairSlots(a, s)
           carrier == Carrier(s, w, pair[1])
           feed == Feed(s, w, pair[2], pair[1])
           x == IF SourcesFor(a, s, {"balance"}) = {} THEN account \o <<carrier>> ELSE <<>>
           y == IF SourcesFor(a, s, {"price"}) = {} THEN <<feed>> ELSE <<>>
<1>1. Entries(Missing(a, s, w, account)) = Entries(x) \cup Entries(y)
  <2>1. IsList(account) /\ IsList(<<carrier>>) /\ IsList(<<feed>>) /\ IsList(<<>>)
    BY EntriesFew DEF Mild
  <2>2. IsList(x) /\ IsList(y)
    BY <2>1, EntriesConcat
  <2>3. Missing(a, s, w, account) = x \o y
    BY DEF Missing
  <2> HIDE DEF x, y
  <2> QED BY <2>2, <2>3, EntriesConcat
<1>2. /\ SourcesFor(a, s, {"balance"}) = {} => carrier \in Entries(x)
      /\ SourcesFor(a, s, {"price"}) = {} => feed \in Entries(y)
  <2> HIDE DEF carrier, feed
  <2>1. IsList(account) /\ IsList(<<carrier>>) /\ Entries(<<carrier>>) = {carrier}
        /\ Entries(<<feed>>) = {feed}
    BY EntriesFew DEF Mild
  <2>2. Entries(account \o <<carrier>>) = Entries(account) \cup {carrier}
    BY <2>1, EntriesConcat
  <2> QED BY <2>1, <2>2
<1>3. \A slot, row : Gives(AddValueSource(s, w, slot, row), SourceOf(s, slot), row)
  BY DEF Gives, AddValueSource, OnStrategy, ByAdmin, Instruction, Row
<1>4. \A slot, row : Holds(b, SourceOf(s, slot), row) => slot \in SourceSlots(b, s) /\ SourceAt(b, s, slot) = row
  <2> TAKE slot, row
  <2> HAVE Holds(b, SourceOf(s, slot), row)
  <2>1. SourceOf(s, slot) \in DOMAIN b /\ b[SourceOf(s, slot)] = row
    BY DEF Holds, Exists
  <2>2. SourceOf(s, slot)[1] = "source" /\ SourceOf(s, slot)[2] = s
    BY DEF SourceOf
  <2>3. SourceOf(s, slot) \in PossibleRows(s)
    BY <2>1, <2>2 DEF AccountsOK, RowKinds
  <2>4. slot \in Slots
    BY <2>3, SourceSlotsPossible
  <2> QED BY <2>1, <2>4 DEF SourceSlots, SourceAt, Exists
<1>5. \A slot : \A kinds : \A row :
        Holds(b, SourceOf(s, slot), row) /\ row.of = WrappedSol /\ row.kind \in kinds
          => SourcesFor(b, s, kinds) # {}
  BY <1>4 DEF SourcesFor
<1>6. \A kinds : SourcesFor(a, s, kinds) # {} => SourcesFor(b, s, kinds) # {}
  <2> TAKE kinds
  <2> HAVE SourcesFor(a, s, kinds) # {}
  <2>1. PICK slot \in SourceSlots(a, s) :
          SourceAt(a, s, slot).of = WrappedSol /\ SourceAt(a, s, slot).kind \in kinds
    BY DEF SourcesFor
  <2>2. Holds(a, SourceOf(s, slot), SourceAt(a, s, slot))
    BY <2>1 DEF SourceSlots, SourceAt, Holds
  <2>3. Holds(b, SourceOf(s, slot), SourceAt(a, s, slot))
    BY <2>2
  <2> QED BY <1>5, <2>1, <2>3
<1>7. SourcesFor(b, s, {"balance"}) # {}
  <2>1. CASE SourcesFor(a, s, {"balance"}) = {}
    <3>1. Gives(carrier, SourceOf(s, pair[1]), Balance(WrappedSol, 0))
      BY <1>3 DEF Carrier
    <3>2. Holds(b, SourceOf(s, pair[1]), Balance(WrappedSol, 0))
      <4> HIDE DEF carrier, pair, x, y, feed
      <4> QED BY <1>1, <1>2, <2>1, <3>1
    <3>3. Balance(WrappedSol, 0).of = WrappedSol /\ Balance(WrappedSol, 0).kind = "balance"
      BY DEF Balance
    <3> QED BY <1>5, <3>2, <3>3
  <2> QED BY <1>6, <2>1
<1>8. SourcesFor(b, s, {"price"}) # {}
  <2>1. CASE SourcesFor(a, s, {"price"}) = {}
    <3> DEFINE row == Price(WrappedSol, pair[1])
    <3>1. Gives(feed, SourceOf(s, pair[2]), row)
      BY <1>3 DEF Feed
    <3>2. row.of = WrappedSol /\ row.kind = "price"
      BY DEF Price
    <3> HIDE DEF row
    <3>3. Holds(b, SourceOf(s, pair[2]), row)
      <4> HIDE DEF carrier, pair, x, y, feed
      <4> QED BY <1>1, <1>2, <2>1, <3>1
    <3> QED BY <1>5, <3>2, <3>3
  <2> QED BY <1>6, <2>1
<1> QED BY <1>7, <1>8 DEF HasPair

\* With what all active strategies are missing each of them has its pair.
LEMMA PairsMade ==
  ASSUME NEW a, Exists(a, VaultOf(Vault)), Count(a) \in Nat, NEW b, AccountsOK(b),
         Strategies(b) = Strategies(a), \A s : Active(b, s) => Active(a, s),
         NEW w, NEW q, NEW given, DOMAIN q = DOMAIN ActiveOf(a),
         q = [k \in DOMAIN q |-> q[k]],
         \A k \in DOMAIN q : Mild(given[k]) /\ q[k] = Missing(a, ActiveOf(a)[k], w, given[k]),
         \A key, row : key[1] = "source" =>
           (Holds(a, key, row) \/ (\E ix \in Entries(FlattenSeq(q)) : Gives(ix, key, row))
              => Holds(b, key, row))
  PROVE  \A s : EachActive(b, s) => HasPair(b, s)
<1> SUFFICES ASSUME NEW s, EachActive(b, s) PROVE HasPair(b, s)
  OBVIOUS
<1>1. s \in Strategies(a) /\ Active(a, s)
  BY DEF EachActive
<1>2. \A k \in DOMAIN q : IsList(q[k])
  BY MissingMild DEF Mild
<1>3. PICK k \in DOMAIN q : ActiveOf(a)[k] = s
  BY <1>1, <1>2, ForActiveEntries
<1>4. \A ix \in Entries(q[k]) : ix \in Entries(FlattenSeq(q))
  BY <1>2, ForActiveEntries
<1>5. q[k] = Missing(a, s, w, given[k]) /\ Mild(given[k])
  BY <1>3
<1>6. \A slot : SourceOf(s, slot)[1] = "source"
  BY DEF SourceOf
<1>7. \A slot, row : Holds(a, SourceOf(s, slot), row) => Holds(b, SourceOf(s, slot), row)
  BY <1>6
<1>8. \A ix \in Entries(Missing(a, s, w, given[k])) : \A slot, row :
        Gives(ix, SourceOf(s, slot), row) => Holds(b, SourceOf(s, slot), row)
  BY <1>4, <1>5, <1>6
<1> QED BY <1>5, <1>7, <1>8, PairMade

\* Instructions that are mild, joined.
LEMMA MildJoin ==
  ASSUME NEW a, Exists(a, VaultOf(Vault)), Count(a) \in Nat, NEW q, DOMAIN q = DOMAIN ActiveOf(a),
         q = [k \in DOMAIN q |-> q[k]], \A k \in DOMAIN q : Mild(q[k])
  PROVE  Mild(FlattenSeq(q))
BY ForActiveEntries DEF Mild

\* The script that gives every strategy its pair.
LEMMA BootstrapFulfils ==
  ASSUME NEW a, AcctOK(a), Exists(a, VaultOf(Vault)), NEW w
  PROVE  Effective("bootstrap", a, BootstrapSources(a, w))
<1> DEFINE q == [k \in DOMAIN ActiveOf(a) |-> Missing(a, ActiveOf(a)[k], w, <<>>)]
           given == [k \in DOMAIN ActiveOf(a) |-> <<>>]
           ixs == FlattenSeq(q)
           steps == BootstrapSources(a, w)
<1>1. steps = Each(One, ixs)
  BY DEF BootstrapSources, ForActive
<1>2. AccountsOK(a) /\ Count(a) \in Nat
  BY DEF AcctOK, AccountsOK, Count
<1>3. /\ DOMAIN q = DOMAIN ActiveOf(a) /\ q = [k \in DOMAIN q |-> q[k]]
      /\ \A k \in DOMAIN q : q[k] = Missing(a, ActiveOf(a)[k], w, given[k]) /\ given[k] = <<>>
  OBVIOUS
<1>4. Mild(<<>>)
  BY EntriesFew DEF Mild
<1> HIDE DEF q, ixs, steps, given
<1>5. \A k \in DOMAIN q : Mild(given[k]) /\ Mild(q[k])
  BY <1>3, <1>4, MissingMild
<1>6. Mild(ixs)
  BY <1>2, <1>3, <1>5, MildJoin DEF ixs
<1> SUFFICES ASSUME NEW h, Follows(h, a, steps), AllGo(h, steps)
             PROVE  Fulfilled("bootstrap", h[Len(steps)])
  BY DEF Effective, steps
<1>7. Len(steps) = Len(ixs) /\ Stages(h, a, ixs)
  BY <1>1, <1>6, OnesStages DEF Mild
<1> DEFINE b == h[Len(ixs)]
<1>8. /\ AccountsOK(b) /\ Strategies(b) = Strategies(a) /\ \A s : Active(b, s) => Active(a, s)
      /\ \A key, row : key[1] = "source" =>
           (Holds(b, key, row)
              <=> Holds(a, key, row) \/ \E ix \in Entries(ixs) : Gives(ix, key, row))
  BY <1>2, <1>6, <1>7, MildKeeps
<1> HIDE DEF b
<1>9. \A s : EachActive(b, s) => HasPair(b, s)
  <2>1. /\ Exists(a, VaultOf(Vault)) /\ Count(a) \in Nat /\ AccountsOK(b)
        /\ Strategies(b) = Strategies(a) /\ \A s : Active(b, s) => Active(a, s)
    BY <1>2, <1>8
  <2>2. /\ DOMAIN q = DOMAIN ActiveOf(a) /\ q = [k \in DOMAIN q |-> q[k]]
        /\ \A k \in DOMAIN q : Mild(given[k]) /\ q[k] = Missing(a, ActiveOf(a)[k], w, given[k])
    BY <1>3, <1>5
  <2>3. \A key, row : key[1] = "source" =>
          (Holds(a, key, row) \/ (\E ix \in Entries(FlattenSeq(q)) : Gives(ix, key, row))
             => Holds(b, key, row))
    BY <1>8 DEF ixs
  <2> QED BY ONLY <2>1, <2>2, <2>3, PairsMade
<1> QED BY <1>7, <1>9 DEF Fulfilled, b

\* The one that does so in the course of a flow.
LEMMA FlowFulfils ==
  ASSUME NEW a, AcctOK(a), Exists(a, VaultOf(Vault)), NEW w
  PROVE  Effective("flow", a, FlowSteps(a, w))
<1> DEFINE account(k) == <<CreateTokenAccount(ActiveOf(a)[k], WrappedSol)>>
           listing == IF WrappedSol \in VaultMints(a) THEN <<>>
                      ELSE <<AddVaultAllowedToken(Vault, w, WrappedSol)>>
           given == [k \in DOMAIN ActiveOf(a) |-> account(k)]
           q == [k \in DOMAIN ActiveOf(a) |-> Missing(a, ActiveOf(a)[k], w, account(k))]
           settle == [k \in DOMAIN ActiveOf(a) |->
                        <<Settle(ActiveOf(a)[k], w, ToSet(PairSlots(a, ActiveOf(a)[k])))>>]
           first == listing \o FlattenSeq(q)
           second == FlattenSeq(given)
           third == FlattenSeq(settle)
           steps == FlowSteps(a, w)
<1>1. steps = FourByFour(first) \o Each(One, second) \o Each(One, third)
  BY DEF FlowSteps, ForActive, TokenAccounts
<1>2. AccountsOK(a) /\ Count(a) \in Nat
  BY DEF AcctOK, AccountsOK, Count
<1>3. /\ DOMAIN q = DOMAIN ActiveOf(a) /\ q = [k \in DOMAIN q |-> q[k]]
      /\ DOMAIN given = DOMAIN ActiveOf(a) /\ given = [k \in DOMAIN given |-> given[k]]
      /\ DOMAIN settle = DOMAIN ActiveOf(a) /\ settle = [k \in DOMAIN settle |-> settle[k]]
      /\ \A k \in DOMAIN q : q[k] = Missing(a, ActiveOf(a)[k], w, given[k])
  OBVIOUS
<1>4. /\ \A s, m : LET ix == CreateTokenAccount(s, m) IN ix.do # "create" /\ ix.close = {}
      /\ \A s, slots : LET ix == Settle(s, w, slots) IN ix.do # "create" /\ ix.close = {}
      /\ LET ix == AddVaultAllowedToken(Vault, w, WrappedSol) IN ix.do # "create" /\ ix.close = {}
  BY DEF CreateTokenAccount, Settle, OnStrategy, AddVaultAllowedToken, ByAdmin, Instruction
<1>5. Mild(<<>>) /\ \A ix : ix.do # "create" /\ ix.close = {} => Mild(<<ix>>)
  BY EntriesFew DEF Mild
<1>6. /\ \A k \in DOMAIN ActiveOf(a) : Mild(given[k]) /\ Mild(settle[k])
      /\ Mild(listing)
  BY <1>4, <1>5
<1> HIDE DEF q, given, settle, listing
<1>7. \A k \in DOMAIN q : Mild(given[k]) /\ Mild(q[k])
  BY <1>3, <1>6, MissingMild
<1>8. Mild(FlattenSeq(q)) /\ Mild(second) /\ Mild(third)
  BY <1>2, <1>3, <1>6, <1>7, MildJoin
<1>9. Mild(first) /\ \A ix \in Entries(FlattenSeq(q)) : ix \in Entries(first)
  BY <1>6, <1>8, EntriesConcat DEF Mild
<1> HIDE DEF first, second, third, steps
<1> SUFFICES ASSUME NEW h, Follows(h, a, steps), AllGo(h, steps)
             PROVE  Fulfilled("flow", h[Len(steps)])
  BY DEF Effective, steps
<1>10. IsList(FourByFour(first)) /\ IsList(Each(One, second)) /\ IsList(Each(One, third))
  BY <1>8, <1>9, EachLists DEF Mild
<1> DEFINE x == FourByFour(first)
           y == Each(One, second)
           z == Each(One, third)
<1> HIDE DEF x, y, z
<1> DEFINE xy == x \o y
<1>11. /\ IsList(x) /\ IsList(y) /\ IsList(z) /\ IsList(xy)
       /\ steps = xy \o z
  BY <1>1, <1>10, EntriesConcat DEF x, y, z
<1>12. /\ Follows(h, a, xy)
       /\ \E g : Follows(g, h[Len(xy)], z) /\ g[Len(z)] = h[Len(steps)] /\ AllGo(h, xy) /\ AllGo(g, z)
  <2> HIDE DEF xy
  <2>1. Follows(h, a, xy \o z) /\ AllGo(h, xy \o z) /\ h[Len(xy \o z)] = h[Len(steps)]
    BY <1>11
  <2>2. /\ Follows(h, a, xy)
        /\ \E g : /\ Follows(g, h[Len(xy)], z) /\ g[Len(z)] = h[Len(xy \o z)]
                  /\ AllGo(h, xy \o z) <=> AllGo(h, xy) /\ AllGo(g, z)
    BY ONLY <1>11, <2>1, FollowsConcat
  <2> QED BY <2>1, <2>2
<1>13. PICK g3 : Follows(g3, h[Len(xy)], z) /\ g3[Len(z)] = h[Len(steps)] /\ AllGo(g3, z)
  BY <1>12
<1>14. /\ Follows(h, a, x)
       /\ \E g : Follows(g, h[Len(x)], y) /\ g[Len(y)] = h[Len(xy)] /\ AllGo(h, x) /\ AllGo(g, y)
  <2>1. Follows(h, a, x \o y) /\ AllGo(h, x \o y)
    BY <1>12
  <2>2. /\ Follows(h, a, x)
        /\ \E g : /\ Follows(g, h[Len(x)], y) /\ g[Len(y)] = h[Len(x \o y)]
                  /\ AllGo(h, x \o y) <=> AllGo(h, x) /\ AllGo(g, y)
    BY ONLY <1>11, <2>1, FollowsConcat
  <2> QED BY <2>1, <2>2
<1>15. PICK g2 : /\ Follows(g2, h[Len(x)], y) /\ g2[Len(y)] = h[Len(xy)]
                 /\ AllGo(h, x) /\ AllGo(g2, y)
  BY <1>14
<1> DEFINE b1 == h[Len(x)]
           b2 == h[Len(xy)]
           b == h[Len(steps)]
<1>16. PICK g1 : Stages(g1, a, first) /\ g1[Len(first)] = b1
  BY <1>9, <1>14, <1>15, FoursStages DEF Mild, x
<1>17. Stages(g2, b1, second) /\ g2[Len(second)] = b2
  BY <1>8, <1>15, OnesStages DEF Mild, y
<1>18. Stages(g3, b2, third) /\ g3[Len(third)] = b
  BY <1>8, <1>13, OnesStages DEF Mild, z
<1> HIDE DEF b1, b2, b
<1>19. /\ AccountsOK(b1) /\ Exists(b1, VaultOf(Vault)) /\ Strategies(b1) = Strategies(a)
       /\ \A s : Active(b1, s) => Active(a, s)
       /\ \A key, row : key[1] = "source" =>
            (Holds(b1, key, row)
               <=> Holds(a, key, row) \/ \E ix \in Entries(first) : Gives(ix, key, row))
  BY <1>2, <1>9, <1>16, MildKeeps
<1>20. /\ AccountsOK(b2) /\ Exists(b2, VaultOf(Vault)) /\ Strategies(b2) = Strategies(b1)
       /\ \A s : Active(b2, s) => Active(b1, s)
       /\ \A key, row : key[1] = "source" /\ Holds(b1, key, row) => Holds(b2, key, row)
  BY <1>8, <1>17, <1>19, MildKeeps
<1>21. /\ AccountsOK(b) /\ Strategies(b) = Strategies(b2)
       /\ \A s : Active(b, s) => Active(b2, s)
       /\ \A key, row : key[1] = "source" /\ Holds(b2, key, row) => Holds(b, key, row)
  BY <1>8, <1>18, <1>20, MildKeeps
<1>22. \A s : EachActive(b, s) => HasPair(b, s)
  <2>1. /\ Exists(a, VaultOf(Vault)) /\ Count(a) \in Nat /\ AccountsOK(b)
        /\ Strategies(b) = Strategies(a) /\ \A s : Active(b, s) => Active(a, s)
    BY <1>2, <1>19, <1>20, <1>21
  <2>2. /\ DOMAIN q = DOMAIN ActiveOf(a) /\ q = [k \in DOMAIN q |-> q[k]]
        /\ \A k \in DOMAIN q : Mild(given[k]) /\ q[k] = Missing(a, ActiveOf(a)[k], w, given[k])
    BY <1>3, <1>7
  <2>3. \A key, row : key[1] = "source" =>
          (Holds(a, key, row) \/ (\E ix \in Entries(FlattenSeq(q)) : Gives(ix, key, row))
             => Holds(b, key, row))
    BY <1>9, <1>19, <1>20, <1>21
  <2> QED BY ONLY <2>1, <2>2, <2>3, PairsMade
<1> QED BY <1>22 DEF Fulfilled, b

\* All sources of a strategy are removed.
LEMMA TearsDown ==
  ASSUME NEW a, NEW s, NEW w
  PROVE  /\ IsList(TearDown(a, s, w))
         /\ \A ix \in Entries(TearDown(a, s, w)) : DOMAIN ix.init = {} /\ ix.do # "create"
         /\ \A slot \in SourceSlots(a, s) :
              \E ix \in Entries(TearDown(a, s, w)) : SourceOf(s, slot) \in ix.close
<1> DEFINE sources == {SourceOf(s, slot) : slot \in SourceSlots(a, s)}
           rows == InOrder(s, sources)
           N == Len(rows)
           down == TearDown(a, s, w)
<1>1. rows \in Seq(sources \cap PossibleRows(s))
      /\ \A key \in sources \cap PossibleRows(s) : \E n \in 1..Len(rows) : rows[n] = key
  <2> HIDE DEF sources
  <2> QED BY InOrderLists
<1>2. N \in Nat /\ DOMAIN rows = 1..N
  <2> HIDE DEF rows, sources
  <2> QED BY <1>1, LenProperties
<1>3. down = [n \in 1..N |-> CloseRow(s, w, rows[n])]
  BY <1>2 DEF TearDown
<1>4. \A key : LET ix == CloseRow(s, w, key)
               IN  DOMAIN ix.init = {} /\ ix.do # "create" /\ ix.close = {key}
  BY DEF CloseRow, ByAdmin, Instruction, Empty
<1> HIDE DEF rows, N, down
<1>5. /\ DOMAIN down = 1..N /\ down = [n \in DOMAIN down |-> down[n]]
      /\ \A n \in 1..N : down[n] = CloseRow(s, w, rows[n])
  BY <1>3
<1>6. IsList(down) /\ Len(down) = N
  BY <1>2, <1>5, NamedEach
<1>7. \A ix \in Entries(down) : DOMAIN ix.init = {} /\ ix.do # "create"
  BY <1>4, <1>5, <1>6 DEF Entries
<1>8. ASSUME NEW slot \in SourceSlots(a, s)
      PROVE  \E ix \in Entries(down) : SourceOf(s, slot) \in ix.close
  <2>1. SourceOf(s, slot) \in sources \cap PossibleRows(s)
    BY CatalogueRows DEF SourceSlots
  <2>2. PICK n \in 1..N : rows[n] = SourceOf(s, slot)
    BY <1>1, <2>1 DEF N
  <2>3. down[n] \in Entries(down) /\ down[n].close = {SourceOf(s, slot)}
    BY <1>4, <1>5, <1>6, <2>2 DEF Entries
  <2> QED BY <2>3
<1> QED BY <1>6, <1>7, <1>8 DEF down

\* A strategy with one pair in the first two slots, and nothing else.
Paired(slot, row) ==
  \/ slot = 0 /\ row = Balance(WrappedSol, 0)
  \/ slot = 1 /\ row = Price(WrappedSol, 0)

\* Such a strategy has been repaired.
LEMMA PairRepaired ==
  ASSUME NEW b, AccountsOK(b), NEW s,
         \A slot, row : Holds(b, SourceOf(s, slot), row) <=> Paired(slot, row)
  PROVE  Repaired(b, s)
<1>1. \A slot : Exists(b, SourceOf(s, slot)) <=> slot \in {0, 1}
  <2> TAKE slot
  <2>1. ASSUME Exists(b, SourceOf(s, slot)) PROVE slot \in {0, 1}
    <3>1. Holds(b, SourceOf(s, slot), b[SourceOf(s, slot)])
      BY <2>1 DEF Holds
    <3> QED BY <3>1 DEF Paired
  <2>2. ASSUME slot \in {0, 1} PROVE Exists(b, SourceOf(s, slot))
    <3>1. \E row : Paired(slot, row)
      BY <2>2 DEF Paired
    <3> QED BY <3>1 DEF Holds
  <2> QED BY <2>1, <2>2
<1>2. {0, 1} \subseteq Slots
  <2> SUFFICES ASSUME NEW slot \in {0, 1} PROVE slot \in Slots
    OBVIOUS
  <2>1. SourceOf(s, slot) \in DOMAIN b /\ SourceOf(s, slot)[1] = "source"
        /\ SourceOf(s, slot)[2] = s
    BY <1>1 DEF Exists, SourceOf
  <2>2. SourceOf(s, slot) \in PossibleRows(s)
    BY <2>1 DEF AccountsOK, RowKinds
  <2> QED BY <2>2, SourceSlotsPossible
<1>3. SourceSlots(b, s) = {0, 1}
  BY <1>1, <1>2 DEF SourceSlots
<1>4. SourceAt(b, s, 0) = Balance(WrappedSol, 0) /\ SourceAt(b, s, 1) = Price(WrappedSol, 0)
  <2>1. Paired(0, Balance(WrappedSol, 0)) /\ Paired(1, Price(WrappedSol, 0))
    BY DEF Paired
  <2> QED BY <2>1 DEF Holds, SourceAt
<1>5. /\ Balance(WrappedSol, 0).kind = "balance" /\ Balance(WrappedSol, 0).of = WrappedSol
      /\ ~Balance(WrappedSol, 0).counts
      /\ Price(WrappedSol, 0).kind = "price" /\ Price(WrappedSol, 0).pair = 0
  <2>1. ~(0 > 0)
    OBVIOUS
  <2> DEFINE z == 0 > 0
  <2>2. Balance(WrappedSol, 0) = [kind |-> "balance", of |-> WrappedSol, pair |-> 0, counts |-> z]
    BY DEF Balance
  <2>3. z = FALSE
    BY <2>1
  <2> HIDE DEF z
  <2>4. Balance(WrappedSol, 0)
          = [kind |-> "balance", of |-> WrappedSol, pair |-> 0, counts |-> FALSE]
    BY <2>2, <2>3
  <2> QED BY <2>4 DEF Price
<1> DEFINE counted(slot) ==
             LET row == SourceAt(b, s, slot)
             IN  \/ row.kind = "balance" /\ row.of = WrappedSol /\ row.counts
                 \/ /\ row.kind = "price" /\ Exists(b, SourceOf(s, row.pair))
                    /\ SourceAt(b, s, row.pair).of = WrappedSol
<1>6. ~counted(0) /\ counted(1)
  BY <1>1, <1>4, <1>5
<1>7. TimesCounted(b, s, WrappedSol) = Cardinality({slot \in SourceSlots(b, s) : counted(slot)})
  BY DEF TimesCounted
<1> HIDE DEF counted
<1>8. {slot \in SourceSlots(b, s) : counted(slot)} = {1}
  BY <1>3, <1>6
<1>9. TimesCounted(b, s, WrappedSol) = 1
  BY <1>7, <1>8, FS_Singleton
<1> QED BY <1>3, <1>9 DEF Repaired

\* The pair the repair gives a strategy.
LEMMA PairGiven ==
  ASSUME NEW s, NEW w, NEW q,
         q = <<CreateTokenAccount(s, WrappedSol), Carrier(s, w, 0), Feed(s, w, 1, 0)>>
  PROVE  /\ Mild(q)
         /\ \A u, slot, row : (\E ix \in Entries(q) : Gives(ix, SourceOf(u, slot), row))
                                <=> u = s /\ Paired(slot, row)
<1> DEFINE x == CreateTokenAccount(s, WrappedSol)
           y == Carrier(s, w, 0)
           z == Feed(s, w, 1, 0)
<1>1. x.do # "create" /\ x.close = {} /\ DOMAIN x.init = {}
  BY DEF CreateTokenAccount, Instruction, Empty
<1>2. \A slot, row : LET ix == AddValueSource(s, w, slot, row)
                     IN  /\ ix.do # "create" /\ ix.close = {}
                         /\ ix.init = Row(SourceOf(s, slot), row)
  BY DEF AddValueSource, OnStrategy, ByAdmin, Instruction
<1>3. /\ y.do # "create" /\ y.close = {} /\ y.init = Row(SourceOf(s, 0), Balance(WrappedSol, 0))
      /\ z.do # "create" /\ z.close = {} /\ z.init = Row(SourceOf(s, 1), Price(WrappedSol, 0))
  BY <1>2 DEF Carrier, Feed
<1>4. q = <<x>> \o <<y, z>>
  BY PairJoined
<1> HIDE DEF x, y, z
<1>5. IsList(<<x>>) /\ Entries(<<x>>) = {x} /\ IsList(<<y, z>>) /\ Entries(<<y, z>>) = {y, z}
  BY EntriesFew
<1>6. IsList(q) /\ Entries(q) = {x, y, z}
  <2> DEFINE p == <<x>>
             r == <<y, z>>
  <2>1. IsList(p) /\ Entries(p) = {x} /\ IsList(r) /\ Entries(r) = {y, z} /\ q = p \o r
    BY <1>4, <1>5
  <2> HIDE DEF p, r
  <2>2. IsList(p \o r) /\ Entries(p \o r) = Entries(p) \cup Entries(r)
    BY ONLY <2>1, EntriesConcat
  <2> QED BY <2>1, <2>2
<1>7. Mild(q)
  BY <1>1, <1>3, <1>6 DEF Mild
<1>8. \A ix, key, row, k, r :
        ix.init = Row(key, row) => (Gives(ix, k, r) <=> k = key /\ r = row)
  BY DEF Row, Gives
<1>9. \A u, v, slot, k : SourceOf(u, slot) = SourceOf(v, k) <=> u = v /\ slot = k
  BY DEF SourceOf
<1>10. ASSUME NEW u, NEW slot, NEW row
       PROVE  (\E ix \in Entries(q) : Gives(ix, SourceOf(u, slot), row))
                <=> u = s /\ Paired(slot, row)
  <2>1. ~Gives(x, SourceOf(u, slot), row)
    BY <1>1 DEF Gives
  <2>2. Gives(y, SourceOf(u, slot), row) <=> u = s /\ slot = 0 /\ row = Balance(WrappedSol, 0)
    <3>1. Gives(y, SourceOf(u, slot), row)
            <=> SourceOf(u, slot) = SourceOf(s, 0) /\ row = Balance(WrappedSol, 0)
      BY <1>3, <1>8
    <3> QED BY <1>9, <3>1
  <2>3. Gives(z, SourceOf(u, slot), row) <=> u = s /\ slot = 1 /\ row = Price(WrappedSol, 0)
    <3>1. Gives(z, SourceOf(u, slot), row)
            <=> SourceOf(u, slot) = SourceOf(s, 1) /\ row = Price(WrappedSol, 0)
      BY <1>3, <1>8
    <3> QED BY <1>9, <3>1
  <2> QED BY <1>6, <2>1, <2>2, <2>3 DEF Paired
<1> QED BY <1>7, <1>10

\* The repair: sources are removed, the pair is added, it is settled.
LEMMA RepairFulfils ==
  ASSUME NEW a, AcctOK(a), Exists(a, VaultOf(Vault)), NEW w
  PROVE  Effective("repair", a, RepairSources(a, w))
<1> DEFINE down == [k \in DOMAIN ActiveOf(a) |-> TearDown(a, ActiveOf(a)[k], w)]
           pair == [k \in DOMAIN ActiveOf(a) |->
                      LET s == ActiveOf(a)[k]
                      IN  <<CreateTokenAccount(s, WrappedSol), Carrier(s, w, 0), Feed(s, w, 1, 0)>>]
           settle == [k \in DOMAIN ActiveOf(a) |-> <<Settle(ActiveOf(a)[k], w, {0, 1})>>]
           first == FlattenSeq(down)
           second == FlattenSeq(pair)
           third == FlattenSeq(settle)
           steps == RepairSources(a, w)
<1>1. steps = FourByFour(first \o second \o third)
  BY DEF RepairSources, ForActive
<1>2. AccountsOK(a) /\ Count(a) \in Nat
  BY DEF AcctOK, AccountsOK, Count
<1>3. /\ DOMAIN down = DOMAIN ActiveOf(a) /\ down = [k \in DOMAIN down |-> down[k]]
      /\ DOMAIN pair = DOMAIN ActiveOf(a) /\ pair = [k \in DOMAIN pair |-> pair[k]]
      /\ DOMAIN settle = DOMAIN ActiveOf(a) /\ settle = [k \in DOMAIN settle |-> settle[k]]
      /\ \A k \in DOMAIN ActiveOf(a) :
           /\ down[k] = TearDown(a, ActiveOf(a)[k], w)
           /\ pair[k] = <<CreateTokenAccount(ActiveOf(a)[k], WrappedSol),
                          Carrier(ActiveOf(a)[k], w, 0), Feed(ActiveOf(a)[k], w, 1, 0)>>
           /\ settle[k] = <<Settle(ActiveOf(a)[k], w, {0, 1})>>
  OBVIOUS
<1> HIDE DEF down, pair, settle
<1>4. \A k \in DOMAIN down :
        /\ IsList(down[k])
        /\ \A ix \in Entries(down[k]) : DOMAIN ix.init = {} /\ ix.do # "create"
        /\ \A slot \in SourceSlots(a, ActiveOf(a)[k]) :
             \E ix \in Entries(down[k]) : SourceOf(ActiveOf(a)[k], slot) \in ix.close
  BY <1>3, TearsDown
<1>5. \A k \in DOMAIN pair :
        /\ Mild(pair[k])
        /\ \A u, slot, row : (\E ix \in Entries(pair[k]) : Gives(ix, SourceOf(u, slot), row))
                               <=> u = ActiveOf(a)[k] /\ Paired(slot, row)
  <2> TAKE k \in DOMAIN pair
  <2> DEFINE s == ActiveOf(a)[k]
             q == pair[k]
  <2>1. q = <<CreateTokenAccount(s, WrappedSol), Carrier(s, w, 0), Feed(s, w, 1, 0)>>
    BY <1>3
  <2> HIDE DEF s, q
  <2>2. /\ Mild(q)
        /\ \A u, slot, row : (\E ix \in Entries(q) : Gives(ix, SourceOf(u, slot), row))
                               <=> u = s /\ Paired(slot, row)
    BY <2>1, PairGiven
  <2> QED BY <2>2 DEF s, q
<1>6. \A k \in DOMAIN settle :
        Mild(settle[k]) /\ \A ix \in Entries(settle[k]) : DOMAIN ix.init = {}
  <2> TAKE k \in DOMAIN settle
  <2> DEFINE ix == Settle(ActiveOf(a)[k], w, {0, 1})
  <2>1. ix.do # "create" /\ ix.close = {} /\ DOMAIN ix.init = {}
    BY DEF Settle, OnStrategy, ByAdmin, Instruction, Empty
  <2>2. settle[k] = <<ix>>
    BY <1>3
  <2> HIDE DEF ix
  <2>3. IsList(settle[k]) /\ Entries(settle[k]) = {ix}
    BY <2>2, EntriesFew
  <2> QED BY <2>1, <2>3 DEF Mild
<1>7. /\ IsList(first) /\ \A x : x \in Entries(first) <=> \E k \in DOMAIN down : x \in Entries(down[k])
      /\ \A s \in Strategies(a) : Active(a, s) => \E k \in DOMAIN down : ActiveOf(a)[k] = s
  BY <1>2, <1>3, <1>4, ForActiveEntries
<1>8. /\ Mild(second)
      /\ \A x : x \in Entries(second) <=> \E k \in DOMAIN pair : x \in Entries(pair[k])
  BY <1>2, <1>3, <1>5, ForActiveEntries, MildJoin DEF Mild
<1>9. /\ Mild(third)
      /\ \A x : x \in Entries(third) <=> \E k \in DOMAIN settle : x \in Entries(settle[k])
  BY <1>2, <1>3, <1>6, ForActiveEntries, MildJoin DEF Mild
<1> HIDE DEF first, second, third, steps
<1> SUFFICES ASSUME NEW h, Follows(h, a, steps), AllGo(h, steps)
             PROVE  Fulfilled("repair", h[Len(steps)])
  BY DEF Effective, steps
<1> DEFINE fs == first \o second
           all == fs \o third
<1>10. IsList(second) /\ IsList(third) /\ IsList(fs) /\ IsList(all)
  BY <1>7, <1>8, <1>9, EntriesConcat DEF Mild
<1> HIDE DEF fs
<1>11. \E g : Stages(g, a, all) /\ g[Len(all)] = h[Len(steps)]
  <2> HIDE DEF all
  <2>1. steps = FourByFour(all)
    BY <1>1 DEF all, fs
  <2> QED BY <1>10, <2>1, FoursStages
<1>12. PICK g : Stages(g, a, all) /\ g[Len(all)] = h[Len(steps)]
  BY <1>11
<1>13. Stages(g, a, fs) /\ \E f : Stages(f, g[Len(fs)], third) /\ f[Len(third)] = g[Len(all)]
  BY <1>10, <1>12, StagesSplit
<1>14. PICK g3 : Stages(g3, g[Len(fs)], third) /\ g3[Len(third)] = g[Len(all)]
  BY <1>13
<1>15. Stages(g, a, first) /\ \E f : Stages(f, g[Len(first)], second) /\ f[Len(second)] = g[Len(fs)]
  BY <1>7, <1>10, <1>13, StagesSplit DEF fs
<1>16. PICK g2 : Stages(g2, g[Len(first)], second) /\ g2[Len(second)] = g[Len(fs)]
  BY <1>15
<1> DEFINE b1 == g[Len(first)]
           b2 == g[Len(fs)]
           b == h[Len(steps)]
<1>17. Stages(g2, b1, second) /\ g2[Len(second)] = b2 /\ Stages(g3, b2, third) /\ g3[Len(third)] = b
  BY <1>12, <1>14, <1>16
<1>18. Len(first) \in Nat
  BY <1>7, LenProperties DEF IsList
<1>19. /\ AccountsOK(b1) /\ Exists(b1, VaultOf(Vault)) /\ Count(b1) = Count(a)
       /\ \A s : Active(b1, s) => Active(a, s)
  <2>1. \A ix \in Entries(first) : ix.do # "create"
    BY <1>4, <1>7
  <2> QED BY <1>2, <1>15, <1>18, <2>1, StrategiesStaged
<1>20. Strategies(b1) = Strategies(a)
  <2> HIDE DEF b1
  <2> QED BY <1>19 DEF Strategies, StrategiesIn, Count
<1>21. ASSUME NEW s \in Strategies(a), Active(a, s), NEW slot
       PROVE  ~Exists(b1, SourceOf(s, slot))
  <2> SUFFICES ASSUME Exists(b1, SourceOf(s, slot)) PROVE FALSE
    OBVIOUS
  <2> DEFINE key == SourceOf(s, slot)
  <2>1. key[1] = "source" /\ key[2] = s
    BY DEF SourceOf
  <2>2. \A ix \in Entries(first) : key \notin DOMAIN ix.init
    BY <1>4, <1>7
  <2>3. Exists(a, key) /\ \A ix \in Entries(first) : key \notin ix.close
    <3> HIDE DEF key
    <3>1. Exists(g[Len(first)], key)
      BY DEF key
    <3> QED BY <1>15, <1>18, <2>1, <2>2, <3>1, SourcesClosed
  <2>4. slot \in SourceSlots(a, s)
    <3>1. key \in PossibleRows(s)
      BY <1>2, <2>1, <2>3 DEF AccountsOK, RowKinds, Exists
    <3>2. slot \in Slots
      BY <3>1, SourceSlotsPossible
    <3> QED BY <2>3, <3>2 DEF SourceSlots
  <2>5. PICK k \in DOMAIN down : ActiveOf(a)[k] = s
    BY <1>7, <1>21
  <2>6. \E ix \in Entries(down[k]) : key \in ix.close
    BY <1>4, <2>4, <2>5
  <2> QED BY <1>7, <2>3, <2>6
<1> HIDE DEF b1, b2, b
<1>22. /\ AccountsOK(b2) /\ Exists(b2, VaultOf(Vault)) /\ Strategies(b2) = Strategies(b1)
       /\ \A s : Active(b2, s) => Active(b1, s)
       /\ \A key, row : key[1] = "source" =>
            (Holds(b2, key, row)
               <=> Holds(b1, key, row) \/ \E ix \in Entries(second) : Gives(ix, key, row))
  BY <1>8, <1>17, <1>19, MildKeeps
<1>23. /\ AccountsOK(b) /\ Strategies(b) = Strategies(b2)
       /\ \A s : Active(b, s) => Active(b2, s)
       /\ \A key, row : key[1] = "source" =>
            (Holds(b, key, row)
               <=> Holds(b2, key, row) \/ \E ix \in Entries(third) : Gives(ix, key, row))
  BY <1>9, <1>17, <1>22, MildKeeps
<1>24. \A ix \in Entries(third) : \A key, row : ~Gives(ix, key, row)
  BY <1>6, <1>9 DEF Gives
<1>25. ASSUME NEW s, EachActive(b, s) PROVE Repaired(b, s)
  <2>1. s \in Strategies(a) /\ Active(a, s)
    BY <1>19, <1>20, <1>22, <1>23, <1>25 DEF EachActive
  <2>2. \A slot : SourceOf(s, slot)[1] = "source"
    BY DEF SourceOf
  <2>3. \A slot, row : ~Holds(b1, SourceOf(s, slot), row)
    BY <1>21, <2>1 DEF Holds
  <2>4. \A slot, row : (\E ix \in Entries(second) : Gives(ix, SourceOf(s, slot), row))
                         <=> Paired(slot, row)
    <3> TAKE slot, row
    <3>1. PICK k \in DOMAIN pair : ActiveOf(a)[k] = s
      BY <1>3, <1>7, <2>1
    <3>2. (\E ix \in Entries(second) : Gives(ix, SourceOf(s, slot), row))
            <=> \E j \in DOMAIN pair : \E ix \in Entries(pair[j]) : Gives(ix, SourceOf(s, slot), row)
      BY <1>8
    <3>3. \A j \in DOMAIN pair : (\E ix \in Entries(pair[j]) : Gives(ix, SourceOf(s, slot), row))
                                   <=> s = ActiveOf(a)[j] /\ Paired(slot, row)
      BY <1>5
    <3> QED BY <3>1, <3>2, <3>3
  <2>5. \A slot, row : Holds(b, SourceOf(s, slot), row) <=> Paired(slot, row)
    BY <1>22, <1>23, <1>24, <2>2, <2>3, <2>4
  <2> QED BY <1>23, <2>5, PairRepaired
<1>26. \A s : EachActive(b, s) => Repaired(b, s)
  BY <1>25
<1> QED BY <1>26 DEF Fulfilled, b

\* Additions that look before each of them: none is lost, and each has been made,
\* or is left out for the protocol does not list its token.
LEMMA NeededAdds ==
  ASSUME NEW a, NEW q, IsList(q),
         \A n \in 1..Len(q) : /\ q[n].do = "configure" /\ q[n].close = {} /\ q[n].ensure = {}
                              /\ DOMAIN q[n].init # {},
         NEW h, Follows(h, a, Each(Needed, q)), AllGo(h, Each(Needed, q))
  PROVE  LET b == h[Len(q)]
         IN  /\ Len(Each(Needed, q)) = Len(q) /\ Len(q) \in Nat
             /\ \A key \in DOMAIN a : key \in DOMAIN b /\ b[key] = a[key]
             /\ \A key \in DOMAIN b :
                  key \in DOMAIN a \/ \E n \in 1..Len(q) : key \in DOMAIN q[n].init
             /\ \A n \in 1..Len(q) :
                  \/ \E key \in DOMAIN q[n].init : Exists(b, key)
                  \/ \E key \in q[n].needs : IsRow(key, {"allowed_token"}) /\ ~Exists(a, key)
<1> DEFINE r == Each(Needed, q)
           N == Len(q)
<1>1. N \in Nat /\ DOMAIN q = 1..N
  BY LenProperties DEF IsList
<1>2. r = [n \in 1..N |-> Needed(q[n])]
  BY <1>1 DEF Each
<1>3. Len(r) = N /\ \A n \in 1..N : r[n] = Needed(q[n])
  <2> HIDE DEF N
  <2>1. DOMAIN r = 1..N
    BY <1>2
  <2>2. r = [n \in DOMAIN r |-> r[n]]
    BY <1>2
  <2>3. Len(r) = N
    <3> HIDE DEF r
    <3> QED BY <1>1, <2>1, <2>2, NamedEach
  <2> QED BY <1>2, <2>3
<1>4. \A n \in 1..N : /\ q[n].do = "configure" /\ q[n].close = {} /\ q[n].ensure = {}
                      /\ DOMAIN q[n].init # {}
  OBVIOUS
<1> HIDE DEF r, N
<1>5. h[0] = a /\ \A k \in 1..N : h[k] = Thereafter(h[k - 1], r[k]) /\ Goes(h[k - 1], r[k])
  BY <1>3 DEF Follows, AllGo, r
<1> DEFINE Kept(b, c) == \A key \in DOMAIN b : key \in DOMAIN c /\ c[key] = b[key]
           Done(b, c, ix) == \/ \E key \in DOMAIN ix.init : Exists(c, key)
                             \/ \E key \in ix.needs : IsRow(key, {"allowed_token"}) /\ ~Exists(b, key)
<1>6. ASSUME NEW k \in 1..N
      PROVE  /\ Kept(h[k - 1], h[k]) /\ Done(h[k - 1], h[k], q[k])
             /\ \A key \in DOMAIN h[k] : key \in DOMAIN h[k - 1] \/ key \in DOMAIN q[k].init
  <2> DEFINE b == h[k - 1]
             ix == q[k]
  <2>1. /\ ix.do = "configure" /\ ix.close = {} /\ ix.ensure = {} /\ DOMAIN ix.init # {}
        /\ h[k] = Thereafter(b, Needed(ix)) /\ Goes(b, Needed(ix))
    BY <1>3, <1>4, <1>5
  <2>2. CASE Unneeded(b, ix)
    <3>1. h[k] = b
      BY <2>1, <2>2, StepGoes
    <3>2. Done(b, b, ix)
      BY <2>1, <2>2 DEF Unneeded
    <3> QED BY <3>1, <3>2
  <2>3. CASE ~Unneeded(b, ix)
    <3>1. Accepts(b, ix) /\ h[k] = After(b, ix)
      BY <2>1, <2>3, StepGoes
    <3>2. \A key \in DOMAIN b : key \notin DOMAIN ix.init
      BY <3>1 DEF Accepts, Exists
    <3> HIDE DEF b, ix
    <3>3. /\ \A key \in DOMAIN After(b, ix) : key \in DOMAIN ix.init \/ key \in DOMAIN b
          /\ \A key \in DOMAIN b : key \in DOMAIN After(b, ix)
                                   /\ After(b, ix)[key] = Rewritten(b, ix, key)
          /\ \A key \in DOMAIN ix.init : key \in DOMAIN After(b, ix)
      BY <2>1, <3>2, AfterDomain
    <3>4. \A key \in DOMAIN b : Rewritten(b, ix, key) = b[key]
      BY <2>1 DEF Rewritten
    <3>5. Kept(b, h[k])
      BY <3>1, <3>3, <3>4
    <3>6. Done(b, h[k], ix)
      BY <2>1, <3>1, <3>3 DEF Exists
    <3>7. \A key \in DOMAIN h[k] : key \in DOMAIN b \/ key \in DOMAIN ix.init
      BY <3>1, <3>3
    <3> HIDE DEF Kept, Done
    <3> QED BY <3>5, <3>6, <3>7 DEF b, ix
  <2> QED BY <2>2, <2>3
<1> DEFINE New(key) == \E n \in 1..N : key \in DOMAIN q[n].init
           G == {k \in 0..N : /\ Kept(a, h[k])
                              /\ \A key \in DOMAIN h[k] : key \in DOMAIN a \/ New(key)}
           Z == {d \in 0..N : Kept(h[N - d], h[N])}
<1>7. \A k \in 0..N : k \in G
  <2>1. 0 \in G
    BY <1>1, <1>5
  <2>2. ASSUME NEW k \in 1..N, k - 1 \in G PROVE k \in G
    <3>1. k \in 0..N
      BY <1>1
    <3>2. Kept(a, h[k])
      BY <1>6, <2>2
    <3>3. \A key \in DOMAIN h[k] : key \in DOMAIN a \/ New(key)
      BY <1>6, <2>2
    <3> HIDE DEF Kept, New
    <3> QED BY <3>1, <3>2, <3>3
  <2> HIDE DEF G
  <2> QED BY <1>1, <2>1, <2>2, Upwards
<1>8. \A d \in 0..N : d \in Z
  <2>1. 0 \in Z
    <3>1. 0 \in 0..N /\ N - 0 = N
      BY <1>1
    <3> QED BY <3>1
  <2>2. ASSUME NEW d \in 1..N, d - 1 \in Z PROVE d \in Z
    <3>1. d \in 0..N /\ N - d + 1 \in 1..N /\ (N - d + 1) - 1 = N - d /\ N - (d - 1) = N - d + 1
      BY <1>1
    <3>2. Kept(h[N - d + 1], h[N])
      BY <2>2, <3>1
    <3>3. Kept(h[N - d], h[N - d + 1])
      <4> HIDE DEF Kept
      <4> QED BY <1>6, <3>1
    <3>4. Kept(h[N - d], h[N])
      BY <3>2, <3>3
    <3> HIDE DEF Kept
    <3> QED BY <3>1, <3>4
  <2> HIDE DEF Z
  <2> QED BY <1>1, <2>1, <2>2, Upwards
<1>9. ASSUME NEW n \in 1..N PROVE Done(a, h[N], q[n])
  <2>1. n - 1 \in 0..N /\ n \in 0..N /\ N - n \in 0..N /\ N - (N - n) = n
    BY <1>1
  <2>2. Kept(a, h[n - 1]) /\ Kept(h[n], h[N])
    <3> HIDE DEF Kept, New
    <3>1. n - 1 \in G /\ N - n \in Z
      BY <1>7, <1>8, <2>1
    <3> QED BY <2>1, <3>1
  <2>3. Done(h[n - 1], h[n], q[n])
    BY <1>6
  <2> QED BY <2>2, <2>3 DEF Exists
<1>10. Kept(a, h[N]) /\ \A key \in DOMAIN h[N] : key \in DOMAIN a \/ New(key)
  <2> HIDE DEF Kept, New
  <2>1. N \in 0..N
    BY <1>1
  <2> QED BY <1>7, <2>1
<1> QED BY <1>1, <1>3, <1>9, <1>10 DEF N, r

\* The script that fills the vault's token list has filled it: whatever it has left out
\* is not on the protocol's list.
LEMMA SeedVaultFulfils ==
  ASSUME NEW a, NEW w
  PROVE  Effective("seed_vault_tokens", a, SeedVaultAllowedTokens(w))
<1> DEFINE q == [n \in DOMAIN Alphabet |-> AddVaultAllowedToken(Vault, w, Alphabet[n])]
           N == Len(Alphabet)
<1>1. N \in Nat /\ DOMAIN Alphabet = 1..N /\ \A m \in Mints : \E n \in 1..N : Alphabet[n] = m
  <2>1. Alphabet \in Seq(Mints) /\ ToSet(Alphabet) = Mints
    BY ConsoleAssumption
  <2>2. N \in Nat /\ DOMAIN Alphabet = 1..N
    BY <2>1, LenProperties
  <2> QED BY <2>1, <2>2 DEF ToSet
<1>2. DOMAIN q = 1..N /\ q = [n \in DOMAIN q |-> q[n]]
  BY <1>1
<1>3. \A n \in 1..N : q[n] = AddVaultAllowedToken(Vault, w, Alphabet[n])
  BY <1>1
<1>4. SeedVaultAllowedTokens(w) = Each(Needed, q)
  BY DEF SeedVaultAllowedTokens
<1> HIDE DEF q
<1>5. IsList(q) /\ Len(q) = N
  BY <1>1, <1>2, NamedEach
<1>6. ASSUME NEW n \in 1..N
      PROVE  /\ q[n].do = "configure" /\ q[n].close = {} /\ q[n].ensure = {}
             /\ DOMAIN q[n].init = {VaultListed(Vault, Alphabet[n])}
             /\ q[n].needs = {VaultOf(Vault), Listed(Alphabet[n])}
  <2> DEFINE m == Alphabet[n]
             x == AddVaultAllowedToken(Vault, w, m)
  <2>1. q[n] = x
    BY <1>3
  <2> HIDE DEF m
  <2>2. /\ x.do = "configure" /\ x.close = {} /\ x.ensure = {}
        /\ DOMAIN x.init = {VaultListed(Vault, m)} /\ x.needs = {VaultOf(Vault), Listed(m)}
    BY DEF AddVaultAllowedToken, ByAdmin, Instruction, Row
  <2> QED BY <2>1, <2>2 DEF m
<1>7. /\ \A v : ~IsRow(VaultOf(v), {"allowed_token"})
      /\ \A v, m, o : VaultListed(v, m) # Listed(o)
  BY Addresses DEF IsRow, VaultListed, Listed
<1>8. ASSUME NEW h, Follows(h, a, Each(Needed, q)), AllGo(h, Each(Needed, q)),
             NEW m \in Mints, Exists(h[Len(Each(Needed, q))], Listed(m))
      PROVE  Exists(h[Len(Each(Needed, q))], VaultListed(Vault, m))
  <2> DEFINE b == h[Len(q)]
  <2>1. \A n \in 1..Len(q) : /\ q[n].do = "configure" /\ q[n].close = {} /\ q[n].ensure = {}
                             /\ DOMAIN q[n].init # {}
    BY <1>5, <1>6
  <2>2. /\ Len(Each(Needed, q)) = Len(q)
        /\ \A key \in DOMAIN b :
             key \in DOMAIN a \/ \E n \in 1..Len(q) : key \in DOMAIN q[n].init
        /\ \A n \in 1..Len(q) :
             \/ \E key \in DOMAIN q[n].init : Exists(b, key)
             \/ \E key \in q[n].needs : IsRow(key, {"allowed_token"}) /\ ~Exists(a, key)
    BY <1>5, <1>8, <2>1, NeededAdds
  <2> HIDE DEF b
  <2>3. Exists(b, Listed(m))
    BY <1>8, <2>2 DEF b
  <2>4. Exists(a, Listed(m))
    BY <1>5, <1>6, <1>7, <2>2, <2>3 DEF Exists
  <2>5. PICK n \in 1..N : Alphabet[n] = m
    BY <1>1
  <2>6. Exists(b, VaultListed(Vault, m))
    <3>1. CASE \E key \in DOMAIN q[n].init : Exists(b, key)
      BY <1>6, <2>5, <3>1
    <3>2. CASE \E key \in q[n].needs : IsRow(key, {"allowed_token"}) /\ ~Exists(a, key)
      BY <1>6, <1>7, <2>4, <2>5, <3>2
    <3> QED BY <1>5, <2>2, <3>1, <3>2
  <2> QED BY <2>2, <2>6 DEF b
<1> QED BY <1>4, <1>8 DEF Effective, Fulfilled

\* The one that creates a strategy for Kamino: the strategy is the last of the vault,
\* and all its actions are registered.
LEMMA KaminoFulfils ==
  ASSUME NEW a, AcctOK(a), Exists(a, VaultOf(Vault)), NEW w
  PROVE  Effective("setup_kamino", a, SetupKaminoStrategy(a, w))
<1> DEFINE names == <<"deposit", "withdraw", "borrow", "repay">>
           s     == <<Vault, Count(a)>>
           x     == CreateStrategy(s, w, Lender, Strategies(a))
           q     == <<Needed(x)>>
           y     == [n \in 1..4 |-> AddAllowedAction(s, w, "kamino", names[n], Uncapped)]
           r     == Each(Needed, y)
           key   == VaultOf(Vault)
<1>1. SetupKaminoStrategy(a, w) = q \o r
  <2>1. DOMAIN names = 1..4
    OBVIOUS
  <2>2. Whitelist(a, w, "kamino", names) = r
    BY <2>1 DEF Whitelist, Each
  <2> QED BY <2>2 DEF SetupKaminoStrategy, NextStrategy
<1>2. /\ Len(y) = 4 /\ IsList(y)
      /\ \A n \in 1..4 : y[n] = AddAllowedAction(s, w, "kamino", names[n], Uncapped)
  <2>1. DOMAIN y = 1..4 /\ y = [n \in DOMAIN y |-> y[n]]
    OBVIOUS
  <2>2. \A n \in 1..4 : y[n] = AddAllowedAction(s, w, "kamino", names[n], Uncapped)
    OBVIOUS
  <2> HIDE DEF y
  <2> QED BY <2>1, <2>2, NamedEach
<1>3. \A i \in {"deposit", "withdraw", "borrow", "repay"} : \E n \in 1..4 : names[n] = i
  <2>1. 1 \in 1..4 /\ 2 \in 1..4 /\ 3 \in 1..4 /\ 4 \in 1..4
        /\ names[1] = "deposit" /\ names[2] = "withdraw" /\ names[3] = "borrow" /\ names[4] = "repay"
    OBVIOUS
  <2> QED BY <2>1
<1>4. /\ x.do = "create" /\ x.vault = Vault /\ x.needs = {key} /\ x.close = {}
      /\ DOMAIN x.init = {StrategyOf(s)}
  BY DEF CreateStrategy, ByAdmin, Instruction, Row
<1>5. ASSUME NEW n \in 1..4
      PROVE  /\ y[n].do = "configure" /\ y[n].close = {} /\ y[n].ensure = {}
             /\ DOMAIN y[n].init = {ActionOf(s, "kamino", names[n])}
             /\ y[n].needs = {key, StrategyOf(s)}
  <2>1. y[n] = AddAllowedAction(s, w, "kamino", names[n], Uncapped)
    BY <1>2
  <2> HIDE DEF y, names
  <2> QED BY <2>1 DEF AddAllowedAction, OnStrategy, ByAdmin, Instruction, Row
<1>6. key[1] = "vault" /\ StrategyOf(s)[1] = "strategy"
  BY Addresses
<1>7. ~Exists(a, StrategyOf(s)) /\ Count(a) \in Nat
  <2>1. Count(a) \in Nat
    BY DEF AcctOK, AccountsOK, Count
  <2>2. ASSUME Exists(a, StrategyOf(s)) PROVE FALSE
    <3>1. s[1] = Vault
      OBVIOUS
    <3>2. s \in StrategiesUpTo(Vault, Count(a))
      BY <2>2, <3>1 DEF AcctOK, AccountsOK, StrategiesIn, Count
    <3>3. PICK k \in 0..(Count(a) - 1) : s = <<Vault, k>>
      BY <3>2 DEF StrategiesUpTo
    <3>4. k = Count(a)
      BY <3>3
    <3> QED BY <2>1, <3>4
  <2> QED BY <2>1, <2>2
<1> HIDE DEF s, x, y, names
<1>8. ~Unneeded(a, x)
  BY <1>4, <1>6, <1>7 DEF Unneeded, IsRow
<1>9. IsList(q) /\ Len(q) = 1 /\ IsList(r)
  <2>1. IsList(r)
    BY <1>2, EachLists
  <2> QED BY <2>1, SureOne
<1> HIDE DEF r, key
<1>10. ASSUME NEW h, Follows(h, a, q \o r), AllGo(h, q \o r),
              NEW i \in {"deposit", "withdraw", "borrow", "repay"}
       PROVE  LET d == h[Len(q \o r)]
              IN  Exists(d, ActionOf(<<Vault, Count(d) - 1>>, "kamino", i))
  <2> DEFINE b == h[1]
             d == h[Len(q \o r)]
  <2> HIDE DEF q
  <2>1. Follows(h, a, q)
    BY <1>9, <1>10, FollowsConcat
  <2>2. PICK g : /\ Follows(g, h[Len(q)], r) /\ g[Len(r)] = h[Len(q \o r)]
                 /\ AllGo(h, q \o r) <=> AllGo(h, q) /\ AllGo(g, r)
    BY <1>9, <1>10, FollowsConcat
  <2>3. AllGo(h, q) /\ AllGo(g, r) /\ Follows(g, b, r) /\ g[Len(r)] = d
    BY <1>9, <1>10, <2>2
  <2>4. Goes(a, Needed(x)) /\ b = Thereafter(a, Needed(x))
    BY <2>1, <2>3, SureOne DEF q
  <2>5. Accepts(a, x) /\ b = After(a, x)
    BY <1>8, <2>4, StepGoes
  <2>6. Exists(b, VaultOf(Vault)) /\ Count(b) = Count(a) + 1
    BY <1>4, <2>5, VaultAfter DEF Count, AcctOK
  <2>7. \A n \in 1..Len(y) : /\ y[n].do = "configure" /\ y[n].close = {} /\ y[n].ensure = {}
                             /\ DOMAIN y[n].init # {}
    BY <1>2, <1>5
  <2> HIDE DEF b
  <2>8. Follows(g, b, Each(Needed, y)) /\ AllGo(g, Each(Needed, y))
    BY <2>3 DEF r
  <2>9. /\ Len(Each(Needed, y)) = Len(y) /\ Len(y) \in Nat
        /\ \A k \in DOMAIN b : k \in DOMAIN g[Len(y)] /\ g[Len(y)][k] = b[k]
        /\ \A k \in DOMAIN g[Len(y)] :
             k \in DOMAIN b \/ \E n \in 1..Len(y) : k \in DOMAIN y[n].init
        /\ \A n \in 1..Len(y) :
             \/ \E k \in DOMAIN y[n].init : Exists(g[Len(y)], k)
             \/ \E k \in y[n].needs : IsRow(k, {"allowed_token"}) /\ ~Exists(b, k)
    BY ONLY <1>2, <2>7, <2>8, NeededAdds
  <2>10. g[Len(y)] = d
    BY <2>3, <2>9 DEF r
  <2> HIDE DEF d
  <2>11. Count(d) = Count(b)
    BY <2>6, <2>9, <2>10 DEF Count, Exists
  <2>12. Count(d) - 1 = Count(a)
    BY <1>7, <2>6, <2>11
  <2>13. <<Vault, Count(d) - 1>> = s
    BY <2>12 DEF s
  <2>14. PICK n \in 1..4 : names[n] = i
    BY <1>3
  <2>15. Exists(d, ActionOf(s, "kamino", i))
    BY <1>2, <1>5, <1>6, <2>9, <2>10, <2>14 DEF IsRow
  <2> QED BY <2>13, <2>15 DEF d
<1> QED BY <1>1, <1>10 DEF Effective, Fulfilled

\* Every script the properties speak of does what they say, if none of its steps is
\* refused and nobody interferes.
LEMMA EffectiveOffered ==
  ASSUME AcctOK(acct), Exists(acct, VaultOf(Vault)), NEW name, NEW steps, Offered(name, steps)
  PROVE  Effective(name, acct, steps)
<1>1. CASE name = "repair"
  BY <1>1, RepairFulfils DEF Offered
<1>2. CASE name = "seed_vault_tokens"
  BY <1>2, SeedVaultFulfils DEF Offered
<1>3. CASE name = "setup_kamino"
  BY <1>3, KaminoFulfils DEF Offered
<1>4. CASE name = "setup_demo"
  <2>1. /\ steps = SetupDemoVault(acct, Admin)
        /\ Exists(acct, VaultOf(DemoVault)) => acct[VaultOf(DemoVault)].admin \in {Admin, DemoKey}
    BY <1>4 DEF Offered
  <2>2. \A h : Follows(h, acct, steps) => ByDemoKey(h[Len(steps)])
    BY <2>1, DemoGoes
  <2> QED BY <1>4, <2>2 DEF Effective, Fulfilled
<1>5. CASE name = "bootstrap"
  BY <1>5, BootstrapFulfils DEF Offered
<1>6. CASE name = "flow"
  BY <1>6, FlowFulfils DEF Offered
<1>7. CASE name \notin {"repair", "seed_vault_tokens", "setup_kamino", "setup_demo", "bootstrap",
                        "flow"}
  BY <1>7 DEF Effective, Fulfilled
<1> QED BY <1>1, <1>2, <1>3, <1>4, <1>5, <1>6, <1>7

\* A script that is alone is going to have done its work, or has done it.
DoneInv ==
  /\ shell.alone /\ ShellRuns => Effective(shell.script, acct, shell.steps)
  /\ shell.alone /\ shell.state = "done" => Fulfilled(shell.script, acct)

\* After any step of the scripts, the console and the other clients.
LEMMA DoneSurvives ==
  ASSUME AcctOK(acct), Exists(acct, VaultOf(Vault)), NamedInv, RerunInv, DoneInv, ScriptsNext
  PROVE  DoneInv'
<1>0. DOMAIN shell = ShellFields /\ IsList(shell.steps) /\ Count(acct) \in Nat
  BY DEF NamedInv, StepsReady, AcctOK, AccountsOK, Count
<1>1. CASE StartScript
  <2>1. PICK name, steps :
          Launch(name, steps) /\ StepsReady(acct, steps) /\ Offered(name, steps)
    BY <1>0, <1>1, Launched
  <2>2. /\ shell'.script = name /\ shell'.state = "running" /\ shell'.steps = steps
        /\ shell'.alone
    BY <1>0, <2>1, ShellRecords
  <2>3. acct' = acct
    BY <2>1 DEF Launch
  <2>4. Effective(name, acct, steps)
    BY <2>1, EffectiveOffered
  <2> QED BY <2>2, <2>3, <2>4 DEF DoneInv
<1>2. CASE RunStep
  <2> DEFINE step == Head(shell.steps)
  <2>1. CASE shell' = NextStep /\ Goes(acct, step) /\ acct' = Thereafter(acct, step)
    <3>1. /\ shell'.script = shell.script /\ shell'.state = shell.state
          /\ shell'.steps = Tail(shell.steps) /\ shell'.alone = shell.alone
      BY <1>0, <2>1, ShellRecords
    <3>2. ShellRuns /\ shell.steps # <<>>
      BY <1>2, StepTaken
    <3>3. Effective(shell.script, acct, shell.steps) => Effective(shell.script, acct', shell'.steps)
      BY <1>0, <2>1, <3>1, <3>2, RestGoes
    <3>4. shell'.state = "running"
      BY <3>1, <3>2 DEF ShellRuns
    <3> QED BY <3>1, <3>2, <3>3, <3>4 DEF DoneInv
  <2>2. CASE shell' = Ended("refused")
    <3>1. shell'.state = "refused"
      BY <1>0, <2>2, ShellRecords
    <3> QED BY <3>1 DEF DoneInv, ShellRuns
  <2> QED BY <1>2, <2>1, <2>2, StepTaken
<1>3. CASE ScriptDies
  <2>1. shell' = Ended("failed")
    BY <1>3 DEF ScriptDies
  <2>2. shell'.state = "failed"
    BY <1>0, <2>1, ShellRecords
  <2> QED BY <2>2 DEF DoneInv, ShellRuns
<1>4. CASE FinishScript
  <2>1. ShellRuns /\ shell.steps = <<>> /\ shell' = Ended("done") /\ acct' = acct
    BY <1>4 DEF FinishScript, consoleVars
  <2>2. shell'.script = shell.script /\ shell'.state = "done" /\ shell'.alone = shell.alone
    BY <1>0, <2>1, ShellRecords
  <2>3. shell.alone => Fulfilled(shell.script, acct)
    BY <2>1, EndFulfils DEF DoneInv
  <2> QED BY <2>1, <2>2, <2>3 DEF DoneInv, ShellRuns
<1>5. CASE (ConsoleNext \/ UseElsewhere \/ CooldownElapses) /\ shell' = ShellOvertaken
  <2>1. shell'.alone => shell' = shell /\ acct' = acct
    BY <1>0, <1>5, ShellNotAlone
  <2> QED BY <2>1 DEF DoneInv, ShellRuns
<1> QED BY <1>1, <1>2, <1>3, <1>4, <1>5 DEF ScriptsNext

\* Whatever a script has been interrupted by or has found, its work is done or going
\* to be while it is alone.
LEMMA DoneInvariant == ScriptsSpec => []DoneInv
<1>1. ScriptsInit => RerunInv /\ DoneInv
  BY DEF ScriptsInit, Prompt, RerunInv, DoneInv, ShellRuns
<1>2. ShellInv /\ RerunInv /\ DoneInv /\ [ScriptsNext]_scriptsVars => RerunInv' /\ DoneInv'
  <2> SUFFICES ASSUME ShellInv, RerunInv, DoneInv, [ScriptsNext]_scriptsVars
               PROVE  RerunInv' /\ DoneInv'
    OBVIOUS
  <2>1. CASE ScriptsNext
    BY <2>1, ShellAccounts, RerunSurvives, DoneSurvives
  <2>2. CASE UNCHANGED scriptsVars
    BY <2>2 DEF scriptsVars, consoleVars, RerunInv, DoneInv, ShellRuns
  <2> QED BY <2>1, <2>2
<1> QED BY <1>1, <1>2, ShellInvariant, PTL DEF ScriptsSpec

\* A script that has come to its end without being interfered with has done its work,
\* whatever earlier runs have left behind: the vault's token list is filled, the new
\* strategy's actions are registered, the demo vault's administrator is the demo key and
\* its authority is the demo key too or, after a run that died, still offered to it,
\* every active strategy has its balance and its price source.
THEOREM ScriptsDoTheirWork == ScriptsSpec => []DoneMeansDone
<1>1. DoneInv => DoneMeansDone
  BY DEF DoneInv, DoneMeansDone, DoneAlone, Fulfilled, ByDemoKey, Ours, EachActive, HasPair
<1> QED BY <1>1, DoneInvariant, PTL

\* And a repair leaves every active strategy with exactly one carrier and one price
\* source, however many rows and duplicates it has found.
THEOREM RepairsRestore == ScriptsSpec => []RepairRestores
<1>1. DoneInv => RepairRestores
  BY DEF DoneInv, RepairRestores, DoneAlone, Fulfilled, EachActive, Repaired
<1> QED BY <1>1, DoneInvariant, PTL
=============================================================================
