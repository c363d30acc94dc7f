--------------------------- MODULE StrategyConfig ---------------------------
(***************************************************************************)
(* What an administrator configures, as the program keeps it: one account  *)
(* per row.  The address of a row is derived from what identifies it, so   *)
(* an instruction that initialises a row fails when the row exists, and    *)
(* one that closes it fails when it does not.  A transaction is a sequence *)
(* of instructions that all take effect or none.                           *)
(*                                                                         *)
(* An instruction is a record: who signs in which role, the accounts it    *)
(* needs, those it initialises and with what, those it closes, and token   *)
(* accounts it creates unless they exist.  Accepts and After say what the  *)
(* program does with one, whoever has put it together.                     *)
(***************************************************************************)
EXTENDS Naturals, Sequences, FiniteSets

CONSTANTS
  Mints,            \* the tokens besides the vault's own
  People,           \* keys that may sign
  MaxSources,       \* MAX_VALUE_SOURCES_PER_STRATEGY
  MaxInstructions   \* MAX_INSTRUCTIONS_PER_TX

ASSUME ConfigAssumption ==
  MaxSources \in Nat \ {0} /\ MaxInstructions \in Nat \ {0}

\* The addresses.  A strategy s is <<vault, number>>.
Config             == <<"config">>
VaultOf(v)         == <<"vault", v>>
StrategyOf(s)      == <<"strategy", s>>
ActionOf(s, p, i)  == <<"action", s, p, i>>
AutoOf(s, kind)    == <<"auto", s, kind>>
SourceOf(s, slot)  == <<"source", s, slot>>
Listed(m)          == <<"allowed_token", m>>
VaultListed(v, m)  == <<"vault_allowed_token", v, m>>
TokenAccount(s, m) == <<"ata", s, m>>

Slots == 0..(MaxSources - 1)
RowKinds == {"action", "auto", "source"}    \* the rows of a strategy

\* Every row a strategy can have, in the order the console writes and revokes them.
\* The program takes any action; the model knows those of the registry.
Catalogue(s) ==
  <<ActionOf(s, "kamino", "deposit"), ActionOf(s, "kamino", "withdraw"),
    ActionOf(s, "kamino", "borrow"), ActionOf(s, "kamino", "repay"),
    ActionOf(s, "lulo", "deposit"), ActionOf(s, "lulo", "withdraw"),
    ActionOf(s, "jupiter", "route"),
    AutoOf(s, "deposit"), AutoOf(s, "withdraw")>>
  \o [n \in 1..MaxSources |-> SourceOf(s, n - 1)]
PossibleRows(s) == {Catalogue(s)[n] : n \in DOMAIN Catalogue(s)}

Empty == [k \in {} |-> 0]
Row(key, content) == [k \in {key} |-> content]
NoStrategy == <<"none", 0>>

-----------------------------------------------------------------------------
Instruction ==
  [do |-> "configure", vault |-> "none", strategy |-> NoStrategy, key |-> "none",
   role |-> "anyone", wallet |-> "none", needs |-> {}, init |-> Empty,
   close |-> {}, ensure |-> {}, others |-> {}]

ByGovernance(w) ==
  [Instruction EXCEPT !.role = "governance", !.wallet = w, !.needs = {Config}]
ByAdmin(v, w) ==
  [Instruction EXCEPT !.role = "admin", !.vault = v, !.wallet = w, !.needs = {VaultOf(v)}]
OnStrategy(s, w) ==
  [ByAdmin(s[1], w) EXCEPT !.strategy = s, !.needs = @ \cup {StrategyOf(s)}]

AddAllowedAction(s, w, p, i, row) ==
  [OnStrategy(s, w) EXCEPT !.init = Row(ActionOf(s, p, i), row)]
SetAutoAction(s, w, kind, row) ==
  [OnStrategy(s, w) EXCEPT !.init = Row(AutoOf(s, kind), row)]
AddValueSource(s, w, slot, row) ==
  [OnStrategy(s, w) EXCEPT !.init = Row(SourceOf(s, slot), row)]

\* Any of the three.
AddRow(s, w, key, row) == [OnStrategy(s, w) EXCEPT !.init = Row(key, row)]

\* The removals do not ask whether the strategy is active.
CloseRow(s, w, key) == [ByAdmin(s[1], w) EXCEPT !.close = {key}]
RemoveAllowedAction(s, w, p, i) == CloseRow(s, w, ActionOf(s, p, i))
ClearAutoAction(s, w, kind)     == CloseRow(s, w, AutoOf(s, kind))
RemoveValueSource(s, w, slot)   == CloseRow(s, w, SourceOf(s, slot))

AddAllowedToken(w, m)    == [ByGovernance(w) EXCEPT !.init = Row(Listed(m), "listed")]
RemoveAllowedToken(w, m) == [ByGovernance(w) EXCEPT !.close = {Listed(m)}]

AddVaultAllowedToken(v, w, m) ==
  [ByAdmin(v, w) EXCEPT !.needs = @ \cup {Listed(m)},
                        !.init = Row(VaultListed(v, m), "listed")]
RemoveVaultAllowedToken(v, w, m) == [ByAdmin(v, w) EXCEPT !.close = {VaultListed(v, m)}]

\* Creates the associated token account of a strategy, if there is none.
CreateTokenAccount(s, m) ==
  [Instruction EXCEPT !.ensure = {<<s, m>>}]

\* others: the strategies the client lists for the duplicate check.
CreateStrategy(s, w, d, others) ==
  [ByAdmin(s[1], w) EXCEPT
     !.do = "create", !.strategy = s, !.key = d, !.others = others,
     !.init = Row(StrategyOf(s), "new")]
UpdateDelegate(s, w, d, others) ==
  [OnStrategy(s, w) EXCEPT !.do = "delegate", !.key = d, !.others = others]
DeactivateStrategy(s, w) == [OnStrategy(s, w) EXCEPT !.do = "deactivate"]

\* The payer of a new vault is its admin and its authority.
InitializeVault(v, w) ==
  [Instruction EXCEPT !.vault = v, !.wallet = w, !.init = Row(VaultOf(v), "new")]

ProposeAdmin(v, w, k)     == [ByAdmin(v, w) EXCEPT !.do = "propose_admin", !.key = k]
ProposeAuthority(v, w, k) == [ByAdmin(v, w) EXCEPT !.do = "propose_authority", !.key = k]
AcceptAdmin(v, w) ==
  [Instruction EXCEPT !.do = "accept_admin", !.vault = v, !.role = "pendingAdmin",
                      !.wallet = w, !.needs = {VaultOf(v)}]
AcceptAuthority(v, w) ==
  [Instruction EXCEPT !.do = "accept_authority", !.vault = v, !.role = "pendingAuthority",
                      !.wallet = w, !.needs = {VaultOf(v)}]

\* The gateway: a row of the allow-list, the mint the action pays out in, and
\* whether more leaves the strategy's account than its loss cap allows.
ExecuteAction(s, w, p, i, m, beyond) ==
  [Instruction EXCEPT !.do = "execute", !.vault = s[1], !.strategy = s,
                      !.key = <<ActionOf(s, p, i), m, beyond>>, !.role = "agent", !.wallet = w,
                      !.needs = {VaultOf(s[1]), StrategyOf(s), ActionOf(s, p, i)}]

\* slots: the value sources the caller lists.
Settle(s, w, slots) ==
  [OnStrategy(s, w) EXCEPT !.do = "settle", !.role = "authority", !.key = slots]

-----------------------------------------------------------------------------
Exists(a, key) == key \in DOMAIN a
Active(a, s) == Exists(a, StrategyOf(s)) /\ a[StrategyOf(s)].active
Usable(a, key) == Exists(a, key) /\ (key[1] = "strategy" => a[key].active)

Signed(a, ix) ==
  CASE ix.role = "anyone" -> TRUE
    [] ix.role = "governance" -> a[Config].governance = ix.wallet
    [] ix.role = "agent" ->
         ix.wallet \in {a[StrategyOf(ix.strategy)].delegate, a[VaultOf(ix.vault)].authority}
    [] OTHER -> a[VaultOf(ix.vault)][ix.role] = ix.wallet

\* Mutant: the strategies listed are not looked at.
DelegateFreeUnchecked(a, ix) == TRUE
\* No listed strategy that is active has this delegate.
DelegateFree(a, ix) ==
  \A s \in ix.others \ {ix.strategy} : Active(a, s) => a[StrategyOf(s)].delegate # ix.key

\* A swap pays out in a mint that is on both lists.
PayoutAllowed(a, v, row, m) ==
  row.out => Exists(a, Listed(m)) /\ Exists(a, VaultListed(v, m))

\* An execution starts the cooldown.  calls is history: the executions of a row
\* with a cooldown since it was registered and since its cooldown last elapsed.
\* Mutant: the cooldown is not started.
StampedNever(row) == IF row.cooldown THEN [row EXCEPT !.calls = @ + 1] ELSE row
Stamped(row) ==
  IF row.cooldown THEN [row EXCEPT !.cooling = TRUE, !.calls = @ + 1] ELSE row

\* A listed source that exists can be read if its account does; a price needs
\* its balance source in the same list.
Readable(a, s, slots, slot) ==
  LET row == a[SourceOf(s, slot)]
  IN  CASE row.kind = "balance" -> Exists(a, TokenAccount(s, row.of))
        [] row.kind = "account" -> row.of # "synthetic"
        [] OTHER -> /\ row.pair \in slots /\ Exists(a, SourceOf(s, row.pair))
                    /\ a[SourceOf(s, row.pair)].kind = "balance"

\* What an instruction asks for beyond its accounts and its signer.
Guard(a, ix) ==
  CASE ix.do = "create" ->
         a[VaultOf(ix.vault)].count = ix.strategy[2] /\ DelegateFree(a, ix)
    [] ix.do = "delegate" -> DelegateFree(a, ix)
    [] ix.do = "execute" ->
         LET row == a[ix.key[1]]
         IN  /\ ~row.cooling /\ PayoutAllowed(a, ix.vault, row, ix.key[2])
             /\ row.capped => ~ix.key[3]
    [] ix.do = "settle" ->
         \A slot \in ix.key :
           Exists(a, SourceOf(ix.strategy, slot)) => Readable(a, ix.strategy, ix.key, slot)
    [] OTHER -> TRUE

\* The addresses derived from the other accounts and the arguments: only
\* create_strategy initialises a strategy, the one it is about; rows are initialised
\* for a strategy that is looked at, auto-actions of two kinds, sources in its slots
\* and (the model's bound) actions of the registry; neither vaults nor strategies
\* are closed.
Derived(ix) ==
  /\ ix.do \in {"create", "delegate"} =>
       ix.strategy = <<ix.vault, ix.strategy[2]>> /\ VaultOf(ix.vault) \in ix.needs
  /\ ix.do = "create" => DOMAIN ix.init = {StrategyOf(ix.strategy)}
  /\ ix.do = "delegate" => StrategyOf(ix.strategy) \in ix.needs
  /\ \A key \in DOMAIN ix.init :
       /\ key[1] = "strategy" => ix.do = "create"
       /\ key[1] \in RowKinds => StrategyOf(key[2]) \in ix.needs /\ key \in PossibleRows(key[2])
  /\ \A key \in ix.close : key[1] \notin {"config", "vault", "strategy"}
  /\ ix.do = "execute" => ix.key[1][1] = "action"

Accepts(a, ix) ==
  /\ Derived(ix)
  /\ \A key \in ix.needs : Usable(a, key)
  /\ Signed(a, ix)
  /\ \A key \in DOMAIN ix.init : ~Exists(a, key)
  /\ \A key \in ix.close : Exists(a, key)
  /\ Guard(a, ix)

Counted(vault) == [vault EXCEPT !.count = @ + 1]

\* What an instruction makes of an account that is there.
Rewritten(a, ix, key) ==
  LET v == VaultOf(ix.vault)
      s == StrategyOf(ix.strategy)
  IN  CASE ix.do = "create" /\ key = v -> Counted(a[v])
        [] ix.do = "delegate" /\ key = s ->
             [a[s] EXCEPT !.delegate = ix.key, !.approved = ix.key]
        [] ix.do = "deactivate" /\ key = s ->
             [a[s] EXCEPT !.active = FALSE, !.approved = "none"]
        [] ix.do = "propose_admin" /\ key = v -> [a[v] EXCEPT !.pendingAdmin = ix.key]
        [] ix.do = "propose_authority" /\ key = v ->
             [a[v] EXCEPT !.pendingAuthority = ix.key]
        [] ix.do = "accept_admin" /\ key = v ->
             [a[v] EXCEPT !.admin = ix.wallet, !.pendingAdmin = "none"]
        [] ix.do = "accept_authority" /\ key = v ->
             [a[v] EXCEPT !.authority = ix.wallet, !.pendingAuthority = "none"]
        [] ix.do = "execute" /\ key = ix.key[1] -> Stamped(a[key])
        [] OTHER -> a[key]

\* What it writes into an account it initialises: what the caller asks for, and
\* in the program's own fields their first values.
Initial(ix, key) ==
  CASE key[1] = "vault" ->
         [admin |-> ix.wallet, authority |-> ix.wallet, count |-> 0,
          pendingAdmin |-> "none", pendingAuthority |-> "none"]
    [] key[1] = "strategy" -> [active |-> TRUE, delegate |-> ix.key, approved |-> ix.key]
    [] key[1] = "action" ->
         LET asked == ix.init[key]
         IN  [capped |-> asked.capped, out |-> asked.out, cooldown |-> asked.cooldown,
              cooling |-> FALSE, calls |-> 0]
    [] OTHER -> ix.init[key]

After(a, ix) ==
  LET kept   == DOMAIN a \ ix.close
      opened == {TokenAccount(e[1], e[2]) : e \in ix.ensure}
  IN  [key \in DOMAIN ix.init \cup kept \cup opened |->
         IF key \in DOMAIN ix.init THEN Initial(ix, key)
         ELSE IF key \in kept THEN Rewritten(a, ix, key) ELSE "tokens"]

\* The strategies of a vault, and whether an instruction that compares delegates
\* is given all of them to compare with.
StrategiesUpTo(v, n) == {<<v, k>> : k \in 0..(n - 1)}
StrategiesIn(a, v) ==
  IF Exists(a, VaultOf(v)) THEN StrategiesUpTo(v, a[VaultOf(v)].count) ELSE {}
ListsAll(a, ix) ==
  ix.do \in {"create", "delegate"} =>
    StrategiesIn(a, ix.vault) \subseteq ix.others \cup {ix.strategy}

\* A transaction: the accounts after its instructions, if it is not too long and
\* all are accepted.  listed is history: they were given all strategies.
Outset(a) == [ok |-> TRUE, acct |-> a, listed |-> TRUE]
Failure(a) == [ok |-> FALSE, acct |-> a, listed |-> TRUE]
Executed(a, so, ix) ==
  IF so.ok /\ Accepts(so.acct, ix)
    THEN [ok |-> TRUE, acct |-> After(so.acct, ix),
          listed |-> so.listed /\ ListsAll(so.acct, ix)]
    ELSE Failure(a)
Run(a, tx) ==
  LET f[n \in 0..Len(tx)] ==
        IF n = 0 THEN Outset(a) ELSE Executed(a, f[n - 1], tx[n])
  IN  IF Len(tx) \in 0..MaxInstructions THEN f[Len(tx)] ELSE Failure(a)

-----------------------------------------------------------------------------
(***************************************************************************)
(* The value a settlement gives to a strategy, when every source is        *)
(* listed.                                                                 *)
(***************************************************************************)
SourceSlots(a, s) == {slot \in Slots : Exists(a, SourceOf(s, slot))}
SourceAt(a, s, slot) == a[SourceOf(s, slot)]

\* How often the balance of a mint enters the total, priced or not.
TimesCounted(a, s, m) ==
  Cardinality({slot \in SourceSlots(a, s) :
    LET row == SourceAt(a, s, slot)
    IN  \/ row.kind = "balance" /\ row.of = m /\ row.counts
        \/ /\ row.kind = "price" /\ Exists(a, SourceOf(s, row.pair))
           /\ SourceAt(a, s, row.pair).of = m})
=============================================================================
