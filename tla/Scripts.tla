------------------------------- MODULE Scripts -------------------------------
(***************************************************************************)
(* The operator scripts (scripts/*.ts) that configure vaults, run from a   *)
(* shell beside the console.  A script reads the chain, computes its       *)
(* transactions and sends them one by one; some look before each one       *)
(* whether it is still needed.  A script that fails is started again from  *)
(* the top: none keeps a record of what it has done.                       *)
(***************************************************************************)
EXTENDS Console

CONSTANTS
  WrappedSol,       \* the mint the source scripts take care of
  Lender,           \* the delegate given to a set-up script
  Generated,        \* the delegates scripts generate, by strategy number
  Receiver,         \* whom a vault is handed over to
  DemoVault, DemoKey, FreshVault

ASSUME ScriptsAssumption ==
  /\ WrappedSol \in Mints /\ DemoVault # Vault /\ FreshVault \notin {Vault, DemoVault}
  /\ {Lender, Receiver, DemoKey} \subseteq People
  /\ Generated \in Seq(People \ (Agents \cup {"agent", Lender})) /\ IsInjective(Generated)
  /\ Len(Generated) >= MaxStrategies

VARIABLE shell      \* the script that runs or ran last

scriptsVars == <<consoleVars, shell>>

Prompt == [script |-> "none", state |-> "idle", steps |-> <<>>, alone |-> FALSE,
           raced |-> FALSE]

\* A step: a transaction sent as it is, one sent only if it is still needed, and
\* one the ledger refuses, whatever is configured.
Must(tx)   == [tx |-> tx, mode |-> "must"]
Needed(ix) == [tx |-> Single(ix), mode |-> "needed"]
Overdrawn  == [tx |-> <<>>, mode |-> "overdrawn"]
Each(mode(_), ixs) == [n \in DOMAIN ixs |-> mode(ixs[n])]
One(ix) == Must(Single(ix))
FourByFour(ixs) == Each(Must, Chunked(ixs))

\* Mutant: the script does not look.
UnneededNever(a, ix) == FALSE
\* What a look before the transaction shows: what it adds is there, what it
\* removes is not, or the protocol does not list the token.
Unneeded(a, ix) ==
  \/ \E key \in DOMAIN ix.init : Exists(a, key)
  \/ \E key \in ix.close : ~Exists(a, key)
  \/ \E key \in ix.needs : IsRow(key, {"allowed_token"}) /\ ~Exists(a, key)

-----------------------------------------------------------------------------
(***************************************************************************)
(* Token lists.                                                            *)
(***************************************************************************)
SeedAllowedTokens(w) ==
  Each(Needed, [n \in DOMAIN Alphabet |-> AddAllowedToken(w, Alphabet[n])])
UnseedAllowedTokens(w) ==
  Each(Needed, [n \in DOMAIN Alphabet |-> RemoveAllowedToken(w, Alphabet[n])])
SeedVaultAllowedTokens(w) ==
  Each(Needed, [n \in DOMAIN Alphabet |-> AddVaultAllowedToken(Vault, w, Alphabet[n])])
UnseedVaultAllowedTokens(w) ==
  Each(Needed, [n \in DOMAIN Alphabet |-> RemoveVaultAllowedToken(Vault, w, Alphabet[n])])

\* One mint at a time; the removal does not look.
InitAllowedToken(w, m)   == <<Needed(AddAllowedToken(w, m))>>
UninitAllowedToken(w, m) == <<One(RemoveAllowedToken(w, m))>>

-----------------------------------------------------------------------------
(***************************************************************************)
(* Vaults, strategies and their roles.  Weights and money (deposits,       *)
(* allocations, minted yield), which these scripts also move, belong to    *)
(* module Vault.                                                           *)
(***************************************************************************)
Uncapped == [Action EXCEPT !.capped = FALSE]

\* A strategy with one delegate and its rows.  The number of the strategy is the
\* vault's count, read when the script starts.
NextStrategy(a, w) ==
  <<Needed(CreateStrategy(<<Vault, Count(a)>>, w, Lender, Strategies(a)))>>
Whitelist(a, w, p, names) ==
  [n \in DOMAIN names |->
     Needed(AddAllowedAction(<<Vault, Count(a)>>, w, p, names[n], Uncapped))]
SetupKaminoStrategy(a, w) ==
  NextStrategy(a, w) \o Whitelist(a, w, "kamino", <<"deposit", "withdraw", "borrow", "repay">>)
SetupLuloStrategy(a, w) ==
  NextStrategy(a, w) \o Whitelist(a, w, "lulo", <<"deposit", "withdraw">>)

\* A loop over strategies with delegates of their own.
CreateStrategies(v, w, first, last) ==
  [n \in 1..(last - first + 1) |->
     LET k == first + n - 1
     IN  One(CreateStrategy(<<v, k>>, w, Generated[k + 1], StrategiesUpTo(v, k)))]

HandOver(v, w, k) ==
  <<One(ProposeAuthority(v, w, k)), One(ProposeAdmin(v, w, k))>>
TakeOver(v, k) == <<One(AcceptAuthority(v, k)), One(AcceptAdmin(v, k))>>

InitVault(w)        == <<Needed(InitializeVault(FreshVault, w))>>
SetupMultiVaults(w) ==
  <<One(InitializeVault(FreshVault, w))>> \o CreateStrategies(FreshVault, w, 0, MaxStrategies - 1)
SetupFull(w)        == SetupMultiVaults(w) \o HandOver(FreshVault, w, Receiver)
\* A vault that exists ends the script, handed over or not.
CreateVault(a, w) ==
  IF Exists(a, VaultOf(FreshVault)) THEN <<>>
  ELSE <<One(InitializeVault(FreshVault, w))>> \o HandOver(FreshVault, w, Receiver)

\* Mutant: a vault that exists is taken for one that was handed over.
SetupDemoVaultOnce(a, w) ==
  IF Exists(a, VaultOf(DemoVault)) THEN <<>>
  ELSE <<One(InitializeVault(DemoVault, w)), One(ProposeAdmin(DemoVault, w, DemoKey)),
         One(AcceptAdmin(DemoVault, DemoKey))>>
SetupDemoVault(a, w) ==
  LET admin == IF Exists(a, VaultOf(DemoVault)) THEN a[VaultOf(DemoVault)].admin ELSE w
  IN  <<Needed(InitializeVault(DemoVault, w))>>
      \o IF admin = DemoKey THEN <<>>
         ELSE <<One(ProposeAdmin(DemoVault, w, DemoKey)),
                One(ProposeAuthority(DemoVault, w, DemoKey)),
                One(AcceptAdmin(DemoVault, DemoKey)),
                One(AcceptAuthority(DemoVault, DemoKey))>>

-----------------------------------------------------------------------------
(***************************************************************************)
(* The gateway.                                                            *)
(***************************************************************************)
Use(s, w, i, beyond) == ExecuteAction(s, w, "kamino", i, WrappedSol, beyond)

\* The long test: a vault with one strategy, a lend, some yield and a redemption.
\* Then it recalls the balance, yield included, before the yield is reported: more
\* than the strategy is booked at (StrategyToReserve of module Vault).  Its parts on
\* the cooldown, the loss cap and a settlement are never reached.
TestAgent == Generated[1]
TestVault(w) ==
  LET s == <<FreshVault, 0>>
  IN  <<One(InitializeVault(FreshVault, w)), One(CreateStrategy(s, w, TestAgent, {})),
        One(AddAllowedAction(s, w, "kamino", "deposit", Uncapped)),
        One(AddAllowedAction(s, w, "kamino", "withdraw", Uncapped))>>
TestLoop ==
  LET s == <<FreshVault, 0>>
  IN  <<One(CreateTokenAccount(s, "collateral")), One(Use(s, TestAgent, "deposit", FALSE)),
        One(Use(s, TestAgent, "withdraw", FALSE))>>
TestGateway(w) == TestVault(w) \o TestLoop \o <<Overdrawn>>

\* The editor of the console and the other scripts leave the cooldown at 0; an
\* administrator with a client of its own need not.
RegisterCooldown(s, w) ==
  <<One(AddAllowedAction(s, w, "kamino", "deposit", [Uncapped EXCEPT !.cooldown = TRUE]))>>

\* Lend, borrow, settle, repay, redeem, settle; the sources are looked up right
\* before each settlement.  Whether the lent amount is beyond a cap depends on
\* what the strategy is booked at.
KaminoLoop(s, w, beyond) ==
  <<One(Use(s, w, "deposit", beyond)), One(Use(s, w, "borrow", FALSE)), One(Settle(s, w, Slots)),
    One(Use(s, w, "repay", beyond)), One(Use(s, w, "withdraw", FALSE)), One(Settle(s, w, Slots))>>

-----------------------------------------------------------------------------
(***************************************************************************)
(* Value sources.                                                          *)
(***************************************************************************)
SourcesFor(a, s, kinds) ==
  {slot \in SourceSlots(a, s) :
     SourceAt(a, s, slot).of = WrappedSol /\ SourceAt(a, s, slot).kind \in kinds}
Carrier(s, w, slot) == AddValueSource(s, w, slot, Balance(WrappedSol, 0))
Feed(s, w, slot, pair) == AddValueSource(s, w, slot, Price(WrappedSol, pair))

\* The slots of a strategy's pair: those it has (of several, the node decides which
\* comes first; here the lowest does), else its lowest free ones.
PairSlots(a, s) ==
  LET balance == SourcesFor(a, s, {"balance"})
      price   == SourcesFor(a, s, {"price"})
      free    == Slots \ SourceSlots(a, s)
      first   == IF balance = {} THEN Min(free) ELSE Min(balance)
  IN  <<first, IF price = {} THEN Min(free \ {first}) ELSE Min(price)>>
Missing(a, s, w, account) ==
  LET pair == PairSlots(a, s)
  IN  (IF SourcesFor(a, s, {"balance"}) = {} THEN account \o <<Carrier(s, w, pair[1])>>
       ELSE <<>>)
      \o (IF SourcesFor(a, s, {"price"}) = {} THEN <<Feed(s, w, pair[2], pair[1])>> ELSE <<>>)
HasRoom(a, s) ==
  Cardinality(Slots \ SourceSlots(a, s))
    >= Cardinality({kind \in {"balance", "price"} : SourcesFor(a, s, {kind}) = {}})

BootstrapSources(a, w) ==
  Each(One, ForActive(a, LAMBDA s : Missing(a, s, w, <<>>)))

\* The panel's additions for the mint, without asking what is there already.
ToggleToken(a, w, m) ==
  FourByFour(PanelInstructions(a, w, {m}, {}))

SettleAll(a, w) ==
  LET actives == ActiveOf(a)
  IN  [n \in DOMAIN actives |-> One(Settle(actives[n], w, SourceSlots(a, actives[n])))]

TokenAccounts(a) ==
  Each(One, ForActive(a, LAMBDA s : <<CreateTokenAccount(s, WrappedSol)>>))

\* List the mint, add what is missing, fund every strategy with it, settle from
\* one pair per strategy.
FlowSteps(a, w) ==
  LET listing == IF WrappedSol \in VaultMints(a) THEN <<>>
                 ELSE <<AddVaultAllowedToken(Vault, w, WrappedSol)>>
      adds(s) == Missing(a, s, w, <<CreateTokenAccount(s, WrappedSol)>>)
  IN  FourByFour(listing \o ForActive(a, adds)) \o TokenAccounts(a)
      \o Each(One, ForActive(a, LAMBDA s : <<Settle(s, w, ToSet(PairSlots(a, s)))>>))

\* Mutant: only the balance and price rows are torn down.
TearDownKnown(a, s, w) ==
  LET rows == InOrder(s, {SourceOf(s, slot) : slot \in SourcesFor(a, s, {"balance", "price"})})
  IN  [n \in DOMAIN rows |-> CloseRow(s, w, rows[n])]
TearDown(a, s, w) ==
  LET rows == InOrder(s, {SourceOf(s, slot) : slot \in SourceSlots(a, s)})
  IN  [n \in DOMAIN rows |-> CloseRow(s, w, rows[n])]

\* Every source of every active strategy is removed; then one pair is added to
\* each, and each is settled from it.
RepairSources(a, w) ==
  FourByFour(
    ForActive(a, LAMBDA s : TearDown(a, s, w))
    \o ForActive(a, LAMBDA s : <<CreateTokenAccount(s, WrappedSol), Carrier(s, w, 0),
                                 Feed(s, w, 1, 0)>>)
    \o ForActive(a, LAMBDA s : <<Settle(s, w, {0, 1})>>))

WholePair(a, s) ==
  SourcesFor(a, s, {"balance"}) # {} /\ SourcesFor(a, s, {"price"}) # {}

\* Every strategy is funded with the mint; all but its first balance and its
\* first price source are removed; if it has both, it is settled from them.
DropDuplicates(a, w) ==
  LET balance(s) == SourcesFor(a, s, {"balance"})
      price(s)   == SourcesFor(a, s, {"price"})
      extra(s)   == {SourceOf(s, slot) : slot \in
                       (balance(s) \ {Min(balance(s))}) \cup (price(s) \ {Min(price(s))})}
      drops(s)   == LET rows == InOrder(s, extra(s))
                    IN  [n \in DOMAIN rows |-> CloseRow(s, w, rows[n])]
  IN  TokenAccounts(a) \o
      Each(One, ForActive(a, LAMBDA s : IF WholePair(a, s) THEN drops(s) ELSE <<>>)
        \o ForActive(a, LAMBDA s :
             IF WholePair(a, s) THEN <<Settle(s, w, {Min(balance(s)), Min(price(s))})>> ELSE <<>>))

\* Tokens of a mint for every active strategy, whose account is created first.
\* The wrapping script looks for the account before each transaction and puts the
\* creation into it, which fails if the account has come to exist since.
FundWithToken(a, m) ==
  Each(One, ForActive(a, LAMBDA s : <<CreateTokenAccount(s, m)>>))
OpenAccount(s, m) == [Instruction EXCEPT !.init = Row(TokenAccount(s, m), "tokens")]
WrapSol(a) ==
  Each(Needed, ForActive(a, LAMBDA s : <<OpenAccount(s, WrappedSol)>>))

\* The account for a strategy's cTokens, unless it is there.
InitCtokenAccount(s) == <<Needed(OpenAccount(s, "collateral"))>>

\* The strategies that have both rows for the mint are funded with it and, if the
\* key is the authority's, settled from the rows read before the first of them.
MintAndSettle(a, w, authority) ==
  LET paired(s, ixs) == IF WholePair(a, s) THEN ixs ELSE <<>>
  IN  Each(One, ForActive(a, LAMBDA s : paired(s, <<CreateTokenAccount(s, WrappedSol)>>)))
      \o IF authority
           THEN Each(One, ForActive(a, LAMBDA s : paired(s, <<Settle(s, w, SourceSlots(a, s))>>)))
           ELSE <<>>

\* A token nobody has seen before is listed, given a source in the first slot,
\* and settled from whatever sources the strategy has by then.
NewTokenScenario(g, w, s, m) ==
  <<One(AddAllowedToken(g, m)), One(AddVaultAllowedToken(Vault, w, m)),
    One(CreateTokenAccount(s, m)), One(AddValueSource(s, w, 0, Balance(m, 1))),
    One(Settle(s, w, Slots))>>

-----------------------------------------------------------------------------
(***************************************************************************)
(* The shell.                                                              *)
(***************************************************************************)
ShellRuns == shell.state = "running"
Launch(name, steps) ==
  /\ shell' = [Prompt EXCEPT !.script = name, !.state = "running", !.steps = steps,
                             !.alone = TRUE]
  /\ jobs' = jobs + 1
  /\ UNCHANGED <<acct, page, unlisted, disturbances>>

\* A script that cannot do its work, for it is not given the key it needs or a
\* slot is lacking, ends before its first transaction.
IsAdmin(v) == acct[VaultOf(v)].admin = Admin
IsAuthority(v) == acct[VaultOf(v)].authority = Admin
CanCreate == Count(acct) < MaxStrategies

StartListScript ==
  \/ Launch("seed_allowed_tokens", SeedAllowedTokens(Governance))
  \/ Launch("unseed_allowed_tokens", UnseedAllowedTokens(Governance))
  \/ Launch("seed_vault_tokens", SeedVaultAllowedTokens(Admin))
  \/ Launch("unseed_vault_tokens", UnseedVaultAllowedTokens(Admin))
  \/ \E m \in Mints : \/ Launch("init_token", InitAllowedToken(Governance, m))
                     \/ Launch("uninit_token", UninitAllowedToken(Governance, m))
StartSetupScript ==
  \/ CanCreate /\ Launch("setup_kamino", SetupKaminoStrategy(acct, Admin))
  \/ CanCreate /\ Launch("setup_lulo", SetupLuloStrategy(acct, Admin))
  \/ /\ IsAdmin(Vault) /\ CanCreate
     /\ Launch("create_strategies",
               CreateStrategies(Vault, Admin, Count(acct), MaxStrategies - 1))
  \/ \E s \in Strategies(acct), beyond \in BOOLEAN :
       Launch("kamino_loop", KaminoLoop(s, Admin, beyond))
  \/ \E s \in Strategies(acct) : Launch("register", RegisterCooldown(s, Admin))
StartVaultScript ==
  \/ /\ Exists(acct, VaultOf(DemoVault)) => acct[VaultOf(DemoVault)].admin \in {Admin, DemoKey}
     /\ Launch("setup_demo", SetupDemoVault(acct, Admin))
  \/ Launch("init_vault", InitVault(Admin)) \/ Launch("create_vault", CreateVault(acct, Admin))
  \/ /\ ~Exists(acct, VaultOf(FreshVault))
     /\ \/ Launch("setup_multi", SetupMultiVaults(Admin))
        \/ Launch("setup_full", SetupFull(Admin))
        \/ Launch("e2e_kamino", TestGateway(Admin))
  \/ IsAdmin(Vault) /\ Launch("hand_over", HandOver(Vault, Admin, Receiver))
  \/ Launch("take_over", TakeOver(Vault, Receiver))
StartSourceScript ==
  LET roomy == \A s \in Strategies(acct) : Active(acct, s) => HasRoom(acct, s)
  IN  \/ roomy /\ IsAdmin(Vault) /\ Launch("bootstrap", BootstrapSources(acct, Admin))
      \/ /\ roomy /\ IsAdmin(Vault) /\ IsAuthority(Vault)
         /\ Launch("flow", FlowSteps(acct, Admin))
      \/ /\ IsAdmin(Vault)
         /\ \A s \in Strategies(acct) :
              Active(acct, s) => Cardinality(Slots \ SourceSlots(acct, s)) >= 2
         /\ \E m \in Mints \ VaultMints(acct) :
              Exists(acct, Listed(m)) /\ Launch("toggle", ToggleToken(acct, Admin, m))
      \/ (IsAdmin(Vault) \/ IsAuthority(Vault)) /\ Launch("repair", RepairSources(acct, Admin))
      \/ (IsAdmin(Vault) \/ IsAuthority(Vault)) /\ Launch("dedupe", DropDuplicates(acct, Admin))
      \/ IsAuthority(Vault) /\ Launch("settle", SettleAll(acct, Admin))
      \/ \E m \in Mints : Launch("fund", FundWithToken(acct, m))
      \/ Launch("wrap", WrapSol(acct))
      \/ \E s \in Strategies(acct) : Launch("init_ctoken", InitCtokenAccount(s))
      \/ /\ \E s \in Strategies(acct) : Active(acct, s) /\ WholePair(acct, s)
         /\ Launch("mint_settle", MintAndSettle(acct, Admin, IsAuthority(Vault)))
      \/ \E s \in Strategies(acct), m \in Mints :
           /\ ~Exists(acct, Listed(m)) /\ ~Exists(acct, VaultListed(Vault, m))
           /\ \A u \in Strategies(acct) : m \notin MintsIn(acct, u)
           /\ Launch("new_token", NewTokenScenario(Governance, Admin, s, m))

StartScript ==
  /\ ~ShellRuns /\ jobs < MaxJobs
  /\ StartListScript \/ StartSetupScript \/ StartVaultScript \/ StartSourceScript

ScriptLands(r) ==
  /\ Lands(r)
  /\ page' = [t \in Pages |-> Overtaken(page[t])]
NextStep == [shell EXCEPT !.steps = Tail(@), !.raced = FALSE]
Ended(state) == [Prompt EXCEPT !.script = shell.script, !.state = state, !.alone = shell.alone]

RunStep ==
  /\ ShellRuns /\ shell.steps # <<>>
  /\ LET step    == Head(shell.steps)
         r       == Run(acct, step.tx)
         skipped == step.mode = "needed" /\ Unneeded(acct, step.tx[1])
         sent    == ~skipped /\ step.mode # "overdrawn" /\ r.ok
     IN  \/ /\ skipped
            /\ shell' \in {NextStep} \cup (IF shell.raced THEN {Ended("refused")} ELSE {})
            /\ UNCHANGED <<acct, page, unlisted>>
         \/ sent /\ ScriptLands(r) /\ shell' = NextStep
         \/ ~skipped /\ ~sent /\ shell' = Ended("refused") /\ UNCHANGED <<acct, page, unlisted>>
  /\ UNCHANGED <<jobs, disturbances>>

\* The answer is lost, or the script is interrupted.
ScriptDies ==
  /\ ShellRuns /\ shell.steps # <<>> /\ disturbances < MaxDisturbances
  /\ disturbances' = disturbances + 1
  /\ LET r == Run(acct, Head(shell.steps).tx)
     IN  \/ r.ok /\ ScriptLands(r)
         \/ UNCHANGED <<acct, page, unlisted>>
  /\ shell' = Ended("failed") /\ UNCHANGED jobs

FinishScript ==
  /\ ShellRuns /\ shell.steps = <<>>
  /\ shell' = Ended("done") /\ UNCHANGED consoleVars

\* Agents and the vault's authority use rows with a cooldown, which elapses.
UseElsewhere ==
  /\ \E key \in DOMAIN acct :
       /\ IsRow(key, {"action"}) /\ acct[key].cooldown
       /\ \E w \in People, beyond \in BOOLEAN :
            Submit(ExecuteAction(key[2], w, key[3], key[4], WrappedSol, beyond))
  /\ page' = [t \in Pages |-> Overtaken(page[t])]
CooldownElapses ==
  /\ disturbances < MaxDisturbances
  /\ disturbances' = disturbances + 1
  /\ \E key \in DOMAIN acct :
       /\ IsRow(key, {"action"}) /\ acct[key].cooling
       /\ acct' = [acct EXCEPT ![key] = [@ EXCEPT !.cooling = FALSE, !.calls = 0]]
  /\ UNCHANGED <<page, unlisted, jobs>>

ShellOvertaken ==
  IF acct' = acct THEN shell
  ELSE IF ShellRuns THEN [shell EXCEPT !.alone = FALSE, !.raced = TRUE]
  ELSE Prompt

ScriptsInit == ConsoleInit /\ shell = Prompt
ScriptsNext ==
  \/ StartScript \/ RunStep \/ ScriptDies \/ FinishScript
  \/ (ConsoleNext \/ UseElsewhere \/ CooldownElapses) /\ shell' = ShellOvertaken

ScriptsSpec == ScriptsInit /\ [][ScriptsNext]_scriptsVars

-----------------------------------------------------------------------------
DoneAlone(names) == shell.state = "done" /\ shell.alone /\ shell.script \in names

\* Whatever half-applied presets, leftover sources and duplicates it finds, a
\* repair nobody interfered with leaves every active strategy with one carrier
\* and one price source for the mint, and nothing else.
RepairRestores ==
  DoneAlone({"repair"}) =>
    \A s \in Strategies(acct) :
      Active(acct, s) => /\ SourceSlots(acct, s) = {0, 1}
                         /\ TimesCounted(acct, s, WrappedSol) = 1

\* A script that is not interfered with is not refused, however an earlier run
\* of it or of another one ended.  The scripts that settle from rows they did not
\* write, and those that create a strategy for a given delegate, may be refused.
ScriptsRerun ==
  shell.alone /\ shell.script \in {"seed_allowed_tokens", "unseed_allowed_tokens", "init_token",
                                   "setup_demo", "init_vault", "create_vault", "setup_multi",
                                   "setup_full", "create_strategies", "bootstrap"}
    => shell.state # "refused"

\* A script that ends well has done its work, also the part an earlier run that died
\* had not done.  Of the demo vault's authority it has done less than it prints
\* ("already admin + authority"): a run that died between the two acceptances leaves
\* it offered to the demo key, and no later run accepts it; but it is offered.
DoneMeansDone ==
  /\ DoneAlone({"seed_vault_tokens"}) =>
       \A m \in Mints : Exists(acct, Listed(m)) => Exists(acct, VaultListed(Vault, m))
  /\ DoneAlone({"setup_kamino"}) =>
       \A i \in {"deposit", "withdraw", "borrow", "repay"} :
         Exists(acct, ActionOf(<<Vault, Count(acct) - 1>>, "kamino", i))
  /\ DoneAlone({"setup_demo"}) =>
       LET vault == acct[VaultOf(DemoVault)]
       IN  vault.admin = DemoKey /\ DemoKey \in {vault.authority, vault.pendingAuthority}
  /\ DoneAlone({"bootstrap", "flow"}) =>
       \A s \in Strategies(acct) : Active(acct, s) =>
         SourcesFor(acct, s, {"balance"}) # {} /\ SourcesFor(acct, s, {"price"}) # {}

\* Between two times its cooldown has elapsed, an action is executed once, as
\* long as it stays registered.
CooldownHolds ==
  \A key \in DOMAIN acct :
    IsRow(key, {"action"}) /\ acct[key].cooldown => acct[key].calls <= 1
=============================================================================
