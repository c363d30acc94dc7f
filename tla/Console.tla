------------------------------- MODULE Console -------------------------------
(***************************************************************************)
(* The web console of a vault's administrator (app/src).  A page reads the *)
(* rows of a strategy and the token lists when it is loaded; a job turns   *)
(* what the page has read into transactions and sends them one by one,     *)
(* waiting for each, until one is refused or its answer is lost.  Other    *)
(* pages, scripts, governance and agents act in between.                   *)
(*                                                                         *)
(* Devnet: Kamino, Lulo and the price feeds are registered; Jupiter has no *)
(* program, so its preset writes value sources only.                       *)
(***************************************************************************)
EXTENDS StrategyConfig, SequencesExt, Listings

CONSTANTS
  Pages, Vault,
  Alphabet,         \* the mints in the order the token panel lists them
  Presets,          \* the presets, and "custom", that are applied
  Governance, Admin, Agents,
  Successors,       \* keys a role is handed over to
  MaxStrategies,    \* bound on strategies created
  MaxJobs,          \* bound on jobs started
  MaxDisturbances   \* bound on failures (lost answers, closed tabs, failed
                    \* reads) and transactions sent outside a job, together

ASSUME ConsoleAssumption ==
  /\ Alphabet \in Seq(Mints) /\ ToSet(Alphabet) = Mints /\ IsInjective(Alphabet)
  /\ {Governance, Admin} \cup Agents \cup Successors \subseteq People
  /\ MaxStrategies \in Nat /\ MaxJobs \in Nat /\ MaxDisturbances \in Nat
  /\ MaxInstructions >= 4    \* so many the token panel puts into a transaction

VARIABLES
  acct,             \* every account of the program that exists
  page,             \* what each open page has read, and its job
  unlisted,         \* history: whether a delegate was chosen with a list of
                    \* strategies that lacked one
  jobs, disturbances

consoleVars == <<acct, page, unlisted, jobs, disturbances>>

-----------------------------------------------------------------------------
(***************************************************************************)
(* Presets (lib/strategy-presets): the rows a preset writes, by address.   *)
(***************************************************************************)
Action == [capped |-> TRUE, out |-> FALSE, cooldown |-> FALSE]

Reads(account)    == [kind |-> "account", of |-> account, pair |-> 0, counts |-> TRUE]
Balance(m, scale) == [kind |-> "balance", of |-> m, pair |-> 0, counts |-> scale > 0]
Price(m, slot)    == [kind |-> "price", of |-> m, pair |-> slot, counts |-> TRUE]

Allowed(s, p, names) == {ActionOf(s, p, i) : i \in names}
Autos(s) == {AutoOf(s, kind) : kind \in {"deposit", "withdraw"}}

\* Actions and auto-actions of a protocol, and what it is valued by.
RowsFor(p, keys, account) ==
  [key \in keys |-> CASE key[1] = "action" -> Action
                      [] key[1] = "auto" -> p
                      [] OTHER -> Reads(account)]
KaminoLiquidity(s, obligation) ==
  RowsFor("kamino",
          Allowed(s, "kamino", {"deposit", "withdraw"}) \cup Autos(s) \cup {SourceOf(s, 0)},
          obligation)
KaminoLooperPreset(s, obligation) ==
  RowsFor("kamino",
          Allowed(s, "kamino", {"deposit", "withdraw", "borrow", "repay"})
            \cup Autos(s) \cup {SourceOf(s, 0)},
          obligation)
LuloLending(s) ==
  RowsFor("lulo", Allowed(s, "lulo", {"deposit", "withdraw"}) \cup Autos(s), "none")

\* Two sources for every mint of the vault, in the order the node returns
\* them: its balance, at the default scale of 1, and its price.
JupiterSwapper(s, order) ==
  [key \in {SourceOf(s, slot) : slot \in 0..(2 * Len(order) - 1)} |->
     LET slot == key[3]
         m    == order[slot \div 2 + 1]
     IN  IF slot % 2 = 0 THEN Balance(m, 1) ELSE Price(m, slot - 1)]

VaultMints(a) == {m \in Mints : Exists(a, VaultListed(Vault, m))}
Buildable(a, name) ==
  name = "jupiter_swapper" => Cardinality(VaultMints(a)) \in 1..(MaxSources \div 2)

Preset(name, s, obligation, order) ==
  CASE name = "kamino_liquidity" -> KaminoLiquidity(s, obligation)
    [] name = "kamino_looper" -> KaminoLooperPreset(s, obligation)
    [] name = "lulo_lending" -> LuloLending(s)
    [] name = "jupiter_swapper" -> JupiterSwapper(s, order)
    [] OTHER -> Empty

\* The rows a preset is built to: none if it cannot be built, and else rows that do
\* not depend on the order of the mints.
TargetRows(a, name, s) ==
  IF Buildable(a, name)
    THEN UNION {DOMAIN Preset(name, s, "any", order) : order \in SetToSeqs(VaultMints(a))}
    ELSE {}

\* Some of them, in the order they are written and revoked.
InOrder(s, rows) == Among(Catalogue(s), rows)

-----------------------------------------------------------------------------
(***************************************************************************)
(* Pages.                                                                  *)
(***************************************************************************)
IsRow(key, tags) == key[1] \in tags
RowsOf(a, s) == {key \in DOMAIN a : IsRow(key, RowKinds) /\ key[2] = s}
Count(a) == a[VaultOf(Vault)].count
FirstStrategies(n) == StrategiesUpTo(Vault, n)
Strategies(a) == StrategiesIn(a, Vault)

Idle == [kind |-> "none", state |-> "idle", todo |-> <<>>, adding |-> {},
         target |-> "none", had |-> {}, shown |-> {}, fresh |-> FALSE, raced |-> FALSE]
Closed == [wallet |-> "none", strategy |-> NoStrategy, seen |-> {}, mints |-> {},
           listed |-> {}, count |-> 0, job |-> Idle]

Running(t) == page[t].job.state = "running"
Todo(t) == page[t].job.todo

\* A read that fails leaves the page without rows of that kind.  What a page
\* reads after the last job is of no consequence: jobs < MaxJobs bounds it.
LoadPage(t, w, s, failed) ==
  /\ ~Running(t) /\ jobs < MaxJobs
  /\ failed # {} => disturbances < MaxDisturbances
  /\ disturbances' = disturbances + (IF failed = {} THEN 0 ELSE 1)
  /\ page' = [page EXCEPT ![t] =
       [wallet |-> w, strategy |-> s,
        seen |-> {key \in RowsOf(acct, s) : ~IsRow(key, failed)},
        mints |-> VaultMints(acct),
        listed |-> {m \in Mints : Exists(acct, Listed(m))},
        count |-> Count(acct),
        job |-> Idle]]
  /\ page' # page
  /\ UNCHANGED <<acct, unlisted, jobs>>

\* Every two minutes the vault and its strategies are read again, and with
\* them the auto-actions and the sources, but not the allowed actions.
Reread(t) ==
  [page[t] EXCEPT
     !.seen = {key \in @ : IsRow(key, {"action"})}
              \cup {key \in RowsOf(acct, page[t].strategy) : ~IsRow(key, {"action"})},
     !.count = Count(acct)]
RefreshPage(t) ==
  /\ ~Running(t) /\ page[t].wallet # "none" /\ jobs < MaxJobs
  /\ page[t] # Reread(t)
  /\ page' = [page EXCEPT ![t] = Reread(t)]
  /\ UNCHANGED <<acct, unlisted, jobs, disturbances>>

UpToDate(t) ==
  /\ page[t].seen = RowsOf(acct, page[t].strategy)
  /\ page[t].mints = VaultMints(acct)
  /\ page[t].listed = {m \in Mints : Exists(acct, Listed(m))}
  /\ page[t].count = Count(acct)
Fresh(t) ==
  /\ UpToDate(t)
  /\ acct[VaultOf(Vault)].admin = page[t].wallet

-----------------------------------------------------------------------------
(***************************************************************************)
(* Jobs.                                                                   *)
(***************************************************************************)
Start(t, job) ==
  /\ ~Running(t) /\ page[t].wallet # "none"
  /\ jobs < MaxJobs
  /\ jobs' = jobs + 1
  /\ page' = [page EXCEPT ![t].job = [job EXCEPT !.state = "running"]]
  /\ UNCHANGED <<acct, unlisted, disturbances>>

Single(ix) == <<ix>>
Revoke(t, key) == Single(CloseRow(page[t].strategy, page[t].wallet, key))
\* Mutant: the auto-actions are forgotten.
RevocationsOfSome(t, rows) ==
  LET order == InOrder(page[t].strategy, {key \in rows : ~IsRow(key, {"auto"})})
  IN  [n \in DOMAIN order |-> Revoke(t, order[n])]
Revocations(t, rows) ==
  LET order == InOrder(page[t].strategy, rows)
  IN  [n \in DOMAIN order |-> Revoke(t, order[n])]

\* Mutant: what is there already is added again.
ToAddAll(seen, target) == target
ToAdd(seen, target) == target \ seen

\* The rows the modal may show under a target, the last that were built: choosing
\* another target does not cancel the building that is under way.  Only the rows of
\* one preset take time, as they are read from the chain, where the list of mints
\* is as the page knows it or as it is now.  They may arrive under any other target;
\* until they do, the rows of the one chosen before stay; if the read fails, there
\* are none.
AsListed(mints) == [key \in {VaultListed(Vault, m) : m \in mints} |-> "listed"]
Previews(t, name) ==
  LET s    == page[t].strategy
      late == {TargetRows(a, "jupiter_swapper", s) : a \in {AsListed(page[t].mints), acct}}
      own  == {TargetRows(acct, other, s) :
                 other \in IF name = "jupiter_swapper" THEN Presets ELSE {name}}
  IN  own \cup late \cup {{}}

\* "Change preset": revoke the rows seen that the preview lacks, then add.
PresetJob(t, name, preview) ==
  LET seen == page[t].seen
  IN  [Idle EXCEPT
         !.kind = "preset", !.target = name, !.had = seen, !.shown = preview,
         !.todo = Revocations(t, seen \ preview),
         !.adding = IF name = "custom" THEN {} ELSE ToAdd(seen, preview),
         !.fresh = Fresh(t) /\ Active(acct, page[t].strategy)]
StartPreset(t, name) ==
  \E preview \in Previews(t, name) :
    page[t].seen # preview /\ Start(t, PresetJob(t, name, preview))

\* "Create strategy": the strategy, then every row of its preset.
StartCreate(t, name, d) ==
  LET s == <<Vault, page[t].count>>
  IN  /\ page[t].count < MaxStrategies
      /\ ~Running(t)
      /\ jobs < MaxJobs
      /\ jobs' = jobs + 1
      /\ page' = [page EXCEPT
           ![t].strategy = s, ![t].seen = {},
           ![t].job = [Idle EXCEPT
             !.kind = "create", !.state = "running", !.target = name,
             !.shown = TargetRows(acct, name, s),
             !.todo = <<Single(CreateStrategy(s, page[t].wallet, d,
                                              FirstStrategies(page[t].count)))>>,
             !.adding = IF name = "custom" THEN {} ELSE PossibleRows(s),
             !.fresh = Fresh(t) /\ Buildable(acct, name)
                         /\ \A u \in Strategies(acct) :
                              Active(acct, u) => acct[StrategyOf(u)].delegate # d]]
      /\ page[t].wallet # "none"
      /\ UNCHANGED <<acct, unlisted, disturbances>>

\* The additions, computed from the chain when the revocations are done.
Additions(t, order) ==
  LET s     == page[t].strategy
      job   == page[t].job
      rows  == Preset(job.target, s, IF job.kind = "create" THEN "obligation" ELSE "synthetic",
                      order)
      adds  == InOrder(s, job.adding \cap DOMAIN rows)
  IN  [n \in DOMAIN adds |-> Single(AddRow(s, page[t].wallet, adds[n], rows[adds[n]]))]
BuildAdditions(t) ==
  /\ Running(t) /\ Todo(t) = <<>> /\ page[t].job.adding # {}
  /\ IF Buildable(acct, page[t].job.target)
       THEN \E order \in SetToSeqs(VaultMints(acct)) :
              page' = [page EXCEPT ![t].job.todo = Additions(t, order), ![t].job.adding = {}]
       ELSE page' = [page EXCEPT ![t].job = [Idle EXCEPT !.state = "failed"]]
  /\ UNCHANGED <<acct, unlisted, jobs, disturbances>>

ActiveOf(a) ==
  Among([n \in 1..Count(a) |-> <<Vault, n - 1>>], {s \in Strategies(a) : Active(a, s)})
ForActive(a, ixs(_)) ==
  LET actives == ActiveOf(a)
  IN  FlattenSeq([k \in DOMAIN actives |-> ixs(actives[k])])

\* The slots of a strategy that are free when a client looks, as it hands them out.
Handed(a, s) == Ascending(Slots \ SourceSlots(a, s))

\* The token panel: what it adds to a strategy for the n-th mint, in the next two
\* slots.  The balance source only carries the balance to the price source; a
\* strategy whose slots have run out is passed over.
\* Mutant: the carrier is counted as well.
PlumbingCounted(a, s, w, m, n) ==
  LET free    == Handed(a, s)
      balance == free[2 * n - 1]
  IN  (IF 2 * n - 1 \in DOMAIN free
         THEN <<CreateTokenAccount(s, m), AddValueSource(s, w, balance, Balance(m, 1))>>
         ELSE <<>>)
      \o (IF 2 * n \in DOMAIN free
            THEN <<AddValueSource(s, w, free[2 * n], Price(m, balance))>> ELSE <<>>)
Plumbing(a, s, w, m, n) ==
  LET free    == Handed(a, s)
      balance == free[2 * n - 1]
  IN  (IF 2 * n - 1 \in DOMAIN free
         THEN <<CreateTokenAccount(s, m), AddValueSource(s, w, balance, Balance(m, 0))>>
         ELSE <<>>)
      \o (IF 2 * n \in DOMAIN free
            THEN <<AddValueSource(s, w, free[2 * n], Price(m, balance))>> ELSE <<>>)

PanelAdditions(a, w, m, n) ==
  <<AddVaultAllowedToken(Vault, w, m)>> \o ForActive(a, LAMBDA s : Plumbing(a, s, w, m, n))

\* Removing a mint leaves its sources behind: the filter that should find them
\* compares the vault field of a source with the strategy's key.
PanelRemovals(w, removed) ==
  LET gone == Among(Alphabet, removed)
  IN  [n \in DOMAIN gone |-> RemoveVaultAllowedToken(Vault, w, gone[n])]

\* Strategies and slots are read when the panel is applied.
PanelInstructions(a, w, added, removed) ==
  LET new == Among(Alphabet, added)
  IN  FlattenSeq([n \in DOMAIN new |-> PanelAdditions(a, w, new[n], n)])
      \o PanelRemovals(w, removed)

\* Four instructions to a transaction.
Chunked(ixs) ==
  [n \in 1..((Len(ixs) + 3) \div 4) |-> SubSeq(ixs, 4 * n - 3, Min({4 * n, Len(ixs)}))]

MintsIn(a, s) == {SourceAt(a, s, slot).of : slot \in SourceSlots(a, s)}
PricesPaired(a, s) ==
  \A slot \in SourceSlots(a, s) :
    SourceAt(a, s, slot).kind = "price" => Exists(a, SourceOf(s, SourceAt(a, s, slot).pair))

StartTokens(t, target) ==
  LET added   == target \ page[t].mints
      removed == page[t].mints \ target
  IN  /\ target \subseteq page[t].listed
      /\ target # page[t].mints \cap page[t].listed
      /\ Start(t, [Idle EXCEPT
           !.kind = "tokens",
           !.shown = {pair \in Strategies(acct) \X added :
                        /\ Active(acct, pair[1]) /\ PricesPaired(acct, pair[1])
                        /\ pair[2] \notin MintsIn(acct, pair[1])},
           !.todo = Chunked(PanelInstructions(acct, page[t].wallet, added, removed)),
           !.fresh = Fresh(t)])

Lands(r) == acct' = r.acct /\ unlisted' = (unlisted \/ ~r.listed)

Overtaken(p) ==
  IF p.job.state = "running" THEN [p EXCEPT !.job.fresh = FALSE, !.job.raced = TRUE]
  ELSE [p EXCEPT !.job = Idle]
\* This page goes on like this, the others have been overtaken.
OnPage(t, mine) == page' = [u \in Pages |-> IF u = t THEN mine ELSE Overtaken(page[u])]
Advance(t) == [page[t] EXCEPT !.job.todo = Tail(@), !.job.raced = FALSE]
Stopped(t, state) ==
  [page[t] EXCEPT !.job = [Idle EXCEPT !.state = state, !.fresh = page[t].job.fresh]]

Send(t) ==
  /\ Running(t) /\ Todo(t) # <<>>
  /\ LET r == Run(acct, Head(Todo(t)))
     IN  IF r.ok
           THEN Lands(r) /\ OnPage(t, Advance(t))
           ELSE /\ page' = [page EXCEPT ![t] = Stopped(t, "refused")]
                /\ UNCHANGED <<acct, unlisted>>
  /\ UNCHANGED <<jobs, disturbances>>

\* An addition that passed its simulation and then fails, overtaken by others:
\* the modal waits for its confirmation and does not look at the outcome.
FailUnnoticed(t) ==
  /\ Running(t) /\ Todo(t) # <<>> /\ page[t].job.raced
  /\ page[t].job.kind \in {"preset", "create"}
  /\ \E ix \in {Head(Todo(t))[1]} : ix.do = "configure" /\ ix.close = {}
  /\ ~Run(acct, Head(Todo(t))).ok
  /\ page' = [page EXCEPT ![t] = Advance(t)]
  /\ UNCHANGED <<acct, unlisted, jobs, disturbances>>

\* The answer is lost, whether the transaction landed or not.
AnswerLost(t) ==
  /\ Running(t) /\ Todo(t) # <<>> /\ disturbances < MaxDisturbances
  /\ disturbances' = disturbances + 1
  /\ LET r == Run(acct, Head(Todo(t)))
     IN  \/ r.ok /\ Lands(r) /\ OnPage(t, Stopped(t, "failed"))
         \/ /\ page' = [page EXCEPT ![t] = Stopped(t, "failed")]
            /\ UNCHANGED <<acct, unlisted>>
  /\ UNCHANGED jobs

CloseTab(t) ==
  /\ Running(t) /\ disturbances < MaxDisturbances
  /\ disturbances' = disturbances + 1
  /\ page' = [page EXCEPT ![t] = Closed]
  /\ UNCHANGED <<acct, unlisted, jobs>>

\* Every transaction went through; what the page reads again.
Finish(t) ==
  /\ Running(t) /\ Todo(t) = <<>> /\ page[t].job.adding = {}
  /\ page' = [page EXCEPT ![t] =
       [(IF page[t].job.kind = "tokens"
           THEN [page[t] EXCEPT !.mints = VaultMints(acct),
                                !.listed = {m \in Mints : Exists(acct, Listed(m))}]
           ELSE Reread(t)) EXCEPT !.job.state = "applied"]]
  /\ UNCHANGED <<acct, unlisted, jobs, disturbances>>

-----------------------------------------------------------------------------
(***************************************************************************)
(* Single transactions: the editors of a page, and everybody else.         *)
(***************************************************************************)
Accepted(ix) == Run(acct, Single(ix)).ok
Submit(ix) ==
  /\ disturbances < MaxDisturbances
  /\ disturbances' = disturbances + 1
  /\ Accepted(ix)
  /\ Lands(Run(acct, Single(ix)))
  /\ UNCHANGED jobs

\* The editor of allowed actions reads them again for the whole page.
ActionsReread(t) ==
  [page[t] EXCEPT
     !.seen = {key \in @ : ~IsRow(key, {"action"})}
              \cup {key \in RowsOf(acct', page[t].strategy) : IsRow(key, {"action"})},
     !.count = Count(acct'), !.job = Idle]
OnlyCount(t) == [page[t] EXCEPT !.count = Count(acct'), !.job = Idle]

\* The row the form of the actions editor is filled in with: no loss cap and no
\* cooldown can be entered.
EnteredAction == [Action EXCEPT !.capped = FALSE, !.out = TRUE]
EditActions(t) ==
  LET s == page[t].strategy
      w == page[t].wallet
  IN  /\ ~Running(t) /\ w # "none"
      /\ \/ Submit(AddAllowedAction(s, w, "jupiter", "route", EnteredAction))
         \/ \E key \in {k \in page[t].seen : IsRow(k, {"action"})} :
              Submit(RemoveAllowedAction(s, w, key[3], key[4]))
      /\ OnPage(t, ActionsReread(t))

FreeSlots(s) == Slots \ SourceSlots(acct, s)
Submits(t, ixs) ==
  /\ ~Running(t) /\ page[t].wallet # "none"
  /\ \E ix \in ixs : Submit(ix)
  /\ OnPage(t, OnlyCount(t))

\* The editors of auto-actions, sources and delegate, the button that retires a
\* strategy and the form that proposes a successor.
EditAutoActions(t) ==
  LET s == page[t].strategy
      w == page[t].wallet
  IN  Submits(t, {SetAutoAction(s, w, kind, "lulo") : kind \in {"deposit", "withdraw"}}
                 \cup {ClearAutoAction(s, w, kind) : kind \in {"deposit", "withdraw"}})
EditSources(t) ==
  LET s == page[t].strategy
      w == page[t].wallet
      free == FreeSlots(s)
  IN  Submits(t, {RemoveValueSource(s, w, slot) : slot \in Slots}
                 \cup {AddValueSource(s, w, Min(free), Balance(m, 1)) :
                         m \in IF free = {} THEN {} ELSE Mints})
EditDelegate(t) ==
  Submits(t, {UpdateDelegate(page[t].strategy, page[t].wallet, d, FirstStrategies(page[t].count)) :
                d \in Agents})
Deactivate(t) == Submits(t, {DeactivateStrategy(page[t].strategy, page[t].wallet)})
ProposeSuccessor(t) ==
  Submits(t, {ProposeAdmin(Vault, page[t].wallet, k) : k \in Successors}
             \cup {ProposeAuthority(Vault, page[t].wallet, k) : k \in Successors})

\* Governance edits the protocol's token list; the one a role is handed over to
\* accepts it.
GovernanceEdits ==
  \E m \in Mints :
    Submit(AddAllowedToken(Governance, m)) \/ Submit(RemoveAllowedToken(Governance, m))
RoleAccepted ==
  \E k \in Successors : Submit(AcceptAdmin(Vault, k)) \/ Submit(AcceptAuthority(Vault, k))
Elsewhere ==
  /\ GovernanceEdits \/ RoleAccepted
  /\ page' = [u \in Pages |-> Overtaken(page[u])]

\* A vault with one strategy nothing is configured for yet.
ConsoleInit ==
  /\ acct = [key \in {Config, VaultOf(Vault), StrategyOf(<<Vault, 0>>)} \cup {Listed(m) : m \in Mints} |->
               CASE key[1] = "config" -> [governance |-> Governance]
                 [] key[1] = "vault" -> [admin |-> Admin, authority |-> Admin, count |-> 1,
                                         pendingAdmin |-> "other", pendingAuthority |-> "other"]
                 [] key[1] = "strategy" -> [active |-> TRUE, delegate |-> "agent",
                                            approved |-> "agent"]
                 [] OTHER -> "listed"]
  /\ page = [t \in Pages |-> Closed]
  /\ unlisted = FALSE /\ jobs = 0 /\ disturbances = 0

ConsoleNext ==
  \/ \E t \in Pages :
       \/ \E w \in {Admin}, s \in Strategies(acct), failed \in {{}, {"action"}} :
            LoadPage(t, w, s, failed)
       \/ RefreshPage(t)
       \/ \E name \in Presets : StartPreset(t, name) \/ \E d \in Agents : StartCreate(t, name, d)
       \/ \E target \in SUBSET Mints : StartTokens(t, target)
       \/ BuildAdditions(t) \/ Send(t) \/ FailUnnoticed(t) \/ AnswerLost(t)
       \/ CloseTab(t) \/ Finish(t)
       \/ EditActions(t) \/ EditAutoActions(t) \/ EditSources(t) \/ EditDelegate(t)
       \/ Deactivate(t) \/ ProposeSuccessor(t)
  \/ Elsewhere

ConsoleSpec == ConsoleInit /\ [][ConsoleNext]_consoleVars

-----------------------------------------------------------------------------
\* A preset that was applied leaves, of the rows it announced, those that were there
\* and those the chosen target has, and no others; a strategy created with a preset
\* has all its rows; if the page was up to date and nobody interfered.  So what the
\* "will revoke" column announced is gone and nothing else is, whatever rows arrived
\* late, and what "will add" announced is there if the preview was the target's.
AppliedAsShown ==
  \A t \in Pages :
    LET job == page[t].job
        s   == page[t].strategy
    IN  /\ job.state = "applied" /\ job.fresh /\ job.kind = "preset"
             => RowsOf(acct, s) = job.shown \cap (job.had \cup TargetRows(acct, job.target, s))
        /\ job.state = "applied" /\ job.fresh /\ job.kind = "create"
             => RowsOf(acct, s) = job.shown

\* Whatever half-applied preset, deleted row or full strategy earlier jobs left
\* behind, a page that shows the chain as it is can always finish its job.
FreshIsNeverRefused ==
  \A t \in Pages : page[t].job.fresh => page[t].job.state # "refused"

\* After the token panel, a mint it added counts exactly once in the value of
\* every strategy that had no source for it, unless its slots have run out.
PanelPricesOnce ==
  \A t \in Pages :
    LET job == page[t].job
    IN  job.state = "applied" /\ job.fresh /\ job.kind = "tokens"
          => \A pair \in job.shown :
               \/ TimesCounted(acct, pair[1], pair[2]) = 1
               \/ SourceSlots(acct, pair[1]) = Slots

\* No two active strategies have the same delegate, as long as each delegate
\* was chosen with every strategy of the vault listed for comparison.
DelegatesDistinct ==
  unlisted
  \/ \A s, u \in Strategies(acct) :
       Active(acct, s) /\ Active(acct, u) /\ s # u
       => acct[StrategyOf(s)].delegate # acct[StrategyOf(u)].delegate
=============================================================================
