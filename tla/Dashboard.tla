----------------------------- MODULE Dashboard -----------------------------
(***************************************************************************)
(* What the pages of the web application show (app/src): the provider that *)
(* reads the vault of the URL, the hooks that read strategies and          *)
(* positions on timers, the panels that load once, and the feed that joins *)
(* a backfill to a live subscription.                                      *)
(*                                                                         *)
(* A read is a request: it is sent, the node answers with the state of     *)
(* some moment in between, and the answer is put on the page when it       *)
(* arrives, in any order.  Some effects discard the answers to requests    *)
(* that have been superseded (a cancelled flag); the others take every     *)
(* answer.  What is read is abstracted to whose state it is and how many   *)
(* of that vault's transactions it has seen.                               *)
(***************************************************************************)
EXTENDS Integers, FiniteSets, SequencesExt, Listings

CONSTANTS
  Vaults, First,      \* the registry, and its first entry
  Home,               \* the page that lists the vaults
  Wallets, NoWallet,
  Global,             \* what a transaction is about that concerns no vault
  FeedLimit,          \* rows of the feed
  BackfillLimit,      \* signatures the feed starts with
  Attempts,           \* of the read of the allow-list, when the node is busy
  Groups,             \* panels looked at together; those of different groups
                      \* have nothing in common
  MaxInFlight,        \* bound on requests of one store under way
  MaxEvents(_)        \* bound on transactions, navigations, changes of the
                      \* wallet and failures, for a group of panels

ASSUME DashboardAssumption ==
  /\ First \in Vaults /\ Home \notin Vaults /\ Global \notin Vaults
  /\ NoWallet \notin Wallets
  /\ FeedLimit \in Nat \ {0} /\ BackfillLimit \in Nat
  /\ Attempts \in Nat \ {0}
  /\ MaxInFlight \in Nat \ {0} /\ \A g \in Groups : MaxEvents(g) \in Nat

VARIABLES
  log,                \* transactions of the program: the vault of each
  mounted,            \* the group of panels looked at
  page, wallet,
  shown,              \* what each store holds
  flight,             \* requests under way
  rows,               \* the feed, newest first: places in the log
  live, wire,         \* whether the node has the page's subscription, and the
                      \* places in the log it has yet to announce
  opened, settled,    \* history: length of the log when the feed was last begun,
                      \* and when it was last not ready
  events              \* history: how many of them have happened

view == <<mounted, page, wallet, shown, flight, rows, live, wire, opened, settled>>
dashVars == <<view, log, events>>

Timed == {"vault", "strategies", "position"}
Polled == Timed \cup {"mix"}
Cancelling == {"mix", "apy", "stats", "list", "feed"}
Stores == Timed \cup Cancelling \cup {"actions"}
Panels == Stores \ {"feed"}    \* the feed's rows are in a variable of their own

Empty == [of |-> Home]

\* The vault of the URL; other pages fall back to the first of the registry.
Entry(p) == IF p = Home THEN First ELSE p
Seen(v, n) == Cardinality({i \in 1..n : log[i] = v})
Now == Len(log)

-----------------------------------------------------------------------------
(***************************************************************************)
(* Requests.                                                               *)
(***************************************************************************)
\* A request of a store on page p for wallet w, sent when the log has n entries.
Request(store, p, w, n) ==
  [store |-> store, of |-> Entry(p), wallet |-> w, since |-> n, try |-> 1]

\* The stores of the page that lists the vaults and those of a vault's pages.
HomeStores == {"stats", "list"}
StoresOf(p) == mounted \cap (IF p = Home THEN HomeStores ELSE Stores \ HomeStores)

\* The requests effects send when their page or their wallet is new.  Without a
\* wallet there is no position to read; the token mix waits for other stores.
Asks(stores, p, w, n) ==
  {Request(s, p, w, n) : s \in (stores \cap StoresOf(p)) \ 
                                ({"mix"} \cup (IF w = NoWallet THEN {"position"} ELSE {}))}

Of(store) == {r \in flight : r.store = store}

\* The token mix is computed from the vault and its strategies, once both are
\* there, and again from the start whenever one of them is set.
MixReady(p, held) ==
  "mix" \in StoresOf(p) /\ held.vault # Empty /\ held.strategies # Empty
MixAsks(p, held, n) ==
  IF MixReady(p, held) THEN {Request("mix", p, NoWallet, n)} ELSE {}

-----------------------------------------------------------------------------
(***************************************************************************)
(* The user.                                                               *)
(***************************************************************************)
Happens == events < MaxEvents(mounted) /\ events' = events + 1

\* Mutant: nothing is cancelled.
KeptAll(remounted) == {r \in flight : r.store = "vault" \/ ~remounted}
\* Requests that survive a navigation: the provider's, which is above the
\* pages, and those of hooks without a cancelled flag if the framework keeps
\* the page's components and only hands them the new address.
Kept(remounted) ==
  {r \in flight : \/ r.store = "vault"
                  \/ ~remounted /\ r.store \in Stores \ Cancelling}

\* The provider forgets the vault when the entry changes; strategies and panels
\* are cleared, the position and the allow-list are not.
Cleared(p, remounted) ==
  [s \in Panels |->
     IF \/ s = "vault" /\ Entry(p) = Entry(page)
        \/ ~remounted /\ (s = "actions" \/ (s = "position" /\ wallet # NoWallet))
       THEN shown[s] ELSE Empty]

Navigate(p, remounted) ==
  /\ Happens /\ p # page
  /\ remounted \/ (p # Home /\ page # Home)
  /\ page' = p
  /\ shown' = Cleared(p, remounted)
  /\ flight' = Kept(remounted) \cup Asks(Stores, p, wallet, Now)
  /\ rows' = <<>> /\ live' = FALSE /\ wire' = <<>>
  /\ opened' = Now /\ settled' = Now
  /\ UNCHANGED <<log, mounted, wallet>>

\* Every effect reads through a program object that is made anew for another
\* wallet, and runs again: what it cancels is cancelled and what it clears is
\* cleared, and the feed begins again with its backfill.
ChangeWallet(w) ==
  /\ Happens /\ w # wallet
  /\ wallet' = w
  /\ shown' = [shown EXCEPT !.stats = Empty, !.apy = Empty,
                            !.position = IF w = NoWallet THEN Empty ELSE @]
  /\ flight' = {r \in flight : r.store \notin Cancelling}
                 \cup Asks(Stores, page, w, Now) \cup MixAsks(page, shown, Now)
  /\ rows' = <<>> /\ live' = FALSE /\ wire' = <<>>
  /\ opened' = Now /\ settled' = Now
  /\ UNCHANGED <<log, mounted, page>>

\* What a timer of the page asks for.
Polls(store) ==
  IF store = "mix" THEN MixAsks(page, shown, Now) ELSE Asks({store}, page, wallet, Now)

\* Mutant: a store that holds something of this vault is not read again.
RefreshOnce(store) ==
  /\ Cardinality(Of(store)) < MaxInFlight
  /\ shown[store] = Empty \/ shown[store].of # page
  /\ Polls(store) \ flight # {}
  /\ flight' = flight \cup Polls(store)
  /\ UNCHANGED <<log, mounted, page, wallet, shown, rows, live, wire, opened, settled, events>>
\* A timer, or the refresh that follows the user's transaction.
Refresh(store) ==
  /\ Cardinality(Of(store)) < MaxInFlight
  /\ Polls(store) \ flight # {}
  /\ flight' = flight \cup Polls(store)
  /\ UNCHANGED <<log, mounted, page, wallet, shown, rows, live, wire, opened, settled, events>>

\* Nobody's position is nothing.
RefreshNobody ==
  /\ wallet = NoWallet /\ shown.position # Empty
  /\ shown' = [shown EXCEPT !.position = Empty]
  /\ UNCHANGED <<log, mounted, page, wallet, flight, rows, live, wire, opened, settled, events>>

-----------------------------------------------------------------------------
(***************************************************************************)
(* Answers.                                                                *)
(***************************************************************************)
Put(r, value) ==
  LET held == [shown EXCEPT ![r.store] = value]
  IN  /\ shown' = held
      /\ flight' = IF r.store \in {"vault", "strategies"}
                     THEN ((flight \ {r}) \ Of("mix")) \cup MixAsks(page, held, Now)
                     ELSE flight \ {r}
      /\ UNCHANGED <<log, mounted, page, wallet, rows, live, wire, opened, settled, events>>

\* One batched read, answered at a moment since the request.
Answer(r) ==
  \E n \in r.since..Now : Put(r, [of |-> r.of, wallet |-> r.wallet, at |-> Seen(r.of, n)])

ArriveVault(r) == r.store = "vault" /\ Answer(r)
ArrivePosition(r) == r.store = "position" /\ Answer(r)
\* What the chart has made of the last transactions.
ArriveApy(r) == r.store = "apy" /\ Answer(r)
\* Totals over the vaults, and the wallet's part of them.
ArriveStats(r) == r.store = "stats" /\ Answer(r)
ArriveList(r) == r.store = "list" /\ Answer(r)
\* The allow-list of the vault, by strategy.
ArriveActions(r) == r.store = "actions" /\ Answer(r)

\* Accounts first, then the balances of their token accounts.
ArriveStrategies(r) ==
  /\ r.store = "strategies"
  /\ \E n \in r.since..Now : \E k \in n..Now :
       Put(r, [of |-> r.of, accounts |-> Seen(r.of, n), balances |-> Seen(r.of, k)])

\* Balances as of now, the reserve and the list of strategies as shown.
ArriveMix(r) ==
  /\ r.store = "mix"
  /\ \E n \in r.since..Now :
       Put(r, [of |-> r.of, vault |-> shown.vault, strategies |-> shown.strategies,
                     at |-> Seen(r.of, n)])

\* A read that fails leaves the page as it was; panels that load once show
\* nothing, as if there were nothing.
Nothing(r) == [of |-> r.of, wallet |-> r.wallet, at |-> 0]
Fail(r) ==
  /\ Happens
  /\ shown' = IF r.store \in {"apy", "stats", "list", "actions"}
                THEN [shown EXCEPT ![r.store] = Nothing(r)] ELSE shown
  /\ flight' = flight \ {r}
  /\ UNCHANGED <<log, mounted, page, wallet, rows, live, wire, opened, settled>>

\* The node is busy: the allow-list is asked for again, so many times.
Busy(r) ==
  /\ Happens
  /\ r.store = "actions" /\ r.try < Attempts
  /\ flight' = (flight \ {r}) \cup {[r EXCEPT !.since = Now, !.try = r.try + 1]}
  /\ UNCHANGED <<log, mounted, page, wallet, shown, rows, live, wire, opened, settled>>

-----------------------------------------------------------------------------
(***************************************************************************)
(* The feed.                                                               *)
(***************************************************************************)
Relevant(v, i) == log[i] \in {v, Global}
\* The events of v among the places from a to b, newest first.
Places(v, a, b) == {i \in a..b : i > 0 /\ Relevant(v, i)}
Newest(v, a, b) == Descending(Places(v, a, b))
Cut(s) == SubSeq(s, 1, IF Len(s) < FeedLimit THEN Len(s) ELSE FeedLimit)

\* The backfill replaces what the subscription has brought so far.
Backfill(r) ==
  /\ r.store = "feed"
  /\ \E n \in r.since..Now : rows' = Newest(r.of, n + 1 - BackfillLimit, n)
  /\ flight' = flight \ {r}
  /\ UNCHANGED <<log, mounted, page, wallet, shown, live, wire, opened, settled, events>>

\* The node has taken up the subscription.
Subscribe ==
  /\ ~live /\ "feed" \in StoresOf(page)
  /\ live' = TRUE
  /\ UNCHANGED <<log, mounted, page, wallet, shown, flight, rows, wire, opened, settled, events>>

\* Mutant: at the end.
JoinLast(i) == Cut(Append(rows, i))
\* The newest first, so many and no more.
Join(i) == Cut(<<i>> \o rows)

Announce ==
  /\ wire # <<>>
  /\ rows' = IF Relevant(page, Head(wire)) THEN Join(Head(wire)) ELSE rows
  /\ wire' = Tail(wire)
  /\ UNCHANGED <<log, mounted, page, wallet, shown, flight, live, opened, settled, events>>

Ready == live /\ Of("feed") = {}

-----------------------------------------------------------------------------
\* Somebody's transaction.
Transact(v) ==
  /\ Happens
  /\ log' = Append(log, v)
  /\ wire' = IF live THEN Append(wire, Now + 1) ELSE wire
  /\ settled' = IF Ready THEN settled ELSE Now + 1
  /\ UNCHANGED <<mounted, page, wallet, shown, flight, rows, live, opened>>

\* Any page may be the one the user comes to first.
DashInit ==
  /\ log = <<>>
  /\ mounted \in Groups
  /\ page \in Vaults \cup {Home} /\ wallet = NoWallet
  /\ shown = [s \in Panels |-> Empty]
  /\ flight = Asks(Stores, page, NoWallet, 0)
  /\ rows = <<>> /\ live = FALSE /\ wire = <<>>
  /\ opened = 0 /\ settled = 0
  /\ events = 0

Arrive(r) ==
  \/ ArriveVault(r) \/ ArriveStrategies(r) \/ ArrivePosition(r) \/ ArriveMix(r)
  \/ ArriveApy(r) \/ ArriveStats(r) \/ ArriveList(r) \/ ArriveActions(r)
  \/ Backfill(r)

DashNext ==
  \/ \E p \in Vaults \cup {Home}, remounted \in BOOLEAN : Navigate(p, remounted)
  \/ \E w \in Wallets \cup {NoWallet} : ChangeWallet(w)
  \/ \E store \in Polled : Refresh(store)
  \/ RefreshNobody
  \/ \E r \in flight : Arrive(r) \/ Fail(r) \/ Busy(r)
  \/ Subscribe \/ Announce
  \/ \E v \in Vaults \cup {Global} : Transact(v)

\* Timers keep running and the node answers.
DashSpec ==
  /\ DashInit /\ [][DashNext]_dashVars
  /\ \A store \in Polled : WF_dashVars(Refresh(store))
  /\ WF_dashVars(RefreshNobody)
  /\ \A store \in Stores : WF_dashVars(\E r \in Of(store) : Arrive(r))

-----------------------------------------------------------------------------
\* What a panel with a cancelled flag shows is of the vault and the wallet the
\* page is for, however late the answers to earlier pages and wallets arrive.
CancellingPanelsAreOwn ==
  /\ shown.stats # Empty => shown.stats.wallet = wallet
  /\ shown.apy # Empty => shown.apy.of = page
  /\ \A i \in DOMAIN rows : Relevant(page, rows[i])

\* Transactions between the beginning of the feed and its being ready: the node
\* may announce them and the backfill list them, both, either or neither.
Raced == (opened + 1)..settled

\* The feed lists events newest first, each once, and misses none since it began
\* unless it is full and those it shows are newer.  Only events of the moments
\* between its beginning and its being ready may be missed, listed twice (never
\* more) or out of order, whichever of backfill and subscription came first.
FeedIsExact ==
  "feed" \in StoresOf(page) /\ Ready /\ wire = <<>> =>
    /\ \A i, j \in DOMAIN rows :
         i < j => rows[i] > rows[j] \/ {rows[i], rows[j]} \subseteq Raced
    /\ \A i, j, k \in DOMAIN rows : i < j /\ j < k => rows[i] # rows[j] \/ rows[j] # rows[k]
    /\ \A x \in (1..Now) \ Raced :
         \/ ~Relevant(page, x) \/ \E i \in DOMAIN rows : rows[i] = x
         \/ /\ \A i \in DOMAIN rows : rows[i] > x
            /\ x <= opened \/ Len(rows) >= FeedLimit

\* What the page shows of a vault, of its strategies and of the wallet's
\* position is right, and so is the token mix computed from them.
Current(store) ==
  LET n == Seen(page, Now)  it == shown[store]
  IN  CASE store = "vault"      -> it # Empty /\ it.of = page /\ it.at = n
        [] store = "strategies" -> it = [of |-> page, accounts |-> n, balances |-> n]
        [] store = "position"   -> IF wallet = NoWallet THEN it = Empty
                                   ELSE it = [of |-> page, wallet |-> wallet, at |-> n]
        [] store = "mix"        -> it = [of |-> page, vault |-> shown.vault,
                                         strategies |-> shown.strategies, at |-> n]
\* The panels that load once do not go on loading.
Settled(store) == shown[store] # Empty

\* Whatever late answers and failures have put on the page, timers repair it:
\* in the end every store that is polled is right, and no panel is loading.
Converges ==
  <>[](\A store \in StoresOf(page) \ {"feed"} :
         IF store \in Polled THEN Current(store) ELSE Settled(store))
=============================================================================
