-------------------------- MODULE DashboardProofs --------------------------
(***************************************************************************)
(* What the pages show is of the vault and the wallet they are for, and    *)
(* what the feed may miss or repeat fell between its beginning and its     *)
(* being ready, for every number of vaults, wallets, requests under way    *)
(* and transactions, and in every order of the answers.                    *)
(***************************************************************************)
EXTENDS Dashboard, ArithmeticTheorems

-----------------------------------------------------------------------------
(***************************************************************************)
(* The inductive invariant.                                                *)
(***************************************************************************)
\* Places in the log up to here have reached the page.
Delivered == Now - Len(wire)

PageInv ==
  /\ log \in Seq(Vaults \cup {Global})
  /\ opened \in 0..Now
  /\ DOMAIN shown = Panels
  /\ live \in BOOLEAN

Fields == {"store", "of", "wallet", "since", "try"}

\* The requests under way whose answers are cancelled with their page or wallet
\* are those of this page and this wallet.
FlightInv ==
  \A r \in flight :
    /\ DOMAIN r = Fields
    /\ r.since \in 0..Now
    /\ r.store \in {"apy", "feed"} => r.of = page
    /\ r.store = "stats" => r.wallet = wallet
    /\ r.store = "feed" => r.since >= opened

PanelsInv ==
  /\ shown["stats"] # Empty => shown["stats"].wallet = wallet
  /\ shown["apy"] # Empty => shown["apy"].of = page

\* What the node has yet to announce are the latest places of the log.
WireInv ==
  /\ wire \in Seq(Nat)
  /\ opened <= Delivered
  /\ \A k \in 1..Len(wire) : wire[k] = Delivered + k
  /\ ~live => wire = <<>>

RowsInv ==
  /\ rows \in Seq(1..Now)
  /\ \A i \in 1..Len(rows) : Relevant(page, rows[i])

\* A place that is not listed is older than all that are, and either older than
\* the feed or pushed out by newer ones.
Passed(x) ==
  /\ \A i \in 1..Len(rows) : rows[i] > x
  /\ x <= opened \/ Len(rows) >= FeedLimit

\* As long as the feed is not ready everything is raced.  The rows are in order,
\* but for raced ones; what the backfill has listed ahead of the subscription is
\* listed once so far; and what was delivered and not raced is listed or passed.
FeedInv ==
  /\ settled \in opened..Now
  /\ ~Ready => settled = Now
  /\ \A i, j \in 1..Len(rows) :
       i < j => rows[i] > rows[j] \/ (rows[i] \in Raced /\ rows[j] \in Raced)
  /\ \A i, j \in 1..Len(rows) : i < j /\ rows[i] = rows[j] => rows[i] <= Delivered
  /\ \A i, j, k \in 1..Len(rows) :
       i < j /\ j < k => rows[i] # rows[j] \/ rows[j] # rows[k]
  /\ \A i \in 1..Len(rows) : rows[i] <= Delivered \/ rows[i] <= settled
  /\ \A x \in (1..Delivered) \ Raced :
       ~Relevant(page, x) \/ (\E i \in 1..Len(rows) : rows[i] = x) \/ Passed(x)

DashInv == PageInv /\ FlightInv /\ PanelsInv /\ WireInv /\ RowsInv /\ FeedInv

\* The feed is left alone: no new transaction and no request for the feed.
FeedLeftAlone ==
  /\ UNCHANGED <<log, page, rows, live, wire, opened, settled>>
  /\ \A r \in flight' : r.store = "feed" => r \in flight

\* What leaves the feed, its subscription and its backfill alone keeps what is said of them.
LEMMA FeedStays ==
  ASSUME WireInv, RowsInv, FeedInv, FeedLeftAlone
  PROVE  WireInv' /\ RowsInv' /\ FeedInv'
<1>1. WireInv' /\ RowsInv'
  BY DEF WireInv, RowsInv, FeedLeftAlone, Delivered, Now, Relevant
<1>2. Ready => Ready'
  BY DEF Ready, Of, FeedLeftAlone
<1>3. FeedInv'
  BY <1>2 DEF FeedInv, FeedLeftAlone, Delivered, Now, Relevant, Raced, Passed
<1> QED BY <1>1, <1>3

\* A feed that begins has nothing to show and has missed nothing.
LEMMA FeedBegins ==
  ASSUME log \in Seq(Vaults \cup {Global}), log' = log, rows' = <<>>, live' = FALSE,
         wire' = <<>>, opened' = Now, settled' = Now
  PROVE  WireInv' /\ RowsInv' /\ FeedInv'
<1>1. Now \in Nat /\ Now' = Now /\ Delivered' = Now /\ Len(rows') = 0
  BY LenProperties, EmptySeq DEF Now, Delivered
<1>2. WireInv' /\ RowsInv'
  BY <1>1 DEF WireInv, RowsInv
<1>3. \A x \in 1..Now : Passed(x)'
  BY <1>1 DEF Passed
<1>4. FeedInv'
  <2> USE <1>1
  <2>1. settled' \in opened'..Now' /\ settled' = Now' /\ 1..Len(rows') = {}
    OBVIOUS
  <2> QED BY <1>3, <2>1 DEF FeedInv
<1> QED BY <1>2, <1>4

\* The requests of an effect are for its page and its wallet, and are new.
LEMMA AskedFor ==
  ASSUME NEW stores, NEW p, NEW w, NEW n, NEW r \in Asks(stores, p, w, n)
  PROVE  /\ DOMAIN r = Fields
         /\ r.store \in stores
         /\ r.since = n /\ r.wallet = w
         /\ r.store \in {"apy", "feed"} => r.of = p
<1>1. PICK s \in stores \cap StoresOf(p) : r = Request(s, p, w, n)
  BY DEF Asks
<1>2. /\ DOMAIN r = Fields
      /\ r.store = s /\ r.since = n /\ r.wallet = w /\ r.of = Entry(p)
  BY <1>1 DEF Request, Fields
<1>3. s \in {"apy", "feed"} => p # Home
  BY <1>1 DEF StoresOf, HomeStores
<1> QED BY <1>1, <1>2, <1>3 DEF Entry

\* The requests for a portfolio name their store and their moment.
LEMMA MixAskedFor ==
  ASSUME NEW p, NEW held, NEW n, NEW r \in MixAsks(p, held, n)
  PROVE  /\ DOMAIN r = Fields
         /\ r.store = "mix" /\ r.since = n
BY DEF MixAsks, Request, Fields

\* An application that has just been opened shows and asks for nothing.
LEMMA InitInv == DashInit => DashInv
<1> SUFFICES ASSUME DashInit
             PROVE  DashInv
  OBVIOUS
<1> USE DEF DashInit
<1>1. Now = 0 /\ Delivered = 0
  BY DEF Now, Delivered
<1>2. PageInv
  <2>1. log \in Seq(Vaults \cup {Global}) /\ opened \in 0..Now
    BY <1>1
  <2>2. DOMAIN shown = Panels
    OBVIOUS
  <2>3. live \in BOOLEAN
    OBVIOUS
  <2> QED BY <2>1, <2>2, <2>3 DEF PageInv
<1>3. FlightInv
  BY <1>1, AskedFor DEF FlightInv
<1>4. PanelsInv
  BY DEF PanelsInv, Panels, Stores, Cancelling
<1>5. WireInv /\ RowsInv
  BY <1>1 DEF WireInv, RowsInv
<1>6. Len(rows) = 0 /\ settled = 0 /\ opened = 0
  BY EmptySeq
<1>7. FeedInv
  BY <1>1, <1>6 DEF FeedInv
<1> QED BY <1>2, <1>3, <1>4, <1>5, <1>7 DEF DashInv

-----------------------------------------------------------------------------
(***************************************************************************)
(* Every step preserves it.                                                *)
(***************************************************************************)
LEMMA NavigateStep ==
  ASSUME DashInv, NEW p \in Vaults \cup {Home}, NEW remounted \in BOOLEAN,
         Navigate(p, remounted)
  PROVE  DashInv'
<1> USE DEF Navigate
<1>1. Now' = Now /\ Now \in Nat /\ Delivered' = Now
  BY LenProperties, EmptySeq DEF DashInv, PageInv, Now, Delivered
<1>2. PageInv'
  <2>1. log' \in Seq(Vaults \cup {Global}) /\ opened' \in 0..Now'
    BY <1>1 DEF DashInv, PageInv
  <2>2. DOMAIN shown' = Panels
    BY DEF Cleared
  <2>3. live' \in BOOLEAN
    OBVIOUS
  <2> QED BY <2>1, <2>2, <2>3 DEF PageInv
<1>3. FlightInv'
  <2>1. ASSUME NEW r \in Kept(remounted)
        PROVE  /\ DOMAIN r = Fields
               /\ r.since \in 0..Now
               /\ r.store \notin {"apy", "feed", "stats"}
    BY DEF Kept, DashInv, FlightInv, Stores, Cancelling, Timed
  <2>2. ASSUME NEW r \in Asks(Stores, p, wallet, Now)
        PROVE  /\ DOMAIN r = Fields
               /\ r.since = Now /\ r.wallet = wallet
               /\ r.store \in {"apy", "feed"} => r.of = p
    BY <2>2, AskedFor
  <2> QED BY <1>1, <2>1, <2>2 DEF FlightInv
<1>4. PanelsInv'
  BY DEF PanelsInv, Cleared, Panels, Stores, Cancelling, Timed
<1>5. WireInv' /\ RowsInv' /\ FeedInv'
  BY FeedBegins DEF DashInv, PageInv
<1> QED BY <1>2, <1>3, <1>4, <1>5 DEF DashInv

\* Another wallet connects.
LEMMA ChangeWalletStep ==
  ASSUME DashInv, NEW w, ChangeWallet(w)
  PROVE  DashInv'
<1> USE DEF ChangeWallet
<1> DEFINE asks == Asks(Stores, page, w, Now)
           mix == MixAsks(page, shown, Now)
<1>1. \A r \in asks : /\ DOMAIN r = Fields
                      /\ r.since = Now /\ r.wallet = w
                      /\ r.store \in {"apy", "feed"} => r.of = page
  BY AskedFor
<1>2. \A r \in mix : /\ DOMAIN r = Fields
                     /\ r.store = "mix" /\ r.since = Now
  BY MixAskedFor
<1>3. Now \in Nat /\ Now' = Now /\ opened \in 0..Now
  BY LenProperties DEF DashInv, PageInv, Now
<1> HIDE DEF asks, mix
<1>4. flight' = {r \in flight : r.store \notin Cancelling} \cup asks \cup mix
  BY DEF asks, mix
<1>5. PageInv'
  <2>0. opened' = Now /\ live' = FALSE /\ log' = log
    OBVIOUS
  <2>1. opened' \in 0..Now'
    BY <1>3, <2>0
  <2>2. DOMAIN shown' = Panels
    BY DEF DashInv, PageInv
  <2> QED BY <2>0, <2>1, <2>2 DEF DashInv, PageInv
<1>6. FlightInv'
  BY <1>1, <1>2, <1>3, <1>4 DEF DashInv, FlightInv, Cancelling
<1>7. PanelsInv'
  BY DEF DashInv, PanelsInv, PageInv, Panels, Stores, Cancelling, Timed
<1>8. WireInv' /\ RowsInv' /\ FeedInv'
  BY FeedBegins DEF DashInv, PageInv
<1> QED BY <1>5, <1>6, <1>7, <1>8 DEF DashInv

\* A timer fires, or what was shown is dropped to be read again.
LEMMA RefreshStep ==
  ASSUME DashInv, NEW store \in Polled, Refresh(store)
  PROVE  DashInv'
<1> USE DEF Refresh
<1>1. \A r \in Polls(store) : /\ DOMAIN r = Fields
                              /\ r.store \in Polled /\ r.since = Now
  <2>1. CASE store = "mix"
    BY <2>1, MixAskedFor DEF Polls, Polled
  <2>2. CASE store # "mix"
    BY <2>2, AskedFor DEF Polls
  <2> QED BY <2>1, <2>2
<1>2. Now \in Nat /\ Now' = Now
  BY LenProperties DEF DashInv, PageInv, Now
<1>3. PageInv'
  BY DEF DashInv, PageInv, Now
<1>4. FlightInv'
  BY <1>1, <1>2 DEF DashInv, FlightInv, Polled, Timed
<1>5. PanelsInv'
  BY DEF DashInv, PanelsInv
<1>6. FeedLeftAlone
  BY <1>1 DEF FeedLeftAlone, Polled, Timed
<1> QED BY <1>3, <1>4, <1>5, <1>6, FeedStays DEF DashInv

\* The timer of a page nobody is connected to.
LEMMA RefreshNobodyStep ==
  ASSUME DashInv, RefreshNobody
  PROVE  DashInv'
<1> USE DEF RefreshNobody
<1>1. PageInv'
  BY DEF DashInv, PageInv, Now
<1>2. FlightInv'
  BY DEF DashInv, FlightInv, Now
<1>3. PanelsInv'
  BY DEF DashInv, PanelsInv
<1>4. FeedLeftAlone
  BY DEF FeedLeftAlone
<1> QED BY <1>1, <1>2, <1>3, <1>4, FeedStays DEF DashInv

\* An answer to a request for another wallet or another page is never put on a
\* panel that cancels: there is no such request left.
LEMMA PutStep ==
  ASSUME DashInv, NEW r \in flight, r.store # "feed", NEW value, Put(r, value),
         r.store = "stats" => value.wallet = r.wallet,
         r.store = "apy" => value.of = r.of
  PROVE  DashInv'
<1> DEFINE held == [shown EXCEPT ![r.store] = value]
           asks == MixAsks(page, held, Now)
<1>1. /\ shown' = held
      /\ flight' \subseteq flight \cup asks
      /\ UNCHANGED <<log, mounted, page, wallet, rows, live, wire, opened, settled, events>>
  BY DEF Put
<1>2. \A q \in asks : /\ DOMAIN q = Fields
                      /\ q.store = "mix" /\ q.since = Now
  BY MixAskedFor
<1>3. Now \in Nat /\ Now' = Now
  BY <1>1, LenProperties DEF DashInv, PageInv, Now
<1> HIDE DEF asks
<1>4. PageInv'
  BY <1>1 DEF DashInv, PageInv, Now
<1>5. FlightInv'
  BY <1>1, <1>2, <1>3 DEF DashInv, FlightInv
<1>6. PanelsInv'
  BY <1>1 DEF DashInv, PanelsInv, FlightInv, PageInv, Panels, Stores, Cancelling
<1>7. FeedLeftAlone
  BY <1>1, <1>2 DEF FeedLeftAlone
<1> QED BY <1>4, <1>5, <1>6, <1>7, FeedStays DEF DashInv

\* An answer comes.
LEMMA AnswerStep ==
  ASSUME DashInv, NEW r \in flight, r.store # "feed", Answer(r)
  PROVE  DashInv'
<1>1. PICK n \in r.since..Now : Put(r, [of |-> r.of, wallet |-> r.wallet, at |-> Seen(r.of, n)])
  BY DEF Answer
<1> QED BY <1>1, PutStep

\* A request fails.
LEMMA FailStep ==
  ASSUME DashInv, NEW r \in flight, Fail(r)
  PROVE  DashInv'
<1> USE DEF Fail
<1>1. Now' = Now /\ flight' \subseteq flight
  BY DEF Now
<1>2. PageInv'
  BY DEF DashInv, PageInv, Now
<1>3. FlightInv'
  BY <1>1 DEF DashInv, FlightInv
<1>4. PanelsInv'
  BY DEF DashInv, PanelsInv, FlightInv, PageInv, Panels, Stores, Cancelling, Nothing
<1>5. FeedLeftAlone
  BY <1>1 DEF FeedLeftAlone
<1> QED BY <1>2, <1>3, <1>4, <1>5, FeedStays DEF DashInv

\* A node is too busy to answer.
LEMMA BusyStep ==
  ASSUME DashInv, NEW r \in flight, Busy(r)
  PROVE  DashInv'
<1> USE DEF Busy
<1> DEFINE again == [r EXCEPT !.since = Now, !.try = r.try + 1]
<1>1. Now \in Nat /\ Now' = Now
  BY LenProperties DEF DashInv, PageInv, Now
<1>2. PageInv'
  BY DEF DashInv, PageInv, Now
<1>3. FlightInv' /\ FeedLeftAlone
  <2>0. DOMAIN r = Fields
    BY DEF DashInv, FlightInv
  <2>1. ASSUME NEW q \in flight', q \notin flight
        PROVE  DOMAIN q = DOMAIN r /\ q.store = "actions" /\ q.since = Now
    <3>1. q = again
      BY <2>1
    <3> QED BY <2>0, <3>1 DEF Fields
  <2> HIDE DEF again
  <2>2. FlightInv'
    BY <1>1, <2>0, <2>1 DEF DashInv, FlightInv
  <2>3. FeedLeftAlone
    BY <2>1 DEF FeedLeftAlone
  <2> QED BY <2>2, <2>3
<1>4. PanelsInv'
  BY DEF DashInv, PanelsInv
<1> QED BY <1>2, <1>3, <1>4, FeedStays DEF DashInv

\* The places of the log, and what is known of them.
LEMMA LogFacts ==
  ASSUME DashInv
  PROVE  /\ Now \in Nat /\ opened \in Nat /\ Delivered \in Nat
         /\ opened <= Delivered /\ Delivered <= Now
<1>1. Now \in Nat /\ Len(wire) \in Nat
  BY LenProperties DEF DashInv, PageInv, WireInv, Now
<1> QED BY <1>1 DEF DashInv, PageInv, WireInv, Delivered

\* What Newest lists.
LEMMA NewestLists ==
  ASSUME NEW v, NEW a \in Int, NEW b \in Int
  PROVE  Lists(Newest(v, a, b), Places(v, a, b))
<1>1. Places(v, a, b) \in SUBSET Nat
  BY DEF Places
<1>2. IsFiniteSet(Places(v, a, b))
  <2>1. IsFiniteSet(a..b)
    BY FS_Interval
  <2> QED BY <2>1, FS_Subset DEF Places
<1> QED BY <1>1, <1>2, DescendingLists DEF Newest

\* The backfill of the feed is answered.
LEMMA BackfillStep ==
  ASSUME DashInv, NEW r \in flight, Backfill(r)
  PROVE  DashInv'
<1>1. /\ r.store = "feed"
      /\ flight' = flight \ {r}
      /\ UNCHANGED <<log, mounted, page, wallet, shown, live, wire, opened, settled, events>>
  BY DEF Backfill
<1>2. PICK n \in r.since..Now : rows' = Newest(r.of, n + 1 - BackfillLimit, n)
  BY DEF Backfill
<1>3. r.of = page /\ r.since \in 0..Now /\ r.since >= opened
  BY <1>1 DEF DashInv, FlightInv
<1>4. /\ Now' = Now /\ Delivered' = Delivered
      /\ Now \in Nat /\ opened \in Nat /\ Delivered \in Nat
      /\ opened <= Delivered /\ Delivered <= Now
      /\ n \in Nat /\ opened <= n /\ n <= Now
      /\ BackfillLimit \in Nat
  BY <1>1, <1>2, <1>3, LogFacts, DashboardAssumption DEF Now, Delivered
<1> DEFINE from == n + 1 - BackfillLimit
<1>5. Lists(rows', Places(page, from, n))
  BY <1>2, <1>3, <1>4, NewestLists
<1>6. PageInv'
  BY <1>1 DEF DashInv, PageInv, Now
<1>7. FlightInv'
  BY <1>1, <1>4 DEF DashInv, FlightInv
<1>8. PanelsInv'
  BY <1>1 DEF DashInv, PanelsInv
<1>9. WireInv'
  BY <1>1, <1>4 DEF DashInv, WireInv
<1>10. RowsInv'
  <2>1. Places(page, from, n) \subseteq 1..Now
    BY <1>4 DEF Places
  <2>2. rows' \in Seq(Places(page, from, n))
    BY <1>5 DEF Lists
  <2>3. \A i \in 1..Len(rows') : rows'[i] \in Places(page, from, n)
    BY <2>2, ElementOfSeq
  <2>4. rows' \in Seq(1..Now')
    BY <1>4, <2>1, <2>2, SeqMonotonic
  <2>5. \A i \in 1..Len(rows') : Relevant(page, rows'[i])
    BY <2>3 DEF Places
  <2> QED BY <1>1, <2>4, <2>5 DEF RowsInv, Relevant
<1>11. FeedInv'
  <2> DEFINE t == rows'
             S == Places(page, from, n)
  <2>1. ~Ready /\ settled = Now
    BY <1>1 DEF Ready, Of, DashInv, FeedInv
  <2>2. \A x \in S : x \in Nat /\ x >= from /\ x <= n
    BY <1>4 DEF Places
  <2>3. rows' = t /\ Lists(t, S)
    BY <1>5
  <2> HIDE DEF t
  <2>4. t \in Seq(S)
    BY <2>3 DEF Lists
  <2>5. Len(t) \in Nat /\ \A i \in 1..Len(t) : t[i] \in S
    BY <2>4, LenProperties, ElementOfSeq
  <2>6. /\ \A i, j \in 1..Len(t) : i < j => t[i] > t[j]
        /\ \A x \in S : \E i \in 1..Len(t) : t[i] = x
    BY <2>3 DEF Lists
  <2>7. Raced' = Raced /\ \A x : Relevant(page, x)' = Relevant(page, x)
    BY <1>1 DEF Raced, Relevant
  <2>8. \A x \in 1..Delivered : x \notin Raced => x <= opened
    BY <1>4, <2>1 DEF Raced
  <2>9. ASSUME NEW x \in 1..Delivered, x \notin Raced, Relevant(page, x)
        PROVE  (\E i \in 1..Len(t) : t[i] = x) \/ Passed(x)'
    <3>0. x \in Nat /\ x > 0 /\ x <= opened /\ x <= n
      BY <1>4, <2>8, <2>9
    <3>1. CASE x >= from
      <4>1. x \in S
        BY <1>4, <2>9, <3>0, <3>1 DEF Places
      <4> QED BY <2>6, <4>1
    <3>2. CASE ~(x >= from)
      <4>0. from \in Int
        BY <1>4
      <4> HIDE DEF S, from
      <4>1. \A i \in 1..Len(t) : t[i] > x
        BY <2>2, <2>5, <3>0, <3>2, <4>0
      <4> QED BY <1>1, <2>3, <3>0, <4>1 DEF Passed
    <3> QED BY <3>1, <3>2
  <2> HIDE DEF S, from
  <2>10. \A i \in 1..Len(t) : t[i] \in Nat /\ t[i] <= settled
    BY <1>4, <2>1, <2>2, <2>5
  <2>11. \A i, j \in 1..Len(t) : i < j => t[i] > t[j] /\ t[i] # t[j]
    BY <2>6, <2>10
  <2>12. settled' \in opened'..Now' /\ settled' = Now'
    BY <1>1, <1>4, <2>1
  <2> QED BY <1>1, <1>4, <2>7, <2>9, <2>10, <2>11, <2>12, <2>3 DEF FeedInv
<1> QED BY <1>6, <1>7, <1>8, <1>9, <1>10, <1>11 DEF DashInv

\* The feed subscribes.
LEMMA SubscribeStep ==
  ASSUME DashInv, Subscribe
  PROVE  DashInv'
<1> USE DEF Subscribe
<1>1. Now' = Now /\ Delivered' = Delivered
  BY DEF Now, Delivered
<1>2. PageInv'
  <2>1. live' \in BOOLEAN
    BY DEF DashInv, PageInv
  <2> QED BY <1>1, <2>1 DEF DashInv, PageInv
<1>3. FlightInv'
  BY <1>1 DEF DashInv, FlightInv
<1>4. PanelsInv'
  BY DEF DashInv, PanelsInv
<1>5. WireInv' /\ RowsInv'
  BY <1>1 DEF DashInv, WireInv, RowsInv, Relevant
<1>6. FeedInv'
  <2>1. ~Ready
    BY DEF Ready
  <2> QED BY <1>1, <2>1 DEF DashInv, FeedInv, Raced, Passed, Relevant
<1> QED BY <1>2, <1>3, <1>4, <1>5, <1>6 DEF DashInv

\* The rows after the newest has joined: it is the first, the others follow, and
\* the last is dropped if there are too many.
LEMMA Joined ==
  ASSUME NEW S, rows \in Seq(S), NEW i \in S
  PROVE  /\ Join(i) \in Seq(S) /\ Len(Join(i)) \in Nat \ {0} /\ Join(i)[1] = i
         /\ \/ Len(Join(i)) = Len(rows) + 1
            \/ Len(Join(i)) = FeedLimit /\ Len(rows) >= FeedLimit
         /\ \A k \in 2..Len(Join(i)) : k - 1 \in 1..Len(rows) /\ Join(i)[k] = rows[k - 1]
<1> DEFINE one == <<i>>
           s == one \o rows
           m == IF Len(s) < FeedLimit THEN Len(s) ELSE FeedLimit
<1>1. one \in Seq(S) /\ Len(one) = 1 /\ one[1] = i /\ Len(rows) \in Nat
  BY LenProperties
<1> HIDE DEF one
<1>2. /\ s \in Seq(S) /\ Len(s) = 1 + Len(rows)
      /\ \A k \in 1..1 + Len(rows) : s[k] = IF k <= 1 THEN one[k] ELSE rows[k - 1]
  <2>1. /\ one \o rows \in Seq(S) /\ Len(one \o rows) = Len(one) + Len(rows)
        /\ \A k \in 1..Len(one) + Len(rows) :
             (one \o rows)[k] = IF k <= Len(one) THEN one[k] ELSE rows[k - Len(one)]
    BY <1>1, ConcatProperties
  <2> QED BY <1>1, <2>1
<1>3. Join(i) = SubSeq(s, 1, m)
  BY DEF Join, Cut, one
<1> HIDE DEF s
<1>4. FeedLimit \in Nat \ {0}
  BY DashboardAssumption
<1>5. /\ m \in Nat \ {0} /\ m <= Len(s) /\ m <= 1 + Len(rows)
      /\ m = Len(rows) + 1 \/ (m = FeedLimit /\ Len(rows) >= FeedLimit)
  BY <1>1, <1>2, <1>4
<1> HIDE DEF m
<1>6. \A k \in 1..m : k \in 1..Len(s) /\ k \in 1..1 + Len(rows) /\ s[k] \in S
  <2>1. \A k \in 1..m : k \in 1..Len(s) /\ k \in 1..1 + Len(rows)
    BY <1>1, <1>2, <1>5
  <2> QED BY <1>2, <2>1, ElementOfSeq
<1>7. /\ SubSeq(s, 1, m) \in Seq(S) /\ Len(SubSeq(s, 1, m)) = m
      /\ \A k \in 1..m : SubSeq(s, 1, m)[k] = s[k]
  BY <1>1, <1>2, <1>5, <1>6, SubSeqProperties
<1>8. s[1] = i /\ 1 \in 1..m
  BY <1>1, <1>2, <1>5
<1>9. \A k \in 2..m : k \in 1..m /\ ~(k <= 1) /\ k - 1 \in 1..Len(rows)
  BY <1>1, <1>5
<1> QED BY <1>2, <1>3, <1>5, <1>6, <1>7, <1>8, <1>9

\* A log line reaches the subscription.
LEMMA AnnounceStep ==
  ASSUME DashInv, Announce
  PROVE  DashInv'
<1> DEFINE i == Head(wire)
<1>1. /\ wire # <<>> /\ wire' = Tail(wire)
      /\ rows' = IF Relevant(page, i) THEN Join(i) ELSE rows
      /\ UNCHANGED <<log, mounted, page, wallet, shown, flight, live, opened, settled, events>>
  BY DEF Announce
<1>2. /\ Now' = Now /\ Now \in Nat /\ opened \in Nat /\ Delivered \in Nat
      /\ opened <= Delivered /\ Delivered <= Now
  BY <1>1, LogFacts DEF Now
<1>3. /\ wire \in Seq(Nat) /\ Len(wire) \in Nat /\ Len(wire) = Now - Delivered
      /\ \A k \in 1..Len(wire) : wire[k] = Delivered + k
  BY LenProperties DEF DashInv, WireInv, PageInv, Delivered, Now
<1>4. /\ Len(wire) >= 1 /\ i = Delivered + 1
      /\ wire' \in Seq(Nat) /\ Len(wire') = Len(wire) - 1
      /\ \A k \in 1..Len(wire') : wire'[k] = wire[k + 1]
  BY <1>1, <1>3, HeadTailProperties, EmptySeq
<1> HIDE DEF i
<1>5. Delivered' = Delivered + 1 /\ Delivered + 1 <= Now
  BY <1>2, <1>3, <1>4 DEF Delivered
<1>6. PageInv'
  BY <1>1 DEF DashInv, PageInv, Now
<1>7. FlightInv'
  BY <1>1 DEF DashInv, FlightInv, Now
<1>8. PanelsInv'
  BY <1>1 DEF DashInv, PanelsInv
<1>9. WireInv'
  <2>1. \A k \in 1..Len(wire') : wire'[k] = Delivered' + k
    BY <1>2, <1>3, <1>4, <1>5
  <2>2. live
    BY <1>1 DEF DashInv, WireInv
  <2> QED BY <1>1, <1>2, <1>4, <1>5, <2>1, <2>2 DEF WireInv
<1>10. /\ settled \in opened..Now /\ settled' = settled /\ (~Ready => settled = Now)
       /\ settled \in Int
  BY <1>1, <1>2 DEF DashInv, FeedInv
<1>11. Raced' = Raced /\ Ready' = Ready /\ \A x : Relevant(page, x)' = Relevant(page, x)
  BY <1>1 DEF Raced, Relevant, Ready, Of
<1>12. \A x \in Nat : x \in Raced <=> opened < x /\ x <= settled
  BY <1>2, <1>10 DEF Raced
<1>13. rows \in Seq(1..Now) /\ Len(rows) \in Nat
       /\ \A k \in 1..Len(rows) : rows[k] \in 1..Now /\ rows[k] \in Nat /\ Relevant(page, rows[k])
  <2>1. rows \in Seq(1..Now) /\ \A k \in 1..Len(rows) : Relevant(page, rows[k])
    BY DEF DashInv, RowsInv
  <2>2. Len(rows) \in Nat /\ \A k \in 1..Len(rows) : rows[k] \in 1..Now
    BY <2>1, LenProperties, ElementOfSeq
  <2> QED BY <1>2, <2>1, <2>2
<1>14. CASE ~Relevant(page, i)
  <2>1. rows' = rows
    BY <1>1, <1>14
  <2>2. RowsInv'
    BY <1>1, <1>2, <2>1 DEF DashInv, RowsInv, Relevant
  <2>3. \A x : Passed(x)' = Passed(x)
    BY <1>1, <2>1 DEF Passed
  <2>4. \A x \in 1..(Delivered + 1) : x \in 1..Delivered \/ x = i
    BY <1>2, <1>4
  <2>5. \A k \in 1..Len(rows) : rows[k] <= Delivered => rows[k] <= Delivered + 1
    BY <1>2, <1>13
  <2>6. FeedInv'
    BY <1>1, <1>2, <1>5, <1>10, <1>11, <1>14, <2>1, <2>3, <2>4, <2>5 DEF DashInv, FeedInv
  <2> QED BY <1>6, <1>7, <1>8, <1>9, <2>2, <2>6 DEF DashInv
<1>15. CASE Relevant(page, i)
  <2> DEFINE t == rows'
             d == Delivered
  <2>0. i \in 1..Now /\ i \in Nat /\ i = d + 1 /\ d \in Nat /\ opened <= d
    BY <1>2, <1>4, <1>5
  <2>1. /\ t \in Seq(1..Now) /\ Len(t) \in Nat \ {0} /\ t[1] = i
        /\ \/ Len(t) = Len(rows) + 1
           \/ Len(t) = FeedLimit /\ Len(rows) >= FeedLimit
        /\ \A k \in 2..Len(t) : k - 1 \in 1..Len(rows) /\ t[k] = rows[k - 1]
    <3>1. t = Join(i)
      BY <1>1, <1>15
    <3> HIDE DEF t
    <3>2. i \in 1..Now
      BY <2>0
    <3> QED BY <1>13, <3>1, <3>2, Joined
  <2>2. \A k \in 1..Len(t) : k = 1 \/ k \in 2..Len(t)
    BY <2>1
  <2>3. RowsInv'
    <3>1. \A k \in 1..Len(t) : Relevant(page, t[k])
      BY <1>13, <1>15, <2>1, <2>2
    <3> QED BY <1>1, <1>2, <2>1, <3>1 DEF RowsInv, Relevant
  \* What FeedInv says of the rows so far.
  <2>4. /\ \A a, b \in 1..Len(rows) :
             a < b => rows[a] > rows[b] \/ (rows[a] \in Raced /\ rows[b] \in Raced)
        /\ \A a, b \in 1..Len(rows) : a < b /\ rows[a] = rows[b] => rows[a] <= d
        /\ \A a, b, c \in 1..Len(rows) :
             a < b /\ b < c => rows[a] # rows[b] \/ rows[b] # rows[c]
        /\ \A a \in 1..Len(rows) : rows[a] <= d \/ rows[a] <= settled
    BY DEF DashInv, FeedInv
  <2>5. \A x \in 1..d : \/ x \in Raced \/ ~Relevant(page, x)
                        \/ \E a \in 1..Len(rows) : rows[a] = x
                        \/ Passed(x)
    BY DEF DashInv, FeedInv
  <2> HIDE DEF t, d
  <2>6. \A a, b \in 2..Len(t) : a < b => a - 1 < b - 1
    BY <2>1
  <2>7. ASSUME NEW a \in 1..Len(t), NEW b \in 1..Len(t), a < b
        PROVE  /\ t[a] > t[b] \/ (t[a] \in Raced /\ t[b] \in Raced)
               /\ t[a] = t[b] => t[a] <= d + 1
    <3>1. b \in 2..Len(t) /\ b - 1 \in 1..Len(rows) /\ t[b] = rows[b - 1] /\ t[b] \in Nat
      <4>1. b \in 2..Len(t)
        BY <2>1, <2>7
      <4> QED BY <1>13, <2>1, <4>1
    <3>2. CASE a = 1
      <4>1. CASE t[b] <= d
        BY <2>0, <2>1, <3>1, <3>2, <4>1
      <4>2. CASE ~(t[b] <= d)
        <5>1. t[b] <= settled
          BY <2>4, <3>1, <4>2
        <5>2. opened < t[b] /\ opened < i /\ i <= settled
          BY <1>2, <1>10, <2>0, <3>1, <4>2, <5>1
        <5> QED BY <1>12, <2>0, <2>1, <3>1, <3>2, <5>1, <5>2
      <4> QED BY <4>1, <4>2
    <3>3. CASE a \in 2..Len(t)
      <4>1. a - 1 \in 1..Len(rows) /\ t[a] = rows[a - 1] /\ t[a] \in Nat /\ a - 1 < b - 1
        BY <1>13, <2>1, <2>6, <2>7, <3>1, <3>3
      <4>2. t[a] > t[b] \/ (t[a] \in Raced /\ t[b] \in Raced)
        BY <2>4, <3>1, <4>1
      <4>3. t[a] = t[b] => t[a] <= d
        BY <2>4, <3>1, <4>1
      <4> QED BY <2>0, <4>1, <4>2, <4>3
    <3> QED BY <2>2, <3>2, <3>3
  <2>8. ASSUME NEW a \in 1..Len(t), NEW b \in 1..Len(t), NEW c \in 1..Len(t), a < b, b < c
        PROVE  t[a] # t[b] \/ t[b] # t[c]
    <3>1. b \in 2..Len(t) /\ c \in 2..Len(t)
      BY <2>1, <2>8
    <3>2. /\ b - 1 \in 1..Len(rows) /\ t[b] = rows[b - 1] /\ t[b] \in Nat
          /\ c - 1 \in 1..Len(rows) /\ t[c] = rows[c - 1] /\ b - 1 < c - 1
      BY <1>13, <2>1, <2>6, <2>8, <3>1
    <3>3. CASE a = 1
      <4>1. t[b] = t[c] => t[b] <= d
        BY <2>4, <3>2
      <4> QED BY <2>0, <2>1, <3>2, <3>3, <4>1
    <3>4. CASE a \in 2..Len(t)
      <4>1. a - 1 \in 1..Len(rows) /\ t[a] = rows[a - 1] /\ a - 1 < b - 1
        BY <2>1, <2>6, <2>8, <3>1, <3>4
      <4> QED BY <2>4, <3>2, <4>1
    <3> QED BY <2>2, <3>3, <3>4
  <2>9. ASSUME NEW a \in 1..Len(t)
        PROVE  t[a] <= d + 1 \/ t[a] <= settled
    <3>1. CASE a = 1
      BY <2>0, <2>1, <3>1
    <3>2. CASE a \in 2..Len(t)
      <4>1. a - 1 \in 1..Len(rows) /\ t[a] = rows[a - 1] /\ t[a] \in Nat
        BY <1>13, <2>1, <3>2
      <4>2. t[a] <= d \/ t[a] <= settled
        BY <2>4, <4>1
      <4> QED BY <2>0, <4>1, <4>2
    <3> QED BY <2>2, <3>1, <3>2
  <2>10. ASSUME NEW x \in 1..(d + 1), x \notin Raced, Relevant(page, x)
         PROVE  (\E a \in 1..Len(t) : t[a] = x) \/ Passed(x)'
    <3>1. CASE x = d + 1
      <4>1. 1 \in 1..Len(t)
        BY <2>1
      <4> QED BY <2>0, <2>1, <3>1, <4>1
    <3>2. CASE x # d + 1
      <4>1. x \in 1..d /\ x \in Nat /\ x < i
        BY <2>0, <2>10, <3>2
      <4>2. CASE \E a \in 1..Len(rows) : rows[a] = x
        <5>1. PICK a \in 1..Len(rows) : rows[a] = x
          BY <4>2
        <5>2. CASE a + 1 <= Len(t)
          <6>1. a + 1 \in 2..Len(t) /\ a + 1 \in 1..Len(t) /\ (a + 1) - 1 = a
            BY <1>13, <2>1, <5>2
          <6> QED BY <2>1, <5>1, <6>1
        <5>3. CASE ~(a + 1 <= Len(t))
          <6>1. Len(t) = FeedLimit /\ FeedLimit \in Nat
            BY <1>13, <2>1, <5>3, DashboardAssumption
          <6>2. ASSUME NEW k \in 1..Len(t)
                PROVE  t[k] > x
            <7>1. CASE k = 1
              BY <2>0, <2>1, <4>1, <7>1
            <7>2. CASE k \in 2..Len(t)
              <8>1. k - 1 \in 1..Len(rows) /\ t[k] = rows[k - 1] /\ k - 1 < a
                BY <1>13, <2>1, <5>3, <7>2
              <8> QED BY <2>4, <2>10, <5>1, <8>1
            <7> QED BY <2>2, <7>1, <7>2
          <6> QED BY <6>1, <6>2 DEF Passed, t
        <5> QED BY <1>13, <2>1, <5>2, <5>3
      <4>3. CASE Passed(x)
        <5>1. ASSUME NEW k \in 1..Len(t)
              PROVE  t[k] > x
          <6>1. CASE k = 1
            BY <2>0, <2>1, <4>1, <6>1
          <6>2. CASE k \in 2..Len(t)
            BY <2>1, <4>3, <6>2 DEF Passed
          <6> QED BY <2>2, <6>1, <6>2
        <5>2. x <= opened \/ Len(t) >= FeedLimit
          BY <1>13, <2>1, <4>3, DashboardAssumption DEF Passed
        <5> QED BY <1>1, <5>1, <5>2 DEF Passed, t
      <4> QED BY <2>5, <2>10, <4>1, <4>2, <4>3
    <3> QED BY <3>1, <3>2
  <2>11. rows' = t /\ Delivered' = d + 1 /\ settled' = settled /\ opened' = opened /\ Now' = Now
    BY <1>1, <1>2, <1>5 DEF t, d
  <2>12. FeedInv'
    BY <1>10, <1>11, <2>7, <2>8, <2>9, <2>10, <2>11, <1>1 DEF FeedInv
  <2> QED BY <1>6, <1>7, <1>8, <1>9, <2>3, <2>12 DEF DashInv
<1> QED BY <1>14, <1>15

\* Somebody transacts.
LEMMA TransactStep ==
  ASSUME DashInv, NEW v \in Vaults \cup {Global}, Transact(v)
  PROVE  DashInv'
<1>1. /\ log' = Append(log, v)
      /\ wire' = IF live THEN Append(wire, Now + 1) ELSE wire
      /\ settled' = IF Ready THEN settled ELSE Now + 1
      /\ UNCHANGED <<mounted, page, wallet, shown, flight, rows, live, opened>>
  BY DEF Transact
<1>2. /\ Now \in Nat /\ opened \in Nat /\ Delivered \in Nat
      /\ opened <= Delivered /\ Delivered <= Now
  BY LogFacts
<1>3. /\ log' \in Seq(Vaults \cup {Global}) /\ Now' = Now + 1
      /\ log'[Now + 1] = v /\ \A i \in 1..Now : log'[i] = log[i]
  BY <1>1, AppendProperties DEF DashInv, PageInv, Now
<1>4. \A i \in 1..Now : Relevant(page, i)' = Relevant(page, i)
  BY <1>1, <1>3 DEF Relevant
<1>5. Ready' = Ready
  BY <1>1 DEF Ready, Of
<1>6. wire \in Seq(Nat) /\ Len(wire) \in Nat /\ Len(wire) = Now - Delivered
  BY LenProperties DEF DashInv, WireInv, PageInv, Delivered, Now
<1>7. /\ settled \in opened..Now /\ settled \in Int /\ (~Ready => settled = Now)
      /\ settled' \in opened..(Now + 1) /\ settled <= settled'
      /\ ~Ready => settled' = Now + 1
  BY <1>1, <1>2 DEF DashInv, FeedInv
<1>8. Raced \subseteq Raced'
  BY <1>1, <1>2, <1>7 DEF Raced
<1>9. PageInv'
  BY <1>1, <1>2, <1>3 DEF DashInv, PageInv
<1>10. FlightInv'
  BY <1>1, <1>2, <1>3 DEF DashInv, FlightInv
<1>11. PanelsInv'
  BY <1>1 DEF DashInv, PanelsInv
<1>12. \A i \in 1..Len(rows) : rows[i] \in 1..Now /\ Relevant(page, rows[i])
  BY ElementOfSeq DEF DashInv, RowsInv
<1>13. RowsInv'
  <2>1. rows \in Seq(1..Now')
    BY <1>2, <1>3, SeqMonotonic DEF DashInv, RowsInv
  <2>2. \A i \in 1..Len(rows) : Relevant(page, rows[i])'
    BY <1>1, <1>3, <1>12 DEF Relevant
  <2> QED BY <1>1, <2>1, <2>2 DEF RowsInv
<1>14. /\ Delivered' \in Nat /\ Delivered <= Delivered'
       /\ Delivered' = Delivered \/ (~Ready /\ Delivered' = Now + 1)
       /\ WireInv'
  <2>1. CASE live
    <3>1. /\ wire' \in Seq(Nat) /\ Len(wire') = Len(wire) + 1
          /\ wire'[Len(wire) + 1] = Now + 1 /\ \A k \in 1..Len(wire) : wire'[k] = wire[k]
      BY <1>1, <1>2, <1>6, <2>1, AppendProperties
    <3>2. Delivered' = Delivered
      BY <1>2, <1>3, <1>6, <3>1 DEF Delivered
    <3>3. \A k \in 1..Len(wire') : wire'[k] = Delivered + k
      <4> TAKE k \in 1..Len(wire')
      <4>1. CASE k = Len(wire) + 1
        BY <1>2, <1>6, <3>1, <4>1
      <4>2. CASE k # Len(wire) + 1
        BY <1>6, <3>1, <4>2 DEF DashInv, WireInv
      <4> QED BY <4>1, <4>2
    <3> QED BY <1>1, <1>2, <2>1, <3>1, <3>2, <3>3 DEF WireInv
  <2>2. CASE ~live
    <3>1. wire = <<>> /\ wire' = <<>> /\ ~Ready
      BY <1>1, <2>2 DEF DashInv, WireInv, Ready
    <3>2. Delivered = Now /\ Delivered' = Now + 1
      BY <1>2, <1>3, <3>1 DEF Delivered
    <3> QED BY <1>1, <1>2, <3>1, <3>2 DEF WireInv
  <2> QED BY <2>1, <2>2
<1>15. \A x : Passed(x)' = Passed(x)
  BY <1>1 DEF Passed
<1>16. ASSUME NEW x \in 1..Delivered', x \notin Raced'
       PROVE  x \in 1..Delivered /\ x \notin Raced /\ x \in 1..Now
  <2>1. x \notin Raced
    BY <1>8, <1>16
  <2>2. CASE Delivered' = Delivered
    BY <1>2, <1>16, <2>1, <2>2
  <2>3. CASE ~Ready /\ Delivered' = Now + 1
    <3>1. x <= opened
      BY <1>1, <1>2, <1>7, <1>16, <2>3 DEF Raced
    <3> QED BY <1>2, <1>16, <2>1, <3>1
  <2> QED BY <1>14, <2>2, <2>3
<1>17. FeedInv'
  <2> DEFINE d == Delivered'
  <2>1. \A i, j \in 1..Len(rows) :
          i < j => rows[i] > rows[j] \/ (rows[i] \in Raced' /\ rows[j] \in Raced')
    BY <1>8 DEF DashInv, FeedInv
  <2>2. /\ \A i, j \in 1..Len(rows) : i < j /\ rows[i] = rows[j] => rows[i] <= d
        /\ \A i \in 1..Len(rows) : rows[i] <= d \/ rows[i] <= settled'
    <3>1. \A i \in 1..Len(rows) : /\ rows[i] <= Delivered => rows[i] <= d
                                  /\ rows[i] <= settled => rows[i] <= settled'
      <4> TAKE i \in 1..Len(rows)
      <4>1. rows[i] \in Nat
        BY <1>12
      <4>2. d \in Nat /\ Delivered <= d
        BY <1>14
      <4> HIDE DEF d
      <4> QED BY <1>2, <1>7, <4>1, <4>2
    <3> HIDE DEF d
    <3>2. /\ \A i, j \in 1..Len(rows) : i < j /\ rows[i] = rows[j] => rows[i] <= Delivered
          /\ \A i \in 1..Len(rows) : rows[i] <= Delivered \/ rows[i] <= settled
      BY DEF DashInv, FeedInv
    <3> QED BY <3>1, <3>2
  <2>3. \A x \in (1..d) \ Raced' :
          ~Relevant(page, x)' \/ (\E i \in 1..Len(rows) : rows[i] = x) \/ Passed(x)'
    <3> SUFFICES ASSUME NEW x \in 1..d, x \notin Raced'
                 PROVE  \/ ~Relevant(page, x)'
                        \/ (\E i \in 1..Len(rows) : rows[i] = x) \/ Passed(x)'
      OBVIOUS
    <3>1. x \in 1..Delivered /\ x \notin Raced /\ x \in 1..Now
      BY <1>16
    <3>2. \/ ~Relevant(page, x) \/ (\E i \in 1..Len(rows) : rows[i] = x) \/ Passed(x)
      BY <3>1 DEF DashInv, FeedInv
    <3> QED BY <1>4, <1>15, <3>1, <3>2
  <2>4. \A i, j, k \in 1..Len(rows) :
          i < j /\ j < k => rows[i] # rows[j] \/ rows[j] # rows[k]
    BY DEF DashInv, FeedInv
  <2>5. settled' \in opened'..Now' /\ (~Ready' => settled' = Now')
    BY <1>1, <1>3, <1>5, <1>7
  <2> QED BY <1>1, <2>1, <2>2, <2>3, <2>4, <2>5 DEF FeedInv
<1> QED BY <1>9, <1>10, <1>11, <1>13, <1>14, <1>17 DEF DashInv

\* An answer of any kind that reaches the page.
LEMMA ArriveStep ==
  ASSUME DashInv, NEW r \in flight, Arrive(r)
  PROVE  DashInv'
<1>1. CASE ArriveVault(r)
  BY <1>1, AnswerStep DEF ArriveVault
<1>2. CASE ArrivePosition(r)
  BY <1>2, AnswerStep DEF ArrivePosition
<1>3. CASE ArriveApy(r)
  BY <1>3, AnswerStep DEF ArriveApy
<1>4. CASE ArriveStats(r)
  BY <1>4, AnswerStep DEF ArriveStats
<1>5. CASE ArriveList(r)
  BY <1>5, AnswerStep DEF ArriveList
<1>6. CASE ArriveActions(r)
  BY <1>6, AnswerStep DEF ArriveActions
<1>7. CASE ArriveStrategies(r)
  <2>1. PICK value : Put(r, value)
    BY <1>7 DEF ArriveStrategies
  <2>2. r.store = "strategies"
    BY <1>7 DEF ArriveStrategies
  <2> QED BY <2>1, <2>2, PutStep
<1>8. CASE ArriveMix(r)
  <2>1. PICK value : Put(r, value)
    BY <1>8 DEF ArriveMix
  <2>2. r.store = "mix"
    BY <1>8 DEF ArriveMix
  <2> QED BY <2>1, <2>2, PutStep
<1>9. CASE Backfill(r)
  BY <1>9, BackfillStep
<1> QED
  BY <1>1, <1>2, <1>3, <1>4, <1>5, <1>6, <1>7, <1>8, <1>9 DEF Arrive

\* Nothing happens.
LEMMA StutterStep ==
  ASSUME DashInv, UNCHANGED dashVars
  PROVE  DashInv'
<1> USE DEF dashVars, view
<1>1. PageInv'
  BY DEF DashInv, PageInv, Now
<1>2. FlightInv'
  BY DEF DashInv, FlightInv, Now
<1>3. PanelsInv'
  BY DEF DashInv, PanelsInv
<1>4. FeedLeftAlone
  BY DEF FeedLeftAlone
<1> QED BY <1>1, <1>2, <1>3, <1>4, FeedStays DEF DashInv

\* All steps together.
LEMMA NextInv == DashInv /\ [DashNext]_dashVars => DashInv'
<1> SUFFICES ASSUME DashInv, [DashNext]_dashVars
             PROVE  DashInv'
  OBVIOUS
<1>1. ASSUME NEW p \in Vaults \cup {Home}, NEW remounted \in BOOLEAN, Navigate(p, remounted)
      PROVE  DashInv'
  BY <1>1, NavigateStep
<1>2. ASSUME NEW w \in Wallets \cup {NoWallet}, ChangeWallet(w)
      PROVE  DashInv'
  BY <1>2, ChangeWalletStep
<1>3. ASSUME NEW store \in Polled, Refresh(store)
      PROVE  DashInv'
  BY <1>3, RefreshStep
<1>4. CASE RefreshNobody
  BY <1>4, RefreshNobodyStep
<1>5. ASSUME NEW r \in flight, Arrive(r) \/ Fail(r) \/ Busy(r)
      PROVE  DashInv'
  BY <1>5, ArriveStep, FailStep, BusyStep
<1>6. CASE Subscribe
  BY <1>6, SubscribeStep
<1>7. CASE Announce
  BY <1>7, AnnounceStep
<1>8. ASSUME NEW v \in Vaults \cup {Global}, Transact(v)
      PROVE  DashInv'
  BY <1>8, TransactStep
<1>9. CASE UNCHANGED dashVars
  BY <1>9, StutterStep
<1> QED
  BY <1>1, <1>2, <1>3, <1>4, <1>5, <1>6, <1>7, <1>8, <1>9 DEF DashNext

\* Whatever order the answers come in, requests under way of cancelled effects
\* are those of the page and the wallet, and the feed lists what was delivered
\* since it began: since the page was opened or the wallet changed, whichever is
\* later, for both make it begin again.
THEOREM DashInvariant == DashSpec => []DashInv
<1>1. DashInit => DashInv
  BY InitInv
<1>2. DashInv /\ [DashNext]_dashVars => DashInv'
  BY NextInv
<1> QED BY <1>1, <1>2, PTL DEF DashSpec

-----------------------------------------------------------------------------
(***************************************************************************)
(* What it means for the reader of a page.                                 *)
(***************************************************************************)
\* Panels with a cancelled flag (useApyHistory.tsx, AggregateStats.tsx) and the
\* feed (ActivityFeed.tsx) never show anything of another vault or wallet.
THEOREM PanelsAreOwn == DashSpec => []CancellingPanelsAreOwn
<1>1. DashInv => CancellingPanelsAreOwn
  <2> SUFFICES ASSUME DashInv
               PROVE  CancellingPanelsAreOwn
    OBVIOUS
  <2>1. DOMAIN rows = 1..Len(rows)
    BY LenProperties DEF DashInv, RowsInv
  <2> QED BY <2>1 DEF DashInv, PanelsInv, RowsInv, CancellingPanelsAreOwn
<1> QED BY <1>1, DashInvariant, PTL

\* Once everything has been announced, a feed that is ready is exact.
LEMMA FeedIsExactNow == DashInv => FeedIsExact
<1> SUFFICES ASSUME DashInv, wire = <<>>
             PROVE  FeedIsExact
  BY DEF FeedIsExact
<1>1. Now \in Nat /\ Delivered = Now
  BY LogFacts, EmptySeq DEF Delivered
<1>2. DOMAIN rows = 1..Len(rows)
  BY LenProperties DEF DashInv, RowsInv
<1> QED BY <1>1, <1>2 DEF FeedIsExact, DashInv, FeedInv, Passed

\* ActivityFeed.tsx joins a backfill to a subscription: once both are there, no
\* event since the feed began is missing, and none is listed twice or out of
\* order, but for those that fell between its beginning and its being ready.
THEOREM FeedExact == DashSpec => []FeedIsExact
BY FeedIsExactNow, DashInvariant, PTL
=============================================================================
