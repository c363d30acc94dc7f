---------------------------- MODULE MCDashboard ----------------------------
\* Two vaults, two wallets: model values, so that each can be told apart.  The
\* token mix reads the vault and the strategies; the other panels are alone.
EXTENDS Dashboard
CONSTANTS a, b, w1, w2
MCVaults == {a, b}
MCWallets == {w1, w2}
MCGroups == {{"vault", "strategies", "mix"}, {"position"}, {"actions"},
             {"apy", "stats"}, {"list"}, {"feed"}}
MCMaxEvents(group) == IF "mix" \in group THEN 2 ELSE 4
=============================================================================
