\* The pages of two vaults; requests may be answered in any order.  Events are
\* bounded, so the system may come to rest.
SPECIFICATION DashSpec
CONSTANTS
  a = a
  b = b
  w1 = w1
  w2 = w2
  Vaults <- MCVaults
  First = a
  Home = Home
  Wallets <- MCWallets
  NoWallet = NoWallet
  Global = Global
  FeedLimit = 2
  BackfillLimit = 1
  Attempts = 2
  Groups <- MCGroups
  MaxInFlight = 2
  MaxEvents <- MCMaxEvents
INVARIANTS CancellingPanelsAreOwn FeedIsExact
PROPERTY Converges
CHECK_DEADLOCK FALSE
