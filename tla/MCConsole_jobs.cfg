\* Two tabs of the administrator, two jobs of any kind in any order or at once,
\* with one failure or one transaction of somebody else.
SPECIFICATION ConsoleSpec
CHECK_DEADLOCK FALSE
CONSTANTS
  Mints = {"usdt", "wsol"}
  Alphabet <- UsdtAndWsol
  People = {"governance", "admin", "agent", "other"}
  Governance = "governance"
  Admin = "admin"
  Agents = {"agent", "other"}
  Successors = {"other"}
  MaxSources = 4
  MaxInstructions = 64
  tab1 = tab1
  tab2 = tab2
  Pages <- Tabs
  Vault = "vault"
  Presets = {"kamino_liquidity", "jupiter_swapper", "custom"}
  MaxStrategies = 2
  MaxJobs = 2
  MaxDisturbances = 1
SYMMETRY TabsAlike
INVARIANTS
  AppliedAsShown
  FreshIsNeverRefused
  PanelPricesOnce
  DelegatesDistinct
