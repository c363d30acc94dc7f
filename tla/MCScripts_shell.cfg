\* One tab of the administrator and the operator's shell: two jobs or scripts, in
\* any order or at once, with one failure or one transaction of somebody else.
SPECIFICATION ScriptsSpec
CHECK_DEADLOCK FALSE
CONSTANTS
  Mints = {"usdt", "wsol"}
  Alphabet <- UsdtAndWsol
  People = {"governance", "admin", "agent", "other", "demo", "key0", "key1", "lender"}
  Governance = "governance"
  Admin = "admin"
  Agents = {"agent", "other"}
  Successors = {"other"}
  MaxSources = 4
  MaxInstructions = 64
  tab1 = tab1
  Pages <- OneTab
  Vault = "vault"
  Presets = {"kamino_liquidity", "jupiter_swapper", "kamino_looper", "custom"}
  MaxStrategies = 2
  MaxJobs = 2
  MaxDisturbances = 1
  WrappedSol = "wsol"
  Lender = "lender"
  Generated <- Keys
  Receiver = "other"
  DemoVault = "demo_vault"
  DemoKey = "demo"
  FreshVault = "fresh_vault"
INVARIANTS
  RepairRestores
  ScriptsRerun
  DoneMeansDone
  CooldownHolds
