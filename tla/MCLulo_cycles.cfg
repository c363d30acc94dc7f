\* Two crashes, lost answers or failed reads anywhere, and three acts of the
\* vault, the signal file, the yield crank and another strategy in between.
SPECIFICATION AgentSpec
CHECK_DEADLOCK FALSE
CONSTANTS
  strategy = strategy
  peer = peer
  Depositors <- StrategyAndPeer
  Agent <- strategy
  Seed = 20
  MaxU64 = 1000
  Supply = 60
  Amounts = {8, 20}
  MinLend = 10
  MinDelta = 3
  PerMille = 1000
  Routine = 2
  MaxRetries = 2
  MaxEvents = 3
  MaxFaults = 2
INVARIANTS
  LuloTypeOK
  TreasuryAccounted
  OwnActionsAreQuiet
  SignalReplayBounded
PROPERTIES
  OverdraftHasCause
  FreshDepositIsLent
  SignalIsServed
