\* The strategy is the only lender and the deposit of its loan gets lost: the
\* tokens to repay it lie idle.
SPECIFICATION LooperSpec
CONSTANTS
  strategy = strategy
  lender = lender
  Owners <- StrategyAndLender
  Looper <- strategy
  BPS = 20
  HFMin = 21
  MaxU64 = 5000
  Endowment = 500
  Seed = 0
  Amounts = {250}
  MaxGifts = 0
  Percent = 100
  TargetLeverage = 250
  HFFloor = 110
  HFWarning = 130
  MinIdle = 100
  MaxEvents = 1
  MaxFaults = 1
PROPERTIES
  FundedLoanIsRepaid
