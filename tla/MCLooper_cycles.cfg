\* Two lost transactions or misread balances anywhere, and four acts of
\* the vault, the market and the operator in between.
SPECIFICATION LooperSpec
CONSTANTS
  strategy = strategy
  lender = lender
  Owners <- StrategyAndLender
  Looper <- strategy
  BPS = 20
  HFMin = 21
  MaxU64 = 5000
  Endowment = 500
  Seed = 500
  Amounts = {50, 250}
  MaxGifts = 0
  Percent = 100
  TargetLeverage = 250
  HFFloor = 110
  HFWarning = 130
  MinIdle = 100
  MaxEvents = 4
  MaxFaults = 2
INVARIANTS
  LooperTypeOK
  PlanIsCurrent
  LoanPassesHealthCheck
  RepaymentFunded
PROPERTIES
  NoSecondLoan
  Deleverages
  Settles
