\* One page and two script runs over two strategies: two jobs, and one click,
\* crash or transaction of somebody else in between.
SPECIFICATION DeskSpec
CONSTANTS
  user = user
  treasury = treasury
  curator = curator
  outside = outside
  page = page
  run1 = run1
  run2 = run2
  Users <- OneUser
  Holder = user
  Strategies <- MCStrategies
  Treasury = treasury
  Curator = curator
  Outside = outside
  Tabs <- Page
  Scripts <- Runs
  Market <- MCMarket
  Situations <- MCSituations
  BPS = 4
  VirtualShares = 1
  MaxU64 = 200
  DefaultFee = 1
  MaxFee = 2
  Endowment = 12
  OutsideSupply = 30
  Amounts = {3}
  WeightChoices = {1, 3}
  FeeChoices = {0}
  ProtocolFees = {0}
  PauseChoices = {TRUE}
  ExternalValues = {1}
  MaxRepeats = 1
  MaxDonated = 1
  FirstDeposit = 8
  Allocation = 4
  YieldBps = 1
  FixedYield = 2
  AmountPerClaim = 2
  MaxEvents = 2
SYMMETRY RunSymmetry
INVARIANTS
  DeskTypeOK
  WithdrawIffCovered
  PlanIsExact
  RoundReachesTargets
  YieldIsBooked
CHECK_DEADLOCK FALSE
