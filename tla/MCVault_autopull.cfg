\* Refuted: the auto-pull loop serves what the token accounts cover.
SPECIFICATION Spec
CONSTANTS
  u1 = u1
  u2 = u2
  s1 = s1
  s2 = s2
  treasury = treasury
  curator = curator
  outside = outside
  Users <- OneUser
  Strategies <- TwoStrategies
  Treasury <- treasury
  Curator <- curator
  Outside <- outside
  BPS = 2
  VirtualShares = 2
  MaxU64 = 10
  DefaultFee = 0
  MaxFee = 0
  Endowment = 3
  OutsideSupply = 2
  Amounts = {1, 2, 3}
  WeightChoices = {1, 2}
  FeeChoices = {}
  ProtocolFees = {0}
  PauseChoices = {}
  ExternalValues = {0}
  MaxRepeats = 2
  MaxDonated = 1
INVARIANTS
  AutoPullCovers
CHECK_DEADLOCK FALSE
