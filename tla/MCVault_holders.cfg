\* Two holders, one strategy, with fees, a protocol cut that governance moves
\* and the pause: who is paid what, and what a paused vault still does.
SPECIFICATION Spec
CONSTANTS
  u1 = u1
  u2 = u2
  s1 = s1
  s2 = s2
  treasury = treasury
  curator = curator
  outside = outside
  Users <- TwoUsers
  Strategies <- OneStrategy
  Treasury <- treasury
  Curator <- curator
  Outside <- outside
  BPS = 2
  VirtualShares = 1
  MaxU64 = 8
  DefaultFee = 1
  MaxFee = 1
  Endowment = 2
  OutsideSupply = 1
  Amounts = {1, 2}
  WeightChoices = {0, 1}
  FeeChoices = {0, 1}
  ProtocolFees = {0, 1}
  PauseChoices = {TRUE, FALSE}
  ExternalValues = {0}
  MaxRepeats = 1
  MaxDonated = 0
SYMMETRY HolderSymmetry
INVARIANTS
  TokensConserved
PROPERTIES
  ImplementsPool
CHECK_DEADLOCK FALSE
