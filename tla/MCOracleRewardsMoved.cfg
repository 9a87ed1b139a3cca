\* Every block a vote period, and one of the reward factors has too many digits.
SPECIFICATION GenesisSpec
CONSTANTS
  v1 = v1
  v2 = v2
  A = A
  udm = udm
  Validators = {v1, v2}
  Delegates = {}
  Power <- Powers
  Denoms = {A}
  RateMaps <- RatesOfA
  Salts = {1}
  AcceptList = {A}
  MandatoryList = {A}
  RewardBands <- BandOfA
  VotePeriod = 1
  SlashWindow = 2
  VoteThreshold = 50
  MinValidPerWindow = 50
  SlashingEnabled = TRUE
  HistoricStampPeriod = 2
  MedianStampPeriod = 5
  MaximumPriceStamps = 1
  MaximumMedianStamps = 1
  Rank <- Ranks
  BaseDenom <- BaseOfA
  DmDenom = udm
  RewardDistributionWindow = 2
  InitialPool <- Pool
  Unit = 100
  RewardFactor <- Factors
  Unconvertible <- Unprintable
  MaxHeight = 5
  MaxSquare = 100
  MaxRestarts = 0
INVARIANT
  OwedIsFunded
\* A chain whose EndBlock fails stops.
CHECK_DEADLOCK FALSE
