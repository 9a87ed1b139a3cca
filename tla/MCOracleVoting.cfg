\* Two validators, feeders that change between a prevote and its reveal, vote periods of
\* two blocks, slash windows of two vote periods, an accepted denom without a reward band.
SPECIFICATION Spec
CONSTANTS
  v1 = v1
  v2 = v2
  A = A
  B = B
  C = C
  D = D
  Validators = {v1, v2}
  Delegates = {v1}
  Power <- Powers
  Denoms = {A, B, C, D}
  RateMaps <- Rates
  Salts = {1}
  AcceptList = {A, B, D}
  MandatoryList = {A}
  RewardBands <- Bands
  VotePeriod = 2
  SlashWindow = 4
  VoteThreshold = 50
  MinValidPerWindow = 50
  SlashingEnabled = TRUE
  MaxHeight = 8
  MaxSquare = 100
INVARIANTS
  TypeOK
  VotesOpenOwnCommitments
  OneCommitmentPerPeriod
  PrevotesExpire
  MissesAreEarned
  HaltsOnlyOnUnbandedVote
PROPERTIES
  ImplementsSealedBallots
  RevealedVotesAreFinal
  NoPrevoteLostInWindow
  RatesAreBacked
  JailedOnlyBelowMinimum
\* The bound on the height ends every behaviour; a chain whose EndBlock fails stops.
CHECK_DEADLOCK FALSE
