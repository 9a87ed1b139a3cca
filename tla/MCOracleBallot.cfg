SPECIFICATION Spec
CONSTANTS
  Voters = {1, 2, 3, 4}
  MaxPower = 2
  MaxRate = 4
  Band = 70
  MaxSquare = 4
INVARIANTS
  MedianIsLoopMedian
  SmallMinorityCannotMoveRate
  AgreeingMajorityWins
PROPERTY
  MedianFollowsVotes
