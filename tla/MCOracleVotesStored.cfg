SPECIFICATION Spec
CONSTANTS
  n1 = n1
  n2 = n2
  f = f
  A = A
  X = X
  Nodes = {n1, n2, f}
  Faulty = {f}
  Power <- MCPower
  Config <- MCConfig
  Turns <- MCTurns
  Prices <- MCPrices
  AcceptList = {A}
  MaxStarts = 2
  EnableHeight = 1
  VotePeriod = 2
  MaxHeight = 3
  MaxRestarts = 1
  MaxChanges = 1
PROPERTIES
  VotesAreStored
