\* Two additions of denoms pending at the same time.
SPECIFICATION GovernedSpec
CONSTANTS
  p1 = p1
  v1 = v1
  A = A
  B = B
  b = b
  Denoms = {A, B, b}
  Upper <- ToUpper
  Pairs = {}
  InitParams <- GenesisAcceptOnly
  Updates = {}
  Additions <- AdditionsOfAB
  MaxHeight = 4
  Validators = {v1}
  MaxProposals = 2
INVARIANT
  AddedDenomsStay
\* The bound on the height ends every behaviour.
CHECK_DEADLOCK FALSE
