\* Plans of every kind, made, replaced, cancelled and executed in six blocks, three slash windows.
SPECIFICATION GovernedSpec
CONSTANTS
  p1 = p1
  v1 = v1
  A = A
  B = B
  b = b
  Denoms = {A, B, b}
  Upper <- ToUpper
  Pairs = {p1}
  InitParams <- Genesis
  Updates <- UpdatesOfAll
  Additions <- AdditionsOfB
  MaxHeight = 6
  Validators = {v1}
  MaxProposals = 3
INVARIANTS
  GovernedTypeOK
  PlansAreDue
  ValidUnlessMixed
  AddedDenomsStayUnlessMixed
  PanicsOnlyOnChangedWindow
  MissesWithinPossibleWins
\* The bound on the height ends every behaviour.
CHECK_DEADLOCK FALSE
