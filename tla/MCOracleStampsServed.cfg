\* Two price stamps to one median stamp, three prices and two medians kept.
SPECIFICATION Spec
CONSTANTS
  A = A
  Denoms = {A}
  Rates = {1, 2, 4}
  VotePeriod = 1
  HistoricStampPeriod = 1
  MedianStampPeriod = 2
  MaximumPriceStamps = 3
  MaximumMedianStamps = 2
  MaxHeight = 8
  MaxSquare = 100
INVARIANT
  StampsAreServed
\* The bound on the height ends every behaviour.
CHECK_DEADLOCK FALSE
