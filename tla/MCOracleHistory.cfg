\* A median stamp period that is not a multiple of the historic one, three prices and
\* two medians kept.
SPECIFICATION Spec
CONSTANTS
  A = A
  Denoms = {A}
  Rates = {1, 2, 4}
  VotePeriod = 1
  HistoricStampPeriod = 2
  MedianStampPeriod = 3
  MaximumPriceStamps = 3
  MaximumMedianStamps = 2
  MaxHeight = 14
  MaxSquare = 8
INVARIANTS
  TypeOK
  PricesBounded
  MediansBounded
  MediansHaveDeviations
  FailuresAreExplained
PROPERTIES
  PricesKeptInWindow
  MedianSplitsPrices
\* The bound on the height ends every behaviour.
CHECK_DEADLOCK FALSE
