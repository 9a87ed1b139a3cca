---------------------------- MODULE OracleHistory ----------------------------
(***************************************************************************)
(* The historic prices of x/oracle: at the stamp periods CalcPrices copies *)
(* the rates it has tallied to the historic store and stamps their median  *)
(* and the deviation around it (keeper/historic_price.go), and at the end  *)
(* of every block PruneAllPrices bounds the stores (keeper/end_blocker.go). *)
(*                                                                         *)
(* A stamp is keyed by its denom and the height of its block.  Medians are *)
(* kept in halves of the unit of the rates, which makes the median of an   *)
(* even number of prices exact; a deviation is kept as its square.         *)
(***************************************************************************)
EXTENDS Integers, FiniteSets, FiniteSetsExt, OracleStores, OracleDecimals

CONSTANTS
  Denoms,               \* denoms with a ballot
  Rates,                \* exchange rates a tally may store
  VotePeriod,           \* params.VotePeriod, in blocks
  HistoricStampPeriod,  \* params.HistoricStampPeriod, in blocks
  MedianStampPeriod,    \* params.MedianStampPeriod, in blocks
  MaximumPriceStamps,   \* params.MaximumPriceStamps
  MaximumMedianStamps,  \* params.MaximumMedianStamps
  MaxHeight             \* bound on the block height

\* What Params.Validate and the validators of the single parameters require.
StampParamsValid ==
  /\ IsFiniteSet(Denoms)
  /\ Rates \subseteq Nat \ {0}
  /\ VotePeriod \in Nat \ {0}
  /\ HistoricStampPeriod \in Nat \ {0}
  /\ MedianStampPeriod \in Nat \ {0}
  /\ HistoricStampPeriod <= MedianStampPeriod
  /\ HistoricStampPeriod % VotePeriod = 0
  /\ MedianStampPeriod % VotePeriod = 0
  /\ MaximumPriceStamps \in Nat \ {0}
  /\ MaximumMedianStamps \in Nat \ {0}
  /\ MaxHeight \in Nat

ASSUME StampsAssumption == StampParamsValid

VARIABLES
  height,                  \* height of the block being executed
  halted,                  \* EndBlock returned an error: no block follows
  historicPrices,          \* keeper.HistoricPrices
  medianPrices,            \* keeper.MedianPrices, in halves
  medianDeviations,        \* keeper.MedianDeviations
  lastHistoricPriceBlock   \* keeper.LastHistoricPriceBlock

vars == <<height, halted, historicPrices, medianPrices, medianDeviations,
          lastHistoricPriceBlock>>

Stamp == Denoms \X Nat

\* The square of a deviation: sum / n, with the sum in quarters.
SquaredDeviation == [sum : Nat, n : Nat \ {0}]

TypeOK ==
  /\ height \in Nat
  /\ halted \in BOOLEAN
  /\ IsStore(historicPrices, Stamp, Rates)
  /\ DOMAIN medianPrices \subseteq Stamp
  /\ DOMAIN medianDeviations \subseteq Stamp
  /\ IsStore(lastHistoricPriceBlock, Denoms, Nat)

Init ==
  /\ height = 1
  /\ halted = FALSE
  /\ historicPrices = << >>
  /\ medianPrices = << >>
  /\ medianDeviations = << >>
  /\ lastHistoricPriceBlock = << >>

-----------------------------------------------------------------------------
(* Lists of prices, as functions from the blocks of the stamps. *)

BlocksOf(store, d) == {k[2] : k \in {i \in DOMAIN store : i[1] = d}}

\* The walk over the stamps of denom d in descending order, stopped after n.
LastStamps(store, d, n) ==
  LET blocks == BlocksOf(store, d)
  IN  [b \in {c \in blocks : Cardinality({e \in blocks : e > c}) < n} |-> store[<<d, b>>]]

\* The i-th price of the sorted list.
Sorted(prices, i) ==
  prices[CHOOSE b \in DOMAIN prices :
           Cardinality({c \in DOMAIN prices :
             prices[c] < prices[b] \/ (prices[c] = prices[b] /\ c <= b)}) = i]

\* Mutant of Median: an even list gives the upper of its two middle prices.
UpperMedian(prices) == 2 * Sorted(prices, (Cardinality(DOMAIN prices) \div 2) + 1)

\* decmath.Median of a list that is not empty, in halves.
Median(prices) ==
  LET n == Cardinality(DOMAIN prices)
  IN  IF n % 2 = 0
      THEN Sorted(prices, n \div 2) + Sorted(prices, (n \div 2) + 1)
      ELSE 2 * Sorted(prices, (n \div 2) + 1)

\* Four times the square of the distance of a price from a median.
SquaredDistance(price, median) == (2 * price - median) * (2 * price - median)

\* decmath.MedianDeviation panics: the square of a distance is too large for a decimal.
DeviationPanics(median, prices) ==
  \E b \in DOMAIN prices : SquaredDistance(prices[b], median) > 4 * MaxSquare

\* decmath.MedianDeviation, before its square root.
MedianDeviation(median, prices) ==
  [sum |-> MapThenSumSet(LAMBDA b : SquaredDistance(prices[b], median), DOMAIN prices),
   n   |-> Cardinality(DOMAIN prices)]

-----------------------------------------------------------------------------
(* EndBlock, with the rates that CalcPrices has tallied in this block: none *)
(* but at the last block of a vote period.                                  *)

IsPeriodLastBlock(blocksPerPeriod) == (height + 1) % blocksPerPeriod = 0

\* The keys of the stamps of this block.
StampsOf(rates) == {<<d, height>> : d \in DOMAIN rates}

\* Mutants of StampedPrices: the rates of the block come after its median; a denom
\* whose ballot was dropped is stamped with the zero of its missing rate.
StampedTooLate(rates) == historicPrices
StampedZero(rates) ==
  PutAll(historicPrices,
         [k \in Denoms \X {height} |-> IF k[1] \in DOMAIN rates THEN rates[k[1]] ELSE 0])

\* AddHistoricPrice for every tallied denom.
StampedPrices(rates) ==
  IF IsPeriodLastBlock(HistoricStampPeriod)
  THEN PutAll(historicPrices, [k \in StampsOf(rates) |-> rates[k[1]]])
  ELSE historicPrices

\* The prices that CalcAndSetHistoricMedian takes the median of.
MedianWindow(rates, d) == LastStamps(StampedPrices(rates), d, MaximumPriceStamps)

\* CalcAndSetHistoricMedian returns the error of Median for an empty list, or panics.
MedianFails(rates) ==
  /\ IsPeriodLastBlock(MedianStampPeriod)
  /\ \E d \in DOMAIN rates :
       LET window == MedianWindow(rates, d)
       IN  DOMAIN window = {} \/ DeviationPanics(Median(window), window)

\* CalcAndSetHistoricMedian and calcAndSetHistoricMedianDeviation.
StampedMedians(rates) ==
  IF IsPeriodLastBlock(MedianStampPeriod)
  THEN PutAll(medianPrices,
              [k \in StampsOf(rates) |-> Median(MedianWindow(rates, k[1]))])
  ELSE medianPrices

StampedDeviations(rates) ==
  IF IsPeriodLastBlock(MedianStampPeriod)
  THEN PutAll(medianDeviations,
              [k \in StampsOf(rates) |->
                 MedianDeviation(Median(MedianWindow(rates, k[1])), MedianWindow(rates, k[1]))])
  ELSE medianDeviations

\* Mutants of PruneBefore: the stamps of one more period go too; those of the block
\* the period starts at stay.
PrunedTooMuch(store, period) ==
  Keep(store, {k \in DOMAIN store : k[2] > height - period + HistoricStampPeriod})
PrunedTooLittle(store, period) ==
  Keep(store, {k \in DOMAIN store : k[2] >= height - period})

\* PruneHistoricPricesBeforeBlock, PruneMediansBeforeBlock and
\* PruneMedianDeviationsBeforeBlock, when the period is past.
PruneBefore(store, period) ==
  IF period < height
  THEN Keep(store, {k \in DOMAIN store : k[2] > height - period})
  ELSE store

\* PruneAllPrices on the price store.
PrunedPrices(prices) ==
  IF IsPeriodLastBlock(HistoricStampPeriod)
  THEN PruneBefore(prices, HistoricStampPeriod * MaximumPriceStamps)
  ELSE prices

\* Mutant of PrunesMedians: the age of the medians is compared the wrong way round.
PrunesYoungMedians ==
  /\ IsPeriodLastBlock(HistoricStampPeriod) /\ IsPeriodLastBlock(MedianStampPeriod)
  /\ height <= MedianStampPeriod * MaximumMedianStamps

\* PruneAllPrices prunes medians and deviations only in a block that ends both stamp periods.
PrunesMedians == IsPeriodLastBlock(HistoricStampPeriod) /\ IsPeriodLastBlock(MedianStampPeriod)

\* PruneAllPrices on the medians.
PrunedMedians(medians) ==
  IF PrunesMedians THEN PruneBefore(medians, MedianStampPeriod * MaximumMedianStamps) ELSE medians

\* Mutant of PrunedDeviations: the deviations are pruned with the prices.
PrunedWithPrices(deviations) == PrunedPrices(deviations)

\* PruneAllPrices on the deviations, likewise.
PrunedDeviations(deviations) ==
  IF PrunesMedians THEN PruneBefore(deviations, MedianStampPeriod * MaximumMedianStamps)
  ELSE deviations

\* The stamps of CalcPrices and PruneAllPrices, on the stores of this module.
StampAndPrune(rates) ==
  /\ historicPrices' = PrunedPrices(StampedPrices(rates))
  /\ medianPrices' = PrunedMedians(StampedMedians(rates))
  /\ medianDeviations' = PrunedDeviations(StampedDeviations(rates))
  /\ lastHistoricPriceBlock' =
       IF IsPeriodLastBlock(HistoricStampPeriod)
       THEN PutAll(lastHistoricPriceBlock, [d \in DOMAIN rates |-> height])
       ELSE lastHistoricPriceBlock

\* The steps of EndBlocker on the stores of this module.
EndBlock(rates) ==
  /\ ~halted
  /\ height < MaxHeight
  /\ ~MedianFails(rates)
  /\ height' = height + 1
  /\ StampAndPrune(rates)
  /\ UNCHANGED halted

\* The module panics, also on an error of EndBlocker, and the block is not committed.
EndBlockFails(rates) ==
  /\ ~halted
  /\ height < MaxHeight
  /\ MedianFails(rates)
  /\ halted' = TRUE
  /\ UNCHANGED <<height, historicPrices, medianPrices, medianDeviations,
                 lastHistoricPriceBlock>>

\* What a tally may store in this block.
Tallies ==
  IF IsPeriodLastBlock(VotePeriod)
  THEN UNION {[D -> Rates] : D \in SUBSET Denoms}
  ELSE {<< >>}

Next == \E rates \in Tallies : EndBlock(rates) \/ EndBlockFails(rates)

Spec == Init /\ [][Next]_vars

-----------------------------------------------------------------------------
(* Queries, answered between two blocks: the last block is height - 1. *)

\* HistoricMedians, in halves; IterateHistoricMedians walks the price store.
HistoricMedians(d, numStamps) ==
  LET stamps == LastStamps(historicPrices, d, numStamps)
  IN  [b \in DOMAIN stamps |-> 2 * stamps[b]]

LastBlock == height - 1

\* Where HistoricMedianDeviation looks for a deviation.
DeviationBlock == LastBlock - ((LastBlock % MedianStampPeriod) + 1)

\* HistoricMedianDeviation; without a stamp the query is an error.
HistoricMedianDeviation(d) == Keep(medianDeviations, {<<d, DeviationBlock>>})

-----------------------------------------------------------------------------
(* Correctness. *)

\* The number of median stamp periods after which one ends together with a historic one.
Cycle == Min({n \in 1..HistoricStampPeriod : (n * MedianStampPeriod) % HistoricStampPeriod = 0})

\* MaximumPriceStamps bounds the price store, whatever tallies fail in between: at
\* most so many stamps of a denom, each from the end of a historic stamp period.
PricesBounded ==
  \A d \in Denoms :
    /\ Cardinality(BlocksOf(historicPrices, d)) <= MaximumPriceStamps
    /\ \A b \in BlocksOf(historicPrices, d) :
         b < height /\ (b + 1) % HistoricStampPeriod = 0

\* PruneAllPrices removes a price only when MaximumPriceStamps later stamp periods
\* have ended, and a stamp never changes.
PricesKeptInWindow ==
  [][\A k \in DOMAIN historicPrices :
       IF k \in DOMAIN historicPrices' THEN historicPrices'[k] = historicPrices[k]
       ELSE height - k[2] >= HistoricStampPeriod * MaximumPriceStamps]_vars

\* CalcAndSetHistoricMedian sets a median together with its deviation and
\* PruneAllPrices removes them together: a median is never without its deviation.
MediansHaveDeviations == DOMAIN medianPrices = DOMAIN medianDeviations

\* PruneAllPrices also bounds the medians, though not by MaximumMedianStamps: they are pruned
\* only where both stamp periods end, and pile up over the median stamp periods in between.
MediansBounded ==
  \A d \in Denoms :
    Cardinality(BlocksOf(medianPrices, d)) <= MaximumMedianStamps + Cycle - 1

\* The stored prices of a denom.
PricesOf(d) == {historicPrices[<<d, b>>] : b \in BlocksOf(historicPrices, d)}

\* EndBlocker fails only where a median is stamped: when no historic stamp period ends there
\* and a denom has no price left, or when the prices of a denom, the new one included, are
\* so far apart that the square of their distance is no decimal.
FailuresAreExplained ==
  halted =>
    /\ IsPeriodLastBlock(MedianStampPeriod)
    /\ \E d \in Denoms :
         \/ ~IsPeriodLastBlock(HistoricStampPeriod) /\ PricesOf(d) = {}
         \/ \E p \in PricesOf(d) :
              \E q \in PricesOf(d) \union
                       (IF IsPeriodLastBlock(HistoricStampPeriod) THEN Rates ELSE {}) :
                (p - q) * (p - q) > MaxSquare

\* The median that CalcAndSetHistoricMedian stamps splits the last MaximumPriceStamps
\* prices, the one of its block included: less than half of them are below it and less
\* than half above, or exactly half on each side and it lies in the middle of the two
\* prices next to it.
MedianSplitsPrices ==
  [][\A k \in DOMAIN medianPrices' \ DOMAIN medianPrices :
       LET all    == PutAll(historicPrices, Keep(historicPrices', {k}))
           window == LastStamps(all, k[1], MaximumPriceStamps)
           n      == Cardinality(DOMAIN window)
           m      == medianPrices'[k]
           below  == {b \in DOMAIN window : 2 * window[b] < m}
           above  == {b \in DOMAIN window : 2 * window[b] > m}
       IN  \/ 2 * Cardinality(below) < n /\ 2 * Cardinality(above) < n
           \/ /\ 2 * Cardinality(below) = n /\ 2 * Cardinality(above) = n
              /\ m = Max({window[b] : b \in below}) + Min({window[b] : b \in above})]_vars

-----------------------------------------------------------------------------
(* What the comments say of the module, and the code does not do. *)

\* HistoricMedians returns the last medians of the denom, as its comment says.
MediansAreServed(d) ==
  HistoricMedians(d, MaximumMedianStamps) = LastStamps(medianPrices, d, MaximumMedianStamps)

\* HistoricMedianDeviation returns the most recently stamped deviation of the denom, as its
\* comment says.
LatestDeviationIsServed(d) ==
  HistoricMedianDeviation(d) =
    Keep(medianDeviations, {<<d, b>> : b \in DOMAIN LastStamps(medianDeviations, d, 1)})

\* HistoricMedians returns the last medians of a denom or, at least, HistoricMedianDeviation
\* the most recently stamped deviation: a state in which this fails shows that neither of
\* the queries behind WithinHistoricMedianDeviation does what its comment says.
StampsAreServed ==
  \A d \in Denoms : MediansAreServed(d) \/ LatestDeviationIsServed(d)
=============================================================================
