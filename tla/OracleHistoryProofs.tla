------------------------- MODULE OracleHistoryProofs -------------------------
(***************************************************************************)
(* Proofs about OracleHistory, for any denoms and rates and every stamp    *)
(* period and maximum that Params.Validate accepts.                        *)
(***************************************************************************)
EXTENDS OracleHistory, OracleTheorems

-----------------------------------------------------------------------------
(* Stores and stamps. *)

\* The stamps of a tally: none but at the end of a vote period.
LEMMA TalliesTyped ==
  ASSUME NEW rates \in Tallies
  PROVE  DOMAIN rates \subseteq Denoms /\ \A d \in DOMAIN rates : rates[d] \in Rates
<1>1. CASE rates = << >>
  BY <1>1
<1>2. CASE \E D \in SUBSET Denoms : rates \in [D -> Rates]
  BY <1>2
<1> QED
  BY <1>1, <1>2 DEF Tallies

\* The numbers that Params.Validate leaves to the module.
LEMMA StampNumbers ==
  /\ VotePeriod \in Nat \ {0} /\ HistoricStampPeriod \in Nat \ {0}
  /\ MedianStampPeriod \in Nat \ {0}
  /\ MaximumPriceStamps \in Nat \ {0} /\ MaximumMedianStamps \in Nat \ {0}
  /\ HistoricStampPeriod * MaximumPriceStamps \in Nat
  /\ MedianStampPeriod * MaximumMedianStamps \in Nat
  BY StampsAssumption DEF StampParamsValid

\* What a block makes of the price store.
LEMMA PricesStep ==
  ASSUME TypeOK, NEW rates \in Tallies
  PROVE  LET new == PrunedPrices(StampedPrices(rates))
         IN  /\ IsStore(new, Stamp, Rates)
             /\ ~IsPeriodLastBlock(HistoricStampPeriod) => new = historicPrices
             /\ DOMAIN new \subseteq DOMAIN historicPrices \union StampsOf(rates)
             /\ \A k \in DOMAIN new \intersect DOMAIN historicPrices :
                  k \notin StampsOf(rates) => new[k] = historicPrices[k]
             /\ \A k \in DOMAIN historicPrices \ DOMAIN new :
                  k[2] <= height - (HistoricStampPeriod * MaximumPriceStamps)
             /\ IsPeriodLastBlock(HistoricStampPeriod) =>
                  \A k \in DOMAIN new :
                    /\ HistoricStampPeriod * MaximumPriceStamps < height =>
                         k[2] > height - (HistoricStampPeriod * MaximumPriceStamps)
                    /\ k \in StampsOf(rates) => new[k] = rates[k[1]]
             /\ IsPeriodLastBlock(HistoricStampPeriod) => StampsOf(rates) \subseteq DOMAIN new
<1> DEFINE H == HistoricStampPeriod * MaximumPriceStamps
           S == StampedPrices(rates)
           new == PrunedPrices(S)
           R == [k \in StampsOf(rates) |-> rates[k[1]]]
<1>1. H \in Nat /\ H > 0 /\ height \in Nat
  BY StampNumbers DEF TypeOK
<1>2. /\ StampsOf(rates) \subseteq Stamp
      /\ \A k \in StampsOf(rates) : k[1] \in DOMAIN rates /\ k[2] = height /\ rates[k[1]] \in Rates
  BY <1>1, TalliesTyped DEF StampsOf, Stamp
<1>3. CASE ~IsPeriodLastBlock(HistoricStampPeriod)
  <2>1. new = historicPrices
    BY <1>3 DEF PrunedPrices, StampedPrices
  <2> QED
    BY <1>3, <2>1 DEF TypeOK
<1>4. CASE IsPeriodLastBlock(HistoricStampPeriod)
  <2>1. S = PutAll(historicPrices, R) /\ DOMAIN R = StampsOf(rates)
    BY <1>4 DEF StampedPrices
  <2>2. /\ DOMAIN S = DOMAIN historicPrices \union StampsOf(rates)
        /\ \A k \in StampsOf(rates) : S[k] = rates[k[1]]
        /\ \A k \in DOMAIN historicPrices \ StampsOf(rates) : S[k] = historicPrices[k]
        /\ IsStore(S, Stamp, Rates)
    <3> HIDE DEF S, R
    <3>1. /\ DOMAIN S = DOMAIN historicPrices \union DOMAIN R
          /\ \A k \in DOMAIN R : S[k] = R[k]
          /\ \A k \in DOMAIN historicPrices \ DOMAIN R : S[k] = historicPrices[k]
      <4>1. S = PutAll(historicPrices, R)
        BY <2>1
      <4> QED
        BY <4>1 DEF PutAll
    <3>2. \A k \in StampsOf(rates) : R[k] = rates[k[1]]
      BY DEF R
    <3>3. IsStore(historicPrices, Stamp, Rates)
      BY DEF TypeOK
    <3>4. IsStore(S, Stamp, Rates)
      <4>1. S = PutAll(historicPrices, R)
        BY <2>1
      <4>2. DOMAIN R \subseteq Stamp /\ \A k \in DOMAIN R : R[k] \in Rates
        BY <1>2, <2>1, <3>2
      <4> QED
        BY <3>3, <4>1, <4>2 DEF PutAll, IsStore
    <3> QED
      BY <2>1, <3>1, <3>2, <3>4
  <2> HIDE DEF S
  <2>3. new = PruneBefore(S, H)
    BY <1>4 DEF PrunedPrices
  <2>4. CASE H < height
    <3>1. new = Keep(S, {k \in DOMAIN S : k[2] > height - H})
      BY <2>3, <2>4 DEF PruneBefore
    <3>2. /\ DOMAIN new = {k \in DOMAIN S : k[2] > height - H}
          /\ \A k \in DOMAIN new : new[k] = S[k]
          /\ IsStore(new, Stamp, Rates)
      BY <2>2, <3>1 DEF Keep, IsStore
    <3>3. \A k \in DOMAIN historicPrices : k[2] \in Nat
      BY DEF TypeOK, IsStore, Stamp
    <3> HIDE DEF H, new
    <3>4. \A k \in DOMAIN historicPrices \ DOMAIN new : k[2] <= height - H
      BY <1>1, <2>2, <3>2, <3>3
    <3>5. StampsOf(rates) \subseteq DOMAIN new
      BY <1>1, <1>2, <2>2, <3>2
    <3> QED
      BY <1>4, <2>2, <3>2, <3>4, <3>5 DEF new, H, S
  <2>5. CASE ~(H < height)
    <3>1. new = S
      BY <2>3, <2>5 DEF PruneBefore
    <3> HIDE DEF H, new
    <3> QED
      BY <1>4, <2>2, <2>5, <3>1 DEF new, H, S
  <2> QED
    BY <2>4, <2>5
<1> QED
  BY <1>3, <1>4
\* What a block makes of the keys of the medians and of the deviations.
LEMMA MediansStep ==
  ASSUME NEW rates
  PROVE  LET M   == PrunedMedians(StampedMedians(rates))
             D   == PrunedDeviations(StampedDeviations(rates))
             new == IF IsPeriodLastBlock(MedianStampPeriod) THEN StampsOf(rates) ELSE {}
         IN  /\ DOMAIN M \subseteq DOMAIN medianPrices \union new
             /\ DOMAIN D \subseteq DOMAIN medianDeviations \union new
             /\ DOMAIN medianPrices = DOMAIN medianDeviations => DOMAIN M = DOMAIN D
             /\ \A k \in DOMAIN M \intersect new : M[k] = Median(MedianWindow(rates, k[1]))
<1> DEFINE P == StampedMedians(rates)
           E == StampedDeviations(rates)
           M == PrunedMedians(P)
           D == PrunedDeviations(E)
           new == IF IsPeriodLastBlock(MedianStampPeriod) THEN StampsOf(rates) ELSE {}
           H == MedianStampPeriod * MaximumMedianStamps
<1>1. /\ DOMAIN P = DOMAIN medianPrices \union new
      /\ \A k \in new : P[k] = Median(MedianWindow(rates, k[1]))
  <2>1. CASE IsPeriodLastBlock(MedianStampPeriod)
    BY <2>1 DEF StampedMedians, PutAll
  <2>2. CASE ~IsPeriodLastBlock(MedianStampPeriod)
    BY <2>2 DEF StampedMedians
  <2> QED
    BY <2>1, <2>2
<1>2. DOMAIN E = DOMAIN medianDeviations \union new
  <2>1. CASE IsPeriodLastBlock(MedianStampPeriod)
    BY <2>1 DEF StampedDeviations, PutAll
  <2>2. CASE ~IsPeriodLastBlock(MedianStampPeriod)
    BY <2>2 DEF StampedDeviations
  <2> QED
    BY <2>1, <2>2
<1> HIDE DEF P, E, new
<1>3. \/ /\ M = Keep(P, {k \in DOMAIN P : k[2] > height - H})
         /\ D = Keep(E, {k \in DOMAIN E : k[2] > height - H})
      \/ M = P /\ D = E
  BY DEF PrunedMedians, PrunedDeviations, PruneBefore
<1>4. /\ DOMAIN M \subseteq DOMAIN P /\ DOMAIN D \subseteq DOMAIN E
      /\ DOMAIN P = DOMAIN E => DOMAIN M = DOMAIN D
      /\ \A k \in DOMAIN M : M[k] = P[k]
  <2> HIDE DEF M, D, H
  <2> QED
    BY <1>3 DEF Keep
<1> QED
  BY <1>1, <1>2, <1>4 DEF P, E, new

\* The end of a block keeps the type.
LEMMA TypeOKEndBlock ==
  ASSUME TypeOK, NEW rates \in Tallies, EndBlock(rates)
  PROVE  TypeOK'
<1>1. DOMAIN rates \subseteq Denoms /\ height \in Nat /\ height' = height + 1 /\ halted' = halted
  BY TalliesTyped DEF EndBlock, TypeOK
<1>2. StampsOf(rates) \subseteq Stamp
  BY <1>1 DEF StampsOf, Stamp
<1>3. IsStore(historicPrices', Stamp, Rates)
  BY PricesStep DEF EndBlock, StampAndPrune
<1>4. DOMAIN medianPrices' \subseteq Stamp /\ DOMAIN medianDeviations' \subseteq Stamp
  BY <1>2, MediansStep DEF EndBlock, StampAndPrune, TypeOK
<1>5. IsStore(lastHistoricPriceBlock', Denoms, Nat)
  <2>1. IsStore(lastHistoricPriceBlock, Denoms, Nat)
    BY DEF TypeOK
  <2>2. CASE IsPeriodLastBlock(HistoricStampPeriod)
    <3>1. lastHistoricPriceBlock' = PutAll(lastHistoricPriceBlock, [d \in DOMAIN rates |-> height])
      BY <2>2 DEF EndBlock, StampAndPrune
    <3> QED
      BY <1>1, <2>1, <3>1 DEF PutAll, IsStore
  <2>3. CASE ~IsPeriodLastBlock(HistoricStampPeriod)
    BY <2>1, <2>3 DEF EndBlock, StampAndPrune
  <2> QED
    BY <2>2, <2>3
<1> QED
  BY <1>1, <1>3, <1>4, <1>5 DEF TypeOK

\* The state of the history keeps its type.
THEOREM TypeCorrect == Spec => []TypeOK
<1>1. Init => TypeOK
  <2> SUFFICES ASSUME Init PROVE TypeOK
    OBVIOUS
  <2>1. /\ IsStore(historicPrices, Stamp, Rates) /\ IsStore(lastHistoricPriceBlock, Denoms, Nat)
        /\ DOMAIN medianPrices = {} /\ DOMAIN medianDeviations = {}
    BY EmptyStore DEF Init
  <2>2. height \in Nat /\ halted \in BOOLEAN
    BY DEF Init
  <2> QED
    BY <2>1, <2>2 DEF TypeOK
<1>2. TypeOK /\ [Next]_vars => TypeOK'
  <2> SUFFICES ASSUME TypeOK, [Next]_vars PROVE TypeOK'
    OBVIOUS
  <2>1. ASSUME NEW rates \in Tallies, EndBlock(rates) PROVE TypeOK'
    BY <2>1, TypeOKEndBlock
  <2>2. ASSUME NEW rates \in Tallies, EndBlockFails(rates) PROVE TypeOK'
    BY <2>2 DEF EndBlockFails, TypeOK
  <2>3. CASE UNCHANGED vars
    BY <2>3 DEF vars, TypeOK
  <2> QED
    BY <2>1, <2>2, <2>3 DEF Next
<1> QED
  BY <1>1, <1>2, PTL DEF Spec

-----------------------------------------------------------------------------
(* The stamps that the stores hold. *)

\* The number of the historic stamp period that block b ends.
PeriodOf(b) == (b + 1) \div HistoricStampPeriod

\* The inductive invariant: a stamp is from the end of a stamp period, and of the prices
\* only those of the last MaximumPriceStamps periods that have ended are left.
StampsInv ==
  /\ height >= 1
  /\ \A k \in DOMAIN historicPrices :
       /\ k[2] >= 1
       /\ k[2] < height
       /\ (k[2] + 1) % HistoricStampPeriod = 0
       /\ PeriodOf(k[2]) + MaximumPriceStamps > (height \div HistoricStampPeriod)
  /\ \A k \in DOMAIN medianDeviations :
       k[2] < height /\ (k[2] + 1) % MedianStampPeriod = 0
  /\ MediansHaveDeviations

\* A common factor does not change an order.
LEMMA CommonFactor ==
  ASSUME NEW n \in Nat \ {0}, NEW a \in Int, NEW b \in Int, n * a > n * b
  PROVE  a > b
<1> SUFFICES ASSUME a <= b PROVE FALSE
  OBVIOUS
<1>1. (b - a) \in Nat /\ b = a + (b - a)
  OBVIOUS
<1>2. n * (a + (b - a)) = (n * a) + (n * (b - a))
  BY MulDistributes
<1>3. n * (b - a) \in Nat /\ n * a \in Int /\ n * b \in Int
  BY <1>1
<1> QED
  BY <1>1, <1>2, <1>3

\* The bound of the price store at block h, the end of period q + 1 of n blocks: a stamp
\* of period j that PruneHistoricPricesBeforeBlock leaves is one of the last m periods,
\* also when so early that nothing is pruned.
LEMMA PrunedWindow ==
  ASSUME NEW n \in Nat \ {0}, NEW m \in Nat \ {0}, NEW q \in Nat, NEW j \in Nat,
         NEW h \in Nat, NEW b \in Nat, b >= 1, b <= h, h + 1 = n * (q + 1), b + 1 = n * j,
         n * m < h => b > h - (n * m)
  PROVE  j + m > q + 1
<1>1. n * (j + m) = (n * j) + (n * m) /\ n * j \in Nat /\ n * m \in Nat /\ n * (q + 1) \in Nat
  BY MulDistributes
<1>2. CASE n * m < h
  <2>1. n * (j + m) > n * (q + 1)
    BY <1>1, <1>2
  <2> QED
    BY <2>1, CommonFactor
<1>3. CASE ~(n * m < h)
  <2>1. n * m >= h
    BY <1>1, <1>3
  <2>2. n * (j + m) >= b + 1 + h
    BY <1>1, <2>1
  <2>3. n * (j + m) > n * (q + 1)
    BY <1>1, <2>2
  <2> QED
    BY <2>3, CommonFactor
<1> QED
  BY <1>2, <1>3
\* The end of a block keeps the stamps in their window.
LEMMA StampsInvEndBlock ==
  ASSUME TypeOK, StampsInv, NEW rates \in Tallies, EndBlock(rates)
  PROVE  StampsInv'
<1> DEFINE n == HistoricStampPeriod
           m == MaximumPriceStamps
           q == height \div n
<1>1. /\ n \in Nat \ {0} /\ m \in Nat \ {0} /\ n * m \in Nat
      /\ height \in Nat /\ height >= 1 /\ height' = height + 1
  BY StampNumbers DEF EndBlock, TypeOK, StampsInv
<1>2. \A k \in StampsOf(rates) : k[2] = height
  BY DEF StampsOf
<1>3. q \in Nat
  BY <1>1, DivMod
<1>4. ASSUME NEW k \in DOMAIN historicPrices'
      PROVE  /\ k[2] >= 1 /\ k[2] < height + 1
             /\ (k[2] + 1) % n = 0
             /\ PeriodOf(k[2]) + m > ((height + 1) \div n)
  <2> DEFINE b == k[2]
  <2>1. k \in Stamp
    BY TypeOKEndBlock DEF TypeOK, IsStore
  <2>2. b \in Nat
    BY <2>1 DEF Stamp
  <2>3. \A i \in DOMAIN historicPrices :
          i[2] >= 1 /\ i[2] < height /\ (i[2] + 1) % n = 0 /\ PeriodOf(i[2]) + m > q
    BY DEF StampsInv
  <2>4. /\ ~IsPeriodLastBlock(n) => historicPrices' = historicPrices
        /\ DOMAIN historicPrices' \subseteq DOMAIN historicPrices \union StampsOf(rates)
        /\ IsPeriodLastBlock(n) => (n * m < height => b > height - (n * m))
    BY PricesStep DEF EndBlock, StampAndPrune
  <2>5. CASE ~IsPeriodLastBlock(n)
    <3>1. ((height + 1) \div n) = q
      BY <1>1, <2>5, SamePeriod DEF IsPeriodLastBlock
    <3> HIDE DEF b, q, n, m
    <3>2. k \in DOMAIN historicPrices
      BY <2>4, <2>5
    <3> QED
      BY <1>1, <2>2, <2>3, <3>1, <3>2 DEF b
  <2>6. CASE IsPeriodLastBlock(n)
    <3>1. ((height + 1) \div n) = q + 1 /\ height + 1 = n * (q + 1)
      <4>1. (height + 1) \in Nat /\ ((height + 1) % n) = 0
        BY <1>1, <2>6 DEF IsPeriodLastBlock
      <4>2. ((height + 1) \div n) = q + 1
        BY <1>1, <2>6, NextPeriod DEF IsPeriodLastBlock
      <4>3. height + 1 = (n * ((height + 1) \div n)) + ((height + 1) % n)
        BY <1>1, <4>1, DivMod
      <4>4. n * (q + 1) \in Nat
        BY <1>1, <1>3
      <4> HIDE DEF n, q
      <4> QED
        BY <4>1, <4>2, <4>3, <4>4
    <3>2. b >= 1 /\ b <= height /\ ((b + 1) % n) = 0
      <4>1. CASE k \in DOMAIN historicPrices
        BY <1>1, <2>2, <2>3, <4>1
      <4>2. CASE k \in StampsOf(rates)
        BY <1>1, <1>2, <2>6, <4>2 DEF IsPeriodLastBlock
      <4> QED
        BY <2>4, <4>1, <4>2
    <3> DEFINE j == (b + 1) \div n
    <3>3. j \in Nat /\ b + 1 = n * j
      <4>1. (b + 1) \in Nat
        BY <2>2
      <4>2. j \in Nat /\ b + 1 = (n * j) + ((b + 1) % n)
        BY <1>1, <4>1, DivMod
      <4>3. n * j \in Nat
        BY <1>1, <4>2
      <4> HIDE DEF j, n, b
      <4> QED
        BY <3>2, <4>2, <4>3
    <3>4. n * m < height => b > height - (n * m)
      BY <2>4, <2>6
    <3> HIDE DEF b, n, m, q, j
    <3>5. j + m > q + 1
      BY <1>1, <1>3, <2>2, <3>1, <3>2, <3>3, <3>4, PrunedWindow
    <3>6. PeriodOf(b) = j
      BY DEF PeriodOf, j, n
    <3> QED
      BY <1>1, <2>2, <3>1, <3>2, <3>5, <3>6 DEF b
  <2> QED
    BY <2>5, <2>6
<1>5. ASSUME NEW k \in DOMAIN medianDeviations'
      PROVE  k[2] < height + 1 /\ (k[2] + 1) % MedianStampPeriod = 0
  <2>1. \/ k \in DOMAIN medianDeviations
        \/ IsPeriodLastBlock(MedianStampPeriod) /\ k \in StampsOf(rates)
    BY MediansStep DEF EndBlock, StampAndPrune
  <2>2. CASE k \in DOMAIN medianDeviations
    <3>1. k[2] \in Nat
      BY <2>2 DEF TypeOK, Stamp
    <3> QED
      BY <1>1, <2>2, <3>1 DEF StampsInv
  <2>3. CASE IsPeriodLastBlock(MedianStampPeriod) /\ k \in StampsOf(rates)
    BY <1>1, <1>2, <2>3 DEF IsPeriodLastBlock
  <2> QED
    BY <2>1, <2>2, <2>3
<1>6. MediansHaveDeviations'
  BY MediansStep DEF EndBlock, StampAndPrune, StampsInv, MediansHaveDeviations
<1> QED
  BY <1>1, <1>4, <1>5, <1>6 DEF StampsInv

\* Every stamp of every reachable state is from the end of a stamp period of its window.
THEOREM StampsInvariant == Spec => []StampsInv
<1>1. Init => StampsInv
  BY DEF Init, StampsInv, MediansHaveDeviations
<1>2. TypeOK /\ StampsInv /\ [Next]_vars => StampsInv'
  <2> SUFFICES ASSUME TypeOK, StampsInv, [Next]_vars PROVE StampsInv'
    OBVIOUS
  <2>1. ASSUME NEW rates \in Tallies, EndBlock(rates) PROVE StampsInv'
    BY <2>1, StampsInvEndBlock
  <2>2. CASE UNCHANGED <<height, historicPrices, medianPrices, medianDeviations>>
    BY <2>2 DEF StampsInv, MediansHaveDeviations
  <2> QED
    BY <2>1, <2>2 DEF Next, EndBlockFails, vars
<1> QED
  BY <1>1, <1>2, TypeCorrect, PTL DEF Spec

\* A median is never without its deviation, whatever is stamped and pruned.
THEOREM MediansHaveDeviationsAlways == Spec => []MediansHaveDeviations
<1>1. StampsInv => MediansHaveDeviations
  BY DEF StampsInv
<1> QED
  BY <1>1, StampsInvariant, PTL

\* The blocks of the stamps of a denom.
LEMMA BlocksOfStore ==
  ASSUME NEW store, DOMAIN store \subseteq Stamp, NEW d
  PROVE  BlocksOf(store, d) = {b \in Nat : <<d, b>> \in DOMAIN store}
<1>1. \A k \in DOMAIN store : k = <<k[1], k[2]>> /\ k[2] \in Nat
  BY DEF Stamp
<1> QED
  BY <1>1 DEF BlocksOf

\* The price store is bounded by MaximumPriceStamps for each denom, whatever ballots fail
\* and for every stamp period: stamps are injected into the last periods.
THEOREM PricesBoundedAlways == Spec => []PricesBounded
<1>1. TypeOK /\ StampsInv => PricesBounded
  <2> SUFFICES ASSUME TypeOK, StampsInv, NEW d \in Denoms
               PROVE  /\ Cardinality(BlocksOf(historicPrices, d)) <= MaximumPriceStamps
                      /\ \A b \in BlocksOf(historicPrices, d) :
                           b < height /\ (b + 1) % HistoricStampPeriod = 0
    BY DEF PricesBounded
  <2> DEFINE n == HistoricStampPeriod
             m == MaximumPriceStamps
             q == height \div n
             B == BlocksOf(historicPrices, d)
             W == ((q - m) + 1)..q
             f == [b \in B |-> PeriodOf(b)]
  <2>1. n \in Nat \ {0} /\ m \in Nat \ {0} /\ height \in Nat /\ q \in Nat
    BY StampNumbers, DivMod DEF TypeOK
  <2>2. B = {b \in Nat : <<d, b>> \in DOMAIN historicPrices}
    BY BlocksOfStore DEF TypeOK, IsStore
  <2>3. \A b \in B : /\ b \in Nat /\ b < height /\ ((b + 1) % n) = 0
                     /\ PeriodOf(b) + m > q
    BY <2>2 DEF StampsInv
  <2>4. \A b \in B : /\ PeriodOf(b) \in Nat
                     /\ b + 1 = n * PeriodOf(b)
                     /\ PeriodOf(b) <= q
    <3> SUFFICES ASSUME NEW b \in B
                 PROVE  /\ PeriodOf(b) \in Nat
                        /\ b + 1 = n * PeriodOf(b)
                        /\ PeriodOf(b) <= q
      OBVIOUS
    <3>1. b \in Nat /\ (b + 1) \in Nat /\ b + 1 <= height /\ ((b + 1) % n) = 0
      BY <2>1, <2>3
    <3> HIDE DEF B
    <3>2. /\ ((b + 1) \div n) \in Nat
          /\ b + 1 = (n * ((b + 1) \div n)) + ((b + 1) % n)
          /\ ((b + 1) \div n) <= (height \div n)
      BY <2>1, <3>1, DivMod, PeriodsInOrder
    <3>3. n * ((b + 1) \div n) \in Nat
      BY <2>1, <3>2
    <3> QED
      BY <3>1, <3>2, <3>3 DEF PeriodOf
  <2> HIDE DEF B, q, n, m
  <2>5. f \in Injection(B, W)
    <3>1. \A b \in B : PeriodOf(b) \in W
      BY <2>1, <2>3, <2>4
    <3>2. \A b, c \in B : PeriodOf(b) = PeriodOf(c) => b = c
      BY <2>3, <2>4
    <3> QED
      BY <3>1, <3>2 DEF Injection, IsInjective
  <2>6. IsFiniteSet(W) /\ Cardinality(W) = m
    <3>1. ((q - m) + 1) \in Int /\ q \in Int /\ ~((q - m) + 1 > q)
      BY <2>1
    <3>2. Cardinality(W) = (q - ((q - m) + 1)) + 1 /\ IsFiniteSet(W)
      BY <3>1, FS_Interval
    <3> QED
      BY <2>1, <3>2
  <2>7. Cardinality(B) <= m
    BY <2>5, <2>6, FS_Injection
  <2> QED
    BY <2>3, <2>7 DEF B, n, m
<1> QED
  BY <1>1, TypeCorrect, StampsInvariant, PTL

\* A price leaves the store only when MaximumPriceStamps later stamp periods have ended,
\* and never changes, for every stamp period and maximum.
THEOREM PricesKeptInWindowAlways == Spec => PricesKeptInWindow
<1> DEFINE Kept == \A k \in DOMAIN historicPrices :
                     IF k \in DOMAIN historicPrices' THEN historicPrices'[k] = historicPrices[k]
                     ELSE height - k[2] >= HistoricStampPeriod * MaximumPriceStamps
<1>1. TypeOK /\ StampsInv /\ [Next]_vars => [Kept]_vars
  <2> SUFFICES ASSUME TypeOK, StampsInv, Next PROVE Kept
    BY DEF vars
  <2>1. ASSUME NEW rates \in Tallies, EndBlock(rates) PROVE Kept
    <3> SUFFICES ASSUME NEW k \in DOMAIN historicPrices
                 PROVE  IF k \in DOMAIN historicPrices'
                        THEN historicPrices'[k] = historicPrices[k]
                        ELSE height - k[2] >= HistoricStampPeriod * MaximumPriceStamps
      OBVIOUS
    <3>1. k[2] \in Nat /\ height \in Nat /\ k[2] < height
      BY DEF TypeOK, IsStore, Stamp, StampsInv
    <3>2. k \notin StampsOf(rates)
      BY <3>1 DEF StampsOf
    <3>3. HistoricStampPeriod * MaximumPriceStamps \in Nat
      BY StampNumbers
    <3>4. /\ k \in DOMAIN historicPrices' => historicPrices'[k] = historicPrices[k]
          /\ k \notin DOMAIN historicPrices' =>
               k[2] <= height - (HistoricStampPeriod * MaximumPriceStamps)
      BY <2>1, <3>2, PricesStep DEF EndBlock, StampAndPrune
    <3> QED
      BY <3>1, <3>3, <3>4
  <2>2. ASSUME NEW rates \in Tallies, EndBlockFails(rates) PROVE Kept
    BY <2>2 DEF EndBlockFails
  <2> QED
    BY <2>1, <2>2 DEF Next
<1> QED
  BY <1>1, TypeCorrect, StampsInvariant, PTL DEF Spec, PricesKeptInWindow

-----------------------------------------------------------------------------
(* The bound of the medians. *)

\* The numbers that n divides.
LEMMA Multiples ==
  ASSUME NEW n \in Nat \ {0}, NEW x \in Nat
  PROVE  (x % n) = 0 <=> \E t \in Nat : x = n * t
<1>1. (x \div n) \in Nat /\ x = (n * (x \div n)) + (x % n)
  BY DivMod
<1>2. ASSUME (x % n) = 0 PROVE \E t \in Nat : x = n * t
  <2> DEFINE t == x \div n
  <2>1. t \in Nat /\ x = (n * t) + 0
    BY <1>1, <1>2
  <2> HIDE DEF t
  <2>2. n * t \in Nat
    BY <2>1
  <2>3. x = n * t
    BY <2>1, <2>2
  <2> QED
    BY <2>1, <2>3
<1>3. ASSUME NEW t \in Nat, x = n * t PROVE (x % n) = 0
  <2>1. x = (n * t) + 0 /\ 0 < n
    BY <1>3
  <2> QED
    BY <2>1, DivModUnique
<1> QED
  BY <1>2, <1>3

\* The least number of median stamp periods that make up whole historic ones.
LEMMA CycleIsLeast ==
  /\ Cycle \in 1..HistoricStampPeriod
  /\ (Cycle * MedianStampPeriod) % HistoricStampPeriod = 0
  /\ \A n \in 1..HistoricStampPeriod :
       (n * MedianStampPeriod) % HistoricStampPeriod = 0 => Cycle <= n
<1> DEFINE H == HistoricStampPeriod
           M == MedianStampPeriod
           S == {n \in 1..H : (n * M) % H = 0}
<1>1. H \in Nat \ {0} /\ M \in Nat \ {0}
  BY StampNumbers
<1>2. H \in S
  <2>1. H * M \in Nat /\ H \in 1..H /\ M \in Nat
    BY <1>1
  <2> HIDE DEF H, M
  <2>2. \E t \in Nat : H * M = H * t
    BY <2>1
  <2>3. ((H * M) % H) = 0
    BY <1>1, <2>1, <2>2, Multiples
  <2> QED
    BY <2>1, <2>3
<1>3. S \in SUBSET Int /\ IsFiniteSet(S)
  <2>1. IsFiniteSet(1..H) /\ S \in SUBSET (1..H) /\ 1..H \subseteq Int
    BY <1>1, FS_Interval
  <2> HIDE DEF S
  <2> QED
    BY <2>1, FS_Subset
<1>4. Cycle = Min(S)
  BY DEF Cycle
<1> HIDE DEF S
<1>5. Cycle \in S /\ \A n \in S : Cycle <= n
  BY <1>2, <1>3, <1>4, ExtremesOf
<1> QED
  BY <1>5 DEF S

\* The median stamp periods that end together with a historic one are the multiples of Cycle.
LEMMA CyclesDivide ==
  ASSUME NEW n \in Nat
  PROVE  (MedianStampPeriod * n) % HistoricStampPeriod = 0 <=> (n % Cycle) = 0
<1> DEFINE H == HistoricStampPeriod
           M == MedianStampPeriod
           C == Cycle
           q == n \div C
           r == n % C
<1>1. H \in Nat \ {0} /\ M \in Nat \ {0} /\ C \in Nat \ {0} /\ C <= H
  BY StampNumbers, CycleIsLeast
<1>2. q \in Nat /\ r \in Nat /\ r < C /\ n = (C * q) + r
  BY <1>1, DivMod
<1>3. C * M \in Nat /\ r * M \in Nat /\ M * n \in Nat
  BY <1>1, <1>2
<1>4. PICK t \in Nat : C * M = H * t
  BY <1>1, <1>3, CycleIsLeast, Multiples
<1> HIDE DEF C, q, r, H, M
<1>5. t * q \in Nat /\ H * (t * q) \in Nat
  BY <1>1, <1>2, <1>4
<1>6. M * n = (H * (t * q)) + (r * M)
  <2>1. M * n = (M * (C * q)) + (M * r)
    BY <1>1, <1>2, MulDistributes
  <2>2. M * (C * q) = (C * M) * q
    <3>1. (M * C) * q = M * (C * q) /\ M * C = C * M
      BY <1>1, <1>2, MulAssociates
    <3> QED
      BY <3>1
  <2>3. (H * t) * q = H * (t * q)
    BY <1>1, <1>2, MulAssociates
  <2>4. M * r = r * M
    BY <1>1, <1>2
  <2> QED
    BY <1>4, <2>1, <2>2, <2>3, <2>4
<1>7. ASSUME r = 0 PROVE ((M * n) % H) = 0
  <2>1. r * M = 0
    BY <1>1, <1>7
  <2>2. M * n = H * (t * q)
    BY <1>5, <1>6, <2>1
  <2> QED
    BY <1>1, <1>3, <1>5, <2>2, Multiples
<1>8. ASSUME ((M * n) % H) = 0 PROVE r = 0
  <2>1. PICK s \in Nat : M * n = H * s
    BY <1>1, <1>3, <1>8, Multiples
  <2>2. s - (t * q) \in Int /\ s = (t * q) + (s - (t * q)) /\ H * s \in Nat
    BY <1>1, <1>5
  <2>3. H * ((t * q) + (s - (t * q))) = (H * (t * q)) + (H * (s - (t * q)))
    BY <1>1, <1>5, <2>2, MulDistributes
  <2>4. H * (s - (t * q)) = r * M
    <3>1. H * (s - (t * q)) \in Int
      BY <1>1, <2>2
    <3> QED
      BY <1>3, <1>5, <1>6, <2>1, <2>2, <2>3, <3>1
  <2>5. s - (t * q) \in Nat
    <3>1. CASE s - (t * q) >= 0
      BY <2>2, <3>1
    <3>2. CASE s - (t * q) < 0
      <4>1. H * 0 > H * (s - (t * q)) \/ H * (s - (t * q)) >= 0
        BY <1>1, <2>2
      <4>2. s - (t * q) + 1 <= 0 /\ H * (s - (t * q)) < 0
        BY <1>1, <2>2, <3>2
      <4> QED
        BY <1>3, <2>4, <4>2
    <3> QED
      BY <2>2, <3>1, <3>2
  <2>6. ((r * M) % H) = 0
    BY <1>1, <1>3, <2>4, <2>5, Multiples
  <2>7. r \in 1..H => C <= r
    BY <2>6, CycleIsLeast DEF C, H, M
  <2> QED
    BY <1>1, <1>2, <2>7
<1> QED
  BY <1>7, <1>8 DEF H, M, C, r

\* The number of the median stamp period that block b ends.
MedianOf(b) == (b + 1) \div MedianStampPeriod

\* The last median stamp period that has ended together with a historic one.
CycleStart == Cycle * ((height \div MedianStampPeriod) \div Cycle)

\* The inductive invariant: at the end of every cycle only the medians of the last
\* MaximumMedianStamps periods are left.
MediansInv ==
  \A k \in DOMAIN medianPrices :
    k[2] >= 1 /\ MedianOf(k[2]) + MaximumMedianStamps > CycleStart

\* What PruneMediansBeforeBlock leaves.
LEMMA MediansLeft ==
  ASSUME NEW rates, PrunesMedians, NEW k \in DOMAIN PrunedMedians(StampedMedians(rates)),
         MedianStampPeriod * MaximumMedianStamps < height
  PROVE  k[2] > height - (MedianStampPeriod * MaximumMedianStamps)
  BY DEF PrunedMedians, PruneBefore, Keep

\* The end of a block keeps the medians in their window.
LEMMA MediansInvEndBlock ==
  ASSUME TypeOK, StampsInv, MediansInv, NEW rates \in Tallies, EndBlock(rates)
  PROVE  MediansInv'
<1> DEFINE M == MedianStampPeriod
           X == MaximumMedianStamps
           C == Cycle
           q == height \div M
           c == q \div C
<1>1. /\ M \in Nat \ {0} /\ X \in Nat \ {0} /\ C \in Nat \ {0} /\ M * X \in Nat
      /\ height \in Nat /\ height >= 1 /\ height' = height + 1
  BY StampNumbers, CycleIsLeast DEF EndBlock, TypeOK, StampsInv
<1>2. q \in Nat
  BY <1>1, DivMod
<1>3. c \in Nat /\ q = (C * c) + (q % C) /\ (q % C) \in Nat /\ C * c \in Nat
  <2>1. c \in Nat /\ q = (C * c) + (q % C) /\ (q % C) \in 0..(C - 1)
    BY <1>1, <1>2, DivMod
  <2> HIDE DEF c, q, C
  <2> QED
    BY <1>1, <2>1
<1> SUFFICES ASSUME NEW k \in DOMAIN medianPrices'
             PROVE  /\ k[2] >= 1
                    /\ MedianOf(k[2]) + X > C * (((height + 1) \div M) \div C)
  BY <1>1 DEF MediansInv, CycleStart, MedianOf, Cycle
<1> DEFINE b == k[2]
           j == MedianOf(b)
<1>4. \/ k \in DOMAIN medianPrices
      \/ IsPeriodLastBlock(M) /\ k \in StampsOf(rates)
  BY MediansStep DEF EndBlock, StampAndPrune
<1>5. b \in Nat /\ b >= 1 /\ b <= height /\ ((b + 1) % M) = 0
  <2>1. CASE k \in DOMAIN medianPrices
    <3>1. b \in Nat
      BY <2>1 DEF TypeOK, Stamp
    <3>2. k \in DOMAIN medianDeviations
      BY <2>1 DEF StampsInv, MediansHaveDeviations
    <3> QED
      BY <1>1, <2>1, <3>1, <3>2 DEF StampsInv, MediansInv
  <2>2. CASE IsPeriodLastBlock(M) /\ k \in StampsOf(rates)
    <3>1. b = height
      BY <2>2 DEF StampsOf
    <3> QED
      BY <1>1, <2>2, <3>1 DEF IsPeriodLastBlock
  <2> QED
    BY <1>4, <2>1, <2>2
<1>6. k \in DOMAIN medianPrices => j + X > C * c
  BY DEF MediansInv, CycleStart
<1>7. CASE ~IsPeriodLastBlock(M)
  <2>1. ((height + 1) \div M) = q
    BY <1>1, <1>7, SamePeriod DEF IsPeriodLastBlock
  <2> QED
    BY <1>4, <1>5, <1>6, <1>7, <2>1
<1>8. CASE IsPeriodLastBlock(M)
  <2>1. ((height + 1) \div M) = q + 1 /\ height + 1 = M * (q + 1)
    <3>1. (height + 1) \in Nat /\ ((height + 1) % M) = 0
      BY <1>1, <1>8 DEF IsPeriodLastBlock
    <3>2. ((height + 1) \div M) = q + 1
      BY <1>1, <1>8, NextPeriod DEF IsPeriodLastBlock
    <3>3. height + 1 = (M * ((height + 1) \div M)) + ((height + 1) % M)
      BY <1>1, <3>1, DivMod
    <3>4. M * (q + 1) \in Nat
      BY <1>1, <1>2
    <3> HIDE DEF M, q
    <3> QED
      BY <3>1, <3>2, <3>3, <3>4
  <2>2. j \in Nat /\ b + 1 = M * j
    <3>1. (b + 1) \in Nat
      BY <1>5
    <3>2. j \in Nat /\ b + 1 = (M * j) + ((b + 1) % M)
      BY <1>1, <3>1, DivMod DEF MedianOf
    <3>3. M * j \in Nat
      BY <1>1, <3>2
    <3> HIDE DEF j, M, b
    <3> QED
      BY <1>5, <3>2, <3>3
  <2>3. CASE ((q + 1) % C) = 0
    <3>1. C * ((q + 1) \div C) = q + 1
      <4>1. (q + 1) \in Nat
        BY <1>2
      <4>2. ((q + 1) \div C) \in Nat /\ q + 1 = (C * ((q + 1) \div C)) + ((q + 1) % C)
        BY <1>1, <4>1, DivMod
      <4>3. C * ((q + 1) \div C) \in Nat
        BY <1>1, <4>2
      <4> HIDE DEF C, q
      <4> QED
        BY <2>3, <4>1, <4>2, <4>3
    <3>2. PrunesMedians
      <4>1. ((M * (q + 1)) % HistoricStampPeriod) = 0
        <5>1. (q + 1) \in Nat
          BY <1>2
        <5> QED
          BY <2>3, <5>1, CyclesDivide
      <4>2. IsPeriodLastBlock(HistoricStampPeriod)
        BY <2>1, <4>1 DEF IsPeriodLastBlock
      <4> QED
        BY <1>8, <4>2 DEF PrunesMedians
    <3>3. M * X < height => b > height - (M * X)
      BY <3>2, MediansLeft DEF EndBlock, StampAndPrune
    <3> HIDE DEF M, X, q, b, j
    <3>4. j + X > q + 1
      BY <1>1, <1>2, <1>5, <2>1, <2>2, <3>3, PrunedWindow
    <3> QED
      BY <1>5, <2>1, <3>1, <3>4 DEF b, j
  <2>4. CASE ((q + 1) % C) # 0
    <3>1. ((q + 1) \div C) = c
      BY <1>1, <1>2, <2>4, SamePeriod
    <3>2. k \in StampsOf(rates) => j = q + 1
      <4>1. k \in StampsOf(rates) => b = height
        BY DEF StampsOf
      <4> QED
        BY <2>1, <4>1 DEF MedianOf
    <3> HIDE DEF M, X, q, b, j, c, C
    <3>3. k \in StampsOf(rates) => j + X > C * c
      BY <1>1, <1>2, <1>3, <3>2
    <3> QED
      BY <1>4, <1>5, <1>6, <2>1, <3>1, <3>3 DEF b, j
  <2> QED
    BY <2>3, <2>4
<1> QED
  BY <1>7, <1>8

\* The medians of every reachable state are of the last periods of their cycle.
THEOREM MediansInvariant == Spec => []MediansInv
<1>1. Init => MediansInv
  BY DEF Init, MediansInv
<1>2. TypeOK /\ StampsInv /\ MediansInv /\ [Next]_vars => MediansInv'
  <2> SUFFICES ASSUME TypeOK, StampsInv, MediansInv, [Next]_vars PROVE MediansInv'
    OBVIOUS
  <2>1. ASSUME NEW rates \in Tallies, EndBlock(rates) PROVE MediansInv'
    BY <2>1, MediansInvEndBlock
  <2>2. CASE UNCHANGED <<height, medianPrices>>
    BY <2>2 DEF MediansInv, MedianOf, CycleStart, Cycle
  <2> QED
    BY <2>1, <2>2 DEF Next, EndBlockFails, vars
<1> QED
  BY <1>1, <1>2, TypeCorrect, StampsInvariant, PTL DEF Spec

\* The medians of a denom are bounded by MaximumMedianStamps and the length of a cycle, for
\* every pair of stamp periods: where one is a multiple of the other, by MaximumMedianStamps.
THEOREM MediansBoundedAlways == Spec => []MediansBounded
<1>1. TypeOK /\ StampsInv /\ MediansInv => MediansBounded
  <2> SUFFICES ASSUME TypeOK, StampsInv, MediansInv, NEW d \in Denoms
               PROVE  Cardinality(BlocksOf(medianPrices, d)) <= MaximumMedianStamps + Cycle - 1
    BY DEF MediansBounded
  <2> DEFINE M == MedianStampPeriod
             X == MaximumMedianStamps
             C == Cycle
             q == height \div M
             s == CycleStart
             B == BlocksOf(medianPrices, d)
             W == ((s - X) + 1)..q
             f == [b \in B |-> MedianOf(b)]
  <2>1. /\ M \in Nat \ {0} /\ X \in Nat \ {0} /\ C \in Nat \ {0} /\ height \in Nat
        /\ q \in Nat
    BY StampNumbers, CycleIsLeast, DivMod DEF TypeOK
  <2>2. s \in Nat /\ s <= q /\ q <= s + (C - 1)
    <3>1. /\ (q \div C) \in Nat /\ (q % C) \in 0..(C - 1)
          /\ q = (C * (q \div C)) + (q % C)
      BY <2>1, DivMod
    <3>2. s = C * (q \div C)
      BY DEF CycleStart
    <3> HIDE DEF s, C, q
    <3>3. C * (q \div C) \in Nat
      BY <2>1, <3>1
    <3> QED
      BY <2>1, <3>1, <3>2, <3>3
  <2>3. B = {b \in Nat : <<d, b>> \in DOMAIN medianPrices}
    BY BlocksOfStore DEF TypeOK
  <2>4. \A b \in B : /\ b \in Nat /\ b < height /\ ((b + 1) % M) = 0
                     /\ MedianOf(b) + X > s
    BY <2>3 DEF StampsInv, MediansHaveDeviations, MediansInv
  <2>5. \A b \in B : /\ MedianOf(b) \in Nat
                     /\ b + 1 = M * MedianOf(b)
                     /\ MedianOf(b) <= q
    <3> SUFFICES ASSUME NEW b \in B
                 PROVE  /\ MedianOf(b) \in Nat
                        /\ b + 1 = M * MedianOf(b)
                        /\ MedianOf(b) <= q
      OBVIOUS
    <3>1. b \in Nat /\ (b + 1) \in Nat /\ b + 1 <= height /\ ((b + 1) % M) = 0
      BY <2>1, <2>4
    <3> HIDE DEF B
    <3>2. /\ ((b + 1) \div M) \in Nat
          /\ b + 1 = (M * ((b + 1) \div M)) + ((b + 1) % M)
          /\ ((b + 1) \div M) <= (height \div M)
      BY <2>1, <3>1, DivMod, PeriodsInOrder
    <3>3. M * ((b + 1) \div M) \in Nat
      BY <2>1, <3>2
    <3> QED
      BY <3>1, <3>2, <3>3 DEF MedianOf
  <2> HIDE DEF B, q, M, X, s, C
  <2>6. f \in Injection(B, W)
    <3>1. \A b \in B : MedianOf(b) \in W
      BY <2>1, <2>2, <2>4, <2>5
    <3>2. \A b, c \in B : MedianOf(b) = MedianOf(c) => b = c
      BY <2>4, <2>5
    <3> QED
      BY <3>1, <3>2 DEF Injection, IsInjective
  <2>7. IsFiniteSet(W) /\ Cardinality(W) = (q - s) + X
    <3>1. ((s - X) + 1) \in Int /\ q \in Int /\ ~((s - X) + 1 > q)
      BY <2>1, <2>2
    <3>2. Cardinality(W) = (q - ((s - X) + 1)) + 1 /\ IsFiniteSet(W)
      BY <3>1, FS_Interval
    <3> QED
      BY <2>1, <2>2, <3>2
  <2>8. IsFiniteSet(B) /\ Cardinality(B) <= Cardinality(W) /\ Cardinality(B) \in Nat
    <3>1. IsFiniteSet(B) /\ Cardinality(B) <= Cardinality(W)
      BY <2>6, <2>7, FS_Injection
    <3> QED
      BY <3>1, FS_CardinalityType
  <2>9. Cardinality(B) <= X + C - 1
    BY <2>1, <2>2, <2>7, <2>8
  <2> QED
    BY <2>9 DEF B, X, C
<1> QED
  BY <1>1, TypeCorrect, StampsInvariant, MediansInvariant, PTL

-----------------------------------------------------------------------------
(* The walk over the last stamps of a denom. *)

\* The walk stops at an empty list only when the denom has no stamp.
LEMMA WalkFindsStamp ==
  ASSUME NEW store, NEW d, NEW n \in Nat \ {0}, BlocksOf(store, d) # {},
         BlocksOf(store, d) \subseteq Int, IsFiniteSet(BlocksOf(store, d))
  PROVE  DOMAIN LastStamps(store, d, n) # {}
<1> DEFINE B == BlocksOf(store, d)
<1>1. PICK c \in B : \A e \in B : c >= e
  BY FiniteHasExtremes
<1>2. {e \in B : e > c} = {}
  BY <1>1
<1>3. Cardinality({e \in B : e > c}) < n
  BY <1>2, FS_EmptySet
<1>4. DOMAIN LastStamps(store, d, n) = {x \in B : Cardinality({e \in B : e > x}) < n}
  BY DEF LastStamps
<1> QED
  BY <1>3, <1>4

\* The prices that the median of a block is taken of are finitely many.
LEMMA StampedBlocks ==
  ASSUME TypeOK, StampsInv, NEW rates \in Tallies, NEW d
  PROVE  LET B == BlocksOf(StampedPrices(rates), d)
         IN  /\ B \subseteq 0..height
             /\ IsFiniteSet(B)
             /\ B = BlocksOf(historicPrices, d) \union
                      (IF IsPeriodLastBlock(HistoricStampPeriod) /\ d \in DOMAIN rates
                       THEN {height} ELSE {})
<1> DEFINE S == StampedPrices(rates)
           B == BlocksOf(S, d)
           new == IF IsPeriodLastBlock(HistoricStampPeriod) THEN StampsOf(rates) ELSE {}
<1>1. height \in Nat /\ DOMAIN rates \subseteq Denoms
  BY TalliesTyped DEF TypeOK
<1>2. StampsOf(rates) \subseteq Stamp
  BY <1>1 DEF StampsOf, Stamp
<1>3. DOMAIN S = DOMAIN historicPrices \union new
  <2>1. CASE IsPeriodLastBlock(HistoricStampPeriod)
    BY <2>1 DEF StampedPrices, PutAll
  <2>2. CASE ~IsPeriodLastBlock(HistoricStampPeriod)
    BY <2>2 DEF StampedPrices
  <2> QED
    BY <2>1, <2>2
<1>4. DOMAIN historicPrices \subseteq Stamp
  BY DEF TypeOK, IsStore
<1> HIDE DEF S
<1>5. B = {b \in Nat : <<d, b>> \in DOMAIN S}
  BY <1>2, <1>3, <1>4, BlocksOfStore
<1>6. BlocksOf(historicPrices, d) = {b \in Nat : <<d, b>> \in DOMAIN historicPrices}
  BY <1>4, BlocksOfStore
<1>7. \A b : <<d, b>> \in StampsOf(rates) <=> d \in DOMAIN rates /\ b = height
  BY DEF StampsOf
<1>8. B = BlocksOf(historicPrices, d) \union
            (IF IsPeriodLastBlock(HistoricStampPeriod) /\ d \in DOMAIN rates
             THEN {height} ELSE {})
  <2>1. CASE IsPeriodLastBlock(HistoricStampPeriod)
    BY <1>1, <1>3, <1>5, <1>6, <1>7, <2>1
  <2>2. CASE ~IsPeriodLastBlock(HistoricStampPeriod)
    BY <1>3, <1>5, <1>6, <2>2
  <2> QED
    BY <2>1, <2>2
<1>9. BlocksOf(historicPrices, d) \subseteq 0..height
  BY <1>1, <1>6 DEF StampsInv
<1>10. B \subseteq 0..height
  BY <1>1, <1>8, <1>9
<1>11. IsFiniteSet(B)
  <2>1. IsFiniteSet(0..height)
    BY <1>1, FS_Interval
  <2> QED
    BY <1>10, <2>1, FS_Subset
<1> QED
  BY <1>8, <1>10, <1>11 DEF S

-----------------------------------------------------------------------------
(* The sorted list of prices. *)

\* The blocks of the first i entries.
First(p, i) == {b \in DOMAIN p : Place(p, b) <= i}

\* The i-th price is the i-th entry of the sorted list.
LEMMA SortedIsOrdered == \A p, i : Sorted(p, i) = Ordered(p, i)
  BY DEF Sorted, Ordered, Place, UpTo

\* The median is the middle of the list.
LEMMA MedianIsMiddle == \A p : Median(p) = Middle(p)
  BY SortedIsOrdered DEF Median, Middle

\* The i-th price of the sorted list is the one at place i.
LEMMA SortedTaken ==
  ASSUME NEW p, IsRated(p), NEW i \in 1..Cardinality(DOMAIN p)
  PROVE  \E b \in DOMAIN p : Place(p, b) = i /\ Sorted(p, i) = p[b]
BY OrderedTaken, SortedIsOrdered

\* The first i entries are i.
LEMMA FirstCount ==
  ASSUME NEW p, IsRated(p), NEW i \in 0..Cardinality(DOMAIN p)
  PROVE  /\ IsFiniteSet(First(p, i)) /\ Cardinality(First(p, i)) = i
         /\ IsFiniteSet(DOMAIN p \ First(p, i))
         /\ Cardinality(DOMAIN p \ First(p, i)) = Cardinality(DOMAIN p) - i
<1> DEFINE n == Cardinality(DOMAIN p)
           F == First(p, i)
           f == [b \in F |-> Place(p, b)]
<1>1. n \in Nat /\ i \in Nat /\ i <= n /\ F \subseteq DOMAIN p
  BY FS_CardinalityType DEF IsRated, First
<1>2. f \in Injection(F, 1..i)
  <2>1. \A b \in F : Place(p, b) \in 1..i
    BY <1>1, PlaceType DEF First
  <2>2. \A b, c \in F : Place(p, b) = Place(p, c) => b = c
    BY <1>1, PlaceSorts
  <2> QED
    BY <2>1, <2>2 DEF Injection, IsInjective
<1>3. IsFiniteSet(1..i) /\ Cardinality(1..i) = i
  <2>1. IsFiniteSet(1..i) /\ Cardinality(1..i) = IF 1 > i THEN 0 ELSE (i - 1) + 1
    BY <1>1, FS_Interval
  <2> QED
    BY <1>1, <2>1
<1>4. f \in Surjection(F, 1..i)
  <2>1. \A j \in 1..i : \E b \in F : Place(p, b) = j
    <3> SUFFICES ASSUME NEW j \in 1..i PROVE \E b \in F : Place(p, b) = j
      OBVIOUS
    <3>1. j \in 1..Cardinality(DOMAIN p)
      BY <1>1
    <3>2. PICK b \in DOMAIN p : Place(p, b) = j
      BY <3>1, SortedTaken
    <3> QED
      BY <1>1, <3>2 DEF First
  <2>2. f \in [F -> 1..i]
    BY <1>2 DEF Injection
  <2> QED
    BY <2>1, <2>2 DEF Surjection
<1> HIDE DEF f, F
<1>5. IsFiniteSet(F) /\ Cardinality(F) = i
  BY <1>2, <1>3, <1>4, FS_Injection
<1>6. IsFiniteSet(DOMAIN p \ F) /\ Cardinality(DOMAIN p \ F) = n - Cardinality(DOMAIN p \cap F)
  BY FS_Difference DEF IsRated
<1>7. DOMAIN p \cap F = F
  BY <1>1
<1> QED
  BY <1>5, <1>6, <1>7 DEF F

\* The entries below and above the i-th price.
LEMMA SplitAt ==
  ASSUME NEW p, IsRated(p), NEW i \in 1..Cardinality(DOMAIN p), NEW m,
         m = 2 * Sorted(p, i)
  PROVE  /\ \A b \in DOMAIN p : 2 * p[b] < m => b \in First(p, i - 1)
         /\ \A b \in DOMAIN p : 2 * p[b] > m => b \in DOMAIN p \ First(p, i)
<1>1. PICK a \in DOMAIN p : Place(p, a) = i /\ Sorted(p, i) = p[a]
  BY SortedTaken
<1> SUFFICES ASSUME NEW b \in DOMAIN p
             PROVE  /\ 2 * p[b] < m => b \in First(p, i - 1)
                    /\ 2 * p[b] > m => b \in DOMAIN p \ First(p, i)
  OBVIOUS
<1>2. p[a] \in Nat /\ p[b] \in Nat
  BY DEF IsRated
<1>3. Place(p, b) \in Nat /\ i \in Nat
  BY PlaceType
<1>4. (i <= Place(p, b) => p[a] <= p[b]) /\ (Place(p, b) <= i => p[b] <= p[a])
  BY <1>1, PlaceSorts
<1> QED
  BY <1>1, <1>2, <1>3, <1>4 DEF First
\* m splits the prices p the way MedianSplitsPrices says.
Splits(m, p) ==
  LET n     == Cardinality(DOMAIN p)
      below == {b \in DOMAIN p : 2 * p[b] < m}
      above == {b \in DOMAIN p : 2 * p[b] > m}
  IN  \/ 2 * Cardinality(below) < n /\ 2 * Cardinality(above) < n
      \/ /\ 2 * Cardinality(below) = n /\ 2 * Cardinality(above) = n
         /\ m = Max({p[b] : b \in below}) + Min({p[b] : b \in above})

\* Fewer than half the prices are on either side of a price of the middle.
LEMMA MiddlePriceSplits ==
  ASSUME NEW p, IsRated(p), NEW i \in 1..Cardinality(DOMAIN p),
         NEW j \in 1..Cardinality(DOMAIN p), Sorted(p, i) = Sorted(p, j),
         2 * i <= Cardinality(DOMAIN p) + 1, 2 * j >= Cardinality(DOMAIN p) + 1
  PROVE  Splits(2 * Sorted(p, i), p)
<1> DEFINE n == Cardinality(DOMAIN p)
           m == 2 * Sorted(p, i)
           below == {b \in DOMAIN p : 2 * p[b] < m}
           above == {b \in DOMAIN p : 2 * p[b] > m}
<1>1. n \in Nat /\ i \in 1..n /\ j \in 1..n /\ (i - 1) \in 0..n /\ j \in 0..n
  BY FS_CardinalityType DEF IsRated
<1>2. below \in SUBSET First(p, i - 1)
  BY SplitAt
<1>3. above \in SUBSET (DOMAIN p \ First(p, j))
  BY SplitAt
<1>4. IsFiniteSet(First(p, i - 1)) /\ Cardinality(First(p, i - 1)) = i - 1
  BY <1>1, FirstCount
<1>5. IsFiniteSet(DOMAIN p \ First(p, j)) /\ Cardinality(DOMAIN p \ First(p, j)) = n - j
  BY <1>1, FirstCount
<1> HIDE DEF below, above
<1>6. IsFiniteSet(below) /\ Cardinality(below) <= i - 1
  BY <1>2, <1>4, FS_Subset
<1>7. IsFiniteSet(above) /\ Cardinality(above) <= n - j
  BY <1>3, <1>5, FS_Subset
<1>8. Cardinality(below) \in Nat /\ Cardinality(above) \in Nat
  BY <1>6, <1>7, FS_CardinalityType
<1> HIDE DEF n
<1>9. 2 * i <= n + 1 /\ 2 * j >= n + 1
  BY DEF n
<1>10. 2 * Cardinality(below) < n /\ 2 * Cardinality(above) < n
  BY <1>1, <1>6, <1>7, <1>8, <1>9
<1> QED
  BY <1>10 DEF Splits, below, above, n

\* The mean of two different prices in the middle of a list parts it in halves.
LEMMA MeanPriceSplits ==
  ASSUME NEW p, IsRated(p), NEW i \in Nat \ {0}, Cardinality(DOMAIN p) = 2 * i,
         Sorted(p, i) # Sorted(p, i + 1)
  PROVE  Splits(Sorted(p, i) + Sorted(p, i + 1), p)
<1> DEFINE n == Cardinality(DOMAIN p)
           u == Sorted(p, i)
           v == Sorted(p, i + 1)
           m == u + v
           below == {b \in DOMAIN p : 2 * p[b] < m}
           above == {b \in DOMAIN p : 2 * p[b] > m}
<1>1. i \in 1..n /\ (i + 1) \in 1..n /\ i \in 0..n /\ n - i = i
  OBVIOUS
<1>2. PICK a \in DOMAIN p : Place(p, a) = i /\ u = p[a]
  BY <1>1, SortedTaken
<1>3. PICK c \in DOMAIN p : Place(p, c) = i + 1 /\ v = p[c]
  BY <1>1, SortedTaken
<1> HIDE DEF u, v
<1>4. u \in Nat /\ v \in Nat /\ u < v
  <2>1. u # v
    BY DEF u, v
  <2>2. p[a] <= p[c]
    BY <1>2, <1>3, PlaceSorts
  <2> QED
    BY <1>2, <1>3, <2>1, <2>2 DEF IsRated
<1>5. \A b \in DOMAIN p :
        /\ p[b] \in Nat /\ Place(p, b) \in Nat
        /\ b \in First(p, i) => p[b] <= u
        /\ b \notin First(p, i) => p[b] >= v
  <2> SUFFICES ASSUME NEW b \in DOMAIN p
               PROVE  /\ p[b] \in Nat /\ Place(p, b) \in Nat
                      /\ b \in First(p, i) => p[b] <= u
                      /\ b \notin First(p, i) => p[b] >= v
    OBVIOUS
  <2>1. p[b] \in Nat /\ Place(p, b) \in Nat
    BY PlaceType DEF IsRated
  <2>2. /\ Place(p, b) <= i => p[b] <= p[a]
        /\ i + 1 <= Place(p, b) => p[c] <= p[b]
    BY <1>2, <1>3, PlaceSorts
  <2> QED
    BY <1>2, <1>3, <1>4, <2>1, <2>2 DEF First
<1>6. below = First(p, i) /\ above = DOMAIN p \ First(p, i)
  <2>1. First(p, i) \subseteq DOMAIN p
    BY DEF First
  <2> QED
    BY <1>4, <1>5, <2>1
<1>7. Cardinality(below) = i /\ Cardinality(above) = i
  BY <1>1, <1>6, FirstCount
<1>8. Max({p[b] : b \in below}) = u
  <2> DEFINE S == {p[b] : b \in below}
  <2>1. u \in S
    <3>1. a \in First(p, i)
      BY <1>2 DEF First
    <3> QED
      BY <1>2, <1>6, <3>1
  <2>2. \A x \in S : x \in Nat /\ x <= u
    <3>1. \A b \in below : p[b] \in Nat /\ p[b] <= u
      <4> HIDE DEF below
      <4> QED
        BY <1>5, <1>6 DEF First
    <3> HIDE DEF below
    <3> QED
      BY <3>1
  <2> HIDE DEF S
  <2>3. Max(S) \in S /\ \A x \in S : Max(S) >= x
    <3>1. \E y \in S : \A x \in S : y >= x
      BY <1>4, <2>1, <2>2
    <3> QED
      BY <3>1 DEF Max
  <2>4. Max(S) = u
    <3>1. \A y \in S : y >= u => y = u
      BY <1>4, <2>2
    <3>2. Max(S) \in S /\ Max(S) >= u
      BY <2>1, <2>3
    <3> QED
      BY <3>1, <3>2
  <2> QED
    BY <2>4 DEF S
<1>9. Min({p[b] : b \in above}) = v
  <2> DEFINE S == {p[b] : b \in above}
  <2>1. v \in S
    <3>1. c \in DOMAIN p \ First(p, i)
      BY <1>3 DEF First
    <3> QED
      BY <1>3, <1>6, <3>1
  <2>2. \A x \in S : x \in Nat /\ x >= v
    <3>1. \A b \in above : p[b] \in Nat /\ p[b] >= v
      <4> HIDE DEF above
      <4> QED
        BY <1>5, <1>6
    <3> HIDE DEF above
    <3> QED
      BY <3>1
  <2> HIDE DEF S
  <2>3. Min(S) \in S /\ \A x \in S : Min(S) <= x
    <3>1. \E y \in S : \A x \in S : y <= x
      BY <1>4, <2>1, <2>2
    <3> QED
      BY <3>1 DEF Min
  <2>4. Min(S) = v
    <3>1. \A y \in S : y <= v => y = v
      BY <1>4, <2>2
    <3>2. Min(S) \in S /\ Min(S) <= v
      BY <2>1, <2>3
    <3> QED
      BY <3>1, <3>2
  <2> QED
    BY <2>4 DEF S
<1> HIDE DEF n
<1>10. n = 2 * i
  BY DEF n
<1> HIDE DEF below, above
<1>11. 2 * Cardinality(below) = n /\ 2 * Cardinality(above) = n
  BY <1>7, <1>10
<1> QED
  BY <1>8, <1>9, <1>11 DEF Splits, below, above, n, m, u, v

\* decmath.Median splits every list that is not empty.
LEMMA MedianSplits ==
  ASSUME NEW p, IsRated(p), DOMAIN p # {}
  PROVE  Splits(Median(p), p)
<1> DEFINE n == Cardinality(DOMAIN p)
           k == n \div 2
<1>1. n \in Nat \ {0}
  BY FS_CardinalityType, FS_EmptySet DEF IsRated
<1>2. k \in Nat /\ (n % 2) \in 0..1 /\ n = (2 * k) + (n % 2)
  <2> HIDE DEF n
  <2>1. 2 \in Nat \ {0} /\ n \in Nat
    BY <1>1
  <2>2. /\ (n \div 2) \in Nat
        /\ (n % 2) \in 0..(2 - 1)
        /\ n = (2 * (n \div 2)) + (n % 2)
    BY <2>1, DivMod
  <2> QED
    BY <2>2
<1>3. Median(p) = IF n % 2 = 0 THEN Sorted(p, k) + Sorted(p, k + 1) ELSE 2 * Sorted(p, k + 1)
  BY Zenon DEF Median
<1>4. CASE n % 2 # 0
  <2>1. n = (2 * k) + 1
    BY <1>2, <1>4
  <2> HIDE DEF k, n
  <2>2. (k + 1) \in 1..n /\ 2 * (k + 1) <= n + 1 /\ 2 * (k + 1) >= n + 1
    BY <1>1, <1>2, <2>1
  <2> QED
    BY <1>3, <1>4, <2>2, MiddlePriceSplits DEF n
<1>5. CASE n % 2 = 0
  <2>1. n = 2 * k /\ k \in Nat \ {0}
    BY <1>1, <1>2, <1>5
  <2>2. Median(p) = Sorted(p, k) + Sorted(p, k + 1)
    BY <1>3, <1>5
  <2> HIDE DEF k
  <2>3. CASE Sorted(p, k) # Sorted(p, k + 1)
    BY <2>1, <2>2, <2>3, MeanPriceSplits
  <2>4. CASE Sorted(p, k) = Sorted(p, k + 1)
    <3> HIDE DEF n
    <3>1. k \in 1..n /\ (k + 1) \in 1..n /\ 2 * k <= n + 1 /\ 2 * (k + 1) >= n + 1
      BY <1>1, <2>1
    <3>2. Splits(2 * Sorted(p, k), p)
      BY <2>4, <3>1, MiddlePriceSplits DEF n
    <3>3. PICK b \in DOMAIN p : Sorted(p, k) = p[b]
      BY <3>1, SortedTaken DEF n
    <3>4. Sorted(p, k) \in Nat
      BY <3>3 DEF IsRated
    <3>5. Median(p) = 2 * Sorted(p, k)
      BY <2>2, <2>4, <3>4
    <3> QED
      BY <3>2, <3>5
  <2> QED
    BY <2>3, <2>4
<1> QED
  BY <1>4, <1>5
\* The walk depends only on the stamps of its denom.
LEMMA SameStamps ==
  ASSUME NEW s, NEW t, NEW d, NEW n, BlocksOf(s, d) = BlocksOf(t, d),
         \A b \in BlocksOf(s, d) : s[<<d, b>>] = t[<<d, b>>]
  PROVE  LastStamps(s, d, n) = LastStamps(t, d, n)
  BY DEF LastStamps

\* The walk over a store of prices gives a list of prices.
LEMMA WindowIsRated ==
  ASSUME TypeOK, StampsInv, NEW rates \in Tallies, NEW d
  PROVE  IsRated(MedianWindow(rates, d))
<1> DEFINE S == StampedPrices(rates)
           B == BlocksOf(S, d)
           w == MedianWindow(rates, d)
<1>1. B \subseteq 0..height /\ IsFiniteSet(B)
  BY StampedBlocks
<1>2. height \in Nat /\ \A b \in B : b \in Nat
  <2>1. height \in Nat /\ 0..height \subseteq Nat
    BY DEF TypeOK
  <2> HIDE DEF B
  <2> QED
    BY <1>1, <2>1
<1>3. /\ DOMAIN w \in SUBSET B
      /\ \A b \in DOMAIN w : w[b] = S[<<d, b>>]
  BY DEF MedianWindow, LastStamps
<1>4. IsFiniteSet(DOMAIN w)
  BY <1>1, <1>3, FS_Subset
<1>5. \A k \in DOMAIN S : k \in Stamp /\ S[k] \in Nat
  <2>1. \A k \in DOMAIN historicPrices : k \in Stamp /\ historicPrices[k] \in Nat
    BY StampsAssumption DEF TypeOK, IsStore, StampParamsValid
  <2>2. \A k \in StampsOf(rates) : k \in Stamp /\ rates[k[1]] \in Nat
    <3>1. \A e \in DOMAIN rates : e \in Denoms /\ rates[e] \in Nat
      BY TalliesTyped, StampsAssumption DEF StampParamsValid
    <3> QED
      BY <1>2, <3>1 DEF StampsOf, Stamp
  <2>3. CASE IsPeriodLastBlock(HistoricStampPeriod)
    BY <2>1, <2>2, <2>3 DEF StampedPrices, PutAll
  <2>4. CASE ~IsPeriodLastBlock(HistoricStampPeriod)
    BY <2>1, <2>4 DEF StampedPrices
  <2> QED
    BY <2>3, <2>4
<1> HIDE DEF S
<1>6. \A b \in B : <<d, b>> \in DOMAIN S
  <2>1. DOMAIN S \subseteq Stamp
    BY <1>5
  <2> QED
    BY <2>1, BlocksOfStore
<1> HIDE DEF B, w
<1>7. \A b \in DOMAIN w : b \in Nat /\ w[b] \in Nat
  <2> SUFFICES ASSUME NEW b \in DOMAIN w PROVE b \in Nat /\ w[b] \in Nat
    OBVIOUS
  <2>1. b \in B /\ w[b] = S[<<d, b>>]
    BY <1>3
  <2>2. b \in Nat
    BY <1>2, <2>1
  <2> QED
    BY <1>5, <1>6, <2>1, <2>2
<1> QED
  BY <1>4, <1>7 DEF IsRated, w

\* The store that the median of a block is taken of, as an observer of the step sees it.
LEMMA ObservedWindow ==
  ASSUME TypeOK, StampsInv, NEW rates \in Tallies, EndBlock(rates), NEW d \in DOMAIN rates
  PROVE  LastStamps(PutAll(historicPrices, Keep(historicPrices', {<<d, height>>})), d,
                    MaximumPriceStamps)
           = MedianWindow(rates, d)
<1> DEFINE k   == <<d, height>>
           S   == StampedPrices(rates)
           new == Keep(historicPrices', {k})
           all == PutAll(historicPrices, new)
           last == IsPeriodLastBlock(HistoricStampPeriod)
<1>1. /\ height \in Nat /\ DOMAIN rates \subseteq Denoms
      /\ DOMAIN historicPrices \subseteq Stamp /\ k \in Stamp
      /\ k \in StampsOf(rates) /\ k \notin DOMAIN historicPrices
  <2>1. height \in Nat /\ DOMAIN rates \subseteq Denoms /\ DOMAIN historicPrices \subseteq Stamp
    BY TalliesTyped DEF TypeOK, IsStore
  <2>2. k \in Stamp /\ k \in StampsOf(rates)
    BY <2>1 DEF Stamp, StampsOf
  <2>3. k \notin DOMAIN historicPrices
    BY <2>1 DEF StampsInv
  <2> QED
    BY <2>1, <2>2, <2>3
<1>2. /\ last => k \in DOMAIN historicPrices' /\ historicPrices'[k] = rates[d]
      /\ ~last => historicPrices' = historicPrices
  <2>1. historicPrices' = PrunedPrices(StampedPrices(rates))
    BY DEF EndBlock, StampAndPrune
  <2>2. /\ ~last => historicPrices' = historicPrices
        /\ last => StampsOf(rates) \subseteq DOMAIN historicPrices'
        /\ last => \A i \in DOMAIN historicPrices' :
                     i \in StampsOf(rates) => historicPrices'[i] = rates[i[1]]
    BY <2>1, PricesStep
  <2>3. k[1] = d
    OBVIOUS
  <2> HIDE DEF k, last
  <2> QED
    BY <1>1, <2>2, <2>3
<1>3. DOMAIN new = IF last THEN {k} ELSE {}
  BY <1>1, <1>2 DEF Keep
<1>4. last => new[k] = rates[d]
  BY <1>2 DEF Keep
<1> HIDE DEF new
<1>5. /\ DOMAIN all = DOMAIN historicPrices \union (IF last THEN {k} ELSE {})
      /\ \A i \in DOMAIN historicPrices : all[i] = historicPrices[i]
      /\ last => all[k] = rates[d]
  BY <1>1, <1>3, <1>4 DEF PutAll
<1>6. /\ DOMAIN S = DOMAIN historicPrices \union (IF last THEN StampsOf(rates) ELSE {})
      /\ \A i \in DOMAIN historicPrices : S[i] = historicPrices[i]
      /\ last => S[k] = rates[d]
  <2>1. \A i \in DOMAIN historicPrices : i \notin StampsOf(rates)
    <3>1. \A i \in DOMAIN historicPrices : i[2] \in Nat /\ i[2] < height
      BY <1>1 DEF StampsInv, Stamp
    <3> QED
      BY <1>1, <3>1 DEF StampsOf
  <2>2. CASE last
    BY <1>1, <2>1, <2>2 DEF StampedPrices, PutAll
  <2>3. CASE ~last
    BY <2>3 DEF StampedPrices
  <2> QED
    BY <2>2, <2>3
<1> HIDE DEF all, S, last
<1>7. StampsOf(rates) \subseteq Stamp
  BY <1>1 DEF StampsOf, Stamp
<1>8. /\ BlocksOf(all, d) = {b \in Nat : <<d, b>> \in DOMAIN all}
      /\ BlocksOf(S, d) = {b \in Nat : <<d, b>> \in DOMAIN S}
  <2>1. DOMAIN all \subseteq Stamp /\ DOMAIN S \subseteq Stamp
    BY <1>1, <1>5, <1>6, <1>7
  <2> QED
    BY <2>1, BlocksOfStore
<1>9. \A b : <<d, b>> \in StampsOf(rates) <=> <<d, b>> = k
  BY DEF StampsOf
<1>10. \A b : <<d, b>> \in DOMAIN all <=> <<d, b>> \in DOMAIN S
  BY <1>5, <1>6, <1>9
<1>11. \A b : <<d, b>> \in DOMAIN all => all[<<d, b>>] = S[<<d, b>>]
  <2> SUFFICES ASSUME NEW b, <<d, b>> \in DOMAIN all PROVE all[<<d, b>>] = S[<<d, b>>]
    OBVIOUS
  <2>1. CASE <<d, b>> \in DOMAIN historicPrices
    BY <1>5, <1>6, <2>1
  <2>2. CASE last /\ <<d, b>> = k
    BY <1>5, <1>6, <2>2
  <2> QED
    BY <1>5, <2>1, <2>2
<1>12. LastStamps(all, d, MaximumPriceStamps) = LastStamps(S, d, MaximumPriceStamps)
  <2>1. BlocksOf(all, d) = BlocksOf(S, d)
    BY <1>8, <1>10
  <2>2. \A b \in BlocksOf(all, d) : all[<<d, b>>] = S[<<d, b>>]
    BY <1>8, <1>11
  <2> QED
    BY <2>1, <2>2, SameStamps
<1> QED
  BY <1>12 DEF MedianWindow, S, all, new, k

\* Every median that CalcAndSetHistoricMedian stamps splits the prices of its window, that of
\* its block included, in halves: for all prices and every length of the list, odd or even.
THEOREM MedianSplitsPricesAlways == Spec => MedianSplitsPrices
<1> DEFINE Window(k) == LastStamps(PutAll(historicPrices, Keep(historicPrices', {k})), k[1],
                                   MaximumPriceStamps)
           Split == \A k \in DOMAIN medianPrices' \ DOMAIN medianPrices :
                      Splits(medianPrices'[k], Window(k))
<1>1. TypeOK /\ StampsInv /\ [Next]_vars => [Split]_vars
  <2> SUFFICES ASSUME TypeOK, StampsInv, Next PROVE Split
    BY DEF vars
  <2>1. ASSUME NEW rates \in Tallies, EndBlock(rates) PROVE Split
    <3> SUFFICES ASSUME NEW k \in DOMAIN medianPrices' \ DOMAIN medianPrices
                 PROVE  Splits(medianPrices'[k], Window(k))
      OBVIOUS
    <3>1. IsPeriodLastBlock(MedianStampPeriod) /\ k \in StampsOf(rates)
      BY <2>1, MediansStep DEF EndBlock, StampAndPrune
    <3>2. PICK d \in DOMAIN rates : k = <<d, height>>
      BY <3>1 DEF StampsOf
    <3>3. medianPrices'[k] = Median(MedianWindow(rates, d))
      BY <2>1, <3>1, <3>2, MediansStep DEF EndBlock, StampAndPrune
    <3>4. Window(k) = MedianWindow(rates, d)
      BY <2>1, <3>2, ObservedWindow
    <3>5. DOMAIN MedianWindow(rates, d) # {}
      BY <2>1, <3>1 DEF EndBlock, MedianFails
    <3>6. IsRated(MedianWindow(rates, d))
      BY WindowIsRated
    <3>7. Splits(Median(MedianWindow(rates, d)), MedianWindow(rates, d))
      BY <3>5, <3>6, MedianSplits
    <3> QED
      BY <3>3, <3>4, <3>7
  <2>2. ASSUME NEW rates \in Tallies, EndBlockFails(rates) PROVE Split
    BY <2>2 DEF EndBlockFails
  <2> QED
    BY <2>1, <2>2 DEF Next
<1> QED
  <2>1. Split <=>
          \A k \in DOMAIN medianPrices' \ DOMAIN medianPrices :
            LET all    == PutAll(historicPrices, Keep(historicPrices', {k}))
                window == LastStamps(all, k[1], MaximumPriceStamps)
                n      == Cardinality(DOMAIN window)
                m      == medianPrices'[k]
                below  == {b \in DOMAIN window : 2 * window[b] < m}
                above  == {b \in DOMAIN window : 2 * window[b] > m}
            IN  \/ 2 * Cardinality(below) < n /\ 2 * Cardinality(above) < n
                \/ /\ 2 * Cardinality(below) = n /\ 2 * Cardinality(above) = n
                   /\ m = Max({window[b] : b \in below}) + Min({window[b] : b \in above})
    BY Zenon DEF Splits
  <2> QED
    BY <1>1, <2>1, TypeCorrect, StampsInvariant, PTL DEF Spec, MedianSplitsPrices

-----------------------------------------------------------------------------
(* Medians that fail. *)

\* A deviation panics only on two prices whose squared distance is no decimal.
LEMMA DistantPrices ==
  ASSUME NEW p, IsRated(p), DeviationPanics(Median(p), p)
  PROVE  \E b, c \in DOMAIN p : (p[b] - p[c]) * (p[b] - p[c]) > MaxSquare
<1>1. PICK b \in DOMAIN p : SquaredDistance(p[b], Median(p)) > 4 * MaxSquare
  BY DEF DeviationPanics
<1>2. (2 * p[b] - Middle(p)) * (2 * p[b] - Middle(p)) > 4 * MaxSquare
  BY <1>1, MedianIsMiddle DEF SquaredDistance
<1> QED
  BY <1>2, DistantEntries, DecimalAssumption

\* The prices of the window are stored ones and, where a historic stamp period ends, the
\* tallied one.
LEMMA WindowPrices ==
  ASSUME TypeOK, StampsInv, NEW rates \in Tallies, NEW d \in DOMAIN rates,
         NEW b \in DOMAIN MedianWindow(rates, d)
  PROVE  \/ MedianWindow(rates, d)[b] \in PricesOf(d)
         \/ /\ IsPeriodLastBlock(HistoricStampPeriod)
            /\ b = height
            /\ MedianWindow(rates, d)[b] \in Rates
<1> DEFINE S == StampedPrices(rates)
           w == MedianWindow(rates, d)
<1>1. b \in BlocksOf(S, d) /\ w[b] = S[<<d, b>>]
  BY DEF MedianWindow, LastStamps
<1>2. BlocksOf(S, d) = BlocksOf(historicPrices, d) \union
                         (IF IsPeriodLastBlock(HistoricStampPeriod) /\ d \in DOMAIN rates
                          THEN {height} ELSE {})
  BY StampedBlocks
<1>3. BlocksOf(historicPrices, d) = {c \in Nat : <<d, c>> \in DOMAIN historicPrices}
  BY BlocksOfStore DEF TypeOK, IsStore
<1>4. height \in Nat /\ \A c \in BlocksOf(historicPrices, d) : c < height
  BY <1>3 DEF TypeOK, StampsInv
<1>5. rates[d] \in Rates
  BY TalliesTyped
<1>6. CASE b \in BlocksOf(historicPrices, d)
  <2>1. <<d, b>> \in DOMAIN historicPrices /\ b \in Nat /\ b # height
    BY <1>3, <1>4, <1>6
  <2>2. <<d, b>> \notin StampsOf(rates)
    BY <2>1 DEF StampsOf
  <2>3. S[<<d, b>>] = historicPrices[<<d, b>>]
    <3>1. CASE IsPeriodLastBlock(HistoricStampPeriod)
      BY <2>1, <2>2, <3>1 DEF StampedPrices, PutAll
    <3>2. CASE ~IsPeriodLastBlock(HistoricStampPeriod)
      BY <3>2 DEF StampedPrices
    <3> QED
      BY <3>1, <3>2
  <2> QED
    BY <1>1, <1>6, <2>3 DEF PricesOf
<1>7. CASE b \notin BlocksOf(historicPrices, d)
  <2>1. IsPeriodLastBlock(HistoricStampPeriod) /\ b = height
    BY <1>1, <1>2, <1>7
  <2>2. <<d, height>> \in StampsOf(rates)
    BY DEF StampsOf
  <2>3. S[<<d, height>>] = rates[d]
    BY <2>1, <2>2 DEF StampedPrices, PutAll
  <2> QED
    BY <1>1, <1>5, <2>1, <2>3
<1> QED
  BY <1>6, <1>7

\* A failing median is one of a denom without a price, in a block that ends no historic
\* stamp period, or of one with prices too far apart.
LEMMA FailingMedian ==
  ASSUME TypeOK, StampsInv, NEW rates \in Tallies, MedianFails(rates)
  PROVE  /\ IsPeriodLastBlock(MedianStampPeriod)
         /\ \E d \in Denoms :
              \/ ~IsPeriodLastBlock(HistoricStampPeriod) /\ PricesOf(d) = {}
              \/ \E p \in PricesOf(d) :
                   \E q \in PricesOf(d) \union
                            (IF IsPeriodLastBlock(HistoricStampPeriod) THEN Rates ELSE {}) :
                     (p - q) * (p - q) > MaxSquare
<1>1. PICK d \in DOMAIN rates : \/ DOMAIN MedianWindow(rates, d) = {}
                                \/ DeviationPanics(Median(MedianWindow(rates, d)),
                                                   MedianWindow(rates, d))
  BY DEF MedianFails
<1>2. d \in Denoms /\ IsPeriodLastBlock(MedianStampPeriod)
  BY TalliesTyped DEF MedianFails
<1> DEFINE w == MedianWindow(rates, d)
           B == BlocksOf(StampedPrices(rates), d)
           last == IsPeriodLastBlock(HistoricStampPeriod)
<1>3. CASE DOMAIN w = {}
  <2>1. /\ B \subseteq 0..height /\ IsFiniteSet(B)
        /\ B = BlocksOf(historicPrices, d) \union
                 (IF last /\ d \in DOMAIN rates THEN {height} ELSE {})
    BY StampedBlocks
  <2>2. MaximumPriceStamps \in Nat \ {0}
    BY StampNumbers
  <2>3. B = {}
    <3>1. B \subseteq Int
      BY <2>1
    <3>2. B # {} => DOMAIN LastStamps(StampedPrices(rates), d, MaximumPriceStamps) # {}
      BY <2>1, <2>2, <3>1, WalkFindsStamp
    <3> QED
      BY <1>3, <3>2 DEF MedianWindow
  <2> HIDE DEF B, last
  <2>4. ~last /\ BlocksOf(historicPrices, d) = {}
    BY <2>1, <2>3
  <2>5. PricesOf(d) = {}
    BY <2>4 DEF PricesOf
  <2> QED
    BY <1>2, <2>4, <2>5 DEF last
<1>4. CASE DOMAIN w # {} /\ DeviationPanics(Median(w), w)
  <2>1. IsRated(w)
    BY WindowIsRated
  <2>2. PICK b, c \in DOMAIN w : (w[b] - w[c]) * (w[b] - w[c]) > MaxSquare
    BY <1>4, <2>1, DistantPrices
  <2>3. \A e \in DOMAIN w :
          w[e] \in PricesOf(d) \/ (last /\ e = height /\ w[e] \in Rates)
    BY WindowPrices
  <2>4. w[b] \in Nat /\ w[c] \in Nat
    BY <2>1 DEF IsRated
  <2>5. (w[b] - w[c]) * (w[b] - w[c]) = (w[c] - w[b]) * (w[c] - w[b])
    BY <2>4
  <2>6. b # c
    <3> SUFFICES ASSUME b = c PROVE FALSE
      OBVIOUS
    <3>1. w[b] - w[c] = 0
      BY <2>4
    <3>2. 0 > MaxSquare
      BY <2>2, <3>1
    <3> QED
      BY <3>2, DecimalAssumption
  <2> HIDE DEF w, last
  <2>7. w[b] \in PricesOf(d) \/ w[c] \in PricesOf(d)
    BY <2>3, <2>6
  <2>8. \E p \in PricesOf(d) : \E q \in PricesOf(d) \union (IF last THEN Rates ELSE {}) :
          (p - q) * (p - q) > MaxSquare
    <3>1. /\ w[b] \in PricesOf(d) \union (IF last THEN Rates ELSE {})
          /\ w[c] \in PricesOf(d) \union (IF last THEN Rates ELSE {})
      BY <2>3
    <3>2. (w[c] - w[b]) * (w[c] - w[b]) > MaxSquare
      BY <2>2, <2>5
    <3>3. CASE w[b] \in PricesOf(d)
      BY <2>2, <3>1, <3>3
    <3>4. CASE w[c] \in PricesOf(d)
      BY <3>1, <3>2, <3>4
    <3> QED
      BY <2>7, <3>3, <3>4
  <2> QED
    BY <1>2, <2>8 DEF last
<1> QED
  BY <1>1, <1>3, <1>4

\* CalcAndSetHistoricMedian fails, and stops every node, only where a median stamp period
\* ends: without a historic one and a price, or on prices too far apart.
THEOREM FailuresAreExplainedAlways == Spec => []FailuresAreExplained
<1>1. Init => FailuresAreExplained
  BY DEF Init, FailuresAreExplained
<1>2. TypeOK /\ StampsInv /\ FailuresAreExplained /\ [Next]_vars => FailuresAreExplained'
  <2> SUFFICES ASSUME TypeOK, StampsInv, FailuresAreExplained, [Next]_vars
               PROVE  FailuresAreExplained'
    OBVIOUS
  <2>1. ASSUME NEW rates \in Tallies, EndBlock(rates) PROVE FailuresAreExplained'
    BY <2>1 DEF EndBlock, FailuresAreExplained
  <2>2. ASSUME NEW rates \in Tallies, EndBlockFails(rates) PROVE FailuresAreExplained'
    <3>1. /\ IsPeriodLastBlock(MedianStampPeriod)
          /\ \E d \in Denoms :
               \/ ~IsPeriodLastBlock(HistoricStampPeriod) /\ PricesOf(d) = {}
               \/ \E p \in PricesOf(d) :
                    \E q \in PricesOf(d) \union
                             (IF IsPeriodLastBlock(HistoricStampPeriod) THEN Rates ELSE {}) :
                      (p - q) * (p - q) > MaxSquare
      BY <2>2, FailingMedian DEF EndBlockFails
    <3>2. height' = height /\ historicPrices' = historicPrices
      BY <2>2 DEF EndBlockFails
    <3>3. /\ IsPeriodLastBlock(MedianStampPeriod)' = IsPeriodLastBlock(MedianStampPeriod)
          /\ IsPeriodLastBlock(HistoricStampPeriod)' = IsPeriodLastBlock(HistoricStampPeriod)
          /\ \A d : PricesOf(d)' = PricesOf(d)
      BY <3>2 DEF IsPeriodLastBlock, PricesOf
    <3> QED
      BY <3>1, <3>3 DEF FailuresAreExplained
  <2>3. CASE UNCHANGED vars
    BY <2>3 DEF vars, FailuresAreExplained, IsPeriodLastBlock, PricesOf
  <2> QED
    BY <2>1, <2>2, <2>3 DEF Next
<1> QED
  BY <1>1, <1>2, TypeCorrect, StampsInvariant, PTL DEF Spec

\* With a median stamp period that is a multiple of the historic one, which Params.Validate
\* does not require, and rates so close that the squares of their differences are decimals,
\* which ValidateBasic does not require, no median ever fails.
THEOREM AlignedNeverFails ==
  ASSUME (MedianStampPeriod % HistoricStampPeriod) = 0,
         \A r, s \in Rates : (r - s) * (r - s) <= MaxSquare
  PROVE  Spec => []~halted
<1>1. TypeOK /\ FailuresAreExplained => ~halted
  <2> SUFFICES ASSUME TypeOK, IsPeriodLastBlock(MedianStampPeriod),
                      NEW d \in Denoms,
                      \/ ~IsPeriodLastBlock(HistoricStampPeriod) /\ PricesOf(d) = {}
                      \/ \E p \in PricesOf(d) :
                           \E q \in PricesOf(d) \union
                                    (IF IsPeriodLastBlock(HistoricStampPeriod) THEN Rates ELSE {}) :
                             (p - q) * (p - q) > MaxSquare
               PROVE  FALSE
    BY DEF FailuresAreExplained
  <2>1. /\ HistoricStampPeriod \in Nat \ {0} /\ MedianStampPeriod \in Nat \ {0}
        /\ (height + 1) \in Nat
    BY StampNumbers DEF TypeOK
  <2>2. ((height + 1) % HistoricStampPeriod)
          = (((height + 1) % MedianStampPeriod) % HistoricStampPeriod)
    BY <2>1, WindowAligned
  <2>3. ((height + 1) % MedianStampPeriod) = 0 /\ (0 % HistoricStampPeriod) = 0
    BY <2>1, DivModUnique DEF IsPeriodLastBlock
  <2>4. IsPeriodLastBlock(HistoricStampPeriod)
    BY <2>2, <2>3 DEF IsPeriodLastBlock
  <2>5. PricesOf(d) \subseteq Rates
    <3>1. BlocksOf(historicPrices, d) = {b \in Nat : <<d, b>> \in DOMAIN historicPrices}
      BY BlocksOfStore DEF TypeOK, IsStore
    <3>2. \A k \in DOMAIN historicPrices : historicPrices[k] \in Rates
      BY DEF TypeOK, IsStore
    <3> QED
      BY <3>1, <3>2 DEF PricesOf
  <2>6. PICK p, q \in Rates : (p - q) * (p - q) > MaxSquare
    BY <2>4, <2>5
  <2>7. (p - q) * (p - q) <= MaxSquare /\ (p - q) * (p - q) \in Int
    BY <2>6, StampsAssumption DEF StampParamsValid
  <2> QED
    BY <2>6, <2>7, DecimalAssumption
<1> QED
  BY <1>1, TypeCorrect, FailuresAreExplainedAlways, PTL
=============================================================================
