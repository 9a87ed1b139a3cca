------------------------- MODULE OracleChainProofs -------------------------
(***************************************************************************)
(* Proofs about OracleChain and OracleGenesis: the whole EndBlocker, on a  *)
(* chain that is exported and restarted at any committed block, for every  *)
(* set of validators and every parameter that Params.Validate accepts.     *)
(***************************************************************************)
EXTENDS OracleGenesis, OracleVotingProofs

-----------------------------------------------------------------------------
(* The voting of a chain that restarts. *)

\* What a failing block and a restart do to the stores of OracleVoting: the one stops the
\* chain, the other loses the reward set, and nothing else.
Aside ==
  /\ UNCHANGED <<height, bonded, jailed, feederDelegations, prevotes, votes,
                 exchangeRates, missCounters, origin, clean>>
  /\ halted' \in BOOLEAN
  /\ validatorRewardSet' \in {validatorRewardSet, {}}

\* Exporting and importing gives back every store of OracleVoting but the reward set.
LEMMA RestartKeepsStores ==
  ASSUME TypeOK, Restart
  PROVE  Aside
  <1>1. /\ feederDelegations' = feederDelegations /\ exchangeRates' = exchangeRates
        /\ missCounters' = missCounters /\ prevotes' = prevotes /\ votes' = votes
        /\ validatorRewardSet' = {}
    BY DEF Restart, InitGenesis, ExportGenesis, GenesisStateWith
  <1>2. /\ UNCHANGED <<height, bonded, jailed, halted, origin, clean>>
        /\ halted \in BOOLEAN
    BY DEF Restart, TypeOK
  <1>3. halted' \in BOOLEAN
    BY <1>2
  <1> QED
    BY <1>1, <1>2, <1>3 DEF Aside

\* A step of the whole chain is a step of OracleVoting, or is aside of it.
LEMMA ChainStep ==
  ASSUME TypeOK, [GenesisNext]_genesisVars
  PROVE  [Next]_vars \/ Aside
  <1>1. CASE UNCHANGED genesisVars
    BY <1>1 DEF genesisVars, chainVars
  <1>2. CASE ChainMessages
    BY <1>2 DEF ChainMessages, Next
  <1>3. ASSUME NEW active \in ActiveSets, ChainEndBlock(active)
        PROVE  Next
    BY <1>3 DEF ChainEndBlock, Next
  <1>4. ASSUME NEW active \in ActiveSets, ChainEndBlockFails(active)
        PROVE  Aside
    <2>1. halted' \in BOOLEAN
      BY <1>4 DEF ChainEndBlockFails
    <2> QED
      BY <1>4, <2>1 DEF ChainEndBlockFails, Aside
  <1> QED
    BY <1>1, <1>2, <1>3, <1>4, RestartKeepsStores DEF GenesisNext

\* What OracleVoting promises of its state.
VotingInv == CommitInv /\ MissesAreEarned

\* VotingInv does not mind a failing block or a restart.
LEMMA VotingInvAside ==
  ASSUME VotingInv, Aside
  PROVE  VotingInv'
  <1>1. TypeOK'
    BY DEF VotingInv, CommitInv, TypeOK, Aside
  <1>2. OneCommitmentPerPeriod' /\ VotesOpenOwnCommitments' /\ PrevotesExpire'
    BY CommitInvStutter DEF VotingInv, Aside
  <1>3. MissesAreEarned'
    BY DEF VotingInv, MissesAreEarned, Aside
  <1> QED
    BY <1>1, <1>2, <1>3 DEF VotingInv, CommitInv

\* The commitments, the votes and the miss counters of OracleVoting survive the failing
\* blocks of the rest of EndBlocker and every export and restart.
THEOREM VotingInvariant == GenesisSpec => []VotingInv
  <1>1. GenesisInit => VotingInv
    <2> SUFFICES ASSUME GenesisInit PROVE VotingInv
      OBVIOUS
    <2>1. Init
      BY DEF GenesisInit, ChainInit
    <2> QED
      BY <2>1, TypeOKInit, CommitInvInit, MissesInit DEF VotingInv, CommitInv
  <1>2. VotingInv /\ [GenesisNext]_genesisVars => VotingInv'
    <2> SUFFICES ASSUME VotingInv, [GenesisNext]_genesisVars PROVE VotingInv'
      OBVIOUS
    <2>1. [Next]_vars \/ Aside
      BY ChainStep DEF VotingInv, CommitInv
    <2>2. CASE [Next]_vars
      <3>1. TypeOK'
        BY <2>2, TypeOKStep DEF VotingInv, CommitInv
      <3>2. OneCommitmentPerPeriod' /\ VotesOpenOwnCommitments' /\ PrevotesExpire'
        BY <2>2, CommitInvStep DEF VotingInv
      <3>3. MissesAreEarned'
        BY <2>2, MissesStep DEF VotingInv, CommitInv
      <3> QED
        BY <3>1, <3>2, <3>3 DEF VotingInv, CommitInv
    <2> QED
      BY <2>1, <2>2, VotingInvAside
  <1> QED
    BY <1>1, <1>2, PTL DEF GenesisSpec

\* A chain that restarts still implements SealedBallots: an export loses no commitment
\* that could be opened, and lets none be opened twice.
THEOREM ImplementsSealedBallotsAcrossRestarts == GenesisSpec => ImplementsSealedBallots
  <1>1. GenesisInit => Sealed!Init
    BY SealedInit DEF GenesisInit, ChainInit
  <1>2. VotingInv /\ [GenesisNext]_genesisVars => [Sealed!Next]_(Sealed!vars)
    <2> SUFFICES ASSUME VotingInv, [GenesisNext]_genesisVars
                 PROVE  [Sealed!Next]_(Sealed!vars)
      OBVIOUS
    <2>1. CASE [Next]_vars
      BY <2>1, SealedStep DEF VotingInv
    <2>2. CASE Aside
      BY <2>2 DEF Aside, Sealed!vars, PeriodOf
    <2> QED
      BY <2>1, <2>2, ChainStep DEF VotingInv, CommitInv
  <1> QED
    BY <1>1, <1>2, VotingInvariant, PTL
       DEF GenesisSpec, Sealed!Spec, ImplementsSealedBallots

-----------------------------------------------------------------------------
(* The reward set. *)

\* As long as there is no reward set the height is in the period of SlashWindow + 1 blocks
\* in which the chain was started: SetValidatorRewardSet is called at the end of each.
RewardGapInv ==
  /\ started \in Nat
  /\ validatorRewardSet = {} =>
       (height \div (SlashWindow + 1)) = (started \div (SlashWindow + 1))

\* Two heights of one period are less than a period apart.
LEMMA SamePeriodIsClose ==
  ASSUME NEW n \in Nat \ {0}, NEW a \in Nat, NEW b \in Nat, (a \div n) = (b \div n)
  PROVE  a <= b + (n - 1)
  <1> DEFINE q == a \div n
  <1>1. q \in Nat /\ a = (n * q) + (a % n) /\ b = (n * q) + (b % n)
        /\ (a % n) \in 0..(n - 1) /\ (b % n) \in 0..(n - 1)
    BY DivMod
  <1> HIDE DEF q
  <1>2. (n * q) \in Nat
    BY <1>1
  <1> QED
    BY <1>1, <1>2

\* The reward set is missing for at most SlashWindow blocks after a start or a restart,
\* however often and wherever in a slash window the chain is restarted.
THEOREM RewardGapIsBoundedAlways == GenesisSpec => []RewardGapIsBounded
  <1> DEFINE n == SlashWindow + 1
  <1>0. n \in Nat \ {0}
    BY PeriodsArePositive
  <1>1. GenesisInit => RewardGapInv
    BY DEF GenesisInit, ChainInit, Init, RewardGapInv
  <1>2. VotingInv /\ RewardGapInv /\ [GenesisNext]_genesisVars => RewardGapInv'
    <2> SUFFICES ASSUME VotingInv, RewardGapInv, [GenesisNext]_genesisVars
                 PROVE  RewardGapInv'
      OBVIOUS
    <2>1. height \in Nat
      BY DEF VotingInv, CommitInv, TypeOK
    <2>2. CASE UNCHANGED <<height, started, validatorRewardSet>>
      BY <2>2 DEF RewardGapInv
    <2>3. CASE Restart
      BY <2>1, <2>3 DEF Restart, RewardGapInv
    <2>4. ASSUME NEW active \in ActiveSets, ChainEndBlock(active), started' = started
          PROVE  RewardGapInv'
      <3>1. height' = height + 1 /\ validatorRewardSet' = RewardSetAfter(active)
            /\ active # {}
        BY <2>4 DEF ChainEndBlock, EndBlock, ActiveSets
      <3>2. CASE ((height + 1) % n) = 0
        BY <2>4, <3>1, <3>2 DEF RewardGapInv, RewardSetAfter, IsPeriodLastBlock
      <3>3. CASE ((height + 1) % n) # 0
        <4>1. validatorRewardSet' = validatorRewardSet
          BY <3>1, <3>3 DEF RewardSetAfter, IsPeriodLastBlock
        <4>2. ((height + 1) \div n) = (height \div n)
          BY <1>0, <2>1, <3>3, SamePeriod
        <4> QED
          BY <2>4, <3>1, <4>1, <4>2 DEF RewardGapInv
      <3> QED
        BY <3>2, <3>3
    <2>5. CASE ChainMessages /\ UNCHANGED <<restarts, started>>
      BY <2>2, <2>5
         DEF ChainMessages, Messages, AggregateExchangeRatePrevote,
             AggregateExchangeRateVote, DelegateFeedConsent, Unjail
    <2>6. ASSUME NEW active \in ActiveSets, ChainEndBlockFails(active), UNCHANGED restartVars
          PROVE  RewardGapInv'
      BY <2>2, <2>6 DEF ChainEndBlockFails, restartVars
    <2> QED
      BY <2>2, <2>3, <2>4, <2>5, <2>6
         DEF GenesisNext, genesisVars, chainVars, vars, restartVars
  <1>3. VotingInv /\ RewardGapInv => RewardGapIsBounded
    <2> SUFFICES ASSUME VotingInv, RewardGapInv, validatorRewardSet = {}
                 PROVE  height <= started + SlashWindow
      BY DEF RewardGapIsBounded
    <2>1. height \in Nat /\ started \in Nat /\ (height \div n) = (started \div n)
      BY DEF VotingInv, CommitInv, TypeOK, RewardGapInv
    <2>2. height <= started + (n - 1)
      BY <1>0, <2>1, SamePeriodIsClose
    <2> QED
      BY <2>1, <2>2, PeriodsArePositive
  <1> QED
    BY <1>1, <1>2, <1>3, VotingInvariant, PTL DEF GenesisSpec

-----------------------------------------------------------------------------
(* The stamps. *)

\* What makes StampsAreCurrentRates inductive: no stamp is of a block that is not over.
StampInv ==
  /\ \A k \in DOMAIN historicPrices : k[2] \in Nat /\ k[2] < height
  /\ StampsAreCurrentRates

\* What Params.Validate requires of the stamp periods.
LEMMA StampPeriods ==
  /\ HistoricStampPeriod \in Nat \ {0} /\ MaximumPriceStamps \in Nat \ {0}
  /\ (HistoricStampPeriod % VotePeriod) = 0
  BY ChainAssumption DEF History!StampParamsValid

\* A block that ends a historic stamp period ends a vote period.
LEMMA StampsFollowTallies ==
  ASSUME NEW h \in Nat, (h % HistoricStampPeriod) = 0
  PROVE  (h % VotePeriod) = 0
  <1>1. (h % VotePeriod) = ((h % HistoricStampPeriod) % VotePeriod)
    BY StampPeriods, PeriodsArePositive, WindowAligned
  <1>2. (0 % VotePeriod) = 0
    BY PeriodsArePositive
  <1> QED
    BY <1>1, <1>2

\* The stamps that CalcPrices adds in a block, and PruneAllPrices leaves: those of the
\* rates of the block when a stamp period ends, and old ones with their price.
LEMMA StampsOfBlock ==
  ASSUME NEW rates, height \in Nat, \A k \in DOMAIN historicPrices : k[2] \in Nat /\ k[2] < height,
         historicPrices' = History!PrunedPrices(History!StampedPrices(rates))
  PROVE  /\ \A k \in DOMAIN historicPrices' : k[2] \in Nat /\ k[2] <= height
         /\ \A d : <<d, height>> \in DOMAIN historicPrices' =>
              d \in DOMAIN rates /\ historicPrices'[<<d, height>>] = rates[d]
         /\ \A d \in DOMAIN rates :
              IsPeriodLastBlock(HistoricStampPeriod) => <<d, height>> \in DOMAIN historicPrices'
         /\ ~IsPeriodLastBlock(HistoricStampPeriod) => historicPrices' = historicPrices
  <1>1. CASE ~IsPeriodLastBlock(HistoricStampPeriod)
    <2>1. historicPrices' = historicPrices
      BY <1>1 DEF History!PrunedPrices, History!StampedPrices, History!IsPeriodLastBlock,
                  IsPeriodLastBlock
    <2>2. \A d : <<d, height>> \notin DOMAIN historicPrices
      OBVIOUS
    <2> QED
      BY <1>1, <2>1, <2>2
  <1>2. CASE IsPeriodLastBlock(HistoricStampPeriod)
    <2> DEFINE new == [k \in History!StampsOf(rates) |-> rates[k[1]]]
               all == History!PutAll(historicPrices, new)
               period == HistoricStampPeriod * MaximumPriceStamps
    <2>1. historicPrices' = History!PruneBefore(all, period)
      BY <1>2 DEF History!PrunedPrices, History!StampedPrices, History!IsPeriodLastBlock,
                  IsPeriodLastBlock
    <2>2. /\ DOMAIN new = {<<d, height>> : d \in DOMAIN rates}
          /\ \A d \in DOMAIN rates : new[<<d, height>>] = rates[d]
      BY DEF History!StampsOf
    <2> HIDE DEF new
    <2>3. /\ DOMAIN all = DOMAIN historicPrices \union DOMAIN new
          /\ \A k \in DOMAIN new : all[k] = new[k]
      BY DEF History!PutAll
    <2> HIDE DEF all
    <2>4. /\ \A k \in DOMAIN all : k[2] \in Nat /\ k[2] <= height
          /\ \A d : <<d, height>> \in DOMAIN all => d \in DOMAIN rates
      BY <2>2, <2>3
    <2>5. period \in Nat /\ period > 0
      BY StampPeriods
    <2> HIDE DEF period
    <2>6. /\ DOMAIN historicPrices' \subseteq DOMAIN all
          /\ \A k \in DOMAIN historicPrices' : historicPrices'[k] = all[k]
          /\ \A k \in DOMAIN all : k[2] > height - period => k \in DOMAIN historicPrices'
      BY <2>1 DEF History!PruneBefore, History!Keep
    <2>7. \A d \in DOMAIN rates : <<d, height>> \in DOMAIN historicPrices'
      BY <2>2, <2>3, <2>5, <2>6
    <2>8. \A d : <<d, height>> \in DOMAIN historicPrices' =>
            d \in DOMAIN rates /\ historicPrices'[<<d, height>>] = rates[d]
      BY <2>2, <2>3, <2>4, <2>6
    <2> QED
      BY <1>2, <2>4, <2>6, <2>7, <2>8
  <1> QED
    BY <1>1, <1>2

\* StampInv holds in every reachable state, restarts included.
THEOREM StampInvariant == GenesisSpec => []StampInv
  <1>1. GenesisInit => StampInv
    <2> SUFFICES ASSUME GenesisInit PROVE StampInv
      OBVIOUS
    <2>1. DOMAIN historicPrices = {} /\ DOMAIN exchangeRates = {}
      BY DEF GenesisInit, ChainInit, Init, History!Init
    <2> QED
      BY <2>1 DEF StampInv, StampsAreCurrentRates
  <1>2. VotingInv /\ StampInv /\ [GenesisNext]_genesisVars => StampInv'
    <2> SUFFICES ASSUME VotingInv, StampInv, [GenesisNext]_genesisVars
                 PROVE  StampInv'
      OBVIOUS
    <2>1. height \in Nat
      BY DEF VotingInv, CommitInv, TypeOK
    <2>2. CASE UNCHANGED <<height, historicPrices, exchangeRates>>
      BY <2>2 DEF StampInv, StampsAreCurrentRates, LastTally
    <2>3. ASSUME NEW active \in ActiveSets, ChainEndBlock(active)
          PROVE  StampInv'
      <3> DEFINE rates == RatesOfBlock(active)
      <3>1. height' = height + 1
            /\ historicPrices' = History!PrunedPrices(History!StampedPrices(rates))
        BY <2>3 DEF ChainEndBlock, EndBlock, History!StampAndPrune
      <3>2. /\ \A k \in DOMAIN historicPrices' : k[2] \in Nat /\ k[2] <= height
            /\ \A d : <<d, height>> \in DOMAIN historicPrices' =>
                 d \in DOMAIN rates /\ historicPrices'[<<d, height>>] = rates[d]
            /\ \A d \in DOMAIN rates :
                 IsPeriodLastBlock(HistoricStampPeriod)
                   => <<d, height>> \in DOMAIN historicPrices'
            /\ ~IsPeriodLastBlock(HistoricStampPeriod) => historicPrices' = historicPrices
        <4> HIDE DEF rates
        <4> QED
          BY <2>1, <3>1, StampsOfBlock DEF StampInv
      <3>3. \A k \in DOMAIN historicPrices' : k[2] \in Nat /\ k[2] < height'
        BY <2>1, <3>1, <3>2
      <3>4. CASE IsPeriodLastBlock(VotePeriod)
        <4>1. exchangeRates' = rates
          BY <2>3, <3>4 DEF ChainEndBlock, EndBlock, CalcPrices, RatesOfBlock
        <4>2. LastTally' = height
          <5> DEFINE q == height' \div VotePeriod
          <5>1. (height' % VotePeriod) = 0 /\ height' \in Nat
            BY <2>1, <3>1, <3>4 DEF IsPeriodLastBlock
          <5>2. q \in Nat /\ height' = (VotePeriod * q) + 0
            BY <5>1, PeriodsArePositive, DivMod
          <5> HIDE DEF q
          <5>3. height' = q * VotePeriod
            BY <5>2, PeriodsArePositive
          <5>4. LastTally' = (q * VotePeriod) - 1
            BY DEF LastTally, q
          <5> QED
            BY <2>1, <3>1, <5>3, <5>4
        <4>3. (LastTally' + 1) % HistoricStampPeriod = 0
                => IsPeriodLastBlock(HistoricStampPeriod)
          BY <4>2 DEF IsPeriodLastBlock
        <4> HIDE DEF rates
        <4>4. StampsAreCurrentRates'
          BY <3>2, <4>1, <4>2, <4>3 DEF StampsAreCurrentRates
        <4> QED
          BY <3>3, <4>4 DEF StampInv
      <3>5. CASE ~IsPeriodLastBlock(VotePeriod)
        <4>1. ~IsPeriodLastBlock(HistoricStampPeriod)
          BY <2>1, <3>5, StampsFollowTallies DEF IsPeriodLastBlock
        <4>2. historicPrices' = historicPrices
          BY <3>2, <4>1
        <4>3. exchangeRates' = exchangeRates
          BY <2>3, <3>5 DEF ChainEndBlock, EndBlock
        <4>4. (height' \div VotePeriod) = (height \div VotePeriod)
          BY <2>1, <3>1, <3>5, PeriodsArePositive, SamePeriod DEF IsPeriodLastBlock
        <4>5. LastTally' = LastTally
          BY <4>4 DEF LastTally
        <4>6. StampsAreCurrentRates'
          BY <4>2, <4>3, <4>5 DEF StampInv, StampsAreCurrentRates
        <4> QED
          BY <3>3, <4>6 DEF StampInv
      <3> QED
        BY <3>4, <3>5
    <2>4. CASE Restart
      BY <2>2, <2>4 DEF Restart, InitGenesis, ExportGenesis, GenesisStateWith
    <2>5. CASE ChainMessages
      BY <2>2, <2>5
         DEF ChainMessages, Messages, historyVars, AggregateExchangeRatePrevote,
             AggregateExchangeRateVote, DelegateFeedConsent, Unjail
    <2>6. ASSUME NEW active \in ActiveSets, ChainEndBlockFails(active)
          PROVE  StampInv'
      BY <2>2, <2>6 DEF ChainEndBlockFails, historyVars
    <2> QED
      BY <2>2, <2>3, <2>4, <2>5, <2>6
         DEF GenesisNext, genesisVars, chainVars, vars, historyVars
  <1> QED
    BY <1>1, <1>2, VotingInvariant, PTL DEF GenesisSpec

\* The rates that can be voted are numbers.
LEMMA RatesAreNumbers == \A r \in Rates : r \in Nat
  <1>1. Rates \subseteq Nat \ {0}
    BY ChainAssumption DEF History!StampParamsValid
  <1> HIDE DEF Rates
  <1> QED
    BY <1>1

\* What is voted are rates that can be voted.
LEMMA VotesAreRates ==
  ASSUME VotingInv, NEW v \in DOMAIN votes, NEW d \in DOMAIN votes[v]
  PROVE  votes[v][d] \in Rates
  <1> DEFINE map == origin[v].hash.rates
  <1>1. v \in DOMAIN origin
    BY DEF VotingInv, CommitInv, OneCommitmentPerPeriod
  <1>2. map \in RateMaps
    BY <1>1 DEF VotingInv, CommitInv, TypeOK, IsStore, Prevote, Hash
  <1>3. votes[v] = Keep(map, AcceptList)
    BY DEF VotingInv, CommitInv, VotesOpenOwnCommitments
  <1>4. d \in DOMAIN map /\ votes[v][d] = map[d]
    BY <1>3 DEF Keep
  <1> QED
    BY <1>2, <1>4 DEF Rates

\* What is tallied for a denom was voted for it.
LEMMA TalliesAreVoted ==
  ASSUME VotingInv, NEW active \in ActiveSets, NEW d \in DOMAIN RatesOfBlock(active)
  PROVE  \E v \in DOMAIN votes :
           d \in DOMAIN votes[v] /\ RatesOfBlock(active)[d] = votes[v][d]
  <1> DEFINE b == Ballot(active, d)
  <1>1. /\ IsPeriodLastBlock(VotePeriod) /\ d \in PassingDenoms(active)
        /\ RatesOfBlock(active)[d] = WeightedMedian(b, Power)
    BY DEF RatesOfBlock, TalliedRates
  <1>2. DOMAIN b # {}
    BY <1>1 DEF PassingDenoms
  <1>3. /\ IsBallot(b, Power)
        /\ DOMAIN b = {v \in active \ jailed : v \in DOMAIN votes /\ d \in DOMAIN votes[v]}
        /\ \A v \in DOMAIN b : b[v] = votes[v][d]
    BY ActiveBallot DEF VotingInv, CommitInv
  <1> HIDE DEF b
  <1>4. PICK v \in DOMAIN b : b[v] = WeightedMedian(b, Power)
    BY <1>2, <1>3, MedianWasVoted
  <1> QED
    BY <1>1, <1>3, <1>4

\* What is tallied are rates that can be voted.
LEMMA TalliesAreRates ==
  ASSUME VotingInv, NEW active \in ActiveSets, NEW d \in DOMAIN RatesOfBlock(active)
  PROVE  RatesOfBlock(active)[d] \in Rates
  <1>1. PICK v \in DOMAIN votes :
          d \in DOMAIN votes[v] /\ RatesOfBlock(active)[d] = votes[v][d]
    BY TalliesAreVoted
  <1> QED
    BY <1>1, VotesAreRates

\* The stored prices are rates that were voted, by their denom and block.
PriceInv ==
  \A k \in DOMAIN historicPrices : k = <<k[1], k[2]>> /\ historicPrices[k] \in Rates

\* PriceInv holds in every reachable state, restarts included.
THEOREM PriceInvariant == GenesisSpec => []PriceInv
  <1>1. GenesisInit => PriceInv
    <2> SUFFICES ASSUME GenesisInit PROVE PriceInv
      OBVIOUS
    <2>1. DOMAIN historicPrices = {}
      BY DEF GenesisInit, ChainInit, History!Init
    <2> QED
      BY <2>1 DEF PriceInv
  <1>2. VotingInv /\ PriceInv /\ [GenesisNext]_genesisVars => PriceInv'
    <2> SUFFICES ASSUME VotingInv, PriceInv, [GenesisNext]_genesisVars PROVE PriceInv'
      OBVIOUS
    <2>1. CASE UNCHANGED historicPrices
      BY <2>1 DEF PriceInv
    <2>2. ASSUME NEW active \in ActiveSets, ChainEndBlock(active)
          PROVE  PriceInv'
      <3> DEFINE rates == RatesOfBlock(active)
                 prices == History!StampedPrices(rates)
      <3>1. historicPrices' = History!PrunedPrices(prices)
        BY <2>2 DEF ChainEndBlock, History!StampAndPrune
      <3>2. \A d \in DOMAIN rates : rates[d] \in Rates
        BY TalliesAreRates
      <3> HIDE DEF rates
      <3>3. \A k \in DOMAIN prices : k = <<k[1], k[2]>> /\ prices[k] \in Rates
        <4> DEFINE new == [k \in History!StampsOf(rates) |-> rates[k[1]]]
        <4>1. \A k \in DOMAIN new : k = <<k[1], k[2]>> /\ new[k] \in Rates
          BY <3>2 DEF History!StampsOf
        <4>2. prices \in {historicPrices, History!PutAll(historicPrices, new)}
          BY DEF History!StampedPrices
        <4> HIDE DEF new, prices
        <4> QED
          BY <4>1, <4>2 DEF PriceInv, History!PutAll
      <3> HIDE DEF prices
      <3>4. /\ DOMAIN historicPrices' \subseteq DOMAIN prices
            /\ \A k \in DOMAIN historicPrices' : historicPrices'[k] = prices[k]
        BY <3>1 DEF History!PrunedPrices, History!PruneBefore, History!Keep
      <3> QED
        BY <3>3, <3>4 DEF PriceInv
    <2>3. CASE Restart
      BY <2>1, <2>3 DEF Restart, InitGenesis, ExportGenesis, GenesisStateWith
    <2> QED
      BY <2>1, <2>2, <2>3
         DEF GenesisNext, genesisVars, chainVars, historyVars, ChainMessages, ChainEndBlockFails
  <1> QED
    BY <1>1, <1>2, VotingInvariant, PTL DEF GenesisSpec

\* In every reachable state, restarts included, the stamps of the last tally are the
\* current rates.
THEOREM StampsAreCurrentRatesAlways == GenesisSpec => []StampsAreCurrentRates
  BY StampInvariant, PTL DEF StampInv

-----------------------------------------------------------------------------
(* The rewards of a vote period. *)

\* The operators on sets that OracleRewards and OracleHistory instantiate are the ones
\* used here.
LEMMA SameOperators ==
  /\ \A S : Rewards!IsFiniteSet(S) <=> IsFiniteSet(S)
  /\ \A S : Rewards!Cardinality(S) = Cardinality(S)
  /\ \A S : History!Cardinality(S) = Cardinality(S)
  /\ \A S : Rewards!Min(S) = Min(S)
  <1>1. \A S : Rewards!IsFiniteSet(S) <=> IsFiniteSet(S)
    BY DEF Rewards!IsFiniteSet, IsFiniteSet
  <1>2. \A S : Rewards!Cardinality(S) = Cardinality(S)
    BY Zenon DEF Rewards!Cardinality, Cardinality
  <1>3. \A S : History!Cardinality(S) = Cardinality(S)
    BY Zenon DEF History!Cardinality, Cardinality
  <1>4. \A S : Rewards!Min(S) = Min(S)
    BY DEF Rewards!Min, Min
  <1> QED
    BY <1>1, <1>2, <1>3, <1>4

\* What Params.Validate requires, and what the reward factor is.
LEMMA RewardParams ==
  /\ IsFiniteSet(Validators) /\ IsFiniteSet(AcceptList)
  /\ RewardDistributionWindow \in Nat \ {0}
  /\ InitialPool \in [Rewards!RewardDenoms -> Nat]
  /\ Unit \in Nat \ {0}
  /\ \A b \in 0..Rewards!MaxMissCount :
       /\ b > 0 => RewardFactor[<<0, b>>] = Unit
       /\ RewardFactor[<<b, b>>] = 0
       /\ \A k \in 1..b :
            RewardFactor[<<k, b>>] \in 0..Unit /\ RewardFactor[<<k, b>>] <= RewardFactor[<<k - 1, b>>]
  <1>1. Rewards!RewardParamsValid
    BY ChainAssumption
  <1>2. IsFiniteSet(Validators) /\ IsFiniteSet(AcceptList)
    BY <1>1, SameOperators DEF Rewards!RewardParamsValid
  <1>3. RewardDistributionWindow \in Nat \ {0}
    BY <1>1, PeriodsArePositive DEF Rewards!RewardParamsValid
  <1> QED
    BY <1>1, <1>2, <1>3 DEF Rewards!RewardParamsValid

\* The misses at which nothing is paid are a natural number.
LEMMA MaxMissCountType ==
  /\ Rewards!MaxMissCount \in Nat
  /\ Rewards!MaxMissCount = Cardinality(AcceptList) * (SlashWindow \div VotePeriod)
  /\ Cardinality(AcceptList) \in Nat /\ (SlashWindow \div VotePeriod) \in Nat
  <1>1. Cardinality(AcceptList) \in Nat
    BY RewardParams, FS_CardinalityType
  <1>2. (SlashWindow \div VotePeriod) \in Nat
    BY PeriodsArePositive, DivMod
  <1>3. Rewards!MaxMissCount = Cardinality(AcceptList) * (SlashWindow \div VotePeriod)
    BY SameOperators DEF Rewards!MaxMissCount
  <1> QED
    BY <1>1, <1>2, <1>3

\* No claim has more misses than RewardBallotWinners reckons with, in the block in which
\* it is paid: the misses of the period that ends are counted already.
LEMMA MissesWithinMax ==
  ASSUME VotingInv, NEW active, NEW v \in Validators, IsPeriodLastBlock(VotePeriod)
  PROVE  CountedMisses(active)[v] \in 0..Rewards!MaxMissCount
  <1> DEFINE m == Cardinality(MandatoryList)
             a == Cardinality(AcceptList)
             w == SlashWindow \div VotePeriod
             e == Elapsed(height)
             c == CountedClean(active)[v]
             k == CountedMisses(active)[v]
  <1>1. height \in Nat
    BY DEF VotingInv, CommitInv, TypeOK
  <1>2. k \in Nat /\ c \in Nat /\ k <= m * ((e + 1) - c)
    BY CountedBound DEF VotingInv, CommitInv
  <1>3. m \in Nat /\ a \in Nat /\ m <= a
    BY MissesBounded, RewardParams, ParamsAssumption, FS_Subset, FS_CardinalityType
  <1>4. e \in Nat /\ w \in Nat /\ e + 1 <= w
    <2> DEFINE x == height % SlashWindow
    <2>1. x \in 0..(SlashWindow - 1)
      BY <1>1, PeriodsArePositive, DivMod
    <2>2. w \in Nat /\ SlashWindow = (VotePeriod * w) + (SlashWindow % VotePeriod)
      BY PeriodsArePositive, DivMod
    <2>3. e = (x \div VotePeriod)
      BY DEF Elapsed, PeriodsElapsed
    <2> HIDE DEF x, w, e
    <2>4. x \in Nat /\ x < SlashWindow
      BY <2>1, PeriodsArePositive
    <2>5. e \in Nat /\ x = (VotePeriod * e) + (x % VotePeriod)
          /\ (x % VotePeriod) \in 0..(VotePeriod - 1)
      BY <2>3, <2>4, PeriodsArePositive, DivMod
    <2>6. VotePeriod * e < VotePeriod * w
      BY <2>2, <2>4, <2>5, PeriodsArePositive
    <2>7. e < w
      BY <2>2, <2>5, <2>6, PeriodsArePositive
    <2> QED
      BY <2>2, <2>5, <2>7
  <1>5. Rewards!MaxMissCount = a * w
    BY MaxMissCountType
  <1> HIDE DEF m, a, w, e, c, k
  <1>6. m * ((e + 1) - c) <= m * w
    BY <1>2, <1>3, <1>4
  <1>7. m * w <= a * w /\ m * w \in Nat /\ a * w \in Nat /\ m * ((e + 1) - c) \in Int
    BY <1>2, <1>3, <1>4
  <1>8. k <= a * w
    BY <1>2, <1>6, <1>7
  <1> QED
    BY <1>2, <1>5, <1>7, <1>8 DEF k

\* A reward factor is between nothing and one coin.
LEMMA FactorInRange ==
  ASSUME NEW b \in 0..Rewards!MaxMissCount, NEW k \in 0..b
  PROVE  RewardFactor[<<k, b>>] \in 0..Unit
  <1>1. CASE k = 0 /\ b = 0
    BY <1>1, RewardParams
  <1>2. CASE k = 0 /\ b > 0
    <2>1. RewardFactor[<<0, b>>] = Unit /\ Unit \in Nat
      BY <1>2, RewardParams
    <2> QED
      BY <1>2, <2>1
  <1>3. CASE k > 0
    <2>1. k \in 1..b
      BY <1>3, MaxMissCountType
    <2> QED
      BY <2>1, RewardParams
  <1> QED
    BY <1>1, <1>2, <1>3, MaxMissCountType

\* More misses never have a greater factor.
LEMMA FactorFalls ==
  ASSUME NEW b \in 0..Rewards!MaxMissCount
  PROVE  \A k, l \in 0..b : k <= l => RewardFactor[<<l, b>>] <= RewardFactor[<<k, b>>]
  <1> DEFINE F(i) == RewardFactor[<<i, b>>]
             G == {n \in Nat : \A k \in 0..b : k + n <= b => F(k + n) <= F(k)}
  <1>1. \A i \in 0..b : F(i) \in Nat
    BY FactorInRange, RewardParams
  <1>2. \A i \in 1..b : F(i) <= F(i - 1)
    BY RewardParams
  <1>3. b \in Nat
    BY MaxMissCountType
  <1> HIDE DEF F
  <1>4. 0 \in G
    BY <1>1
  <1>5. ASSUME NEW n \in Nat, n \in G PROVE (n + 1) \in G
    <2> SUFFICES ASSUME NEW k \in 0..b, k + (n + 1) <= b
                 PROVE  F(k + (n + 1)) <= F(k)
      OBVIOUS
    <2>1. F(k + n) <= F(k)
      BY <1>3, <1>5
    <2>2. k + (n + 1) \in 1..b /\ (k + (n + 1)) - 1 = k + n /\ k + n \in 0..b
      BY <1>3
    <2>3. F(k + (n + 1)) <= F(k + n)
      BY <1>2, <2>2
    <2>4. F(k + (n + 1)) \in Nat /\ F(k + n) \in Nat /\ F(k) \in Nat
      BY <1>1, <1>3, <2>2
    <2> QED
      BY <2>1, <2>3, <2>4
  <1>6. \A n \in Nat : n \in G
    <2> HIDE DEF G
    <2> QED
      BY <1>4, <1>5, SetInduction
  <1>7. ASSUME NEW k \in 0..b, NEW l \in 0..b, k <= l
        PROVE  F(l) <= F(k)
    <2>1. l - k \in Nat /\ k + (l - k) = l
      BY <1>3, <1>7
    <2> DEFINE n == l - k
    <2>2. n \in G /\ k + n = l
      BY <1>6, <2>1
    <2> HIDE DEF n
    <2> QED
      BY <1>3, <2>2
  <1> QED
    BY <1>7 DEF F

\* Rounding to the nearest decimal, a tie to the even one, is monotone and never exceeds a
\* whole number that the exact value does not exceed.
LEMMA RoundedFacts ==
  /\ \A x \in Nat : Rewards!Rounded(x) \in Nat
  /\ \A x, y \in Nat : x <= y => Rewards!Rounded(x) <= Rewards!Rounded(y)
  /\ \A x, y \in Nat : x <= y * Unit => Rewards!Rounded(x) <= y
  <1> DEFINE Q(x) == x \div Unit
             R(x) == x % Unit
             Up(x) == ~(2 * R(x) < Unit \/ (2 * R(x) = Unit /\ Q(x) % 2 = 0))
  <1>1. Unit \in Nat \ {0}
    BY RewardParams
  <1>2. \A x \in Nat : /\ Q(x) \in Nat /\ R(x) \in 0..(Unit - 1)
                       /\ x = (Unit * Q(x)) + R(x)
    BY <1>1, DivMod
  <1>3. \A x \in Nat : Rewards!Rounded(x) = IF Up(x) THEN Q(x) + 1 ELSE Q(x)
    BY DEF Rewards!Rounded
  <1>4. \A x, y \in Nat : x <= y => Q(x) <= Q(y)
    BY <1>1, PeriodsInOrder
  <1>5. \A x \in Nat : Up(x) => 2 * R(x) >= Unit
    BY <1>1, <1>2
  <1>6. \A x, y \in Nat : x <= y /\ Q(x) = Q(y) /\ Up(x) => Up(y)
    <2> SUFFICES ASSUME NEW x \in Nat, NEW y \in Nat, x <= y, Q(x) = Q(y), Up(x)
                 PROVE  Up(y)
      OBVIOUS
    <2>1. R(x) <= R(y)
      <3> HIDE DEF Q, R
      <3>1. x = (Unit * Q(x)) + R(x) /\ R(x) \in Int
        BY <1>1, <1>2
      <3>2. y = (Unit * Q(x)) + R(y) /\ R(y) \in Int
        BY <1>1, <1>2
      <3>3. Q(x) \in Nat
        BY <1>2
      <3>4. (Unit * Q(x)) \in Nat
        BY <1>1, <3>3
      <3> QED
        BY <3>1, <3>2, <3>4
    <2> QED
      <3>1. R(x) \in Nat /\ R(y) \in Nat
        BY <1>2
      <3> HIDE DEF Q, R
      <3> QED
        BY <1>1, <2>1, <3>1
  <1> HIDE DEF Q, R, Up
  <1>7. \A x \in Nat : Rewards!Rounded(x) \in Nat
    BY <1>2, <1>3
  <1>8. \A x, y \in Nat : x <= y => Rewards!Rounded(x) <= Rewards!Rounded(y)
    <2> SUFFICES ASSUME NEW x \in Nat, NEW y \in Nat, x <= y
                 PROVE  Rewards!Rounded(x) <= Rewards!Rounded(y)
      OBVIOUS
    <2>1. CASE Q(x) = Q(y)
      BY <1>2, <1>3, <1>6, <2>1
    <2>2. CASE Q(x) < Q(y)
      BY <1>2, <1>3, <2>2
    <2>3. Q(x) \in Nat /\ Q(y) \in Nat /\ Q(x) <= Q(y)
      BY <1>2, <1>4
    <2> QED
      BY <2>1, <2>2, <2>3
  <1>9. \A x, y \in Nat : x <= y * Unit => Rewards!Rounded(x) <= y
    <2> SUFFICES ASSUME NEW x \in Nat, NEW y \in Nat, x <= y * Unit
                 PROVE  Rewards!Rounded(x) <= y
      OBVIOUS
    <2>1. /\ Q(x) \in Nat /\ R(x) \in Nat /\ x = (Unit * Q(x)) + R(x)
          /\ (Unit * Q(x)) \in Nat /\ (Unit * y) \in Nat /\ y * Unit = Unit * y
      BY <1>1, <1>2
    <2>2. CASE Q(x) < y
      BY <1>3, <2>1, <2>2
    <2>3. CASE Q(x) = y
      <3>1. R(x) = 0
        BY <2>1, <2>3
      <3>2. ~Up(x)
        BY <1>1, <1>5, <3>1
      <3> QED
        BY <1>3, <2>1, <2>3, <3>2
    <2>4. CASE Q(x) > y
      <3>1. Unit * Q(x) > Unit * y
        BY <1>1, <2>1, <2>4
      <3> QED
        BY <2>1, <3>1
    <2> QED
      BY <2>1, <2>2, <2>3, <2>4
  <1> QED
    BY <1>7, <1>8, <1>9

\* The validators that can be paid in a block, and their misses, as RewardBallotWinners
\* gets them.
Payable(active, rewardSet, counters) ==
  /\ rewardSet \subseteq Validators /\ rewardSet # {}
  /\ \A v \in Validators : counters[v] \in 0..Rewards!MaxMissCount

\* The factor of a payee is looked up where it is defined: the smallest miss count is not
\* above its own, nor its own above the greatest.
LEMMA FactorOfPayee ==
  ASSUME NEW active, NEW rewardSet, NEW counters, Payable(active, rewardSet, counters)
  PROVE  \E s \in 0..Rewards!MaxMissCount :
           /\ \A v \in rewardSet : s <= counters[v]
           /\ \A v : Rewards!FactorOf(v, active, rewardSet, counters)
                       = <<counters[v] - s, Rewards!MaxMissCount - s>>
  <1> DEFINE s == Rewards!SmallestMissCount(active, rewardSet, counters)
             all == {counters[v] : v \in rewardSet}
  <1>1. Rewards!MaxMissCount \in Nat
    BY MaxMissCountType
  <1>2. \A v \in rewardSet : counters[v] \in 0..Rewards!MaxMissCount
    BY DEF Payable
  <1>3. s \in 0..Rewards!MaxMissCount /\ \A v \in rewardSet : s <= counters[v]
    <2>1. CASE rewardSet \subseteq active
      <3>1. s = Min(all)
        BY <2>1, SameOperators DEF Rewards!SmallestMissCount
      <3>2. all \in SUBSET (0..Rewards!MaxMissCount)
        BY <1>2
      <3>3. IsFiniteSet(all)
        <4>1. 0 \in Int /\ Rewards!MaxMissCount \in Int
          BY <1>1
        <4>2. IsFiniteSet(0..Rewards!MaxMissCount)
          BY <4>1, FS_Interval
        <4> HIDE DEF all
        <4> QED
          BY <3>2, <4>2, FS_Subset
      <3>4. all \in SUBSET Int /\ all # {}
        BY <1>1, <1>2 DEF Payable
      <3>5. Min(all) \in all /\ \A x \in all : Min(all) <= x
        BY <3>3, <3>4, ExtremesOf
      <3> QED
        BY <1>2, <3>1, <3>5
    <2>2. CASE ~(rewardSet \subseteq active)
      <3>1. s = 0
        BY <2>2 DEF Rewards!SmallestMissCount
      <3> QED
        BY <1>1, <1>2, <3>1
    <2> QED
      BY <2>1, <2>2
  <1>4. \A v : Rewards!FactorOf(v, active, rewardSet, counters)
                 = <<counters[v] - s, Rewards!MaxMissCount - s>>
    BY DEF Rewards!FactorOf
  <1> HIDE DEF s
  <1> QED
    BY <1>3, <1>4

\* ... and it falls with the misses.
LEMMA PayeeFactor ==
  ASSUME NEW active, NEW rewardSet, NEW counters, Payable(active, rewardSet, counters)
  PROVE  LET F(v) == RewardFactor[Rewards!FactorOf(v, active, rewardSet, counters)]
         IN  /\ \A v \in rewardSet : F(v) \in 0..Unit
             /\ \A v, w \in rewardSet : counters[v] <= counters[w] => F(w) <= F(v)
  <1>1. PICK s \in 0..Rewards!MaxMissCount :
          /\ \A v \in rewardSet : s <= counters[v]
          /\ \A v : Rewards!FactorOf(v, active, rewardSet, counters)
                      = <<counters[v] - s, Rewards!MaxMissCount - s>>
    BY FactorOfPayee
  <1> DEFINE b == Rewards!MaxMissCount - s
             F(v) == RewardFactor[Rewards!FactorOf(v, active, rewardSet, counters)]
  <1>2. Rewards!MaxMissCount \in Nat
    BY MaxMissCountType
  <1>3. \A v \in rewardSet : counters[v] \in 0..Rewards!MaxMissCount
    BY DEF Payable
  <1>4. b \in 0..Rewards!MaxMissCount /\ \A v \in rewardSet : counters[v] - s \in 0..b
    BY <1>1, <1>2, <1>3
  <1>5. \A v : F(v) = RewardFactor[<<counters[v] - s, b>>]
    BY <1>1
  <1> HIDE DEF b, F
  <1>6. \A v \in rewardSet : F(v) \in 0..Unit
    BY <1>4, <1>5, FactorInRange
  <1>7. ASSUME NEW v \in rewardSet, NEW w \in rewardSet, counters[v] <= counters[w]
        PROVE  F(w) <= F(v)
    <2>1. counters[v] - s <= counters[w] - s
      BY <1>2, <1>3, <1>7
    <2>2. \A k, l \in 0..b : k <= l => RewardFactor[<<l, b>>] <= RewardFactor[<<k, b>>]
      BY <1>4, FactorFalls
    <2> QED
      BY <1>4, <1>5, <2>1, <2>2
  <1> QED
    BY <1>6, <1>7 DEF F

\* The module account holds whole coins, of every denom of the rewards.
PoolTyped == rewardPool \in [Rewards!RewardDenoms -> Nat]

\* A denom is in the list of the reward denoms some natural number of times.
LEMMA MultiplicityType == \A d : Rewards!Multiplicity(d) \in Nat
  <1> SUFFICES ASSUME NEW d PROVE Rewards!Multiplicity(d) \in Nat
    OBVIOUS
  <1> DEFINE accepted == {a \in AcceptList : BaseDenom[a] = d}
  <1>1. Cardinality(accepted) \in Nat
    BY RewardParams, FS_Subset, FS_CardinalityType
  <1> QED
    BY <1>1, SameOperators DEF Rewards!Multiplicity

\* The rewards of a period are a natural number of units.
LEMMA PeriodRewardsType ==
  ASSUME PoolTyped, NEW d \in Rewards!RewardDenoms
  PROVE  /\ Rewards!PeriodRewards(d) \in Nat
         /\ rewardPool[d] \in Nat
         /\ ((VotePeriod * Unit) \div RewardDistributionWindow) \in Nat
  <1>1. rewardPool[d] \in Nat /\ Rewards!Multiplicity(d) \in Nat
    BY MultiplicityType DEF PoolTyped
  <1>2. VotePeriod * Unit \in Nat
    BY PeriodsArePositive, RewardParams
  <1> DEFINE x == VotePeriod * Unit
             r == x \div RewardDistributionWindow
  <1> HIDE DEF x
  <1>3. r \in Nat
    BY <1>2, RewardParams, DivMod DEF x
  <1>4. Rewards!PeriodRewards(d) = (Rewards!Multiplicity(d) * rewardPool[d]) * r
    BY DEF Rewards!PeriodRewards, x
  <1> HIDE DEF r
  <1>5. Rewards!PeriodRewards(d) \in Nat
    BY <1>1, <1>3, <1>4
  <1> QED
    BY <1>1, <1>3, <1>5 DEF r, x

\* What a validator is paid in a block is a natural number of coins, and falls with its
\* misses.
LEMMA CoinsOfPayee ==
  ASSUME PoolTyped, NEW active, NEW rewardSet, NEW counters,
         Payable(active, rewardSet, counters), NEW d \in Rewards!RewardDenoms
  PROVE  LET C(v) == Rewards!RewardCoins(v, active, rewardSet, counters, d)
         IN  /\ \A v \in rewardSet : C(v) \in Nat
             /\ \A v, w \in rewardSet : counters[v] <= counters[w] => C(w) <= C(v)
  <1> DEFINE F(v) == RewardFactor[Rewards!FactorOf(v, active, rewardSet, counters)]
             C(v) == Rewards!RewardCoins(v, active, rewardSet, counters, d)
             n == Cardinality(rewardSet)
             p == Rewards!PeriodRewards(d)
  <1>1. p \in Nat /\ Unit \in Nat \ {0}
    BY PeriodRewardsType, RewardParams
  <1>2. n \in Nat \ {0}
    <2>1. IsFiniteSet(rewardSet) /\ rewardSet # {}
      BY RewardParams, FS_Subset DEF Payable
    <2> QED
      BY <2>1, FS_CardinalityType, FS_EmptySet
  <1>3. /\ \A v \in rewardSet : F(v) \in Nat
        /\ \A v, w \in rewardSet : counters[v] <= counters[w] => F(w) <= F(v)
    BY <1>1, PayeeFactor
  <1>4. \A v : C(v) = (Rewards!Rounded(p * (F(v) \div n)) \div Unit)
    BY SameOperators DEF Rewards!RewardCoins
  <1> HIDE DEF F, C, n, p
  <1>5. \A v \in rewardSet : (F(v) \div n) \in Nat /\ p * (F(v) \div n) \in Nat
    <2> SUFFICES ASSUME NEW v \in rewardSet
                 PROVE  (F(v) \div n) \in Nat /\ p * (F(v) \div n) \in Nat
      OBVIOUS
    <2>1. (F(v) \div n) \in Nat
      BY <1>2, <1>3, DivMod
    <2> QED
      BY <1>1, <2>1
  <1>6. \A v \in rewardSet : C(v) \in Nat
    <2> SUFFICES ASSUME NEW v \in rewardSet PROVE C(v) \in Nat
      OBVIOUS
    <2>1. Rewards!Rounded(p * (F(v) \div n)) \in Nat
      BY <1>5, RoundedFacts
    <2> QED
      BY <1>1, <1>4, <2>1, DivMod
  <1>7. ASSUME NEW v \in rewardSet, NEW w \in rewardSet, counters[v] <= counters[w]
        PROVE  C(w) <= C(v)
    <2> DEFINE x == F(w) \div n
               y == F(v) \div n
    <2>1. x <= y /\ x \in Nat /\ y \in Nat
      BY <1>2, <1>3, <1>5, <1>7, PeriodsInOrder
    <2>2. C(w) = (Rewards!Rounded(p * x) \div Unit) /\ C(v) = (Rewards!Rounded(p * y) \div Unit)
      BY <1>4
    <2> HIDE DEF x, y
    <2>3. p * x <= p * y /\ p * x \in Nat /\ p * y \in Nat
      BY <1>1, <2>1
    <2>4. /\ Rewards!Rounded(p * x) \in Nat /\ Rewards!Rounded(p * y) \in Nat
          /\ Rewards!Rounded(p * x) <= Rewards!Rounded(p * y)
      BY <2>3, RoundedFacts
    <2> QED
      BY <1>1, <2>2, <2>4, PeriodsInOrder
  <1> QED
    BY <1>6, <1>7 DEF C

-----------------------------------------------------------------------------
(* The books of the rewards. *)

\* What x/distribution owes the validators of a denom, as a sum over them.
OwedSum(d) == SumOver([v \in Validators |-> outstanding[v][d]], Validators)

\* It is what the model says is owed.
LEMMA OwedIsSum == \A d : Owed(d) = OwedSum(d)
  BY DEF Owed, OwedSum, SumOver

\* What RewardBallotWinners gives the payees of a block, of a denom.
PaidCoins(active, rewardSet, counters, d) ==
  [v \in Rewards!Payees(active, rewardSet, counters) |->
     Rewards!RewardCoins(v, active, rewardSet, counters, d)]

PaidSum(active, rewardSet, counters, d) ==
  SumOver(PaidCoins(active, rewardSet, counters, d),
          Rewards!Payees(active, rewardSet, counters))

\* The books: the module account and x/distribution together always have what the account
\* started with, and x/distribution never has more than it owes; it owes exactly what it has
\* as long as no loop of RewardBallotWinners has returned before its transfer.
RewardsInv ==
  /\ PoolTyped
  /\ distribution \in [Rewards!RewardDenoms -> Nat]
  /\ outstanding \in [Validators -> [Rewards!RewardDenoms -> Nat]]
  /\ abandoned \in BOOLEAN
  /\ \A d \in Rewards!RewardDenoms :
       /\ rewardPool[d] + distribution[d] = InitialPool[d]
       /\ distribution[d] <= OwedSum(d)
       /\ ~abandoned => distribution[d] = OwedSum(d)

\* Distributed is a sum over the payees.
LEMMA DistributedIsSum ==
  \A active, rewardSet, counters, d :
    Rewards!Distributed(active, rewardSet, counters, d) = PaidSum(active, rewardSet, counters, d)
  <1>1. \A f, S : Rewards!MapThenSumSet(LAMBDA v : f[v], S) = SumOver(f, S)
    BY DEF Rewards!MapThenSumSet, Rewards!MapThenFoldSet, SumOver, MapThenSumSet, MapThenFoldSet
  <1> QED
    BY <1>1 DEF Rewards!Distributed, PaidSum, PaidCoins

\* The payees of a block are validators, and have a natural number of coins each.
LEMMA PaidCoinsWeigh ==
  ASSUME PoolTyped, NEW active, NEW rewardSet, NEW counters,
         Payable(active, rewardSet, counters), NEW d \in Rewards!RewardDenoms
  PROVE  LET P == Rewards!Payees(active, rewardSet, counters)
             paid == PaidCoins(active, rewardSet, counters, d)
         IN  /\ P \in SUBSET Validators /\ P \subseteq rewardSet /\ IsFiniteSet(P)
             /\ \A v \in P : /\ paid[v] = Rewards!RewardCoins(v, active, rewardSet, counters, d)
                             /\ paid[v] \in Nat
             /\ Weighs(paid, P)
             /\ PaidSum(active, rewardSet, counters, d) \in Nat
  <1> DEFINE P == Rewards!Payees(active, rewardSet, counters)
             paid == PaidCoins(active, rewardSet, counters, d)
  <1>1. P \in SUBSET Validators /\ P \subseteq rewardSet
    BY DEF Rewards!Payees, Payable
  <1>2. IsFiniteSet(P)
    <2> HIDE DEF P
    <2> QED
      BY <1>1, RewardParams, FS_Subset
  <1>3. \A v \in P : paid[v] = Rewards!RewardCoins(v, active, rewardSet, counters, d)
    BY DEF PaidCoins
  <1>4. \A v \in rewardSet : Rewards!RewardCoins(v, active, rewardSet, counters, d) \in Nat
    BY CoinsOfPayee
  <1>5. PaidSum(active, rewardSet, counters, d) = SumOver(paid, P)
    BY DEF PaidSum
  <1> HIDE DEF P, paid
  <1>6. \A v \in P : paid[v] \in Nat
    BY <1>1, <1>3, <1>4
  <1>7. Weighs(paid, P)
    BY <1>2, <1>6 DEF Weighs
  <1>8. SumOver(paid, P) \in Nat
    BY <1>7, SumType
  <1> QED
    BY <1>1, <1>2, <1>3, <1>5, <1>6, <1>7, <1>8 DEF P, paid

\* What is owed grows by what the payees of the block are given.
LEMMA OwedGrows ==
  ASSUME RewardsInv, NEW active, NEW rewardSet, NEW counters,
         Payable(active, rewardSet, counters), NEW d \in Rewards!RewardDenoms,
         outstanding' =
           [v \in Validators |-> [e \in Rewards!RewardDenoms |->
              outstanding[v][e] + (IF v \in Rewards!Payees(active, rewardSet, counters)
                                   THEN Rewards!RewardCoins(v, active, rewardSet, counters, e)
                                   ELSE 0)]]
  PROVE  /\ OwedSum(d) \in Nat
         /\ OwedSum(d)' = OwedSum(d) + PaidSum(active, rewardSet, counters, d)
  <1> DEFINE P == Rewards!Payees(active, rewardSet, counters)
             paid == PaidCoins(active, rewardSet, counters, d)
             old == [v \in Validators |-> outstanding[v][d]]
             add == [v \in Validators |-> IF v \in P THEN paid[v] ELSE 0]
             new == [v \in Validators |-> outstanding'[v][d]]
  <1>1. /\ P \in SUBSET Validators
        /\ \A v \in P : /\ paid[v] = Rewards!RewardCoins(v, active, rewardSet, counters, d)
                        /\ paid[v] \in Nat
    BY PaidCoinsWeigh DEF RewardsInv
  <1>2. OwedSum(d) = SumOver(old, Validators) /\ OwedSum(d)' = SumOver(new, Validators)
    BY DEF OwedSum
  <1>3. PaidSum(active, rewardSet, counters, d) = SumOver(paid, P)
    BY DEF PaidSum
  <1>4. \A v \in Validators : new[v] = outstanding[v][d] + add[v]
    BY <1>1
  <1>5. \A v \in Validators : outstanding[v][d] \in Nat /\ old[v] = outstanding[v][d]
    BY DEF RewardsInv
  <1> HIDE DEF P, paid
  <1>6. \A v \in Validators : add[v] \in Nat
    BY <1>1
  <1>7. (\A v \in P : add[v] = paid[v]) /\ (\A v \in Validators \ P : add[v] = 0)
    BY <1>1
  <1> HIDE DEF old, add, new
  <1>8. Weighs(old, Validators) /\ Weighs(add, Validators)
    BY <1>5, <1>6, RewardParams DEF Weighs
  <1>9. \A v \in Validators : new[v] = old[v] + add[v]
    BY <1>4, <1>5
  <1>10. \A S \in SUBSET Validators : SumOver(new, S) = SumOver(old, S) + SumOver(add, S)
    BY <1>8, <1>9, SumAdd
  <1>11. SumOver(add, Validators) = SumOver(paid, P)
    BY <1>1, <1>7, <1>8, SumPart
  <1>12. SumOver(old, Validators) \in Nat
    BY <1>8, SumType
  <1> QED
    BY <1>2, <1>3, <1>10, <1>11, <1>12

\* RewardBallotWinners keeps the books.
LEMMA RewardsStep ==
  ASSUME RewardsInv, NEW active, NEW rewardSet, NEW counters,
         rewardSet # {} => Payable(active, rewardSet, counters),
         Rewards!RewardBallotWinners(active, rewardSet, counters)
  PROVE  RewardsInv'
  <1>1. CASE rewardSet = {}
    <2>1. UNCHANGED rewardVars
      BY <1>1 DEF Rewards!RewardBallotWinners, Rewards!vars, rewardVars
    <2> QED
      BY <2>1 DEF RewardsInv, PoolTyped, OwedSum, rewardVars
  <1>2. CASE rewardSet # {}
    <2> DEFINE P == Rewards!Payees(active, rewardSet, counters)
               paid(d) == PaidSum(active, rewardSet, counters, d)
               moved(d) == IF Rewards!Moves(active, rewardSet, counters) THEN paid(d) ELSE 0
    <2>1. Payable(active, rewardSet, counters)
      BY <1>2
    <2>2. /\ ~Rewards!Overdraws(active, rewardSet, counters)
          /\ outstanding' =
               [v \in Validators |-> [e \in Rewards!RewardDenoms |->
                  outstanding[v][e] + (IF v \in Rewards!Payees(active, rewardSet, counters)
                                       THEN Rewards!RewardCoins(v, active, rewardSet, counters, e)
                                       ELSE 0)]]
          /\ rewardPool' = [d \in Rewards!RewardDenoms |-> rewardPool[d] - moved(d)]
          /\ distribution' = [d \in Rewards!RewardDenoms |-> distribution[d] + moved(d)]
          /\ abandoned' = (abandoned \/ \E d \in Rewards!RewardDenoms : paid(d) # moved(d))
      BY <1>2, DistributedIsSum DEF Rewards!RewardBallotWinners
    <2>3. \A d \in Rewards!RewardDenoms :
            /\ paid(d) \in Nat
            /\ \A v \in P : Rewards!RewardCoins(v, active, rewardSet, counters, d) \in Nat
      BY <2>1, PaidCoinsWeigh DEF RewardsInv
    <2>4. \A d \in Rewards!RewardDenoms : moved(d) \in Nat /\ moved(d) <= rewardPool[d]
      <3> SUFFICES ASSUME NEW d \in Rewards!RewardDenoms
                   PROVE  moved(d) \in Nat /\ moved(d) <= rewardPool[d]
        OBVIOUS
      <3>1. rewardPool[d] \in Nat
        BY DEF RewardsInv, PoolTyped
      <3>2. CASE Rewards!Moves(active, rewardSet, counters)
        <4>1. ~(paid(d) > rewardPool[d])
          BY <1>2, <2>2, <3>2, DistributedIsSum DEF Rewards!Overdraws
        <4> QED
          BY <2>3, <3>1, <3>2, <4>1
      <3>3. CASE ~Rewards!Moves(active, rewardSet, counters)
        BY <3>1, <3>3
      <3> QED
        BY <3>2, <3>3
    <2>5. \A d \in Rewards!RewardDenoms :
            OwedSum(d) \in Nat /\ OwedSum(d)' = OwedSum(d) + paid(d)
      BY <2>1, <2>2, OwedGrows
    <2>6. outstanding' \in [Validators -> [Rewards!RewardDenoms -> Nat]]
      BY <2>2, <2>3 DEF RewardsInv
    <2>7. \A d \in Rewards!RewardDenoms :
            moved(d) <= paid(d)
      BY <2>3
    <2> HIDE DEF moved, paid, P
    <2>10. abandoned' \in BOOLEAN
      BY <2>2, Zenon
    <2>11. ~abandoned' => ~abandoned /\ \A d \in Rewards!RewardDenoms : paid(d) = moved(d)
      BY <2>2, Zenon
    <2>8. PoolTyped' /\ distribution' \in [Rewards!RewardDenoms -> Nat]
      BY <2>2, <2>4 DEF RewardsInv, PoolTyped
    <2>9. ASSUME NEW d \in Rewards!RewardDenoms
          PROVE  /\ rewardPool'[d] + distribution'[d] = InitialPool[d]
                 /\ distribution'[d] <= OwedSum(d)'
                 /\ ~abandoned' => distribution'[d] = OwedSum(d)'
      <3>1. /\ rewardPool[d] \in Nat /\ distribution[d] \in Nat
            /\ rewardPool[d] + distribution[d] = InitialPool[d]
            /\ distribution[d] <= OwedSum(d)
            /\ ~abandoned => distribution[d] = OwedSum(d)
        BY DEF RewardsInv, PoolTyped
      <3>2. /\ rewardPool'[d] = rewardPool[d] - moved(d)
            /\ distribution'[d] = distribution[d] + moved(d)
        BY <2>2
      <3> QED
        BY <2>3, <2>4, <2>5, <2>7, <2>11, <3>1, <3>2
    <2> QED
      BY <2>6, <2>8, <2>9, <2>10 DEF RewardsInv
  <1> QED
    BY <1>1, <1>2

\* The reward set and the counters of a block are what RewardBallotWinners reckons with.
LEMMA BlockIsPayable ==
  ASSUME VotingInv, NEW active \in ActiveSets, IsPeriodLastBlock(VotePeriod)
  PROVE  RewardSetAfter(active) # {} =>
           Payable(active, RewardSetAfter(active), CountedMisses(active))
  <1>1. RewardSetAfter(active) \subseteq Validators
    BY DEF RewardSetAfter, ActiveSets, VotingInv, CommitInv, TypeOK
  <1> QED
    BY <1>1, MissesWithinMax DEF Payable

\* The books are kept in every reachable state, restarts included: the module account never
\* goes below zero, and no coin is lost or made.
THEOREM RewardsInvariant == GenesisSpec => []RewardsInv
  <1>1. GenesisInit => RewardsInv
    <2> SUFFICES ASSUME GenesisInit PROVE RewardsInv
      OBVIOUS
    <2>1. /\ rewardPool = InitialPool
          /\ distribution = [d \in Rewards!RewardDenoms |-> 0]
          /\ outstanding = [v \in Validators |-> [d \in Rewards!RewardDenoms |-> 0]]
          /\ abandoned = FALSE
      BY DEF GenesisInit, ChainInit, Rewards!Init
    <2>2. ASSUME NEW d \in Rewards!RewardDenoms PROVE OwedSum(d) = 0
      <3> DEFINE old == [v \in Validators |-> outstanding[v][d]]
      <3>1. \A v \in Validators : old[v] = 0
        BY <2>1
      <3>2. OwedSum(d) = SumOver(old, Validators)
        BY DEF OwedSum
      <3> HIDE DEF old
      <3>3. Weighs(old, Validators)
        BY <3>1, RewardParams DEF Weighs
      <3>4. SumOver(old, Validators) = SumOver(old, {})
        BY <3>1, <3>3, SumPart
      <3>5. SumOver(old, {}) = 0
        BY <3>3, SumType
      <3> QED
        BY <3>2, <3>4, <3>5
    <2>3. \A d \in Rewards!RewardDenoms : InitialPool[d] \in Nat
      BY RewardParams
    <2>4. PoolTyped
      BY <2>1, RewardParams DEF PoolTyped
    <2>5. abandoned \in BOOLEAN
      BY <2>1, Zenon
    <2> QED
      BY <2>1, <2>2, <2>3, <2>4, <2>5 DEF RewardsInv
  <1>2. VotingInv /\ RewardsInv /\ [GenesisNext]_genesisVars => RewardsInv'
    <2> SUFFICES ASSUME VotingInv, RewardsInv, [GenesisNext]_genesisVars
                 PROVE  RewardsInv'
      OBVIOUS
    <2>1. CASE UNCHANGED rewardVars
      BY <2>1 DEF RewardsInv, PoolTyped, OwedSum, rewardVars
    <2>2. ASSUME NEW active \in ActiveSets, ChainEndBlock(active)
          PROVE  RewardsInv'
      <3>1. CASE ~IsPeriodLastBlock(VotePeriod)
        BY <2>1, <2>2, <3>1 DEF ChainEndBlock, RewardOfBlock
      <3>2. CASE IsPeriodLastBlock(VotePeriod)
        <4>1. Rewards!RewardBallotWinners(active, RewardSetAfter(active), CountedMisses(active))
          BY <2>2, <3>2 DEF ChainEndBlock, RewardOfBlock
        <4>2. RewardSetAfter(active) # {} =>
                Payable(active, RewardSetAfter(active), CountedMisses(active))
          BY <3>2, BlockIsPayable
        <4> QED
          BY <4>1, <4>2, RewardsStep
      <3> QED
        BY <3>1, <3>2
    <2> QED
      BY <2>1, <2>2
         DEF GenesisNext, genesisVars, chainVars, ChainMessages, ChainEndBlockFails, Restart
  <1> QED
    BY <1>1, <1>2, VotingInvariant, PTL DEF GenesisSpec

\* Whatever the misses, the reward set, the factors and the restarts are, no coin is lost,
\* x/distribution never gets more than RewardBallotWinners has allocated, and gets all of it
\* as long as its loop has never returned before the transfer.
THEOREM AllocatedIsMovedAlways == GenesisSpec => []AllocatedIsMoved
  <1>1. RewardsInv => AllocatedIsMoved
    BY OwedIsSum DEF RewardsInv, AllocatedIsMoved
  <1> QED
    BY <1>1, RewardsInvariant, PTL

\* In every block nobody outside the reward set is paid, and nobody less than a validator
\* with at least as many misses, unless the loop has returned before its claim.
THEOREM FewerMissesEarnMoreAlways == GenesisSpec => FewerMissesEarnMore
  <1> DEFINE Fair ==
        LET paid    == bonded' \intersect validatorRewardSet'
            misses  == CountedMisses(bonded')
            stopped == {u \in paid :
                          Rewards!FactorOf(u, bonded', validatorRewardSet', misses)
                            \in Unconvertible}
        IN  \A d \in Rewards!RewardDenoms : \A v, w \in Validators :
              LET earned == [u \in Validators |-> outstanding'[u][d] - outstanding[u][d]]
              IN  /\ v \notin paid => earned[v] = 0
                  /\ /\ {v, w} \subseteq paid
                     /\ misses[v] <= misses[w]
                     /\ \A u \in stopped : Rank[v] < Rank[u]
                     => earned[v] >= earned[w]
  <1>1. VotingInv /\ RewardsInv /\ [GenesisNext]_genesisVars => [Fair]_outstanding
    <2> SUFFICES ASSUME VotingInv, RewardsInv, [GenesisNext]_genesisVars,
                        outstanding' # outstanding
                 PROVE  Fair
      OBVIOUS
    <2>1. PICK active \in ActiveSets : ChainEndBlock(active)
      BY DEF GenesisNext, genesisVars, chainVars, rewardVars, ChainMessages,
             ChainEndBlockFails, Restart
    <2> DEFINE set == RewardSetAfter(active)
               counters == CountedMisses(active)
               paid == set \intersect active
               payees == Rewards!Payees(active, set, counters)
               stopped == {u \in paid : Rewards!FactorOf(u, active, set, counters)
                                          \in Unconvertible}
               C(v, d) == Rewards!RewardCoins(v, active, set, counters, d)
               E(v, d) == outstanding'[v][d] - outstanding[v][d]
    <2>2. IsPeriodLastBlock(VotePeriod) /\ Rewards!RewardBallotWinners(active, set, counters)
      BY <2>1 DEF ChainEndBlock, RewardOfBlock, rewardVars
    <2>3. /\ set # {}
          /\ outstanding' =
               [v \in Validators |-> [e \in Rewards!RewardDenoms |->
                  outstanding[v][e] + (IF v \in payees THEN C(v, e) ELSE 0)]]
      BY <2>2 DEF Rewards!RewardBallotWinners, Rewards!vars
    <2>4. Payable(active, set, counters)
      BY <2>2, <2>3, BlockIsPayable
    <2>5. /\ payees \subseteq paid
          /\ \A v \in paid : (\A u \in stopped : Rank[v] < Rank[u]) => v \in payees
      <3>1. payees = {v \in paid : \A u \in stopped : ~(Rank[u] <= Rank[v])}
        BY DEF Rewards!Payees
      <3>2. \A v \in paid : Rank[v] \in Nat
        <4>1. Rank \in [Validators -> Nat]
          BY ChainAssumption DEF Rewards!RewardParamsValid
        <4> QED
          BY <2>4, <4>1 DEF Payable
      <3>3. stopped \subseteq paid
        OBVIOUS
      <3> HIDE DEF payees, stopped, paid
      <3> QED
        BY <3>1, <3>2, <3>3
    <2>6. bonded' = active /\ validatorRewardSet' = set
      BY <2>1 DEF ChainEndBlock, EndBlock
    <2>7. ASSUME NEW d \in Rewards!RewardDenoms
          PROVE  /\ \A v \in set : C(v, d) \in Nat
                 /\ \A v, w \in set : counters[v] <= counters[w] => C(w, d) <= C(v, d)
      <3> HIDE DEF set, counters
      <3> QED
        BY <2>4, CoinsOfPayee DEF RewardsInv
    <2> HIDE DEF C, payees
    <2>8. ASSUME NEW d \in Rewards!RewardDenoms, NEW v \in Validators
          PROVE  /\ v \in payees => E(v, d) = C(v, d) /\ C(v, d) \in Nat
                 /\ v \notin payees => E(v, d) = 0
      <3>1. outstanding[v][d] \in Nat
        BY DEF RewardsInv
      <3>2. outstanding'[v][d] = outstanding[v][d] + (IF v \in payees THEN C(v, d) ELSE 0)
        BY <2>3
      <3> HIDE DEF set
      <3>3. v \in payees => C(v, d) \in Nat
        BY <2>5, <2>7
      <3> QED
        BY <3>1, <3>2, <3>3
    <2> HIDE DEF set, counters, stopped
    <2>9. ASSUME NEW d \in Rewards!RewardDenoms, NEW v \in Validators, NEW w \in Validators
          PROVE  /\ v \notin paid => E(v, d) = 0
                 /\ /\ {v, w} \subseteq paid
                    /\ counters[v] <= counters[w]
                    /\ \A u \in stopped : Rank[v] < Rank[u]
                    => E(v, d) >= E(w, d)
      <3>1. v \notin paid => E(v, d) = 0
        BY <2>5, <2>8
      <3>2. ASSUME {v, w} \subseteq paid, counters[v] <= counters[w],
                   \A u \in stopped : Rank[v] < Rank[u]
            PROVE  E(v, d) >= E(w, d)
        <4>1. E(v, d) = C(v, d) /\ C(v, d) \in Nat
          BY <2>5, <2>8, <3>2
        <4>2. C(w, d) <= C(v, d)
          BY <2>7, <3>2
        <4>3. (E(w, d) = C(w, d) /\ C(w, d) \in Nat) \/ E(w, d) = 0
          BY <2>8
        <4> HIDE DEF E
        <4> QED
          BY <4>1, <4>2, <4>3
      <3> QED
        BY <3>1, <3>2
    <2>10. CountedMisses(bonded') = counters
      BY <2>6 DEF counters
    <2>11. bonded' \intersect validatorRewardSet' = paid
      BY <2>6
    <2>12. {u \in paid : Rewards!FactorOf(u, bonded', validatorRewardSet', counters)
                           \in Unconvertible} = stopped
      BY <2>6 DEF stopped
    <2> HIDE DEF paid
    <2> QED
      BY <2>9, <2>10, <2>11, <2>12
  <1> QED
    BY <1>1, VotingInvariant, RewardsInvariant, PTL DEF GenesisSpec, FewerMissesEarnMore

-----------------------------------------------------------------------------
(* Why a chain stops. *)

\* The shares of a denom that is in the list of the reward denoms m times do not exceed
\* what the module account holds of it, p coins, when m vote periods fit into the
\* distribution window: with r the ratio of the two, g the equal share of one of n
\* validators in units, no validator gets more than c coins, and n times c are there.
LEMMA SharesFit ==
  ASSUME NEW p \in Nat, NEW m \in Nat, NEW n \in Nat \ {0},
         VotePeriod * m <= RewardDistributionWindow
  PROVE  LET r == (VotePeriod * Unit) \div RewardDistributionWindow
             g == Unit \div n
             c == (p * g) \div Unit
         IN  /\ (m * p) * r <= p * Unit
             /\ g \in Nat /\ c \in Nat /\ r \in Nat
             /\ n * c <= p
  <1> DEFINE x == VotePeriod * Unit
             W == RewardDistributionWindow
             r == x \div W
             g == Unit \div n
             y == p * g
             c == y \div Unit
  <1>1. VotePeriod \in Nat \ {0} /\ Unit \in Nat \ {0} /\ W \in Nat \ {0}
    BY PeriodsArePositive, RewardParams
  <1>2. x \in Nat
    BY <1>1
  <1>3. r \in Nat /\ W * r <= x
    <2> HIDE DEF x
    <2> QED
      BY <1>1, <1>2, DivMod
  <1>4. g \in Nat /\ n * g <= Unit
    BY <1>1, DivMod
  <1>5. y \in Nat
    BY <1>4
  <1>6. c \in Nat /\ Unit * c <= y
    <2> HIDE DEF y, g
    <2> QED
      BY <1>1, <1>5, DivMod
  <1>7. m * r <= Unit
    <2> HIDE DEF r, W
    <2>1. W * (m * r) = m * (W * r)
      BY <1>1, <1>3
    <2>2. m * (W * r) <= m * x
      BY <1>1, <1>2, <1>3
    <2>3. m * x = (VotePeriod * m) * Unit
      BY <1>1
    <2>4. (VotePeriod * m) * Unit <= W * Unit
      BY <1>1 DEF W
    <2>5. W * (m * r) <= W * Unit
      <3>1. W * (m * r) \in Int /\ m * x \in Int /\ W * Unit \in Int
        BY <1>1, <1>2, <1>3
      <3> HIDE DEF x
      <3> QED
        BY <2>1, <2>2, <2>3, <2>4, <3>1
    <2>6. m * r \in Nat
      BY <1>3
    <2> QED
      BY <1>1, <2>5, <2>6
  <1>8. (m * p) * r <= p * Unit
    <2> HIDE DEF r
    <2>1. (m * p) * r = p * (m * r) /\ m * r \in Nat
      BY <1>3
    <2>2. p * (m * r) <= p * Unit
      BY <1>1, <1>7, <2>1
    <2> QED
      BY <2>1, <2>2
  <1>9. n * c <= p
    <2> HIDE DEF c, g
    <2>1. n * (Unit * c) <= n * y
      BY <1>1, <1>5, <1>6
    <2>2. n * (Unit * c) = Unit * (n * c) /\ n * y = p * (n * g)
      BY <1>1, <1>4, <1>6
    <2>3. p * (n * g) <= p * Unit
      BY <1>1, <1>4
    <2>4. n * c \in Nat /\ Unit * (n * c) \in Int /\ n * y \in Int /\ p * Unit \in Int
      BY <1>1, <1>5, <1>6
    <2>5. Unit * (n * c) <= Unit * p
      <3>1. p * Unit = Unit * p
        BY <1>1
      <3> HIDE DEF y
      <3> QED
        BY <2>1, <2>2, <2>3, <2>4, <3>1
    <2> QED
      BY <1>1, <2>4, <2>5
  <1> QED
    BY <1>3, <1>4, <1>6, <1>8, <1>9

\* RewardBallotWinners does not overdraw the module account.
LEMMA NoOverdraft ==
  ASSUME PoolTyped, NEW active, NEW rewardSet, NEW counters,
         Payable(active, rewardSet, counters), NEW d \in Rewards!RewardDenoms,
         VotePeriod * Rewards!Multiplicity(d) <= RewardDistributionWindow
  PROVE  PaidSum(active, rewardSet, counters, d) <= rewardPool[d]
  <1> DEFINE p == rewardPool[d]
             m == Rewards!Multiplicity(d)
             n == Cardinality(rewardSet)
             r == (VotePeriod * Unit) \div RewardDistributionWindow
             g == Unit \div n
             c == (p * g) \div Unit
             P == Rewards!Payees(active, rewardSet, counters)
             coins == PaidCoins(active, rewardSet, counters, d)
             F(v) == RewardFactor[Rewards!FactorOf(v, active, rewardSet, counters)]
             all == Rewards!PeriodRewards(d)
  <1>1. p \in Nat /\ m \in Nat /\ Unit \in Nat \ {0} /\ all \in Nat
    BY PeriodRewardsType, MultiplicityType, RewardParams
  <1>2. IsFiniteSet(rewardSet) /\ rewardSet # {}
    BY RewardParams, FS_Subset DEF Payable
  <1>3. n \in Nat \ {0}
    BY <1>2, FS_CardinalityType, FS_EmptySet
  <1>4. /\ (m * p) * r <= p * Unit
        /\ g \in Nat /\ c \in Nat /\ r \in Nat /\ n * c <= p
    <2> HIDE DEF p, m, n
    <2> QED
      BY <1>1, <1>3, SharesFit DEF m
  <1>5. all = (m * p) * r
    BY DEF Rewards!PeriodRewards
  <1>6. /\ P \subseteq rewardSet
        /\ \A v \in P : coins[v] = Rewards!RewardCoins(v, active, rewardSet, counters, d)
        /\ Weighs(coins, P)
        /\ PaidSum(active, rewardSet, counters, d) = SumOver(coins, P)
    BY PaidCoinsWeigh DEF PaidSum
  <1>7. \A v \in rewardSet : F(v) \in 0..Unit
    BY PayeeFactor
  <1>8. \A v : Rewards!RewardCoins(v, active, rewardSet, counters, d)
                 = (Rewards!Rounded(all * (F(v) \div n)) \div Unit)
    BY SameOperators DEF Rewards!RewardCoins
  <1>9. all <= p * Unit
    BY <1>4, <1>5
  <1>10. p * g \in Nat
    BY <1>1, <1>4
  <1> HIDE DEF p, m, n, r, F, all, P, coins
  <1>11. ASSUME NEW v \in P PROVE coins[v] <= c
    <2> DEFINE f == F(v) \div n
               x == Rewards!Rounded(all * f)
    <2>1. F(v) \in Nat /\ F(v) <= Unit
      BY <1>1, <1>6, <1>7
    <2>2. f \in Nat /\ f <= g
      BY <1>1, <1>3, <2>1, DivMod, PeriodsInOrder
    <2>3. coins[v] = (x \div Unit)
      BY <1>6, <1>8
    <2> HIDE DEF f, g
    <2>4. all * f \in Nat /\ all * f <= (p * g) * Unit
      <3>1. all * f <= all * g
        BY <1>1, <1>4, <2>2
      <3>2. all * g <= (p * Unit) * g
        BY <1>1, <1>4, <1>9
      <3>3. (p * Unit) * g = (p * g) * Unit
        BY <1>1, <1>4
      <3>4. all * f \in Nat /\ all * g \in Nat /\ (p * Unit) * g \in Nat
        BY <1>1, <1>4, <2>2
      <3> QED
        BY <3>1, <3>2, <3>3, <3>4
    <2>5. x \in Nat /\ x <= p * g
      BY <1>10, <2>4, RoundedFacts
    <2> HIDE DEF x
    <2> QED
      BY <1>1, <1>10, <2>3, <2>5, PeriodsInOrder
  <1>12. \A S \in SUBSET P : SumOver(coins, S) <= Cardinality(S) * c
    <2> HIDE DEF c
    <2> QED
      BY <1>4, <1>6, <1>11, SumBound
  <1>13. Cardinality(P) \in Nat /\ Cardinality(P) <= n
    BY <1>2, <1>6, FS_Subset, FS_CardinalityType DEF n
  <1>14. SumOver(coins, P) \in Nat
    BY <1>6, SumType
  <1> HIDE DEF c
  <1>15. Cardinality(P) * c <= n * c /\ Cardinality(P) * c \in Nat /\ n * c \in Nat
    BY <1>3, <1>4, <1>13
  <1>16. SumOver(coins, P) <= Cardinality(P) * c
    BY <1>12
  <1> QED
    BY <1>1, <1>4, <1>6, <1>14, <1>15, <1>16 DEF p

\* A denom with a price has a list to take the median of.
LEMMA WindowHasPrice ==
  ASSUME height \in Nat, NEW prices, NEW d,
         \A k \in DOMAIN prices : k[2] \in Nat /\ k[2] <= height,
         History!BlocksOf(prices, d) # {}
  PROVE  DOMAIN History!LastStamps(prices, d, MaximumPriceStamps) # {}
  <1> DEFINE blocks == History!BlocksOf(prices, d)
  <1>1. blocks \in SUBSET (0..height)
    BY DEF History!BlocksOf
  <1> HIDE DEF blocks
  <1>2. IsFiniteSet(blocks) /\ blocks \in SUBSET Int /\ blocks # {}
    <2>1. IsFiniteSet(0..height)
      BY FS_Interval
    <2> QED
      BY <1>1, <2>1, FS_Subset DEF blocks
  <1>3. Max(blocks) \in blocks /\ \A x \in blocks : Max(blocks) >= x
    BY <1>2, ExtremesOf
  <1>4. {e \in blocks : e > Max(blocks)} = {}
    <2> SUFFICES ASSUME NEW e \in blocks PROVE ~(e > Max(blocks))
      OBVIOUS
    <2>1. e \in Int /\ Max(blocks) \in Int /\ Max(blocks) >= e
      BY <1>2, <1>3
    <2> QED
      BY <2>1
  <1>5. Cardinality({e \in blocks : e > Max(blocks)}) < MaximumPriceStamps
    BY <1>4, FS_EmptySet, StampPeriods
  <1>6. DOMAIN History!LastStamps(prices, d, MaximumPriceStamps)
          = {c \in blocks : Cardinality({e \in blocks : e > c}) < MaximumPriceStamps}
    BY SameOperators DEF History!LastStamps, blocks
  <1> QED
    BY <1>3, <1>5, <1>6

\* History!MedianDeviation panics only on two prices whose squared distance is no decimal.
LEMMA DistantPrices ==
  ASSUME NEW p, IsRated(p), History!DeviationPanics(History!Median(p), p)
  PROVE  \E b, c \in DOMAIN p : (p[b] - p[c]) * (p[b] - p[c]) > MaxSquare
  <1>1. \A i : History!Sorted(p, i) = Ordered(p, i)
    BY SameOperators DEF History!Sorted, Ordered, Place, UpTo
  <1>2. History!Median(p) = Middle(p)
    BY <1>1, SameOperators DEF History!Median, Middle
  <1>3. PICK b \in DOMAIN p : History!SquaredDistance(p[b], History!Median(p)) > 4 * MaxSquare
    BY DEF History!DeviationPanics
  <1>4. (2 * p[b] - Middle(p)) * (2 * p[b] - Middle(p)) > 4 * MaxSquare
    BY <1>2, <1>3 DEF History!SquaredDistance
  <1> QED
    BY <1>4, DistantEntries, DecimalAssumption

\* What CalcAndSetHistoricMedian takes the median of, for a denom that was tallied: stored
\* prices and votes, at least one when a historic stamp period ends or a price is stored.
LEMMA WindowOfBlock ==
  ASSUME VotingInv, StampInv, PriceInv, NEW active \in ActiveSets,
         NEW d \in DOMAIN RatesOfBlock(active)
  PROVE  LET w == History!MedianWindow(RatesOfBlock(active), d)
         IN  /\ IsRated(w)
             /\ \A b \in DOMAIN w : w[b] \in PricesAndVotes(d)
             /\ DOMAIN w = {} => /\ ~IsPeriodLastBlock(HistoricStampPeriod)
                                 /\ History!BlocksOf(historicPrices, d) = {}
  <1> DEFINE rates == RatesOfBlock(active)
             new == [k \in History!StampsOf(rates) |-> rates[k[1]]]
             prices == History!StampedPrices(rates)
             blocks == History!BlocksOf(prices, d)
             last == IsPeriodLastBlock(HistoricStampPeriod)
             w == History!MedianWindow(rates, d)
  <1>1. height \in Nat
    BY DEF VotingInv, CommitInv, TypeOK
  <1>2. prices = IF last THEN History!PutAll(historicPrices, new) ELSE historicPrices
    BY DEF History!StampedPrices, History!IsPeriodLastBlock, IsPeriodLastBlock
  <1>3. /\ DOMAIN new = {<<e, height>> : e \in DOMAIN rates}
        /\ \A e \in DOMAIN rates : new[<<e, height>>] = rates[e]
    BY DEF History!StampsOf
  <1>4. rates[d] \in PricesAndVotes(d) /\ \A e \in DOMAIN rates : rates[e] \in Rates
    BY TalliesAreVoted, TalliesAreRates DEF PricesAndVotes
  <1>5. \A k \in DOMAIN historicPrices :
          /\ k = <<k[1], k[2]>> /\ k[2] \in Nat /\ k[2] < height
          /\ historicPrices[k] \in Rates
    BY DEF StampInv, PriceInv
  <1>6. \A b : <<d, b>> \in DOMAIN historicPrices =>
                historicPrices[<<d, b>>] \in PricesAndVotes(d)
    <2> SUFFICES ASSUME NEW b, <<d, b>> \in DOMAIN historicPrices
                 PROVE  historicPrices[<<d, b>>] \in PricesAndVotes(d)
      OBVIOUS
    <2> DEFINE k == <<d, b>>
    <2>1. k \in DOMAIN historicPrices /\ k[1] = d /\ k[2] = b
      OBVIOUS
    <2> HIDE DEF k
    <2>2. b \in History!BlocksOf(historicPrices, d)
      BY <2>1 DEF History!BlocksOf
    <2> QED
      BY <2>2 DEF PricesAndVotes
  <1> HIDE DEF rates, new, last
  <1>7. \A k \in DOMAIN prices :
          /\ k = <<k[1], k[2]>> /\ k[2] \in Nat /\ k[2] <= height
          /\ prices[k] \in Rates
          /\ k[1] = d => prices[k] \in PricesAndVotes(d)
    <2>1. CASE last
      <3>1. /\ DOMAIN prices = DOMAIN historicPrices \union DOMAIN new
            /\ \A k \in DOMAIN new : prices[k] = new[k]
            /\ \A k \in DOMAIN historicPrices \ DOMAIN new : prices[k] = historicPrices[k]
        BY <1>2, <2>1 DEF History!PutAll
      <3> HIDE DEF prices
      <3>2. \A k \in DOMAIN new : /\ k = <<k[1], k[2]>> /\ k[2] = height
                                  /\ k[1] \in DOMAIN rates /\ new[k] = rates[k[1]]
        BY <1>3
      <3>3. ASSUME NEW k \in DOMAIN new
            PROVE  /\ k = <<k[1], k[2]>> /\ k[2] \in Nat /\ k[2] <= height
                   /\ prices[k] \in Rates
                   /\ k[1] = d => prices[k] \in PricesAndVotes(d)
        BY <1>1, <1>4, <3>1, <3>2
      <3>4. ASSUME NEW k \in DOMAIN historicPrices \ DOMAIN new
            PROVE  /\ k = <<k[1], k[2]>> /\ k[2] \in Nat /\ k[2] <= height
                   /\ prices[k] \in Rates
                   /\ k[1] = d => prices[k] \in PricesAndVotes(d)
        BY <1>1, <1>5, <1>6, <3>1
      <3> QED
        BY <3>1, <3>3, <3>4
    <2>2. CASE ~last
      <3>1. prices = historicPrices
        BY <1>2, <2>2
      <3> HIDE DEF prices
      <3> QED
        BY <1>1, <1>5, <1>6, <3>1
    <2> QED
      BY <2>1, <2>2
  <1>8. History!MedianWindow(rates, d) = History!LastStamps(prices, d, MaximumPriceStamps)
    BY DEF History!MedianWindow
  <1>9. last => height \in blocks
    <2> SUFFICES ASSUME last PROVE height \in blocks
      OBVIOUS
    <2>1. <<d, height>> \in DOMAIN prices
      <3>1. <<d, height>> \in DOMAIN new
        BY <1>3 DEF rates
      <3> QED
        BY <1>2, <3>1 DEF History!PutAll
    <2> QED
      BY <2>1 DEF History!BlocksOf
  <1>10. ~last => blocks = History!BlocksOf(historicPrices, d)
    BY <1>2
  <1> HIDE DEF prices
  <1>11. \A b \in blocks : b \in 0..height /\ <<d, b>> \in DOMAIN prices
    BY <1>1, <1>7 DEF History!BlocksOf
  <1>12. DOMAIN w \subseteq blocks /\ \A b \in DOMAIN w : w[b] = prices[<<d, b>>]
    BY <1>8 DEF History!LastStamps
  <1>13. DOMAIN w = {} => blocks = {}
    BY <1>1, <1>7, <1>8, WindowHasPrice
  <1> HIDE DEF blocks, w
  <1>14. \A b \in DOMAIN w : w[b] \in Rates /\ w[b] \in PricesAndVotes(d)
    <2> SUFFICES ASSUME NEW b \in DOMAIN w
                 PROVE  w[b] \in Rates /\ w[b] \in PricesAndVotes(d)
      OBVIOUS
    <2> DEFINE k == <<d, b>>
    <2>1. k \in DOMAIN prices /\ k[1] = d /\ w[b] = prices[k]
      BY <1>11, <1>12
    <2> HIDE DEF k
    <2> QED
      BY <1>7, <2>1
  <1>15. IsRated(w)
    <2>1. DOMAIN w \in SUBSET (0..height)
      BY <1>11, <1>12
    <2>2. IsFiniteSet(0..height)
      BY <1>1, FS_Interval
    <2>3. IsFiniteSet(DOMAIN w)
      BY <2>1, <2>2, FS_Subset
    <2>4. \A b \in DOMAIN w : b \in Int /\ w[b] \in Nat
      BY <1>1, <1>14, <2>1, RatesAreNumbers
    <2> QED
      BY <2>3, <2>4 DEF IsRated
  <1>16. DOMAIN w = {} => ~last /\ History!BlocksOf(historicPrices, d) = {}
    BY <1>9, <1>10, <1>13
  <1> QED
    BY <1>14, <1>15, <1>16 DEF w, rates, last

\* CalcAndSetHistoricMedian fails only for a denom without a price, in a block that does
\* not stamp one itself, or for one with prices and votes too far apart.
LEMMA MedianFailsExplained ==
  ASSUME VotingInv, StampInv, PriceInv, NEW active \in ActiveSets,
         History!MedianFails(RatesOfBlock(active))
  PROVE  /\ IsPeriodLastBlock(MedianStampPeriod)
         /\ \E d \in DOMAIN RatesOfBlock(active) :
              \/ /\ ~IsPeriodLastBlock(HistoricStampPeriod)
                 /\ History!BlocksOf(historicPrices, d) = {}
              \/ \E p, q \in PricesAndVotes(d) : (p - q) * (p - q) > MaxSquare
  <1> DEFINE rates == RatesOfBlock(active)
  <1>1. IsPeriodLastBlock(MedianStampPeriod)
    BY DEF History!MedianFails, History!IsPeriodLastBlock, IsPeriodLastBlock
  <1>2. PICK d \in DOMAIN rates :
          \/ DOMAIN History!MedianWindow(rates, d) = {}
          \/ History!DeviationPanics(History!Median(History!MedianWindow(rates, d)),
                                     History!MedianWindow(rates, d))
    BY DEF History!MedianFails
  <1> DEFINE w == History!MedianWindow(rates, d)
  <1>3. /\ IsRated(w)
        /\ \A b \in DOMAIN w : w[b] \in PricesAndVotes(d)
        /\ DOMAIN w = {} => /\ ~IsPeriodLastBlock(HistoricStampPeriod)
                            /\ History!BlocksOf(historicPrices, d) = {}
    BY WindowOfBlock
  <1>4. CASE DOMAIN w = {}
    BY <1>1, <1>3, <1>4
  <1>5. CASE History!DeviationPanics(History!Median(w), w)
    <2> HIDE DEF w
    <2>1. \E b, c \in DOMAIN w : (w[b] - w[c]) * (w[b] - w[c]) > MaxSquare
      BY <1>3, <1>5, DistantPrices
    <2>2. \E p, q \in PricesAndVotes(d) : (p - q) * (p - q) > MaxSquare
      BY <1>3, <2>1
    <2> QED
      BY <1>1, <2>2
  <1> QED
    BY <1>2, <1>4, <1>5

\* A chain stops for nothing but an unbanded vote, a median stamp on a denom without
\* prices or with prices too far apart, or a base denom that is in the AcceptList too
\* often, whatever is voted, whoever is active and however often the chain is restarted.
THEOREM HaltsAreExplainedAlways == GenesisSpec => []HaltsAreExplained
  <1>1. GenesisInit => HaltsAreExplained
    BY DEF GenesisInit, ChainInit, Init, HaltsAreExplained
  <1>2. VotingInv /\ StampInv /\ PriceInv /\ RewardsInv /\ HaltsAreExplained
          /\ [GenesisNext]_genesisVars
          => HaltsAreExplained'
    <2> SUFFICES ASSUME VotingInv, StampInv, PriceInv, RewardsInv, HaltsAreExplained,
                        [GenesisNext]_genesisVars
                 PROVE  HaltsAreExplained'
      OBVIOUS
    <2>1. CASE UNCHANGED <<height, halted, votes, historicPrices>>
      <3>1. \A d : /\ PricesAndVotes(d)' = PricesAndVotes(d)
                   /\ History!BlocksOf(historicPrices, d)' = History!BlocksOf(historicPrices, d)
        BY <2>1 DEF PricesAndVotes, History!BlocksOf
      <3>2. \A n : IsPeriodLastBlock(n)' <=> IsPeriodLastBlock(n)
        BY <2>1 DEF IsPeriodLastBlock
      <3> QED
        BY <2>1, <3>1, <3>2 DEF HaltsAreExplained
    <2>2. CASE ~halted /\ UNCHANGED halted
      BY <2>2 DEF HaltsAreExplained
    <2>3. ASSUME NEW active \in ActiveSets, ChainEndBlockFails(active)
          PROVE  HaltsAreExplained'
      <3>1. /\ height' = height /\ votes' = votes /\ historicPrices' = historicPrices
            /\ IsPeriodLastBlock(VotePeriod) /\ BlockFails(active)
        BY <2>3 DEF ChainEndBlockFails, BlockFails, historyVars
      <3>2. \A d \in PassingDenoms(active) :
              \E v \in DOMAIN votes : d \in DOMAIN votes[v]
        BY DEF PassingDenoms, Ballot
      <3>3. CASE BandMissing(active)
        <4>1. \E v \in DOMAIN votes : ~(DOMAIN votes[v] \subseteq DOMAIN RewardBands)
          BY <3>2, <3>3 DEF BandMissing
        <4> QED
          BY <3>1, <4>1 DEF HaltsAreExplained
      <3>4. CASE History!MedianFails(RatesOfBlock(active))
        <4>1. DOMAIN RatesOfBlock(active) = PassingDenoms(active)
          BY <3>1 DEF RatesOfBlock, TalliedRates
        <4>2. IsPeriodLastBlock(MedianStampPeriod)
          BY <3>4, MedianFailsExplained
        <4>3. PICK d \in PassingDenoms(active) :
                \/ /\ ~IsPeriodLastBlock(HistoricStampPeriod)
                   /\ History!BlocksOf(historicPrices, d) = {}
                \/ \E p, q \in PricesAndVotes(d) : (p - q) * (p - q) > MaxSquare
          BY <3>4, <4>1, MedianFailsExplained
        <4>4. PICK v \in DOMAIN votes : d \in DOMAIN votes[v]
          BY <3>2
        <4>5. PricesAndVotes(d)' = PricesAndVotes(d)
              /\ History!BlocksOf(historicPrices, d)' = History!BlocksOf(historicPrices, d)
          BY <3>1 DEF PricesAndVotes, History!BlocksOf
        <4>6. /\ IsPeriodLastBlock(MedianStampPeriod)'
              /\ IsPeriodLastBlock(HistoricStampPeriod)'
                   <=> IsPeriodLastBlock(HistoricStampPeriod)
          BY <3>1, <4>2 DEF IsPeriodLastBlock
        <4>7. CASE /\ ~IsPeriodLastBlock(HistoricStampPeriod)
                   /\ History!BlocksOf(historicPrices, d) = {}
          BY <3>1, <4>4, <4>5, <4>6, <4>7 DEF HaltsAreExplained
        <4>8. CASE \E p, q \in PricesAndVotes(d) : (p - q) * (p - q) > MaxSquare
          BY <3>1, <4>4, <4>5, <4>6, <4>8 DEF HaltsAreExplained
        <4> QED
          BY <4>3, <4>7, <4>8
      <3>5. CASE Rewards!Overdraws(active, RewardSetAfter(active), CountedMisses(active))
        <4> DEFINE set == RewardSetAfter(active)
                   counters == CountedMisses(active)
        <4>1. set # {}
          BY <3>5 DEF Rewards!Overdraws
        <4>2. PICK d \in Rewards!RewardDenoms :
                PaidSum(active, set, counters, d) > rewardPool[d]
          BY <3>5, DistributedIsSum DEF Rewards!Overdraws
        <4>3. Payable(active, set, counters)
          BY <3>1, <4>1, BlockIsPayable
        <4> HIDE DEF set, counters
        <4>4. PaidSum(active, set, counters, d) \in Nat /\ rewardPool[d] \in Nat /\ PoolTyped
          BY <4>3, PaidCoinsWeigh DEF RewardsInv, PoolTyped
        <4>5. ~(VotePeriod * Rewards!Multiplicity(d) <= RewardDistributionWindow)
          BY <4>2, <4>3, <4>4, NoOverdraft
        <4>6. VotePeriod * Rewards!Multiplicity(d) > RewardDistributionWindow
          <5>1. VotePeriod \in Nat /\ RewardDistributionWindow \in Nat
                /\ Rewards!Multiplicity(d) \in Nat
            BY PeriodsArePositive, RewardParams, MultiplicityType
          <5> QED
            BY <4>5, <5>1
        <4> QED
          BY <4>6 DEF HaltsAreExplained
      <3> QED
        BY <3>1, <3>3, <3>4, <3>5 DEF BlockFails
    <2>4. CASE ChainMessages
      BY <2>2, <2>4
         DEF ChainMessages, Messages, AggregateExchangeRatePrevote,
             AggregateExchangeRateVote, DelegateFeedConsent, Unjail
    <2>5. CASE Restart
      BY <2>2, <2>5 DEF Restart
    <2>6. ASSUME NEW active \in ActiveSets, ChainEndBlock(active)
          PROVE  HaltsAreExplained'
      BY <2>2, <2>6 DEF ChainEndBlock, EndBlock
    <2> QED
      BY <2>1, <2>3, <2>4, <2>5, <2>6
         DEF GenesisNext, genesisVars, chainVars, vars, historyVars
  <1> QED
    BY <1>1, <1>2, VotingInvariant, StampInvariant, PriceInvariant, RewardsInvariant, PTL
       DEF GenesisSpec

\* A configuration in which EndBlocker never fails: every accepted denom has a reward band,
\* the median stamp period is a multiple of the historic one, no base denom is accepted so
\* often that its shares exceed the distribution window, and no two rates are so far apart
\* that the square of their distance is no decimal.  Neither Params.Validate nor the check
\* of a vote requires any of this; together it is enough.
THEOREM ChainNeverHalts ==
  ASSUME AcceptList \subseteq DOMAIN RewardBands,
         (MedianStampPeriod % HistoricStampPeriod) = 0,
         \A d \in Rewards!RewardDenoms :
           VotePeriod * Rewards!Multiplicity(d) <= RewardDistributionWindow,
         \A r, s \in Rates : (r - s) * (r - s) <= MaxSquare
  PROVE  GenesisSpec => []~halted
  <1>1. VotingInv /\ PriceInv /\ HaltsAreExplained => ~halted
    <2> SUFFICES ASSUME VotingInv, PriceInv, HaltsAreExplained, halted PROVE FALSE
      OBVIOUS
    <2>1. height \in Nat
      BY DEF VotingInv, CommitInv, TypeOK
    <2>2. \A v \in DOMAIN votes : DOMAIN votes[v] \subseteq DOMAIN RewardBands
      BY DEF VotingInv, CommitInv, TypeOK, IsStore
    <2>3. IsPeriodLastBlock(MedianStampPeriod) => IsPeriodLastBlock(HistoricStampPeriod)
      <3>1. MedianStampPeriod \in Nat \ {0} /\ HistoricStampPeriod \in Nat \ {0}
        BY ChainAssumption DEF History!StampParamsValid
      <3> DEFINE h == height + 1
      <3>2. h \in Nat
        BY <2>1
      <3> HIDE DEF h
      <3>3. (h % HistoricStampPeriod) = ((h % MedianStampPeriod) % HistoricStampPeriod)
        BY <3>1, <3>2, WindowAligned
      <3>4. (0 % HistoricStampPeriod) = 0
        BY <3>1
      <3> QED
        BY <3>3, <3>4 DEF IsPeriodLastBlock, h
    <2>4. \A d \in Rewards!RewardDenoms :
            ~(VotePeriod * Rewards!Multiplicity(d) > RewardDistributionWindow)
      <3> SUFFICES ASSUME NEW d \in Rewards!RewardDenoms
                   PROVE  ~(VotePeriod * Rewards!Multiplicity(d) > RewardDistributionWindow)
        OBVIOUS
      <3>1. VotePeriod \in Nat /\ RewardDistributionWindow \in Nat
            /\ Rewards!Multiplicity(d) \in Nat
        BY PeriodsArePositive, RewardParams, MultiplicityType
      <3>2. VotePeriod * Rewards!Multiplicity(d) <= RewardDistributionWindow
        OBVIOUS
      <3> QED
        BY <3>1, <3>2
    <2>5. \A d : \A p, q \in PricesAndVotes(d) : ~((p - q) * (p - q) > MaxSquare)
      <3> SUFFICES ASSUME NEW d, NEW p \in PricesAndVotes(d), NEW q \in PricesAndVotes(d)
                   PROVE  ~((p - q) * (p - q) > MaxSquare)
        OBVIOUS
      <3>1. \A b \in History!BlocksOf(historicPrices, d) : <<d, b>> \in DOMAIN historicPrices
        BY DEF History!BlocksOf, PriceInv
      <3>2. \A b \in History!BlocksOf(historicPrices, d) : historicPrices[<<d, b>>] \in Rates
        BY <3>1 DEF PriceInv
      <3>3. PricesAndVotes(d) \subseteq Rates
        BY <3>2, VotesAreRates DEF PricesAndVotes
      <3>4. p \in Int /\ q \in Int
        BY <3>3, RatesAreNumbers
      <3>5. (p - q) * (p - q) <= MaxSquare
        BY <3>3
      <3>6. (p - q) * (p - q) \in Int
        BY <3>4
      <3> QED
        BY <3>5, <3>6, DecimalAssumption
    <2> QED
      BY <2>2, <2>3, <2>4, <2>5 DEF HaltsAreExplained
  <1> QED
    BY <1>1, VotingInvariant, PriceInvariant, HaltsAreExplainedAlways, PTL
=============================================================================
