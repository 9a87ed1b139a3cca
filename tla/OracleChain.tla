---------------------------- MODULE OracleChain ----------------------------
(***************************************************************************)
(* The oracle of a running chain: the messages of a block and the whole    *)
(* EndBlocker (abci/endblocker.go), composed of the voting, the historic   *)
(* prices and the rewards.  One EndBlock is one step, on all the stores.   *)
(***************************************************************************)
EXTENDS OracleVoting

CONSTANTS
  HistoricStampPeriod, MedianStampPeriod, MaximumPriceStamps, MaximumMedianStamps,
  Rank, BaseDenom, DmDenom, RewardDistributionWindow, InitialPool, Unit, RewardFactor,
  Unconvertible

VARIABLES
  historicPrices, medianPrices, medianDeviations, lastHistoricPriceBlock,
  rewardPool, distribution, outstanding, abandoned

\* The rates that can be tallied: those that can be voted.
Rates == UNION {{r[d] : d \in DOMAIN r} : r \in RateMaps}

History == INSTANCE OracleHistory
Rewards == INSTANCE OracleRewards

ASSUME ChainAssumption == History!StampParamsValid /\ Rewards!RewardParamsValid

historyVars == <<historicPrices, medianPrices, medianDeviations, lastHistoricPriceBlock>>
rewardVars  == <<rewardPool, distribution, outstanding, abandoned>>
chainVars   == <<vars, historyVars, rewardVars>>

ChainInit == Init /\ History!Init /\ Rewards!Init

\* The rates of this block, for the stamps.
RatesOfBlock(active) == IF IsPeriodLastBlock(VotePeriod) THEN TalliedRates(active) ELSE << >>

\* CalcPrices fails on a ballot, on its median, or on the rewards.
BlockFails(active) ==
  /\ IsPeriodLastBlock(VotePeriod)
  /\ \/ BandMissing(active)
     \/ History!MedianFails(RatesOfBlock(active))
     \/ Rewards!Overdraws(active, RewardSetAfter(active), CountedMisses(active))

\* The rewards of this block: with its reward set, after its misses are counted, and
\* before SlashAndResetMissCounters.
RewardOfBlock(active) ==
  IF IsPeriodLastBlock(VotePeriod)
  THEN Rewards!RewardBallotWinners(active, RewardSetAfter(active), CountedMisses(active))
  ELSE UNCHANGED rewardVars

ChainEndBlock(active) ==
  /\ ~BlockFails(active)
  /\ EndBlock(active)
  /\ History!StampAndPrune(RatesOfBlock(active))
  /\ RewardOfBlock(active)

\* The module panics on the error of EndBlocker and the block is not committed.
ChainEndBlockFails(active) ==
  /\ ~halted
  /\ height < MaxHeight
  /\ BlockFails(active)
  /\ halted' = TRUE
  /\ UNCHANGED <<height, bonded, jailed, feederDelegations, prevotes, votes,
                 exchangeRates, missCounters, validatorRewardSet, origin, clean,
                 historyVars, rewardVars>>

\* The messages of a block leave the stamps and the rewards alone.
ChainMessages == Messages /\ UNCHANGED <<historyVars, rewardVars>>

ChainNext ==
  \/ ChainMessages
  \/ \E active \in ActiveSets : ChainEndBlock(active) \/ ChainEndBlockFails(active)

ChainSpec == ChainInit /\ [][ChainNext]_chainVars

-----------------------------------------------------------------------------
(* Correctness. *)

\* The last block that ended a vote period, 0 at the start.
LastTally == ((height \div VotePeriod) * VotePeriod) - 1

\* CalcPrices stamps the rates it tallies, and no others: the historic price of the last
\* tally is the current rate, and every current rate has one when its block was to be
\* stamped.
StampsAreCurrentRates ==
  \A d \in Denoms :
    LastTally > 0 =>
      /\ <<d, LastTally>> \in DOMAIN historicPrices =>
           d \in DOMAIN exchangeRates /\ historicPrices[<<d, LastTally>>] = exchangeRates[d]
      /\ d \in DOMAIN exchangeRates /\ (LastTally + 1) % HistoricStampPeriod = 0 =>
           <<d, LastTally>> \in DOMAIN historicPrices

\* What is allocated to the validators of a denom.
Owed(d) ==
  LET owed == [v \in Validators |-> outstanding[v][d]]
  IN  MapThenSumSet(LAMBDA v : owed[v], Validators)

\* What RewardBallotWinners allocates to validators it also moves out of the module account,
\* unless its loop has returned in between: then x/distribution owes more than it has got.
\* It never gets more than it owes, and the account loses nothing else.
AllocatedIsMoved ==
  \A d \in Rewards!RewardDenoms :
    /\ rewardPool[d] + distribution[d] = InitialPool[d]
    /\ distribution[d] <= Owed(d)
    /\ ~abandoned => distribution[d] = Owed(d)

\* The rates that are stored and those that can be tallied for a denom.
PricesAndVotes(d) ==
  {historicPrices[<<d, b>>] : b \in History!BlocksOf(historicPrices, d)}
    \union {votes[v][d] : v \in {w \in DOMAIN votes : d \in DOMAIN votes[w]}}

\* A chain stops only for a vote on a denom without a reward band, for a median stamp on
\* a denom without prices or with prices and votes whose squared distance is no decimal, or
\* for a base denom so often in the AcceptList that its shares exceed the module account:
\* RewardBallotWinners never overdraws otherwise.
HaltsAreExplained ==
  halted =>
    \/ \E v \in DOMAIN votes : ~(DOMAIN votes[v] \subseteq DOMAIN RewardBands)
    \/ /\ IsPeriodLastBlock(MedianStampPeriod)
       /\ ~IsPeriodLastBlock(HistoricStampPeriod)
       /\ \E v \in DOMAIN votes :
            \E d \in DOMAIN votes[v] : History!BlocksOf(historicPrices, d) = {}
    \/ /\ IsPeriodLastBlock(MedianStampPeriod)
       /\ \E v \in DOMAIN votes : \E d \in DOMAIN votes[v] :
            \E p, q \in PricesAndVotes(d) : (p - q) * (p - q) > MaxSquare
    \/ \E d \in Rewards!RewardDenoms :
         VotePeriod * Rewards!Multiplicity(d) > RewardDistributionWindow

\* What RewardBallotWinners adds in one block: nothing for a validator outside the
\* reward set of the block, and never less for fewer misses, unless its loop has returned
\* before the claim of the one with fewer, at a claim whose factor is no decimal.
FewerMissesEarnMore ==
  [][LET paid    == bonded' \intersect validatorRewardSet'
         misses  == CountedMisses(bonded')
         stopped == {u \in paid : Rewards!FactorOf(u, bonded', validatorRewardSet', misses)
                                    \in Unconvertible}
     IN  \A d \in Rewards!RewardDenoms : \A v, w \in Validators :
           LET earned == [u \in Validators |-> outstanding'[u][d] - outstanding[u][d]]
           IN  /\ v \notin paid => earned[v] = 0
               /\ /\ {v, w} \subseteq paid
                  /\ misses[v] <= misses[w]
                  /\ \A u \in stopped : Rank[v] < Rank[u]
                  => earned[v] >= earned[w]
    ]_outstanding

-----------------------------------------------------------------------------
(* What a comment says of the module, and the code does not do. *)

\* The comment on the transfer of RewardBallotWinners: it moves the distributed reward to
\* the distribution module, which can then pay what the validators were allocated.
OwedIsFunded == \A d \in Rewards!RewardDenoms : distribution[d] = Owed(d)
=============================================================================
