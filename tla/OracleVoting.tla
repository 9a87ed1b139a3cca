---------------------------- MODULE OracleVoting ----------------------------
(***************************************************************************)
(* The commit-reveal voting of x/oracle: the three messages feeders and    *)
(* validators send (keeper/msg_server.go), and the part of the EndBlocker  *)
(* that tallies the votes, counts misses and slashes (abci/endblocker.go,  *)
(* keeper/ballot.go, keeper/slash.go), for one set of parameters.          *)
(*                                                                         *)
(* A rejected message changes nothing and is not an action.                *)
(***************************************************************************)
EXTENDS OracleBallot, OracleStores

CONSTANTS
  Validators,         \* operator addresses; each is also its own account address
  Delegates,          \* further accounts a validator may let feed for it
  Power,              \* consensus power of each validator
  Denoms,             \* denoms a feeder may send a rate for
  RateMaps,           \* the exchange rates a feeder may send: denom -> rate
  Salts,              \* the salts of the commitments
  AcceptList,         \* params.AcceptList, as the set of its symbol denoms
  MandatoryList,      \* params.MandatoryList, likewise
  RewardBands,        \* params.RewardBands: denom -> band in percent
  VotePeriod,         \* params.VotePeriod, in blocks
  SlashWindow,        \* params.SlashWindow, in blocks
  VoteThreshold,      \* params.VoteThreshold, in percent
  MinValidPerWindow,  \* params.MinValidPerWindow, in percent
  SlashingEnabled,    \* params.SlashingEnabled
  MaxHeight           \* bound on the block height

\* What Params.Validate requires of the parameters, and what the messages'
\* ValidateBasic and ParseExchangeRateDecCoins require of the rates sent.
ASSUME ParamsAssumption ==
  /\ IsFiniteSet(Validators)
  /\ IsFiniteSet(Denoms)
  /\ Power \in [Validators -> Nat \ {0}]
  /\ \A r \in RateMaps : IsStore(r, Denoms, Nat \ {0})
  /\ AcceptList \subseteq Denoms
  /\ MandatoryList \subseteq AcceptList
  /\ IsStore(RewardBands, Denoms, 0..100)
  /\ VotePeriod \in Nat \ {0}
  /\ SlashWindow \in Nat \ {0}
  /\ SlashWindow % VotePeriod = 0
  /\ VoteThreshold \in 34..100
  /\ MinValidPerWindow \in 0..100
  /\ SlashingEnabled \in BOOLEAN
  /\ MaxHeight \in Nat

VARIABLES
  height,             \* height of the block being executed
  bonded,             \* x/staking: validators with status Bonded
  jailed,             \* x/staking: validators jailed by x/oracle
  halted,             \* EndBlock returned an error: no block follows
  feederDelegations,  \* keeper.FeederDelegations
  prevotes,           \* keeper.Prevotes
  votes,              \* keeper.Votes
  exchangeRates,      \* keeper.ExchangeRates
  missCounters,       \* keeper.MissCounters; 0 is an absent counter
  validatorRewardSet, \* keeper.ValidatorRewardSet
  origin,             \* history: the prevote that each stored vote has opened
  clean               \* history: in this slash window, the vote periods a validator
                      \* has ended without a miss

vars == <<height, bonded, jailed, halted, feederDelegations, prevotes, votes,
          exchangeRates, missCounters, validatorRewardSet, origin, clean>>

Accounts == Validators \union Delegates

\* GetAggregateVoteHash: SHA-256 over salt, rates and voter, as the triple itself.
Hash == [salt : Salts, rates : RateMaps, voter : Validators]

Prevote == [hash : Hash, submitBlock : Nat]

TypeOK ==
  /\ height \in Nat
  /\ bonded \subseteq Validators
  /\ jailed \subseteq Validators
  /\ halted \in BOOLEAN
  /\ IsStore(feederDelegations, Validators, Accounts)
  /\ IsStore(prevotes, Validators, Prevote)
  /\ DOMAIN votes \subseteq Validators
  /\ votes = [v \in DOMAIN votes |-> votes[v]]
  /\ \A v \in DOMAIN votes : IsStore(votes[v], AcceptList, Nat \ {0})
  /\ DOMAIN exchangeRates \subseteq AcceptList
  /\ missCounters \in [Validators -> Nat]
  /\ validatorRewardSet \subseteq Validators
  /\ IsStore(origin, Validators, Prevote)
  /\ clean \in [Validators -> Nat]

\* The first block of a chain whose genesis has no oracle state.
Init ==
  /\ height = 1
  /\ bonded \in (SUBSET Validators) \ {{}}
  /\ jailed = {}
  /\ halted = FALSE
  /\ feederDelegations = << >>
  /\ prevotes = << >>
  /\ votes = << >>
  /\ exchangeRates = << >>
  /\ missCounters = [v \in Validators |-> 0]
  /\ validatorRewardSet = {}
  /\ origin = << >>
  /\ clean = [v \in Validators |-> 0]

-----------------------------------------------------------------------------
(* Messages. *)

\* GetFeederDelegation: without a delegation the validator feeds for itself.
FeederOf(v) == IF v \in DOMAIN feederDelegations THEN feederDelegations[v] ELSE v

\* ValidateFeeder: only bonded validators have a feeder; a jailed validator is
\* bonded until x/staking next updates the validator set.
ValidateFeeder(feeder, v) == v \in bonded /\ feeder = FeederOf(v)

\* The vote period of a block height.
PeriodOf(h) == h \div VotePeriod

\* Mutant of RevealPeriodMatches: a reveal in the period of the prevote is let in.
RevealNotTooLate(submitBlock) == PeriodOf(height) - PeriodOf(submitBlock) <= 1

\* The check of AggregateExchangeRateVote on the prevote's period; the prevote is
\* never from a later block, so that the uint64 difference does not wrap.
RevealPeriodMatches(submitBlock) == PeriodOf(height) - PeriodOf(submitBlock) = 1

\* Mutant of FilteredRates: rates of denoms that are not accepted are stored too.
UnfilteredRates(rates) == rates

\* The rates AggregateExchangeRateVote stores: those of the AcceptList.
FilteredRates(rates) == Keep(rates, AcceptList)

AggregateExchangeRatePrevote(feeder, v, hash) ==
  /\ ~halted
  /\ ValidateFeeder(feeder, v)
  /\ v \notin DOMAIN prevotes
  /\ prevotes' = Put(prevotes, v, [hash |-> hash, submitBlock |-> height])
  /\ UNCHANGED <<height, bonded, jailed, halted, feederDelegations, votes,
                 exchangeRates, missCounters, validatorRewardSet, origin, clean>>

AggregateExchangeRateVote(feeder, v, salt, rates) ==
  /\ ~halted
  /\ ValidateFeeder(feeder, v)
  /\ v \in DOMAIN prevotes
  /\ RevealPeriodMatches(prevotes[v].submitBlock)
  /\ prevotes[v].hash = [salt |-> salt, rates |-> rates, voter |-> v]
  /\ votes' = Put(votes, v, FilteredRates(rates))
  /\ prevotes' = Keep(prevotes, Validators \ {v})
  /\ origin' = Put(origin, v, prevotes[v])
  /\ UNCHANGED <<height, bonded, jailed, halted, feederDelegations,
                 exchangeRates, missCounters, validatorRewardSet, clean>>

DelegateFeedConsent(v, delegate) ==
  /\ ~halted
  /\ feederDelegations' = Put(feederDelegations, v, delegate)
  /\ UNCHANGED <<height, bonded, jailed, halted, prevotes, votes, exchangeRates,
                 missCounters, validatorRewardSet, origin, clean>>

\* x/slashing's MsgUnjail, for a validator that x/oracle has jailed.
Unjail(v) ==
  /\ ~halted
  /\ v \in jailed
  /\ jailed' = jailed \ {v}
  /\ UNCHANGED <<height, bonded, halted, feederDelegations, prevotes, votes,
                 exchangeRates, missCounters, validatorRewardSet, origin, clean>>

-----------------------------------------------------------------------------
(* EndBlock.  In the same block x/staking's EndBlock runs before it and makes *)
(* active the bonded validators, none of them jailed: they are the claims.    *)

IsPeriodLastBlock(blocksPerPeriod) == (height + 1) % blocksPerPeriod = 0

\* Mutant of Ballot: the votes of inactive validators are not filtered out.
BallotOfAllVotes(active, d) ==
  [v \in {w \in DOMAIN votes : d \in DOMAIN votes[w]} |-> votes[v][d]]

\* OrganizeBallotByDenom: the votes of the active validators on denom d.
Ballot(active, d) ==
  [v \in {w \in active \intersect DOMAIN votes : d \in DOMAIN votes[w]} |-> votes[v][d]]

\* The denoms CalcPrices does not drop: someone voted on them, they are listed
\* and the power behind the ballot reaches the threshold.
PassingDenoms(active) ==
  {d \in AcceptList \union MandatoryList :
     /\ DOMAIN Ballot(active, d) # {}
     /\ Support(Ballot(active, d), Power, active) >= VoteThreshold}

\* Mutant of BandMissing: the bands of all accepted denoms are looked up.
BandMissingInParams(active) == ~(AcceptList \subseteq DOMAIN RewardBands)

\* GetBandFromDenom fails for a passing ballot: EndBlocker returns its error.
BandMissing(active) == ~(PassingDenoms(active) \subseteq DOMAIN RewardBands)

\* Mutant of TalliedRates: the rates of the last period are not cleared.
TalliedOverOldRates(active) ==
  [d \in DOMAIN exchangeRates \union PassingDenoms(active) |->
     IF d \in PassingDenoms(active)
     THEN WeightedMedian(Ballot(active, d), Power) ELSE exchangeRates[d]]

\* ClearExchangeRates, and SetExchangeRate for each passing ballot.
TalliedRates(active) ==
  [d \in PassingDenoms(active) |-> WeightedMedian(Ballot(active, d), Power)]

\* The claim's MandatoryWinCount, as the set of the denoms won.
MandatoryWins(active, v) ==
  {d \in PassingDenoms(active) \intersect MandatoryList :
     v \in Winners(Ballot(active, d), Power, RewardBands[d])}

\* The claim's misses; a claim never wins more than the mandatory denoms.
Misses(active, v) ==
  Cardinality(MandatoryList) - Cardinality(MandatoryWins(active, v))

\* The counters after the miss counting of CalcPrices: every claim is counted.
CountedMisses(active) ==
  [v \in Validators |->
     missCounters[v] + (IF IsPeriodLastBlock(VotePeriod) /\ v \in active
                        THEN Misses(active, v) ELSE 0)]

\* The history clean likewise: one more where the period that ends adds no miss.
CountedClean(active) ==
  [v \in Validators |->
     clean[v] + (IF IsPeriodLastBlock(VotePeriod) /\ v \in active /\ Misses(active, v) = 0
                 THEN 1 ELSE 0)]

\* Mutants of UnexpiredPrevotes: every prevote is cleared; prevotes live too long.
NoPrevoteKept == Keep(prevotes, {})
PrevotesKeptTwice ==
  Keep(prevotes, {v \in DOMAIN prevotes : height <= prevotes[v].submitBlock + 2 * VotePeriod})

\* ClearBallots, on the prevotes: those of the last VotePeriod blocks stay.
UnexpiredPrevotes ==
  Keep(prevotes, {v \in DOMAIN prevotes : height <= prevotes[v].submitBlock + VotePeriod})

PossibleWinsPerSlashWindow ==
  (SlashWindow \div VotePeriod) * Cardinality(MandatoryList)

\* evaluateAndSlashIfNeeded, over the counters that exist, multiplied out.
Slashed(active, counters) ==
  {v \in active :
     /\ SlashingEnabled
     /\ counters[v] > 0
     /\ 100 * (PossibleWinsPerSlashWindow - counters[v])
          < MinValidPerWindow * PossibleWinsPerSlashWindow}

\* Mutant of CalcPrices: the tallied votes are not cleared.
CalcPricesKeepingVotes(active) ==
  /\ exchangeRates' = TalliedRates(active)
  /\ prevotes' = UnexpiredPrevotes
  /\ UNCHANGED <<votes, origin>>

\* CalcPrices, at the last block of a vote period; its miss counting is CountedMisses.
CalcPrices(active) ==
  /\ exchangeRates' = TalliedRates(active)
  /\ prevotes' = UnexpiredPrevotes
  /\ votes' = << >>
  /\ origin' = << >>

\* Mutant of SlashAndResetMissCounters: the counters are carried over.
SlashWithoutReset(active) ==
  /\ jailed' = jailed \union Slashed(active, CountedMisses(active))
  /\ missCounters' = CountedMisses(active)
  /\ clean' = [v \in Validators |-> 0]

\* SlashAndResetMissCounters, at the last block of a slash window.
SlashAndResetMissCounters(active) ==
  /\ jailed' = jailed \union Slashed(active, CountedMisses(active))
  /\ missCounters' = [v \in Validators |-> 0]
  /\ clean' = [v \in Validators |-> 0]

\* Mutant of RewardSetAfter: only a set that exists is renewed.
RewardSetRenewed(active) ==
  IF IsPeriodLastBlock(SlashWindow + 1) /\ validatorRewardSet # {}
  THEN active ELSE validatorRewardSet

\* SetValidatorRewardSet, when EndBlocker calls it: the validators that can be paid.
RewardSetAfter(active) ==
  IF IsPeriodLastBlock(SlashWindow + 1) THEN active ELSE validatorRewardSet

\* The steps of EndBlocker on the stores of this module; OracleChain adds to them the
\* stamps, the rewards and the pruning of the same block.
EndBlock(active) ==
  /\ ~halted
  /\ height < MaxHeight
  /\ height' = height + 1
  /\ bonded' = active
  /\ validatorRewardSet' = RewardSetAfter(active)
  /\ \/ /\ IsPeriodLastBlock(VotePeriod)
        /\ ~BandMissing(active)
        /\ CalcPrices(active)
     \/ /\ ~IsPeriodLastBlock(VotePeriod)
        /\ UNCHANGED <<exchangeRates, prevotes, votes, origin>>
  /\ \/ /\ IsPeriodLastBlock(SlashWindow)
        /\ SlashAndResetMissCounters(active)
     \/ /\ ~IsPeriodLastBlock(SlashWindow)
        /\ missCounters' = CountedMisses(active)
        /\ clean' = CountedClean(active)
        /\ UNCHANGED jailed
  /\ UNCHANGED <<halted, feederDelegations>>

\* The module panics on the error of EndBlocker and the block is not committed.
EndBlockFails(active) ==
  /\ ~halted
  /\ height < MaxHeight
  /\ IsPeriodLastBlock(VotePeriod)
  /\ BandMissing(active)
  /\ halted' = TRUE
  /\ UNCHANGED <<height, bonded, jailed, feederDelegations, prevotes, votes,
                 exchangeRates, missCounters, validatorRewardSet, origin, clean>>

\* The validator sets x/staking may choose.
ActiveSets == (SUBSET (Validators \ jailed)) \ {{}}

\* The transactions of a block, one at a time.
Messages ==
  \/ \E v \in Validators, f \in Accounts :
       \/ \E hash \in Hash : AggregateExchangeRatePrevote(f, v, hash)
       \/ \E salt \in Salts, rates \in RateMaps :
            AggregateExchangeRateVote(f, v, salt, rates)
  \/ \E v \in Validators, d \in Delegates : DelegateFeedConsent(v, d)
  \/ \E v \in Validators : Unjail(v)

Next ==
  \/ Messages
  \/ \E active \in ActiveSets : EndBlock(active) \/ EndBlockFails(active)

Spec == Init /\ [][Next]_vars

-----------------------------------------------------------------------------
(* Correctness. *)

\* AggregateExchangeRateVote opens a commitment of the vote period just before:
\* every vote waiting to be tallied is, filtered by the AcceptList, what the
\* validator itself committed to in the previous period.
VotesOpenOwnCommitments ==
  \A v \in DOMAIN votes :
    /\ PeriodOf(origin[v].submitBlock) + 1 = PeriodOf(height)
    /\ origin[v].hash.voter = v
    /\ votes[v] = Keep(origin[v].hash.rates, AcceptList)

\* A validator whose vote waits for the tally holds at most a commitment made in
\* this very period, which AggregateExchangeRateVote does not open before the next.
OneCommitmentPerPeriod ==
  /\ DOMAIN origin = DOMAIN votes
  /\ \A v \in DOMAIN prevotes :
       /\ prevotes[v].submitBlock <= height
       /\ v \in DOMAIN votes => PeriodOf(prevotes[v].submitBlock) = PeriodOf(height)

\* A prevote outlives its reveal period only when it came in the last block of its
\* own period, and then for one period: ClearBallots compares blocks, not periods.
PrevotesExpire ==
  \A v \in DOMAIN prevotes :
    LET submit == prevotes[v].submitBlock
    IN  \/ PeriodOf(height) <= PeriodOf(submit) + 1
        \/ PeriodOf(height) = PeriodOf(submit) + 2 /\ (submit + 1) % VotePeriod = 0

\* A validator that won every mandatory denom in some periods of the slash window
\* has missed at most all the mandatory denoms of the others: CalcPrices charges a
\* period once, and SlashAndResetMissCounters carries nothing into the next window.
MissesAreEarned ==
  \A v \in Validators :
    missCounters[v]
      <= Cardinality(MandatoryList) * (((height % SlashWindow) \div VotePeriod) - clean[v])

\* Only a vote on a denom that has no reward band makes a tally fail, and with it
\* the EndBlock of every node: CalcPrices has no other error to return here.
HaltsOnlyOnUnbandedVote ==
  halted =>
    /\ IsPeriodLastBlock(VotePeriod)
    /\ \E v \in DOMAIN votes : ~(DOMAIN votes[v] \subseteq DOMAIN RewardBands)

\* Nobody can take back or change a revealed vote before CalcPrices tallies it: a
\* second reveal by AggregateExchangeRateVote in the same period is never possible.
RevealedVotesAreFinal ==
  [][\A v \in DOMAIN votes \intersect DOMAIN votes' :
       votes'[v] = votes[v] /\ origin'[v] = origin[v]]_vars

\* ClearBallots never takes from a validator a prevote it could still reveal: a
\* prevote leaves the store by its own reveal, or when its reveal period is over.
NoPrevoteLostInWindow ==
  [][\A v \in DOMAIN prevotes \ DOMAIN prevotes' :
       \/ v \in DOMAIN origin' /\ origin'[v] = prevotes[v]
       \/ PeriodOf(height') > PeriodOf(prevotes[v].submitBlock) + 1]_vars

\* After CalcPrices every stored rate comes from votes of that period: active
\* validators with VoteThreshold of the active power have voted on the denom, and
\* the rate is one of theirs.
RatesAreBacked ==
  [][\A d \in DOMAIN exchangeRates' :
       \/ d \in DOMAIN exchangeRates /\ exchangeRates'[d] = exchangeRates[d]
            /\ ~(height' # height /\ IsPeriodLastBlock(VotePeriod))
       \/ LET voters == {v \in bonded' \ jailed :
                           v \in DOMAIN votes /\ d \in DOMAIN votes[v]}
          IN  /\ 100 * PowerOf(Power, voters) >= VoteThreshold * PowerOf(Power, bonded')
              /\ \E v \in voters : votes[v][d] = exchangeRates'[d]]_vars

\* Only a validator whose share of clean vote periods in the slash window is below
\* MinValidPerWindow can be jailed by SlashAndResetMissCounters.
JailedOnlyBelowMinimum ==
  [][\A v \in jailed' \ jailed :
       100 * CountedClean(bonded')[v] < MinValidPerWindow * (SlashWindow \div VotePeriod)]_vars

-----------------------------------------------------------------------------
(* The abstract specification. *)

\* A prevote as a sealed ballot: what it commits to, as it would be stored.
SealedBallot(prevote) ==
  [author  |-> prevote.hash.voter,
   content |-> Keep(prevote.hash.rates, AcceptList),
   round   |-> PeriodOf(prevote.submitBlock)]

Sealed == INSTANCE SealedBallots WITH
  Voters   <- Validators,
  Contents <- {Keep(r, AcceptList) : r \in RateMaps},
  round    <- PeriodOf(height),
  sealed   <- [v \in DOMAIN prevotes |-> SealedBallot(prevotes[v])],
  opened   <- votes

\* The messages and EndBlock implement sealed ballots, whoever feeds for whom, whatever
\* the validator set is, and whichever block of a period a message is in: a vote is an
\* own ballot of the round before, and ClearBallots keeps what can still be opened.
ImplementsSealedBallots == Sealed!Spec
=============================================================================
