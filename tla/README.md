# A TLA+ model of dmchain's oracle and multisig

dmchain is a Cosmos SDK chain with two modules of its own, `x/oracle` (a fork of
ojo's price oracle) and `x/multisig`. This directory holds TLA+ modules of both
and of the price feeder, the TLC configurations that check them, and proofs that the
TLA+ proof system checks. `PROJECT.json` maps every definition to the lines it models.

## 1. Inventory

| Component | State | Operations | What makes it correct |
|---|---|---|---|
| **Commit-reveal voting** (`keeper/msg_server.go`, `keeper/keeper.go`, `types/vote.go`, `types/hash.go`) | `Prevotes`, `Votes`, `FeederDelegations` | `AggregateExchangeRatePrevote`, `AggregateExchangeRateVote`, `DelegateFeedConsent` | a vote opens the validator's own commitment of the period before, once; a revealed vote is final; a commitment is not lost while it can be revealed |
| **Ballot arithmetic** (`types/ballot.go`, `Tally`) | none | `Power`, `WeightedMedian`, `StandardDeviation`, `Tally` | the median follows the votes and a minority cannot move it; agreeing votes win |
| **EndBlocker** (`abci/endblocker.go`, `keeper/ballot.go`, `keeper/slash.go`, `keeper/miss_counter.go`) | `ExchangeRates`, `MissCounters`, `ValidatorRewardSet` | per block: due plans, price feeder start, reward set; per vote period: `CalcPrices`; per slash window: `SlashAndResetMissCounters`; `PruneAllPrices` | every rate is backed by the threshold; misses are earned; only validators below the minimum are jailed; the tally does not fail |
| **Historic prices** (`keeper/historic_price.go`, `keeper/end_blocker.go`, `util/decmath`) | `HistoricPrices`, `MedianPrices`, `MedianDeviations` | stamp a price, stamp a median and its deviation, prune all three; statistics for queries | a stamped median splits the prices still in its window; the stores stay bounded; a median stamp always has prices to work on, and they are not too far apart; the queries return what was stamped |
| **Rewards** (`keeper/reward.go`, `ClaimMapToSlices`) | the module account, `x/distribution` pools | `RewardBallotWinners` | never pays more than the period's share of the pool; what is allocated is moved; who misses less earns more |
| **Parameters and plans** (`keeper/params.go`, `keeper/param_update_plan.go`, `types/params.go`, `types/plan.go`) | `Params`, `ParamUpdatePlans` | `GovUpdateParams`, `GovAddDenoms`, `GovRemove...`, `GovCancelUpdateParamPlan`, execution in EndBlocker | the stored parameters stay valid; a plan runs once, at its height |
| **Averages** (`keeper/averages.go`) | `Averages` | `ComputeAverages` and its three kinds | nothing calls `ComputeAverages` |
| **Vote extensions** (`abci/voteextension.go`, `abci/proposal.go`, `abci/util.go`) | none persisted | `ExtendVote`, `VerifyVoteExtension`, `PrepareProposal`, `ProcessProposal` | a proposal carries what the extensions of the last commit say, and every validator agrees on it; nodes without prices do not stop the chain |
| **Price feeder** (`pricefeeder/`) | the pointer `PriceFeeder.Oracle`, its price cache | `Start` in goroutines, a tick per vote period, an HTTP server, read by `ExtendVote` | it runs in the end; the server shows what is ticked |
| **Genesis** (`x/oracle/genesis.go`, `keeper/genesis.go`) | all stores | `InitGenesis`, `ExportGenesis` | a restart loses no commitment and no stamp; rewards resume |
| **Migrations** (`keeper/migrations.go`) | `Params` | one rewrite of the parameters per version | — |
| **Multisig** (`x/multisig`) | accounts, proposals (ORM) | ten messages | no message takes an account away from its signers; signers can be added; a signer can propose; threshold approvals before a dispatch |
| **Application wiring** (`app/`, `cmd/`) | — | module order, handlers, CLI | — |

Interactions. All oracle state lives in the module's stores and is changed by the
messages of a block, one after the other, and by `EndBlocker` at its end, which
`app.go` orders after `x/staking`'s: the tally sees the validator set the block
has just produced. `EndBlocker` reads the votes the messages stored and hands the
results to the historic stores, to `x/distribution` and to `x/staking`
(`Slash`, `Jail`). An error of `EndBlocker` stops every node alike. The price
feeder is a set of goroutines outside consensus, which `EndBlocker` starts and ticks;
`ExtendVote` reads its prices into a precommit, and the proposer of the next height puts
the extensions it has collected, and votes made from them, into its block.
`x/multisig` shares nothing with the oracle.

Hard behaviours: the validator set and the feeders change between commit, reveal
and tally; four periodic jobs (vote period, slash window, two stamp periods) share
one clock; parameters can change between them; a failing step of the tally halts
the chain; nodes differ in their feeders and see different commits; goroutines
overlap, fail and are started again; a chain or a node is restarted.

## 2. Modules

| Module | Extends / instantiates | Models |
|---|---|---|
| `OracleStores` | | the `collections.Map` stores: a store is a function on the keys present |
| `OracleDecimals` | | the largest decimal of `cosmossdk.io/math`, beyond which a square is a panic |
| `OracleBallot` | `OracleDecimals` | pure operators on one ballot: `PowerOf`, `WeightedMedian`, `Winners`, `Support` |
| `OracleVoting` | `OracleStores`, `OracleBallot`; instance of `SealedBallots` | commit, reveal, feeder delegation, tally, miss counters, slash window, reward set |
| `SealedBallots` | `OracleStores` | abstract: rounds of ballots that are sealed in one round and opened in the next |
| `OracleHistory` | `OracleStores`, `OracleDecimals` | price, median and deviation stamps, pruning, the queries `HistoricMedians` and `HistoricMedianDeviation` |
| `OracleRewards` | | `RewardBallotWinners`: shares, rounding, its early return, its panic |
| `OracleChain` | extends `OracleVoting`; instances of `OracleHistory` and `OracleRewards` | the messages of a block and one `EndBlock` step over all these stores |
| `OracleGenesis` | extends `OracleChain` | a chain that is exported after any block and started from the export |
| `OracleParams` | `OracleStores` | governance messages, parameter plans, their execution |
| `OracleGoverned` | extends `OracleParams` | miss counters and slash windows under the parameters as governance changes them |
| `PriceFeeder` | `OracleStores` | the goroutines of each node's feeder, the pointer they share, ticks, the server |
| `OracleExtensions` | extends `PriceFeeder` | vote extensions and proposals, with CometBFT around them and the part of `EndBlocker` that drives the feeder |
| `Multisig` | `OracleStores` | the messages of `x/multisig` with their answers, export and import |
| `OracleTheorems` | `OracleBallot`, `OracleStores`, `TLAPS` | lemmas that the proofs share: induction, sums, sorting, ballots, periods, stores |
| `OracleVotingProofs`, `OracleHistoryProofs`, `OracleExtensionsProofs`, `MCOracleBallotProofs`, `MultisigProofs` | the module they are named after, `OracleTheorems` | theorems |
| `OracleParamsProofs` | `OracleGoverned`, `OracleTheorems` | theorems about plans and about governed slash windows |
| `OracleChainProofs` | `OracleGenesis`, `OracleVotingProofs` | theorems about the whole EndBlocker of a chain that restarts |
| `MC*` | the module they are about | values of the constants for TLC; `MCOracleBallot` also has the state machine that walks through all ballots, and the reference definitions |

How the state corresponds to the code:

- A variable that is named after a field of the keeper (`prevotes`, `votes`,
  `missCounters`, `historicPrices`, `plans`, ...) is that store. `height`, `bonded`
  and `jailed` are the block height and what `x/staking` knows of a validator;
  `halted` says that `EndBlock` has returned an error or panicked, after which every
  node stops at the same height. `rewardPool`, `distribution` and `outstanding` are
  the balances of the oracle and of `x/distribution`, and the latter's books.
- History variables exist only for properties, and no guard reads them: `origin` is the
  prevote that a stored vote opened, `clean` the vote periods a validator ended
  without a miss, `base` the parameters a plan was validated against, `adds` and
  `promised` the denoms of `GovAddDenoms`, `mixed` whether a plan met parameters that
  had changed since it was validated, `abandoned` whether the loop of the rewards has returned
  between an allocation and the transfer, `changed` whether a slash window has seen
  another window or list, `started` the height of the last start, `overlapped` whether a
  feeder was started while another was starting.
- One action per message, named as the handler, and one `EndBlock` per block. A
  message that the handler refuses changes nothing and is no action. `EndBlock` has a
  parameter: the validator set that `x/staking` has produced just before
  (`ActiveSets`), or in `OracleHistory` any rates a tally could give. `EndBlockFails`
  is the block that is not committed.
- In `EndBlock` the order of the code is kept in the data flow: the reward set of the
  block is renewed before the rewards, rates are stamped before medians are taken from
  them, misses are counted before the rewards read them, rewards are paid before
  the slash window resets the counters, and pruning comes last.

Composition. `OracleChain` takes the messages and `EndBlock` of `OracleVoting`, hands the
rates of the tally to `OracleHistory!StampAndPrune` and the miss counters to
`OracleRewards!RewardBallotWinners`, and fails when any of them fails; `OracleGenesis`
adds to it a restart after any committed block. `OracleGoverned` composes the plans with
the slash windows: `EndBlock` of `OracleParams` first, then the counters under the
parameters that the plan of this very block has set. `OracleExtensions` composes the
feeders of several nodes with the handlers. A module in which votes, changing parameters and
extensions all meet would have too many states to say more.

Refinement. `OracleVoting` implements `SealedBallots`: the round is the vote period
of the height, the sealed ballots are the prevotes with what they commit to as it would be
stored, the opened ones are the votes. A prevote seals, a vote opens, the last block of a
vote period closes a round, all else is invisible. `GenesisSpec` implements it as well: a
restart is invisible too.

### Abstractions

- Decimals are exact where the code only compares them, up to `MaxSquare`, the largest one
  in squares of the unit of the rates: `ValidateBasic` of a vote admits every rate that a decimal
  holds, and the square of a difference of two such rates may be none. `StandardDeviation` of
  a ballot recovers from this panic and leaves the vote out (`Variance`), `decmath.MedianDeviation`
  does not, and the block fails (`DeviationPanics`). Both sides of a comparison are multiplied
  out (`Winners`, `Slashed`, `Support`), medians are in halves, a deviation is its
  square. The integer divisions of the code (`totalPower / 2`, the whole percent of
  `Support`) round as in Go. In `OracleRewards`, where rounding decides what is paid, a
  decimal is a number of `Unit`s and `Rounded` is `LegacyDec`'s banker's rounding.
- The SHA-256 commitment is the triple of salt, rates and voter. Denoms, rates and
  salts are members of small sets; a list of denoms is a set. In `OracleParams` a denom
  is a spelling and `Upper` its normal form, because some checks ignore the spelling
  and some do not.
- `Power` does not change; the validator set does, in every block. `Unjail` is enabled at
  any time.
- The reward factor, a quotient of logarithms in `float64`, is a table that is
  decreasing from 1 to 0, and `Unconvertible` the arguments whose shortest
  representation has more than 18 decimals. `1 - log(60)/log(61)`, 59 misses of 60, is
  one; the instances put such a point at one miss of two. Nobody refills the module
  account. The loop of `RewardBallotWinners` would also return on an error of
  `AllocateTokensToValidator`, with the same effect; `x/distribution` gives one only for a record
  of its own that it cannot decode, and it is left out.
- `OracleParams` leaves out the eight parameters that no check compares with another.
  Plans cannot name `SlashingEnabled` or the averaging window: `ValidateBasic` of a plan
  refuses the keys.
- `GovernanceAssumption` takes the lists of the genesis state to be spelled in capitals, as
  `DefaultParams` are. `ValidateGenesis` does not ask for it; all lists that governance writes
  later are normalized by the code.
- `OracleGoverned` has no votes: a tally makes each validator miss any number of the
  mandatory denoms. Who misses what is the matter of `OracleVoting`.
- CometBFT is external. Proposers take turns, a proposal is accepted or rejected by all
  correct validators alike (they run the same deterministic handler on the same
  state), a precommit counts once its extension is verified, more than 2/3 of the power
  decide, and every node executes a block before the next is decided. Faulty validators
  hold less than 1/3 of the power; they propose any votes over any part of the last commit
  and extend with any height and rates, or with bytes that are no extension, but cannot forge the
  signatures that `ValidateVoteExtensions` checks.
- `VerifyVoteExtension` refuses an extension that does not decode, and CometBFT then does not
  count the precommit. A precommit that arrives after the decision joins the commit of the
  next height without that check (`LatePrecommit`), and `generateExchangeRateVotes` returns an error
  for the whole commit (`GenerationFails`). Its other errors do not come up: any bytes are
  a consensus address, and `baseapp.ValidateVoteExtensions` has looked up the same validators
  in `x/staking` just before.
- `ExtendVote` sends nothing when one price of its feeder does not parse (`Parses`). The
  model has this, the instance does not: its effect is that of a feeder which is not running
  yet, an empty extension.
- `prices` are those of the instance that a node's pointer holds; a new instance has none.
- Heights after `MaxHeight` repeat the last vote period, so that behaviours of
  `OracleExtensions` are infinite and liveness means something.
- An instance of the feeder is known by the goroutine slot that created it; a slot is
  used again when nothing refers to it any more, and with no slot free EndBlocker's start
  is left out. Two slots suffice for every overlap of two; more goroutines than slots
  can overlap in the code.
- An injected transaction is its commit and its votes. That it is found by
  trying to decode every transaction, and the other transactions, are left out.
- In `Multisig` an account is its seed, a call its hash; the 32 bytes of the address
  are left out. A message ends in "ok", "error" or "panic", and a panic, which BaseApp
  recovers from, writes nothing, like an error. Exhausted gas is a panic.
- The wiring is taken as intended. `NewKeeper` (`keeper/keeper.go`) assigns neither the
  parameter subspace nor the keepers of other modules nor the `PriceFeeder`, whose nil
  pointer `EndBlocker` would dereference in its first block, and the module account of the
  oracle is missing in `maccPerms`. As it is wired the oracle does not run; the
  models say what it does once these are set.

## 3. Runs

| Run | Instance | Shows |
|---|---|---|
| `ballot` | all ballots of up to four validators, powers 1..2, rates 1..4 | the set definition of the median is the sorted loop of the code; less than the rounded-down half of the power cannot move it; it follows the votes; outliers cannot make an agreeing majority miss |
| `voting` | two validators of power 1 and 2, one able to feed for the other, vote periods of two blocks, two slash windows, an accepted denom without a band | the commit-reveal implements the sealed ballots (own commitment, of the period before, once, final, not lost) whoever feeds; backing of rates, misses, jailing; only enough votes on the denom without a band stop the chain |
| `history` | stamp periods of two and three blocks, three prices and two medians kept, 14 blocks | the price store is bounded and loses nothing early, the medians are bounded by the cycle of the two periods, split their window and have their deviation, a stamp fails only without prices or with prices whose squared distance is no decimal (`MaxSquare = 8`, rates 1, 2 and 4) |
| `params` | three governance messages of every kind, five blocks, slash windows of two or three | no plan is left behind; parameters stay valid and added denoms complete unless a plan was overtaken; slashing divides by 0 only after governance has emptied the mandatory list in this window or has mixed changes, and without a change no one has more misses than possible wins |
| `chain` | two validators, five blocks, stamp periods 2 and 5, a pool of 40 coins, a reward factor that is no decimal, one restart | stamps are the rates of the tally, allocated rewards are moved and fewer misses never earn less but for that factor, every halt has one of the known causes; a restart loses no commitment, and the rewards resume within a slash window |
| `extensions` | three validators of power 3, 3 and 1, the last one faulty; one feeder on, one off; one restart, one change of the thresholds | accepted blocks carry what was extended; the chain advances unless a late precommit that does not decode stays in the commit; the feeder runs in the end, and its server shows what is ticked unless two starts overlapped |
| `multisig` | three people, two accounts, two calls | no message takes an account away from its signers |
| `stamps_served` | aligned stamp periods | violated: `HistoricMedians` returns prices, and `HistoricMedianDeviation` of a stamp block the stamp before |
| `added_denoms` | two `GovAddDenoms` pending | violated: the second takes away the band of the denom the first has added |
| `rewards_moved` | as `chain`, without a restart | violated: rewards are allocated and never moved |
| `votes_stored` | as `extensions` | violated: the votes of a block reach no store |
| `multisig_proposals` | as `multisig` | violated: nobody can be added to an account, and no signer can propose |

Bounds and why they are enough. `voting` ends after two complete slash windows
(`MaxHeight`), so that counters are reset and what they would carry over shows;
a prevote lives at most three periods, and four fit. Vote periods of two blocks
tell the first from the last block of a period, which `ClearBallots` treats differently;
in `chain`, periods of one block make every step a tally. In `chain` one rate leaves the overflow of a
squared distance out: two would be too many states with restarts and rewards, so that this cause of a
halt is exercised in `history` and proved for the chain. Two rates outside each other's
band make winners and losers; a denom that is mandatory, one that is only accepted, one
without a band and one that is not listed make all branches of the filters. `history`
covers a full cycle of the two stamp periods (6 blocks) after the first pruning, at height 7.
Three messages (`MaxProposals`) make two overlapping plans and a third that replaces,
cancels or overtakes one, and five blocks let a window begin, change and end. `chain`
needs height 4 for the median stamp that has no price left, and `MaxRestarts = 1` puts a
restart before and after each of these. `Unit = 100` keeps the arithmetic of the rewards
small and still rounds in both directions. In `extensions` neither correct validator is a quorum
alone or with the faulty one, so that the one without a feeder is needed for every block;
the faulty one proposes in its turn and may be late with its precommit; `MaxStarts = 2` makes overlapping starts, and
`MaxRestarts` and `MaxChanges` cut each of their steps once. `multisig` has no bound but its
sets: nothing is ever stored but accounts.

Deadlock is checked in `extensions` and `multisig`, where something can always happen. In the
others all behaviours end at `MaxHeight`, or with a failing block.

Fairness. Only `OracleExtensions` assumes any, all of it weak: rounds go on
(CometBFT's timeouts), correct validators precommit a proposal they have accepted, a
decision is taken when its quorum is there, a node goes on with the block it executes,
and the Go scheduler runs each goroutine of the feeder. Nothing is assumed of faulty
validators, restarts, governance or the providers. Of a node that has no feeder
`EndBlocker` does nothing that the model has, and a node that has one is given fairness for
its two steps of a block together. Two statements carry their own condition. `FeedersSettle` assumes that
blocks go on and that the deviation thresholds parse from some time on: without blocks nothing
starts a feeder, and with thresholds that do not parse each block starts a goroutine that
fails. `ChainAdvances` excepts the one state in which the chain does stop: a precommit that does not
decode, added late to the commit, for as long as it is there. TLC finds the chain stopped
without this exception.

## 4. What the runs found

Seven divergences are recorded under `findings`, with five violated runs: two of the
queries of the historic prices fail in one trace, and two of the messages of `x/multisig` in one
property, of which the trace shows the first and `NothingIsProposedAlways` the second. Others
were met while reading and have no run:

- `keeper/ballot.go:52`: a prevote sent in the last block of its period survives the
  cleanup after its reveal period and makes the next prevote of its validator fail; the
  module's README (line 84) says "Clear previous period votes and prevotes."
  `PrevotesExpire` states what does hold.
- `abci/endblocker.go:47`: the reward set is renewed every `SlashWindow + 1` blocks, not, as
  the comment above it says, "at the beginning of a new Slash Window", from which it
  drifts away. `RewardGapIsBounded` states what does hold.
- `pricefeeder/pricefeeder.go:93`, `abci/endblocker.go:36`: when two starts of the feeder
  overlap, the second replaces the pointer, and the server goes on showing the prices of the
  first instance, which nobody ticks. Before the first tick a feeder has no prices
  and its validator extends with none.
- `abci/proposal.go:198`: a single faulty validator can stop the chain, for as long as its late
  precommit, with an extension that does not decode, is in the commits that the proposers
  start from. `generateExchangeRateVotes` could skip such a vote as it skips absent ones.
  `ChainAdvances` says that nothing else stops it.
- `util/decmath/decmath.go:44`: two rates of a denom that are about 10^38 apart, which
  `MsgAggregateExchangeRateVote` admits, stop the chain at the next median stamp, if the votes on
  them pass. `FailuresAreExplained` and `HaltsAreExplained` name it among the causes.
- `abci/proposal.go`: where extensions are not enabled `ProcessProposal` accepts a block
  with an injected transaction unchecked. It has no effect, as at other heights.
- `x/multisig`: `AddMultisigSigner` would not look at who sends it; `CleanupMultisigSigner` and
  `SetThreshold`, which the repository's README (lines 18 to 22) promises, are unimplemented
  panics; the
  test `len < 2 && len > 10` is never true; a threshold may exceed the signers;
  deposits are never collected; a dispatch routes the approval itself
  again; an export loses every account.
- `types/ballot.go:66`: the half of an odd power is rounded down, so that votes with less
  than half of the power can set the median. `SmallMinorityCannotMoveRate` states the
  bound that does hold.
- `abci/endblocker.go:163`: misses count over the `MandatoryList` only.
- `keeper/end_blocker.go:21`: medians are pruned only in blocks that end both stamp
  periods; with stamp periods 2 and 3 every second median waits for the next such block.
  `MediansBounded` states the bound that does hold.
- `keeper/historic_price.go:99`: `WithinHistoricMedianDeviation` compares a price with itself.
- `keeper/reward.go`: every active member of the reward set is paid, winner or not.
- `keeper/msg_server.go:430`: the removal of deviation thresholds normalizes the spelling of
  what it looks for, the addition does not normalize what it stores.

## 5. Proofs

Every safety property of the passing runs, invariant, action property or refinement, is
also a theorem, for every value of the constants that the `ASSUME` of its module admits:
any finite validators and denoms, any rates and powers, and the periods that
`Params.Validate` and the messages' `ValidateBasic` let pass. `MaxHeight` and the other bounds
of the runs are arbitrary numbers in the proofs.

*Lemmas* (`OracleTheorems`). What a fold adds up cannot be proved by the library's induction
theorems, whose parameter is an operator. `SetInduction` takes a set of numbers instead: it
is enough to put the claim into a set (`{n \in Nat : ...}`). With it `IterExists` and
`IterSolves` show that the recursive function behind `MapThenSumSet` has a value, and
`SumSplit`, `SumMonotone`, `SumAdd`, `SumBound` and `SumPart` that sums behave as such
whatever order `CHOOSE` adds in. All that is said of power, and of coins, rests on these. `Place`, the
number of entries up to one, sorts finite lists without sequences: places are all
different (`PlaceSorts`) and all taken (`PlaceTaken`).

*Ballots* (`MCOracleBallotProofs`). `MedianIsFirst` characterises the weighted median;
that a minority cannot move it, that it follows the votes and that an agreeing majority wins
follow by comparing the power of sets of voters. `MedianIsLoopMedian` shows the
set definition equal to the code's sorted loop: every ballot can be sorted
(`SortExists`), and any sorted order stops at the median (`LoopStopsAtMedian`).

*Voting* (`OracleVotingProofs`).

- `TypeCorrect` is inductive by itself.
- `CommitInvariant`. None of `VotesOpenOwnCommitments`, `OneCommitmentPerPeriod` and
  `PrevotesExpire` is inductive alone: that a reveal does not replace a vote needs that a
  revealed validator holds no commitment of an earlier period, and this needs that the cleanup
  compares ages consistently with periods. `CommitInv` is their conjunction with the types. The
  arithmetic is in `KeptPrevoteAge` and `RemovedPrevoteAge`: what "at most `VotePeriod` blocks
  old" means in periods at the last block of one. `RevealedVotesAreFinal` and
  `NoPrevoteLostInWindow` follow from `CommitInv` in one step.
- Refinement (`ImplementsSealedBallotsAlways`): `PrevoteSeals`, `VoteOpens` and
  `EndBlockCloses` show each visible step to be one of `SealedBallots`, from `CommitInv`: that
  a vote is not opened twice in a round is `OneCommitmentPerPeriod`, that closing a round
  keeps the ballots sealed in it is `RemovedPrevoteAge`.
- `MissesAreEarned`. The invariant counts the vote periods that have ended since the slash
  window began, `(height % SlashWindow) \div VotePeriod`; how this changes with a block needs
  that the window is a multiple of the period (`WindowAligned`), and `PeriodCharge` says that one
  period adds at most one miss for each mandatory denom, none if clean.
  `JailedOnlyBelowMinimum` follows at the window's last block.
- `HaltsOnlyOnUnbandedVote`: a passing ballot has a vote of an active validator.
  `RatesAreBacked`: the whole percent of `Support`, multiplied out, and `MedianWasVoted`.

*The chain* (`OracleChainProofs`), about `GenesisSpec`, so with failing blocks and restarts
between any two blocks.

- `RestartKeepsStores` says what an export and import keeps. With it `VotingInv`, the
  commit-reveal and miss invariants, survives restarts (`VotingInvariant`), a restart is a
  stuttering step of `SealedBallots` (`ImplementsSealedBallotsAcrossRestarts`), and the reward set is
  back in time: `RewardGapInv` says that a chain without one is still in the `SlashWindow + 1`
  blocks in which it was started.
- `StampsAreCurrentRates` needs that no stamp is of a later block (`StampInv`): otherwise a
  tally could find one in its place.
- `RewardsInv` is the conservation of coins: the account and `x/distribution` hold together what
  there was, the account is never negative, and what is moved does not exceed what is owed.
  That a transfer does not overdraw (`NoOverdraft`) follows from `SharesFit`: with factors of
  at most 1, no validator gets more than the truncated equal share of the reward set, and
  all of them together fit into the account when the vote periods that a denom is paid for, one
  for each time it is accepted, fit into the distribution window.
- `AllocatedIsMoved` and `FewerMissesEarnMore` are proved for any factors, convertible or not. The
  first follows from the books (`RewardsInv`), which are balanced until the loop has returned after an
  allocation, in `abandoned`; the second excepts the claims behind one whose factor is no
  decimal. `rewards_moved` shows what the exceptions are about: rewards that are allocated
  and never moved.
- `HaltsAreExplained` puts the causes together. The one of a squared distance that is no decimal
  needs that the stored prices are rates that were voted (`PriceInv`), and that a median lies between
  the prices of its window. `ChainNeverHalts` turns it around: a band
  for every accepted denom, a median stamp period that is a multiple of the historic one,
  no base denom accepted so often that its shares exceed the distribution window, and rates
  whose squared differences are decimals are enough for no block ever to fail. `Params.Validate`
  checks none of the first three, and no message the fourth.

*History* (`OracleHistoryProofs`). `StampsInv`: stamps are from the ends of stamp periods, and
prices from the last `MaximumPriceStamps` of them. Then the stamps of a denom inject into the
numbers of these periods (`PricesBounded`), and what is pruned is never a price
that is still in the window (`PricesKeptInWindow`). `MediansInv` says the same of the medians, with a coarser clock: they
are pruned once in `Cycle` median stamp periods, the least number of them that ends
together with a historic one, and in between they pile up (`MediansBounded`).
`FailuresAreExplained` rests on the median of a window lying between two of its prices, so that
no distance from it is larger than one between prices; `AlignedNeverFails` is the same read
backwards. `MedianSplitsPrices` counts the entries on either side of a place.

*Parameters* (`OracleParamsProofs`). `PlansInv`: each plan in the store, merged into the
parameters it was validated against, is valid. An executed plan that finds its groups
of compared parameters as they were then keeps the parameters valid
(`UnmixedGroup`), which is `ValidUnlessMixed`; `AddsInv` says the same of what
`GovAddDenoms` promises. `PlansAreDue` rests on governance executing before the oracle's
`EndBlock`, which is the order of `app.go`. `GovernedImplements` carries this over to
`OracleGoverned`, whose `MissesInv` bounds the counters of an unchanged window by the
periods that have ended in it.

*Extensions and the feeder* (`OracleExtensionsProofs`). `ServerShowsTickedPrices` needs that
without an overlap at most one goroutine is starting, and that while it is the node has neither
an instance nor a server (`StartsAlone`). `BlockVotesAreExtended` rests on what `ProcessProposal` checks, not on
the proposer; `BlockVotesAreMostlyCorrect`, which no run checks, draws the conclusion
from faulty validators having less than 1/3 of the power.

*Multisig* (`MultisigProofs`). `SignersAreKept` is proved together with two invariants, that every
stored account has a signer and a threshold of at least 1, and `NothingIsProposed`. The latter
is the second finding of `multisig_proposals` for all inputs: the table stays empty, whoever sends
what.

What the proofs changed. `PanicsOnlyOnChangedWindow` used to say that the window in which
slashing panics was changed. Its invariant could not be found, since it was false: a vote
period longer than the slash window, set by a plan that was overtaken or by the legacy
message, makes a panic possible in any later window. The property now says so, and the
instance of `params` has a vote period that shows it. The assumptions on constants
that the proofs need were added to the modules that declare them, where TLC evaluates them.

Only model-checked: liveness (`ChainAdvances`, `FeedersSettle`), which these provers do not
reach.

## 6. Not modelled

- `keeper/averages.go` has no caller; its store never changes.
- Queries read one store each, or reduce what `HistoricMedians` returns to one number; the
  two with logic of their own are in `OracleHistory`.
- Migrations write constants into the parameters once.
- An export for height zero: the oracle does not prepare for it, and its prevotes
  would then be of later heights than the chain's, for which the reveal check wraps around.
- `app/`, `cmd/`, simulation and interchain tests: construction and wiring. The order of
  the EndBlockers and the handlers that are set are used by the models.
- The price providers and their aggregation are a library outside the repository.
- Generated code (`api/`, `*.pb.go`, `*.pb.gw.go`, ORM tables): more than four fifths of the
  Go lines of the repository. It encodes the records that the models take as values; what
  the ORM's unique index does is in `Multisig`.

## 7. Plan

Done, in this order: voting and its proofs, ballots, history, parameters, rewards, chain;
then the sealed ballots and their refinement with its proof, genesis, governed slash
windows, vote extensions with the price feeder, multisig;
then the proofs, module by module, until every safety property was a theorem.

Left: the action properties of `OracleVoting` (`RevealedVotesAreFinal`, `NoPrevoteLostInWindow`,
`JailedOnlyBelowMinimum`) stated for a chain that restarts, from `VotingInv`; what
`OracleHistory` proves of its stores, for the instance in `OracleChain`, where the rates are
those of a tally; safety lemmas that liveness of the feeder rests on, such as that a
goroutine that waits can always go on.
