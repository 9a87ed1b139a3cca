--------------------------- MODULE OracleRewards ---------------------------
(***************************************************************************)
(* The rewards of x/oracle: at the end of every vote period a share of the *)
(* module account goes to the validators of the reward set, the more of it *)
(* the fewer misses they have (keeper/reward.go, util/reward).             *)
(*                                                                         *)
(* A decimal is the number of its units: the code has 10^18 of them to one *)
(* coin, an instance fewer, and rounds as the code does.                   *)
(***************************************************************************)
EXTENDS Integers, FiniteSets, FiniteSetsExt

CONSTANTS
  Validators,                \* operator addresses
  Rank,                      \* their order as strings
  AcceptList,                \* params.AcceptList, as the set of its symbol denoms
  BaseDenom,                 \* the base denom of each
  DmDenom,                   \* the denom that is always paid
  VotePeriod,                \* params.VotePeriod, in blocks
  SlashWindow,               \* params.SlashWindow, in blocks
  RewardDistributionWindow,  \* params.RewardDistributionWindow, in blocks
  InitialPool,               \* the first balance of the module account: denom -> coins
  Unit,                      \* units of a decimal to one coin
  RewardFactor,              \* CalculateRewardFactor, in units, of <<missCount - s, m - s>>
  Unconvertible              \* those whose float64 has more digits than a decimal

\* prependOjoIfUnique: the denoms of the rewards.
RewardDenoms == {BaseDenom[a] : a \in AcceptList} \union {DmDenom}

\* The number of misses at which RewardBallotWinners pays nothing.
MaxMissCount == Cardinality(AcceptList) * (SlashWindow \div VotePeriod)

\* What Params.Validate requires, and the shape of 1 - log(key + 1) / log(base + 1),
\* which is NaN, and so 0, for a base of 0.
RewardParamsValid ==
  /\ IsFiniteSet(Validators) /\ IsFiniteSet(AcceptList)
  /\ Rank \in [Validators -> Nat]
  /\ \A v, w \in Validators : Rank[v] = Rank[w] => v = w
  /\ VotePeriod \in Nat \ {0} /\ SlashWindow \in Nat
  /\ RewardDistributionWindow \in Nat /\ RewardDistributionWindow >= VotePeriod
  /\ InitialPool \in [RewardDenoms -> Nat]
  /\ Unit \in Nat \ {0}
  /\ DOMAIN RewardFactor = (0..MaxMissCount) \X (0..MaxMissCount)
  /\ \A b \in 0..MaxMissCount :
       /\ b > 0 => RewardFactor[<<0, b>>] = Unit
       /\ RewardFactor[<<b, b>>] = 0
       /\ \A k \in 1..b :
            RewardFactor[<<k, b>>] \in 0..Unit /\ RewardFactor[<<k, b>>] <= RewardFactor[<<k - 1, b>>]
  /\ Unconvertible \subseteq DOMAIN RewardFactor

VARIABLES
  rewardPool,    \* x/bank: the balance of the oracle's module account
  distribution,  \* x/bank: what the oracle has sent to x/distribution
  outstanding,   \* x/distribution: what is allocated to each validator
  abandoned      \* history: the loop has returned between an allocation and the transfer

vars == <<rewardPool, distribution, outstanding, abandoned>>

Init ==
  /\ rewardPool = InitialPool
  /\ distribution = [d \in RewardDenoms |-> 0]
  /\ outstanding = [v \in Validators |-> [d \in RewardDenoms |-> 0]]
  /\ abandoned = FALSE

-----------------------------------------------------------------------------

\* LegacyDec.Mul: a product over Unit, rounded to the nearest, a tie to the even one.
Rounded(x) ==
  LET q == x \div Unit
      r == 2 * (x % Unit)
  IN  IF r < Unit \/ (r = Unit /\ q % 2 = 0) THEN q ELSE q + 1

\* How often a denom is in the list of the reward denoms.
Multiplicity(d) ==
  LET accepted == {a \in AcceptList : BaseDenom[a] = d}
  IN  IF d = DmDenom /\ accepted = {} THEN 1 ELSE Cardinality(accepted)

\* Mutant of PeriodRewards: the ratio is turned around.
PeriodInverted(d) ==
  Multiplicity(d) * rewardPool[d] * ((RewardDistributionWindow * Unit) \div VotePeriod)

\* periodRewards in units; the ratio is rounded down.
PeriodRewards(d) ==
  Multiplicity(d) * rewardPool[d] * ((VotePeriod * Unit) \div RewardDistributionWindow)

\* smallestMissCountInBallot over the claims of ClaimMapToSlices: each member of the
\* reward set that is not active is an empty claim, without misses.
SmallestMissCount(active, rewardSet, counters) ==
  IF rewardSet \subseteq active THEN Min({counters[v] : v \in rewardSet}) ELSE 0

\* The arguments of the reward factor of a claim.
FactorOf(v, active, rewardSet, counters) ==
  LET s == SmallestMissCount(active, rewardSet, counters)
  IN  <<counters[v] - s, MaxMissCount - s>>

\* The claims whose factor is a decimal and that come before the first one whose factor
\* is not: there the loop of RewardBallotWinners returns.  An empty claim is skipped.  The
\* loop would also return on an error of AllocateTokensToValidator, which x/distribution
\* gives only for a record of its own that it cannot decode.
Payees(active, rewardSet, counters) ==
  {v \in rewardSet \intersect active :
     \A w \in rewardSet \intersect active :
       Rank[w] <= Rank[v] => FactorOf(w, active, rewardSet, counters) \notin Unconvertible}

\* Mutant of RewardCoins: the factor of the most misses is that of the fewest.
RewardOfMisses(v, active, rewardSet, counters, d) ==
  LET f == FactorOf(v, active, rewardSet, counters)
  IN  Rounded(PeriodRewards(d) * (RewardFactor[<<f[2] - f[1], f[2]>>] \div Cardinality(rewardSet)))
        \div Unit

\* rewardCoins: the whole coins of denom d for the claim of v.
RewardCoins(v, active, rewardSet, counters, d) ==
  Rounded(PeriodRewards(d)
            * (RewardFactor[FactorOf(v, active, rewardSet, counters)] \div Cardinality(rewardSet)))
    \div Unit

\* Mutant of Distributed: the coins of the last payee only.
DistributedLast(active, rewardSet, counters, d) ==
  IF Payees(active, rewardSet, counters) = {} THEN 0
  ELSE RewardCoins(CHOOSE v \in Payees(active, rewardSet, counters) :
                     \A w \in Payees(active, rewardSet, counters) : Rank[w] <= Rank[v],
                   active, rewardSet, counters, d)

\* distributedReward: what the payees are given of denom d.
Distributed(active, rewardSet, counters, d) ==
  LET coins == [v \in Payees(active, rewardSet, counters) |->
                  RewardCoins(v, active, rewardSet, counters, d)]
  IN  MapThenSumSet(LAMBDA v : coins[v], DOMAIN coins)

\* The loop ends, and the coins are moved, when every factor is a decimal.
Moves(active, rewardSet, counters) ==
  Payees(active, rewardSet, counters) = rewardSet \intersect active

\* RewardBallotWinners panics: the module account does not hold what was given.
Overdraws(active, rewardSet, counters) ==
  /\ rewardSet # {}
  /\ Moves(active, rewardSet, counters)
  /\ \E d \in RewardDenoms : Distributed(active, rewardSet, counters, d) > rewardPool[d]

\* RewardBallotWinners, for the validators that are active and those of the reward set.
RewardBallotWinners(active, rewardSet, counters) ==
  \/ rewardSet = {} /\ UNCHANGED vars
  \/ /\ rewardSet # {}
     /\ ~Overdraws(active, rewardSet, counters)
     /\ outstanding' =
          [v \in Validators |-> [d \in RewardDenoms |->
             outstanding[v][d] + (IF v \in Payees(active, rewardSet, counters)
                                  THEN RewardCoins(v, active, rewardSet, counters, d) ELSE 0)]]
     /\ LET moved == [d \in RewardDenoms |->
                        IF Moves(active, rewardSet, counters)
                        THEN Distributed(active, rewardSet, counters, d) ELSE 0]
        IN  /\ rewardPool' = [d \in RewardDenoms |-> rewardPool[d] - moved[d]]
            /\ distribution' = [d \in RewardDenoms |-> distribution[d] + moved[d]]
            /\ abandoned' = (abandoned \/ \E d \in RewardDenoms :
                               Distributed(active, rewardSet, counters, d) # moved[d])
=============================================================================
