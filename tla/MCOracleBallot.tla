--------------------------- MODULE MCOracleBallot ---------------------------
(***************************************************************************)
(* Walks through every ballot that at most Cardinality(Voters) validators  *)
(* can cast on one denom, under every assignment of small powers, and      *)
(* checks the operators of OracleBallot against reference definitions.     *)
(***************************************************************************)
EXTENDS OracleBallot

CONSTANTS
  Voters,    \* the validators that may vote, integers: the byte order of the addresses
  MaxPower,  \* bound on the consensus power of one validator
  MaxRate,   \* bound on the rates voted
  Band       \* the reward band of the denom, in percent

ASSUME WalkAssumption ==
  /\ IsFiniteSet(Voters) /\ Voters \subseteq Int
  /\ MaxPower \in Nat /\ MaxRate \in Nat /\ Band \in Nat

VARIABLES
  power,     \* consensus power, fixed within a vote period
  ballot     \* the votes of the period on the denom

vars == <<power, ballot>>

Rate == 1..MaxRate

Init ==
  /\ power \in [Voters -> 1..MaxPower]
  /\ ballot = << >>

\* A vote on the denom is added to the ballot, or replaced to compare two ballots.
Cast(v, r) ==
  /\ ballot' = [w \in DOMAIN ballot \union {v} |-> IF w = v THEN r ELSE ballot[w]]
  /\ UNCHANGED power

Next == \E v \in Voters, r \in Rate : Cast(v, r)

Spec == Init /\ [][Next]_vars

-----------------------------------------------------------------------------
\* ExchangeRateBallot.Less.
Less(v, w) == ballot[v] < ballot[w] \/ (ballot[v] = ballot[w] /\ v < w)

\* The loop of WeightedMedian over the sorted ballot: the rate of the first vote
\* at which the pivot reaches totalPower / 2.
LoopMedian ==
  LET votes == 1..Cardinality(DOMAIN ballot)
      sorted == CHOOSE s \in [votes -> DOMAIN ballot] :
                  \A i, j \in votes : i < j => Less(s[i], s[j])
      pivot(i) == PowerOf(power, {sorted[j] : j \in 1..i})
      stops == {i \in votes : pivot(i) >= PowerOf(power, DOMAIN ballot) \div 2}
  IN  ballot[sorted[Min(stops)]]

\* The median taken over the set of rates is the one the sorted loop of
\* WeightedMedian returns, whatever the order of votes with the same rate.
MedianIsLoopMedian ==
  ballot # << >> => WeightedMedian(ballot, power) = LoopMedian

\* Votes holding less than the rounded-down half of a ballot's power cannot move
\* the rate that WeightedMedian returns outside the rates of the other votes.
SmallMinorityCannotMoveRate ==
  \A S \in SUBSET DOMAIN ballot :
    LET others == {ballot[v] : v \in DOMAIN ballot \ S}
    IN  PowerOf(power, S) < PowerOf(power, DOMAIN ballot) \div 2
          => Min(others) <= WeightedMedian(ballot, power)
             /\ WeightedMedian(ballot, power) <= Max(others)

\* The median that Tally stores follows the votes: when one validator that has
\* voted reports a higher rate the stored rate does not fall, and when it reports
\* a lower one the stored rate does not rise.
MedianFollowsVotes ==
  [][\A v \in DOMAIN ballot :
       LET m == WeightedMedian(ballot, power)
           n == WeightedMedian(ballot', power)
       IN  /\ ballot'[v] > ballot[v] => n >= m
           /\ ballot'[v] < ballot[v] => n <= m]_vars

\* Outliers cannot make an agreeing majority miss: when the votes outside S hold
\* less than the rounded-down half of the power and the votes of S lie within half
\* of the reward band of each other, Tally credits every vote of S.
AgreeingMajorityWins ==
  \A S \in SUBSET DOMAIN ballot :
    /\ S # {}
    /\ PowerOf(power, DOMAIN ballot \ S) < PowerOf(power, DOMAIN ballot) \div 2
    /\ \A v, w \in S : 200 * (ballot[v] - ballot[w]) <= ballot[w] * Band
    => S \subseteq Winners(ballot, power, Band)
=============================================================================
