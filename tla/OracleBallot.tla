---------------------------- MODULE OracleBallot ----------------------------
(***************************************************************************)
(* The arithmetic of one ballot of x/oracle: the votes of one vote period  *)
(* for one denom (types/ballot.go) and the tally over them                 *)
(* (abci/endblocker.go).                                                   *)
(*                                                                         *)
(* A ballot is a function from the voters that voted on the denom to the   *)
(* rates they voted; power gives every validator its consensus power.      *)
(* Rates are positive integers in units of the smallest rate the model     *)
(* distinguishes, a reward band is a number of percent.  The decimals of   *)
(* the code are exact here, up to the largest one: the 18th digit at which *)
(* the code's quotients and square root are rounded is below what any      *)
(* property observes.                                                      *)
(***************************************************************************)
EXTENDS Integers, FiniteSets, FiniteSetsExt, SequencesExt, OracleDecimals

\* ExchangeRateBallot.Power over the voters S.
PowerOf(power, S) == MapThenSumSet(LAMBDA v : power[v], S)

\* The voters of the ballot that the loop of WeightedMedian has passed once it
\* has seen the last vote at rate r.  The ballot is sorted by rate and then by
\* voter; the order between equal rates cannot change the rate returned.
VotersUpTo(ballot, r) == {v \in DOMAIN ballot : ballot[v] <= r}

\* Mutants of WeightedMedian: the half must be exceeded; votes count by head; the
\* pivot starts again at every rate.
MedianAboveHalf(ballot, power) ==
  Min({r \in {ballot[v] : v \in DOMAIN ballot} :
         PowerOf(power, VotersUpTo(ballot, r)) > PowerOf(power, DOMAIN ballot) \div 2})
MedianByHead(ballot, power) ==
  Min({r \in {ballot[v] : v \in DOMAIN ballot} :
         Cardinality(VotersUpTo(ballot, r)) >= Cardinality(DOMAIN ballot) \div 2})
MedianOfRate(ballot, power) ==
  Max({0} \union {r \in {ballot[v] : v \in DOMAIN ballot} :
         PowerOf(power, {v \in DOMAIN ballot : ballot[v] = r})
           >= PowerOf(power, DOMAIN ballot) \div 2})

\* ExchangeRateBallot.WeightedMedian: the first rate at which the accumulated
\* power reaches half of the total, the half rounded down by the int64 division.
WeightedMedian(ballot, power) ==
  LET half == PowerOf(power, DOMAIN ballot) \div 2
  IN  Min({r \in {ballot[v] : v \in DOMAIN ballot} :
             PowerOf(power, VotersUpTo(ballot, r)) >= half})

\* The distance of a vote from the weighted median.
Deviation(ballot, power, v) ==
  LET d == ballot[v] - WeightedMedian(ballot, power)
  IN  IF d < 0 THEN -d ELSE d

\* ExchangeRateBallot.StandardDeviation, before its division and its square root: the sum of
\* the squared deviations over the sorted ballot, and ballotLength.  Every vote weighs the
\* same, and one that takes the sum past the largest decimal is recovered from and left out.
Variance(ballot, power) ==
  LET square(v) == Deviation(ballot, power, v) * Deviation(ballot, power, v)
      votes     == SetToSortSeq(DOMAIN ballot, LAMBDA v, w : ballot[v] < ballot[w])
      add(acc, v) ==
        IF acc.sum + square(v) > MaxSquare THEN acc
        ELSE [sum |-> acc.sum + square(v), n |-> acc.n + 1]
  IN  FoldLeft(add, [sum |-> 0, n |-> 0], votes)

\* Mutant of Winners: the reward band is left out of the spread.
WinnersByDeviation(ballot, power, band) ==
  LET variance == Variance(ballot, power)
  IN  {v \in DOMAIN ballot :
         variance.n * Deviation(ballot, power, v) * Deviation(ballot, power, v) <= variance.sum}

\* Tally: the voters within max(median * band / 2, standard deviation) of the
\* weighted median.  Both comparisons are multiplied out: 200 * d <= median * band
\* is d <= median * (band / 100) / 2, and n * d * d <= sum is d <= sqrt(sum / n).
Winners(ballot, power, band) ==
  LET median   == WeightedMedian(ballot, power)
      variance == Variance(ballot, power)
  IN  {v \in DOMAIN ballot :
         LET d == Deviation(ballot, power, v)
         IN  \/ 200 * d <= median * band
             \/ variance.n * d * d <= variance.sum}

\* CalcPrices: the share of the bonded power behind a ballot, in whole percent,
\* rounded down by the int64 division; total is not 0 when the ballot has a vote.
Support(ballot, power, bonded) ==
  (PowerOf(power, DOMAIN ballot) * 100) \div PowerOf(power, bonded)
=============================================================================
