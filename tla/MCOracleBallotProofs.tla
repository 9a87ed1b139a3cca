------------------------ MODULE MCOracleBallotProofs ------------------------
(***************************************************************************)
(* The properties of the ballots that MCOracleBallot walks through, for    *)
(* any voters, powers, rates and reward band.                              *)
(***************************************************************************)
EXTENDS MCOracleBallot, OracleTheorems

BallotTypeOK ==
  /\ power \in [Voters -> 1..MaxPower]
  /\ DOMAIN ballot \subseteq Voters
  /\ ballot \in [DOMAIN ballot -> Rate]

\* Every ballot that the walk reaches is one of the theorems about ballots.
LEMMA WalkedBallot == BallotTypeOK => IsBallot(ballot, power)
<1> SUFFICES ASSUME BallotTypeOK PROVE IsBallot(ballot, power)
  OBVIOUS
<1>1. IsFiniteSet(DOMAIN ballot)
  BY WalkAssumption, FS_Subset DEF BallotTypeOK
<1>2. ASSUME NEW v \in DOMAIN ballot PROVE ballot[v] \in Nat /\ power[v] \in Nat
  <2>1. v \in Voters /\ ballot[v] \in 1..MaxRate
    BY DEF BallotTypeOK, Rate
  <2>2. power[v] \in 1..MaxPower
    BY <2>1 DEF BallotTypeOK
  <2> QED
    BY <2>1, <2>2, WalkAssumption
<1> QED
  BY <1>1, <1>2 DEF IsBallot

\* A vote that is cast is in the ballot, and the other votes stay as they are.
LEMMA CastVote ==
  ASSUME BallotTypeOK, NEW v \in Voters, NEW r \in Rate, Cast(v, r)
  PROVE  /\ BallotTypeOK'
         /\ power' = power
         /\ DOMAIN ballot' = DOMAIN ballot \union {v}
         /\ \A w \in DOMAIN ballot : ballot'[w] = IF w = v THEN r ELSE ballot[w]
  BY DEF BallotTypeOK, Cast

\* The walk starts at an empty ballot and keeps to rates and voters.
LEMMA WalkTypes ==
  /\ Init => BallotTypeOK
  /\ BallotTypeOK /\ [Next]_vars => BallotTypeOK'
<1>1. Init => BallotTypeOK
  BY DEF Init, BallotTypeOK
<1>2. ASSUME BallotTypeOK, [Next]_vars PROVE BallotTypeOK'
  <2>1. CASE Next
    BY <1>2, <2>1, CastVote DEF Next
  <2>2. CASE UNCHANGED vars
    BY <1>2, <2>2 DEF vars, BallotTypeOK
  <2> QED
    BY <1>2, <2>1, <2>2
<1> QED
  BY <1>1, <1>2

\* On every ballot, votes with less than the rounded-down half of the power leave the rate
\* that WeightedMedian returns within the rates of the other votes.
THEOREM SmallMinorityCannotMoveRateAlways == Spec => []SmallMinorityCannotMoveRate
<1>1. BallotTypeOK => SmallMinorityCannotMoveRate
  <2> SUFFICES ASSUME BallotTypeOK, NEW S \in SUBSET DOMAIN ballot,
                      PowerOf(power, S) < PowerOf(power, DOMAIN ballot) \div 2
               PROVE  LET others == {ballot[v] : v \in DOMAIN ballot \ S}
                      IN  /\ Min(others) <= WeightedMedian(ballot, power)
                          /\ WeightedMedian(ballot, power) <= Max(others)
    BY DEF SmallMinorityCannotMoveRate
  <2> DEFINE rest == DOMAIN ballot \ S
             others == {ballot[v] : v \in rest}
             m == WeightedMedian(ballot, power)
  <2>1. IsBallot(ballot, power)
    BY WalkedBallot
  <2>2. /\ \E v \in rest : ballot[v] <= m
        /\ \E v \in rest : m <= ballot[v]
    BY <2>1, MinorityCannotMoveMedian DEF HalfOf
  <2>3. m \in Nat
    BY <2>1, <2>2, MedianIsFirst
  <2>4. rest \in SUBSET DOMAIN ballot /\ IsFiniteSet(rest) /\ rest # {}
        /\ \A v \in rest : ballot[v] \in Nat
    BY <2>1, <2>2, FS_Subset DEF IsBallot
  <2> HIDE DEF m, rest
  <2>5. others \in SUBSET Int /\ IsFiniteSet(others) /\ others # {}
    BY <2>4, RatesFinite
  <2>6. /\ Min(others) \in Int /\ \A x \in others : Min(others) <= x
        /\ Max(others) \in Int /\ \A x \in others : Max(others) >= x
    BY <2>5, ExtremesOf
  <2>7. /\ \A v \in rest : Min(others) <= ballot[v] /\ ballot[v] <= Max(others)
    BY <2>4, <2>6
  <2> HIDE DEF others
  <2>8. Min(others) <= m /\ m <= Max(others)
    BY <2>2, <2>3, <2>4, <2>6, <2>7
  <2> QED
    BY <2>8 DEF others, rest, m
<1> QED
  BY <1>1, WalkTypes, PTL DEF Spec

\* On every ballot, Tally credits all votes of a majority that agrees within half of the
\* reward band, however far off the others vote.
THEOREM AgreeingMajorityWinsAlways == Spec => []AgreeingMajorityWins
<1>1. BallotTypeOK => AgreeingMajorityWins
  BY WalkedBallot, AgreeingVotesWin, WalkAssumption DEF AgreeingMajorityWins, HalfOf
<1> QED
  BY <1>1, WalkTypes, PTL DEF Spec

\* On every ballot, one vote that rises does not lower the median and one that falls does
\* not raise it.
THEOREM MedianFollowsVotesAlways == Spec => MedianFollowsVotes
<1> DEFINE Follows ==
      \A v \in DOMAIN ballot :
        LET m == WeightedMedian(ballot, power)
            n == WeightedMedian(ballot', power)
        IN  /\ ballot'[v] > ballot[v] => n >= m
            /\ ballot'[v] < ballot[v] => n <= m
<1>1. BallotTypeOK /\ [Next]_vars => [Follows]_vars
  <2> SUFFICES ASSUME BallotTypeOK, Next PROVE Follows
    OBVIOUS
  <2> SUFFICES ASSUME NEW v \in DOMAIN ballot
               PROVE  LET m == WeightedMedian(ballot, power)
                          n == WeightedMedian(ballot', power)
                      IN  /\ ballot'[v] > ballot[v] => n >= m
                          /\ ballot'[v] < ballot[v] => n <= m
    OBVIOUS
  <2>1. PICK w \in Voters, r \in Rate : Cast(w, r)
    BY DEF Next
  <2>2. /\ BallotTypeOK' /\ power' = power
        /\ DOMAIN ballot' = DOMAIN ballot \union {w}
        /\ \A x \in DOMAIN ballot : ballot'[x] = IF x = w THEN r ELSE ballot[x]
    BY <2>1, CastVote
  <2>3. IsBallot(ballot, power) /\ IsBallot(ballot', power)
    <3>1. IsBallot(ballot, power)
      BY WalkedBallot
    <3>2. IsFiniteSet(DOMAIN ballot')
      BY <2>2, <3>1, FS_AddElement DEF IsBallot
    <3> QED
      BY <2>2, <3>1, <3>2, WalkAssumption DEF IsBallot, BallotTypeOK, Rate
  <2>4. /\ WeightedMedian(ballot, power) \in Nat
        /\ WeightedMedian(ballot', power) \in Nat
        /\ \A x \in DOMAIN ballot : ballot[x] \in Nat /\ ballot'[x] \in Nat
    BY <2>2, <2>3, MedianIsFirst DEF IsBallot
  <2>5. CASE ballot'[v] > ballot[v]
    <3>1. v = w /\ DOMAIN ballot' = DOMAIN ballot
          /\ \A x \in DOMAIN ballot : ballot[x] <= ballot'[x]
      BY <2>2, <2>4, <2>5
    <3>2. WeightedMedian(ballot, power) <= WeightedMedian(ballot', power)
      BY <2>3, <3>1, MedianFollowsRates
    <3> QED
      BY <2>4, <2>5, <3>2
  <2>6. CASE ballot'[v] < ballot[v]
    <3>1. v = w /\ DOMAIN ballot' = DOMAIN ballot
          /\ \A x \in DOMAIN ballot : ballot'[x] <= ballot[x]
      BY <2>2, <2>4, <2>6
    <3>2. WeightedMedian(ballot', power) <= WeightedMedian(ballot, power)
      BY <2>3, <3>1, MedianFollowsRates
    <3> QED
      BY <2>4, <2>6, <3>2
  <2> QED
    BY <2>5, <2>6
<1> QED
  BY <1>1, WalkTypes, PTL DEF Spec, MedianFollowsVotes
-----------------------------------------------------------------------------
(* The sorted loop. *)

Places == 1..Cardinality(DOMAIN ballot)

\* Sort puts the votes in the order of Less.
IsInOrder(s) == s \in [Places -> DOMAIN ballot] /\ \A i, j \in Places : i < j => Less(s[i], s[j])

\* What the loop compares: integer voters, natural rates, and places that count the votes.
LEMMA WalkedRates ==
  ASSUME BallotTypeOK
  PROVE  /\ IsRated(ballot)
         /\ \A v \in DOMAIN ballot : v \in Int /\ ballot[v] \in Nat
         /\ Cardinality(DOMAIN ballot) \in Nat
         /\ IsFiniteSet(Places) /\ Cardinality(Places) = Cardinality(DOMAIN ballot)
<1>1. IsBallot(ballot, power)
  BY WalkedBallot
<1>2. \A v \in DOMAIN ballot : v \in Int /\ ballot[v] \in Nat
  BY <1>1, WalkAssumption DEF BallotTypeOK, IsBallot
<1>3. IsRated(ballot)
  BY <1>1, <1>2 DEF IsBallot, IsRated
<1>4. Cardinality(DOMAIN ballot) \in Nat
  BY <1>1, FS_CardinalityType DEF IsBallot
<1>5. /\ IsFiniteSet(Places)
      /\ Cardinality(Places) = IF 1 > Cardinality(DOMAIN ballot) THEN 0
                               ELSE (Cardinality(DOMAIN ballot) - 1) + 1
  BY <1>4, FS_Interval DEF Places
<1> QED
  BY <1>2, <1>3, <1>4, <1>5

\* Every ballot can be sorted: each vote goes to its place.
LEMMA SortExists ==
  ASSUME BallotTypeOK
  PROVE  \E s \in [Places -> DOMAIN ballot] : IsInOrder(s)
<1> DEFINE At(i) == CHOOSE v \in DOMAIN ballot : Place(ballot, v) = i
           s == [i \in Places |-> At(i)]
<1>1. /\ IsRated(ballot) /\ Cardinality(DOMAIN ballot) \in Nat
      /\ \A v \in DOMAIN ballot : v \in Int /\ ballot[v] \in Nat
  BY WalkedRates
<1>2. \A i \in Places : At(i) \in DOMAIN ballot /\ Place(ballot, At(i)) = i
  <2> SUFFICES ASSUME NEW i \in Places
               PROVE  At(i) \in DOMAIN ballot /\ Place(ballot, At(i)) = i
    OBVIOUS
  <2>1. \E v \in DOMAIN ballot : Place(ballot, v) = i
    BY <1>1, PlaceTaken DEF Places
  <2> QED
    BY <2>1
<1> HIDE DEF At
<1>3. ASSUME NEW i \in Places, NEW j \in Places, i < j PROVE Less(At(i), At(j))
  <2> DEFINE v == At(i)
             w == At(j)
  <2>1. /\ v \in DOMAIN ballot /\ w \in DOMAIN ballot
        /\ Place(ballot, v) = i /\ Place(ballot, w) = j
    BY <1>2
  <2>2. i \in Int /\ j \in Int
    BY DEF Places
  <2>3. v # w
    BY <1>3, <2>1, <2>2
  <2> HIDE DEF v, w
  <2>4. w \in UpTo(ballot, v) => Place(ballot, w) < Place(ballot, v)
    BY <1>1, <2>1, <2>3, PlaceOrder
  <2>5. w \notin UpTo(ballot, v)
    BY <1>3, <2>1, <2>2, <2>4
  <2>6. v \in Int /\ w \in Int /\ ballot[v] \in Nat /\ ballot[w] \in Nat
    BY <1>1, <2>1
  <2>7. Less(v, w)
    BY <2>1, <2>5, <2>6 DEF UpTo, Less
  <2> QED
    BY <2>7 DEF v, w
<1>4. IsInOrder(s) /\ s \in [Places -> DOMAIN ballot]
  BY <1>2, <1>3 DEF IsInOrder
<1> QED
  BY <1>4

\* A sorted list has every vote of the ballot, in the order of the rates.
LEMMA SortedVotes ==
  ASSUME BallotTypeOK, NEW s, IsInOrder(s)
  PROVE  /\ \A v \in DOMAIN ballot : \E i \in Places : s[i] = v
         /\ \A i, j \in Places : i <= j => ballot[s[i]] <= ballot[s[j]]
<1>1. /\ \A v \in DOMAIN ballot : v \in Int /\ ballot[v] \in Nat
      /\ IsFiniteSet(Places) /\ Cardinality(Places) = Cardinality(DOMAIN ballot)
      /\ IsFiniteSet(DOMAIN ballot)
  BY WalkedRates DEF IsRated
<1>2. /\ s \in [Places -> DOMAIN ballot]
      /\ \A i, j \in Places : i < j => Less(s[i], s[j])
      /\ \A i \in Places : i \in Int
  BY DEF IsInOrder, Places
<1>3. \A v \in DOMAIN ballot : ~Less(v, v)
  BY <1>1 DEF Less
<1>4. \A i, j \in Places : i # j => s[i] # s[j]
  BY <1>2, <1>3
<1>5. s \in Injection(Places, DOMAIN ballot)
  BY <1>2, <1>4 DEF Injection, IsInjective
<1>6. s \in Surjection(Places, DOMAIN ballot)
  BY <1>1, <1>5, FS_Injection
<1>7. \A i, j \in Places : i <= j => ballot[s[i]] <= ballot[s[j]]
  BY <1>1, <1>2 DEF Less
<1> QED
  BY <1>6, <1>7 DEF Surjection

\* Where the pivot first reaches half of the power stands a vote for the weighted median,
\* however votes of the same rate are ordered.
LEMMA LoopStopsAtMedian ==
  ASSUME BallotTypeOK, DOMAIN ballot # {}, NEW s, IsInOrder(s)
  PROVE  LET pivot(i) == PowerOf(power, {s[j] : j \in 1..i})
             stops == {i \in Places : pivot(i) >= HalfOf(ballot, power)}
         IN  ballot[s[Min(stops)]] = WeightedMedian(ballot, power)
<1> DEFINE n == Cardinality(DOMAIN ballot)
           half == HalfOf(ballot, power)
           m == WeightedMedian(ballot, power)
           passed(i) == {s[j] : j \in 1..i}
           stops == {i \in Places : PowerOf(power, passed(i)) >= half}
           k == Min(stops)
<1>1. IsBallot(ballot, power)
  BY WalkedBallot
<1>2. /\ \A v \in DOMAIN ballot : \E i \in Places : s[i] = v
      /\ \A i, j \in Places : i <= j => ballot[s[i]] <= ballot[s[j]]
  BY SortedVotes
<1>3. /\ n \in Nat /\ Places = 1..n /\ IsFiniteSet(Places)
      /\ \A v \in DOMAIN ballot : ballot[v] \in Nat
      /\ s \in [Places -> DOMAIN ballot]
  BY WalkedRates DEF Places, IsInOrder
<1>4. n \in Places
  <2>1. n # 0
    BY <1>1, FS_EmptySet DEF IsBallot
  <2> HIDE DEF n
  <2> QED
    BY <1>3, <2>1
<1>5. \A i \in Places : 1..i \subseteq Places /\ passed(i) \in SUBSET DOMAIN ballot
  <2> HIDE DEF n
  <2> QED
    BY <1>3
<1>6. /\ half \in Nat
      /\ \A S \in SUBSET DOMAIN ballot : PowerOf(power, S) \in Nat
      /\ \A S \in SUBSET DOMAIN ballot : \A T \in SUBSET S :
           PowerOf(power, T) <= PowerOf(power, S)
      /\ 2 * half <= PowerOf(power, DOMAIN ballot)
  BY <1>1, PowerFacts
<1>7. n \in stops
  <2>1. passed(n) = DOMAIN ballot
    <3> HIDE DEF n
    <3> QED
      BY <1>2, <1>3
  <2>2. PowerOf(power, DOMAIN ballot) \in Nat
    BY <1>6
  <2>3. PowerOf(power, DOMAIN ballot) >= half
    <3> HIDE DEF half
    <3> QED
      BY <1>6, <2>2
  <2> QED
    BY <1>4, <2>1, <2>3
<1>8. k \in stops /\ \A i \in stops : k <= i
  <2>1. stops \in SUBSET Int /\ IsFiniteSet(stops) /\ stops # {}
    <3>1. stops \in SUBSET Places /\ stops # {}
      BY <1>7
    <3> HIDE DEF stops, n
    <3>2. IsFiniteSet(stops)
      BY <1>3, <3>1, FS_Subset
    <3> QED
      BY <1>3, <3>1, <3>2
  <2> HIDE DEF stops
  <2> QED
    BY <2>1, ExtremesOf
<1>9. k \in Places /\ k \in Nat /\ k >= 1 /\ PowerOf(power, passed(k)) >= half
  <2>1. k \in Places /\ PowerOf(power, passed(k)) >= half
    <3> HIDE DEF k
    <3> QED
      BY <1>8
  <2> HIDE DEF n, k
  <2> QED
    BY <1>3, <2>1
<1> HIDE DEF k, n
<1> DEFINE r == ballot[s[k]]
<1>10. r \in RatesOf(ballot) /\ r \in Nat
  BY <1>3, <1>9 DEF RatesOf
<1>11. /\ m \in RatesOf(ballot) /\ m \in Nat
       /\ PowerOf(power, VotersUpTo(ballot, m)) >= half
       /\ \A x \in RatesOf(ballot) : PowerOf(power, VotersUpTo(ballot, x)) >= half => m <= x
  BY <1>1, MedianIsFirst
<1> HIDE DEF half, m
<1>12. m <= r
  <2>1. \A j \in 1..k : j \in Places /\ j <= k
    BY <1>5, <1>9
  <2>2. passed(k) \in SUBSET VotersUpTo(ballot, r)
    BY <1>2, <1>3, <1>9, <2>1 DEF VotersUpTo
  <2>3. VotersUpTo(ballot, r) \in SUBSET DOMAIN ballot
    BY DEF VotersUpTo
  <2> HIDE DEF r, passed
  <2>4. PowerOf(power, passed(k)) <= PowerOf(power, VotersUpTo(ballot, r))
    BY <1>6, <2>2, <2>3
  <2>5. PowerOf(power, passed(k)) \in Nat /\ PowerOf(power, VotersUpTo(ballot, r)) \in Nat
    BY <1>6, <2>2, <2>3
  <2>6. PowerOf(power, VotersUpTo(ballot, r)) >= half
    BY <1>6, <1>9, <2>4, <2>5
  <2> QED
    BY <1>10, <1>11, <2>6
<1>13. ASSUME m < r PROVE FALSE
  <2> DEFINE U == VotersUpTo(ballot, m)
             l == k - 1
  <2>1. U \in SUBSET passed(l)
    <3> SUFFICES ASSUME NEW v \in U PROVE v \in passed(l)
      OBVIOUS
    <3>1. v \in DOMAIN ballot /\ ballot[v] <= m /\ ballot[v] \in Nat
      BY <1>3 DEF VotersUpTo
    <3>2. PICK i \in Places : s[i] = v
      BY <1>2, <3>1
    <3>3. k <= i => r <= ballot[v]
      BY <1>2, <1>9, <3>2
    <3> HIDE DEF r
    <3>4. ~(k <= i)
      BY <1>10, <1>11, <1>13, <3>1, <3>3
    <3>5. i \in 1..l
      BY <1>3, <1>9, <3>2, <3>4
    <3> QED
      BY <3>2, <3>5
  <2>2. \E v \in DOMAIN ballot : v \in U
    BY <1>3, <1>11 DEF RatesOf, VotersUpTo
  <2>3. l \in Places
    <3>1. 1..l # {}
      BY <2>1, <2>2
    <3> QED
      BY <1>3, <1>9, <3>1
  <2>4. passed(l) \in SUBSET DOMAIN ballot
    BY <1>5, <2>3
  <2> HIDE DEF passed, U
  <2>5. /\ PowerOf(power, U) \in Nat /\ PowerOf(power, passed(l)) \in Nat
        /\ PowerOf(power, U) <= PowerOf(power, passed(l))
    BY <1>6, <2>1, <2>4
  <2>6. PowerOf(power, U) >= half
    BY <1>11 DEF U
  <2>7. PowerOf(power, passed(l)) >= half
    BY <1>6, <2>5, <2>6
  <2>8. k <= l
    BY <1>8, <2>3, <2>7
  <2> QED
    BY <1>9, <2>8
<1>14. r = m
  <2> HIDE DEF r
  <2> QED
    BY <1>10, <1>11, <1>12, <1>13
<1> QED
  BY <1>14 DEF k, m, half

\* On every ballot, the rate at which the sorted loop of WeightedMedian stops is the least
\* rate up to which half of the power has voted: the definition that Tally uses here.
THEOREM MedianIsLoopMedianAlways == Spec => []MedianIsLoopMedian
<1>1. BallotTypeOK => MedianIsLoopMedian
  <2> SUFFICES ASSUME BallotTypeOK, ballot # << >>
               PROVE  WeightedMedian(ballot, power) = LoopMedian
    BY DEF MedianIsLoopMedian
  <2>1. DOMAIN ballot # {}
    BY DEF BallotTypeOK
  <2> DEFINE s == CHOOSE t \in [Places -> DOMAIN ballot] :
                    \A i, j \in Places : i < j => Less(t[i], t[j])
  <2>2. IsInOrder(s)
    <3>1. \E t \in [Places -> DOMAIN ballot] :
            \A i, j \in Places : i < j => Less(t[i], t[j])
      BY SortExists DEF IsInOrder
    <3> QED
      BY <3>1 DEF IsInOrder
  <2>3. LoopMedian = LET pivot(i) == PowerOf(power, {s[j] : j \in 1..i})
                         stops == {i \in Places : pivot(i) >= HalfOf(ballot, power)}
                     IN  ballot[s[Min(stops)]]
    BY DEF LoopMedian, Places, HalfOf
  <2> HIDE DEF s
  <2> QED
    BY <2>1, <2>2, <2>3, LoopStopsAtMedian
<1> QED
  BY <1>1, WalkTypes, PTL DEF Spec
=============================================================================
