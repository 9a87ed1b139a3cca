------------------------- MODULE OracleVotingProofs -------------------------
(***************************************************************************)
(* Proofs about OracleVoting, for every set of validators, every power,    *)
(* every parameter that Params.Validate accepts and every height.          *)
(***************************************************************************)
EXTENDS OracleVoting, OracleTheorems

-----------------------------------------------------------------------------
(* The ages of prevotes. *)

\* What ClearBallots keeps at the last block h of a period of n blocks: a prevote
\* of block s that is at most n blocks old is from this period or the one before,
\* or from the last block of the period before that.
LEMMA KeptPrevoteAge ==
  ASSUME NEW n \in Nat \ {0}, NEW h \in Nat, NEW s \in Nat,
         ((h + 1) % n) = 0, s <= h, h <= s + n
  PROVE  \/ ((h + 1) \div n) <= (s \div n) + 1
         \/ ((h + 1) \div n) = (s \div n) + 2 /\ ((s + 1) % n) = 0
  <1> DEFINE p == h \div n
  <1>1. p \in Nat /\ h = (n * p) + (n - 1) /\ ((h + 1) \div n) = p + 1
    BY DivMod, NextPeriod
  <1> HIDE DEF p
  <1>2. (n * p) \in Nat
    BY <1>1
  <1>3. CASE s >= n * p
    <2>1. p = ((n * p) \div n)
      BY <1>1, <1>2, DivModUnique
    <2>2. ((n * p) \div n) <= (s \div n)
      BY <1>2, <1>3, PeriodsInOrder
    <2> QED
      BY <1>1, <2>1, <2>2, DivMod
  <1>4. CASE s < n * p
    <2>1. s + 1 = n * p
      BY <1>1, <1>2, <1>4
    <2>2. p = ((s + 1) \div n) /\ ((s + 1) % n) = 0
      BY <1>1, <1>2, <2>1, DivModUnique
    <2>3. p = (s \div n) + 1
      BY <2>2, NextPeriod
    <2> QED
      BY <1>1, <2>2, <2>3, DivMod
  <1> QED
    BY <1>2, <1>3, <1>4

\* What it removes: a prevote whose reveal period has ended with block h.
LEMMA RemovedPrevoteAge ==
  ASSUME NEW n \in Nat \ {0}, NEW h \in Nat, NEW s \in Nat,
         ((h + 1) % n) = 0, ~(h <= s + n)
  PROVE  ((h + 1) \div n) > (s \div n) + 1
  <1> DEFINE p == h \div n
             q == s \div n
  <1>1. p \in Nat /\ h = (n * p) + (n - 1) /\ ((h + 1) \div n) = p + 1
    BY DivMod, NextPeriod
  <1>2. q \in Nat /\ s >= n * q
    BY DivMod
  <1> HIDE DEF p, q
  <1>3. (n * p) \in Nat /\ (n * q) \in Nat
    BY <1>1, <1>2
  <1>4. n * q < n * p
    BY <1>1, <1>2, <1>3
  <1>5. q < p
    BY <1>1, <1>2, <1>4
  <1> QED
    BY <1>1, <1>2, <1>5 DEF q

-----------------------------------------------------------------------------
(* The tally. *)

\* What Params.Validate guarantees of the two periods.
LEMMA PeriodsArePositive ==
  VotePeriod \in Nat \ {0} /\ SlashWindow \in Nat \ {0} /\ (SlashWindow % VotePeriod) = 0
  BY ParamsAssumption

\* A vote period charges a claim between nothing and all of the mandatory denoms.
LEMMA MissesBounded ==
  ASSUME NEW active, NEW v
  PROVE  /\ Cardinality(MandatoryList) \in Nat
         /\ Misses(active, v) \in 0..Cardinality(MandatoryList)
  <1>1. IsFiniteSet(MandatoryList)
    BY ParamsAssumption, FS_Subset
  <1>2. MandatoryWins(active, v) \subseteq MandatoryList
    BY DEF MandatoryWins
  <1>3. /\ IsFiniteSet(MandatoryWins(active, v))
        /\ Cardinality(MandatoryWins(active, v)) <= Cardinality(MandatoryList)
    BY <1>1, <1>2, FS_Subset
  <1>4. Cardinality(MandatoryList) \in Nat /\ Cardinality(MandatoryWins(active, v)) \in Nat
    BY <1>1, <1>3, FS_CardinalityType
  <1> QED
    BY <1>3, <1>4 DEF Misses

-----------------------------------------------------------------------------
(* Type correctness. *)

\* The votes of the store: TypeOK's three conjuncts on votes in one predicate.
VotesTyped(f) ==
  /\ DOMAIN f \subseteq Validators
  /\ f = [v \in DOMAIN f |-> f[v]]
  /\ \A v \in DOMAIN f : IsStore(f[v], AcceptList, Nat \ {0})

\* A store without votes is well typed.
LEMMA EmptyVotes == VotesTyped(<< >>)
  BY DEF VotesTyped

\* The rates of a reveal, filtered by the AcceptList, make a well-typed vote.
LEMMA PutVote ==
  ASSUME NEW f, VotesTyped(f), NEW v \in Validators, NEW r \in RateMaps
  PROVE  VotesTyped(Put(f, v, Keep(r, AcceptList)))
  <1> DEFINE x == Keep(r, AcceptList)
             g == Put(f, v, x)
  <1>1. IsStore(x, AcceptList, Nat \ {0})
    BY ParamsAssumption, KeepStore
  <1> HIDE DEF x
  <1>2. /\ DOMAIN g = DOMAIN f \union {v}
        /\ g[v] = x
        /\ \A i \in DOMAIN f \ {v} : g[i] = f[i]
    BY DEF Put
  <1>3. g = [i \in DOMAIN g |-> g[i]]
    BY DEF Put
  <1> HIDE DEF g
  <1>4. VotesTyped(g)
    BY <1>1, <1>2, <1>3 DEF VotesTyped
  <1> QED
    BY <1>4 DEF g, x

\* EndBlock keeps the types, whatever validators are active.
LEMMA TypeOKEndBlock ==
  ASSUME TypeOK, NEW active \in ActiveSets, EndBlock(active)
  PROVE  TypeOK'
  <1>1. active \subseteq Validators
    BY DEF ActiveSets
  <1>2. height' \in Nat /\ bonded' \subseteq Validators /\ halted' \in BOOLEAN
        /\ IsStore(feederDelegations', Validators, Accounts)
    BY <1>1 DEF TypeOK, EndBlock
  <1>3. validatorRewardSet' \subseteq Validators
    BY <1>1 DEF TypeOK, EndBlock, RewardSetAfter
  <1>4. /\ IsStore(prevotes', Validators, Prevote)
        /\ VotesTyped(votes')
        /\ IsStore(origin', Validators, Prevote)
        /\ DOMAIN exchangeRates' \subseteq AcceptList
    <2>1. CASE CalcPrices(active)
      <3>1. IsStore(prevotes', Validators, Prevote)
        BY <2>1, KeepStore DEF CalcPrices, UnexpiredPrevotes, TypeOK
      <3>2. VotesTyped(votes')
        BY <2>1, EmptyVotes DEF CalcPrices
      <3>3. IsStore(origin', Validators, Prevote)
        BY <2>1, EmptyStore DEF CalcPrices
      <3>4. DOMAIN exchangeRates' \subseteq AcceptList
        BY <2>1, ParamsAssumption DEF CalcPrices, TalliedRates, PassingDenoms
      <3> QED
        BY <3>1, <3>2, <3>3, <3>4
    <2>2. CASE UNCHANGED <<exchangeRates, prevotes, votes, origin>>
      BY <2>2 DEF TypeOK, VotesTyped
    <2> QED
      BY <2>1, <2>2 DEF EndBlock
  <1>5. /\ jailed' \subseteq Validators
        /\ missCounters' \in [Validators -> Nat]
        /\ clean' \in [Validators -> Nat]
    <2>1. \A v : Misses(active, v) \in Nat
      BY MissesBounded
    <2>2. CountedMisses(active) \in [Validators -> Nat]
      BY <2>1 DEF TypeOK, CountedMisses
    <2>3. CountedClean(active) \in [Validators -> Nat]
      BY DEF TypeOK, CountedClean
    <2>4. CASE SlashAndResetMissCounters(active)
      BY <1>1, <2>4 DEF SlashAndResetMissCounters, Slashed, TypeOK
    <2>5. CASE /\ missCounters' = CountedMisses(active)
               /\ clean' = CountedClean(active)
               /\ UNCHANGED jailed
      BY <2>2, <2>3, <2>5 DEF TypeOK
    <2> QED
      BY <2>4, <2>5 DEF EndBlock
  <1> QED
    BY <1>2, <1>3, <1>4, <1>5 DEF TypeOK, VotesTyped

\* The first block is well typed.
LEMMA TypeOKInit ==
  ASSUME Init
  PROVE  TypeOK
  <1>1. VotesTyped(votes)
    BY EmptyVotes DEF Init
  <1>2. /\ IsStore(feederDelegations, Validators, Accounts)
        /\ IsStore(prevotes, Validators, Prevote)
        /\ IsStore(origin, Validators, Prevote)
        /\ DOMAIN exchangeRates \subseteq AcceptList
    BY EmptyStore DEF Init
  <1> QED
    BY <1>1, <1>2 DEF Init, TypeOK, VotesTyped

\* Every message and every block keeps the types.
LEMMA TypeOKStep ==
  ASSUME TypeOK, [Next]_vars
  PROVE  TypeOK'
  <1>1. ASSUME NEW v \in Validators, NEW f \in Accounts, NEW hash \in Hash,
               AggregateExchangeRatePrevote(f, v, hash)
        PROVE  TypeOK'
    <2>1. [hash |-> hash, submitBlock |-> height] \in Prevote
      BY DEF Prevote, TypeOK
    <2>2. IsStore(prevotes', Validators, Prevote)
      BY <1>1, <2>1, PutStore DEF AggregateExchangeRatePrevote, TypeOK
    <2> QED
      BY <1>1, <2>2 DEF AggregateExchangeRatePrevote, TypeOK
  <1>2. ASSUME NEW v \in Validators, NEW f \in Accounts,
               NEW salt \in Salts, NEW rates \in RateMaps,
               AggregateExchangeRateVote(f, v, salt, rates)
        PROVE  TypeOK'
    <2>1. VotesTyped(votes')
      BY <1>2, PutVote DEF AggregateExchangeRateVote, FilteredRates, TypeOK, VotesTyped
    <2>2. IsStore(prevotes', Validators, Prevote)
      BY <1>2, KeepStore DEF AggregateExchangeRateVote, TypeOK
    <2>3. prevotes[v] \in Prevote
      BY <1>2 DEF AggregateExchangeRateVote, TypeOK, IsStore
    <2>4. IsStore(origin', Validators, Prevote)
      BY <1>2, <2>3, PutStore DEF AggregateExchangeRateVote, TypeOK
    <2> QED
      BY <1>2, <2>1, <2>2, <2>4 DEF AggregateExchangeRateVote, TypeOK, VotesTyped
  <1>3. ASSUME NEW v \in Validators, NEW d \in Delegates, DelegateFeedConsent(v, d)
        PROVE  TypeOK'
    <2>1. IsStore(feederDelegations', Validators, Accounts)
      BY <1>3, PutStore DEF DelegateFeedConsent, TypeOK, Accounts
    <2> QED
      BY <1>3, <2>1 DEF DelegateFeedConsent, TypeOK
  <1>4. ASSUME NEW v \in Validators, Unjail(v)
        PROVE  TypeOK'
    BY <1>4 DEF Unjail, TypeOK
  <1>5. ASSUME NEW active \in ActiveSets, EndBlock(active)
        PROVE  TypeOK'
    BY <1>5, TypeOKEndBlock
  <1>6. ASSUME NEW active \in ActiveSets, EndBlockFails(active)
        PROVE  TypeOK'
    BY <1>6 DEF EndBlockFails, TypeOK
  <1>7. CASE UNCHANGED vars
    BY <1>7 DEF TypeOK, vars
  <1> QED
    BY <1>1, <1>2, <1>3, <1>4, <1>5, <1>6, <1>7 DEF Next, Messages

\* Every store of the keeper keeps its type (OracleVoting's TypeOK) in every
\* reachable state: the messages and EndBlock only ever write what they read.
THEOREM TypeCorrect == Spec => []TypeOK
  <1>1. Init => TypeOK
    BY TypeOKInit
  <1>2. TypeOK /\ [Next]_vars => TypeOK'
    BY TypeOKStep
  <1> QED
    BY <1>1, <1>2, PTL DEF Spec

-----------------------------------------------------------------------------
(* Commitments and reveals. *)

\* The inductive invariant of the commit-reveal.  OneCommitmentPerPeriod is what
\* makes the other two inductive: it bounds the age of a prevote from below, and
\* ties the commitment a vote has opened to the vote.
CommitInv ==
  /\ TypeOK
  /\ OneCommitmentPerPeriod
  /\ VotesOpenOwnCommitments
  /\ PrevotesExpire

\* A stored prevote is a record of a hash and a block.
LEMMA PrevoteTyped ==
  ASSUME TypeOK
  PROVE  /\ \A v \in DOMAIN prevotes : prevotes[v].submitBlock \in Nat
         /\ \A v \in DOMAIN origin : origin[v].submitBlock \in Nat
  BY DEF TypeOK, IsStore, Prevote

\* AggregateExchangeRatePrevote keeps CommitInv: the new prevote is of this block.
LEMMA CommitInvPrevote ==
  ASSUME CommitInv, NEW v \in Validators, NEW f \in Accounts, NEW hash \in Hash,
         AggregateExchangeRatePrevote(f, v, hash)
  PROVE  OneCommitmentPerPeriod' /\ VotesOpenOwnCommitments' /\ PrevotesExpire'
  <1> DEFINE p == [hash |-> hash, submitBlock |-> height]
  <1>1. /\ DOMAIN prevotes' = DOMAIN prevotes \union {v}
        /\ prevotes'[v].submitBlock = height
        /\ \A w \in DOMAIN prevotes : prevotes'[w] = prevotes[w]
    BY DEF AggregateExchangeRatePrevote, Put
  <1>2. /\ height' = height /\ votes' = votes /\ origin' = origin
        /\ height \in Nat
    BY DEF AggregateExchangeRatePrevote, CommitInv, TypeOK
  <1>3. PeriodOf(height) \in Nat
    BY <1>2, PeriodsArePositive, DivMod DEF PeriodOf
  <1>4. OneCommitmentPerPeriod'
    BY <1>1, <1>2 DEF CommitInv, OneCommitmentPerPeriod, PeriodOf
  <1>5. VotesOpenOwnCommitments'
    BY <1>2 DEF CommitInv, VotesOpenOwnCommitments, PeriodOf
  <1>6. PrevotesExpire'
    BY <1>1, <1>2, <1>3 DEF CommitInv, PrevotesExpire, PeriodOf
  <1> QED
    BY <1>4, <1>5, <1>6

\* AggregateExchangeRateVote keeps CommitInv: the prevote it opens is of the period
\* before and leaves the store.
LEMMA CommitInvVote ==
  ASSUME CommitInv, NEW v \in Validators, NEW f \in Accounts,
         NEW salt \in Salts, NEW rates \in RateMaps,
         AggregateExchangeRateVote(f, v, salt, rates)
  PROVE  OneCommitmentPerPeriod' /\ VotesOpenOwnCommitments' /\ PrevotesExpire'
  <1>1. /\ DOMAIN prevotes' = DOMAIN prevotes \ {v}
        /\ \A w \in DOMAIN prevotes' : prevotes'[w] = prevotes[w]
    BY DEF AggregateExchangeRateVote, Keep, CommitInv, TypeOK, IsStore
  <1>2. /\ DOMAIN votes' = DOMAIN votes \union {v}
        /\ votes'[v] = Keep(rates, AcceptList)
        /\ \A w \in DOMAIN votes \ {v} : votes'[w] = votes[w]
    BY DEF AggregateExchangeRateVote, FilteredRates, Put
  <1>3. /\ DOMAIN origin' = DOMAIN origin \union {v}
        /\ origin'[v] = prevotes[v]
        /\ \A w \in DOMAIN origin \ {v} : origin'[w] = origin[w]
    BY DEF AggregateExchangeRateVote, Put
  <1>4. /\ height' = height /\ v \in DOMAIN prevotes
        /\ prevotes[v].hash.rates = rates /\ prevotes[v].hash.voter = v
        /\ PeriodOf(height) - PeriodOf(prevotes[v].submitBlock) = 1
    BY DEF AggregateExchangeRateVote, RevealPeriodMatches
  <1>5. PeriodOf(prevotes[v].submitBlock) \in Nat /\ PeriodOf(height) \in Nat
    BY <1>4, PrevoteTyped, PeriodsArePositive, DivMod DEF PeriodOf, CommitInv, TypeOK
  <1>6. PeriodOf(prevotes[v].submitBlock) + 1 = PeriodOf(height)
    BY <1>4, <1>5
  <1>7. OneCommitmentPerPeriod'
    BY <1>1, <1>2, <1>3, <1>4 DEF CommitInv, OneCommitmentPerPeriod, PeriodOf
  <1>8. VotesOpenOwnCommitments'
    <2> SUFFICES ASSUME NEW w \in DOMAIN votes'
                 PROVE  /\ PeriodOf(origin'[w].submitBlock) + 1 = PeriodOf(height)
                        /\ origin'[w].hash.voter = w
                        /\ votes'[w] = Keep(origin'[w].hash.rates, AcceptList)
      BY <1>4 DEF VotesOpenOwnCommitments, PeriodOf, Keep
    <2>1. CASE w = v
      BY <1>2, <1>3, <1>4, <1>6, <2>1
    <2>2. CASE w # v
      <3>1. votes'[w] = votes[w] /\ origin'[w] = origin[w] /\ w \in DOMAIN votes
        BY <1>2, <1>3, <2>2 DEF CommitInv, OneCommitmentPerPeriod
      <3> QED
        BY <3>1 DEF CommitInv, VotesOpenOwnCommitments
    <2> QED
      BY <2>1, <2>2
  <1>9. PrevotesExpire'
    BY <1>1, <1>4 DEF CommitInv, PrevotesExpire, PeriodOf
  <1> QED
    BY <1>7, <1>8, <1>9

\* EndBlock keeps CommitInv: within a period nothing moves, and at its end the votes
\* go and the prevotes that stay are young enough.
LEMMA CommitInvEndBlock ==
  ASSUME CommitInv, NEW active \in ActiveSets, EndBlock(active)
  PROVE  OneCommitmentPerPeriod' /\ VotesOpenOwnCommitments' /\ PrevotesExpire'
  <1>1. height \in Nat /\ height' = height + 1
    BY DEF EndBlock, CommitInv, TypeOK
  <1>2. CASE IsPeriodLastBlock(VotePeriod)
    <2>1. votes' = << >> /\ origin' = << >> /\ prevotes' = UnexpiredPrevotes
      BY <1>2 DEF EndBlock, CalcPrices
    <2>2. DOMAIN votes' = {} /\ DOMAIN origin' = {}
      BY <2>1
    <2>3. /\ DOMAIN prevotes' \subseteq DOMAIN prevotes
          /\ \A v \in DOMAIN prevotes' :
               /\ prevotes'[v] = prevotes[v]
               /\ height <= prevotes[v].submitBlock + VotePeriod
      BY <2>1 DEF UnexpiredPrevotes, Keep
    <2>4. \A v \in DOMAIN prevotes :
            prevotes[v].submitBlock \in Nat /\ prevotes[v].submitBlock <= height
      BY PrevoteTyped DEF CommitInv, OneCommitmentPerPeriod
    <2>5. OneCommitmentPerPeriod'
      BY <1>1, <2>2, <2>3, <2>4 DEF OneCommitmentPerPeriod
    <2>6. VotesOpenOwnCommitments'
      BY <2>2 DEF VotesOpenOwnCommitments
    <2>7. PrevotesExpire'
      <3> SUFFICES ASSUME NEW v \in DOMAIN prevotes'
                   PROVE  LET submit == prevotes'[v].submitBlock
                          IN  \/ PeriodOf(height') <= PeriodOf(submit) + 1
                              \/ /\ PeriodOf(height') = PeriodOf(submit) + 2
                                 /\ (submit + 1) % VotePeriod = 0
        BY DEF PrevotesExpire, PeriodOf
      <3> DEFINE submit == prevotes'[v].submitBlock
      <3>1. submit \in Nat /\ submit <= height /\ height <= submit + VotePeriod
        BY <2>3, <2>4
      <3>2. ((height + 1) % VotePeriod) = 0
        BY <1>2 DEF IsPeriodLastBlock
      <3> HIDE DEF submit
      <3>3. \/ ((height + 1) \div VotePeriod) <= (submit \div VotePeriod) + 1
            \/ /\ ((height + 1) \div VotePeriod) = (submit \div VotePeriod) + 2
               /\ ((submit + 1) % VotePeriod) = 0
        BY <1>1, <3>1, <3>2, PeriodsArePositive, KeptPrevoteAge
      <3> QED
        BY <1>1, <3>3 DEF PeriodOf, submit
    <2> QED
      BY <2>5, <2>6, <2>7
  <1>3. CASE ~IsPeriodLastBlock(VotePeriod)
    <2>1. votes' = votes /\ origin' = origin /\ prevotes' = prevotes
      BY <1>3 DEF EndBlock
    <2>2. PeriodOf(height') = PeriodOf(height)
      BY <1>1, <1>3, PeriodsArePositive, SamePeriod DEF PeriodOf, IsPeriodLastBlock
    <2>3. OneCommitmentPerPeriod'
      BY <1>1, <2>1, <2>2, PrevoteTyped DEF CommitInv, OneCommitmentPerPeriod, PeriodOf
    <2>4. VotesOpenOwnCommitments'
      BY <2>1, <2>2 DEF CommitInv, VotesOpenOwnCommitments, PeriodOf
    <2>5. PrevotesExpire'
      BY <2>1, <2>2 DEF CommitInv, PrevotesExpire, PeriodOf
    <2> QED
      BY <2>3, <2>4, <2>5
  <1> QED
    BY <1>2, <1>3

\* The other actions, and stuttering, leave the stores of the commit-reveal alone.
LEMMA CommitInvStutter ==
  ASSUME CommitInv, UNCHANGED <<height, prevotes, votes, origin>>
  PROVE  OneCommitmentPerPeriod' /\ VotesOpenOwnCommitments' /\ PrevotesExpire'
  <1>1. OneCommitmentPerPeriod'
    BY DEF CommitInv, OneCommitmentPerPeriod, PeriodOf
  <1>2. VotesOpenOwnCommitments'
    BY DEF CommitInv, VotesOpenOwnCommitments, PeriodOf
  <1>3. PrevotesExpire'
    BY DEF CommitInv, PrevotesExpire, PeriodOf
  <1> QED
    BY <1>1, <1>2, <1>3

\* A chain starts without commitments.
LEMMA CommitInvInit ==
  ASSUME Init
  PROVE  OneCommitmentPerPeriod /\ VotesOpenOwnCommitments /\ PrevotesExpire
  BY DEF Init, OneCommitmentPerPeriod, VotesOpenOwnCommitments, PrevotesExpire

\* Every message and every block keeps CommitInv.
LEMMA CommitInvStep ==
  ASSUME CommitInv, [Next]_vars
  PROVE  OneCommitmentPerPeriod' /\ VotesOpenOwnCommitments' /\ PrevotesExpire'
  <1>1. CASE \E v \in Validators, f \in Accounts, hash \in Hash :
               AggregateExchangeRatePrevote(f, v, hash)
    BY <1>1, CommitInvPrevote
  <1>2. CASE \E v \in Validators, f \in Accounts, salt \in Salts, rates \in RateMaps :
               AggregateExchangeRateVote(f, v, salt, rates)
    BY <1>2, CommitInvVote
  <1>3. CASE \E active \in ActiveSets : EndBlock(active)
    BY <1>3, CommitInvEndBlock
  <1>4. CASE UNCHANGED <<height, prevotes, votes, origin>>
    BY <1>4, CommitInvStutter
  <1>5. CASE \/ \E v \in Validators, d \in Delegates : DelegateFeedConsent(v, d)
             \/ \E v \in Validators : Unjail(v)
             \/ \E active \in ActiveSets : EndBlockFails(active)
    BY <1>4, <1>5 DEF DelegateFeedConsent, Unjail, EndBlockFails
  <1> QED
    BY <1>1, <1>2, <1>3, <1>4, <1>5 DEF Next, Messages, vars

\* CommitInv holds in every reachable state.
THEOREM CommitInvariant == Spec => []CommitInv
  <1>1. Init => OneCommitmentPerPeriod /\ VotesOpenOwnCommitments /\ PrevotesExpire
    BY CommitInvInit
  <1>2. CommitInv /\ [Next]_vars
          => OneCommitmentPerPeriod' /\ VotesOpenOwnCommitments' /\ PrevotesExpire'
    BY CommitInvStep
  <1> QED
    BY <1>1, <1>2, TypeCorrect, PTL DEF Spec, CommitInv

\* Every vote waiting for the tally was committed to by its validator in the vote
\* period before: AggregateExchangeRateVote accepts nothing else.
THEOREM VotesOpenOwnCommitmentsAlways == Spec => []VotesOpenOwnCommitments
  BY CommitInvariant, PTL DEF CommitInv

\* The store never holds two commitments of one validator that could be opened in
\* the same period.
THEOREM OneCommitmentPerPeriodAlways == Spec => []OneCommitmentPerPeriod
  BY CommitInvariant, PTL DEF CommitInv

\* ClearBallots leaves no prevote behind for more than one period after the one in
\* which it could be revealed.
THEOREM PrevotesExpireAlways == Spec => []PrevotesExpire
  BY CommitInvariant, PTL DEF CommitInv

\* No step changes a revealed vote before it is tallied.
THEOREM RevealedVotesAreFinalAlways == Spec => RevealedVotesAreFinal
  <1> DEFINE Final == \A v \in DOMAIN votes \intersect DOMAIN votes' :
                        votes'[v] = votes[v] /\ origin'[v] = origin[v]
  <1>1. CommitInv /\ [Next]_vars => [Final]_vars
    <2> SUFFICES ASSUME CommitInv, Next PROVE Final
      OBVIOUS
    <2>1. CASE UNCHANGED <<votes, origin>>
      BY <2>1
    <2>2. ASSUME NEW v \in Validators, NEW f \in Accounts,
                 NEW salt \in Salts, NEW rates \in RateMaps,
                 AggregateExchangeRateVote(f, v, salt, rates)
          PROVE  Final
      <3>1. v \in DOMAIN prevotes
            /\ PeriodOf(height) - PeriodOf(prevotes[v].submitBlock) = 1
        BY <2>2 DEF AggregateExchangeRateVote, RevealPeriodMatches
      <3>2. PeriodOf(height) \in Nat
        BY PeriodsArePositive, DivMod DEF PeriodOf, CommitInv, TypeOK
      <3>3. v \notin DOMAIN votes /\ v \notin DOMAIN origin
        BY <3>1, <3>2 DEF CommitInv, OneCommitmentPerPeriod
      <3>4. \A w \in DOMAIN votes : votes'[w] = votes[w] /\ origin'[w] = origin[w]
        BY <2>2, <3>3 DEF AggregateExchangeRateVote, Put, CommitInv, OneCommitmentPerPeriod
      <3> QED
        BY <3>4
    <2>3. ASSUME NEW active \in ActiveSets, EndBlock(active)
          PROVE  Final
      <3>1. CASE votes' = << >>
        BY <3>1
      <3> QED
        BY <2>1, <2>3, <3>1 DEF EndBlock, CalcPrices
    <2> QED
      BY <2>1, <2>2, <2>3
         DEF Next, Messages, AggregateExchangeRatePrevote, DelegateFeedConsent, Unjail, EndBlockFails
  <1> QED
    BY <1>1, CommitInvariant, PTL DEF Spec, RevealedVotesAreFinal

\* No step takes away a prevote that could still be revealed.
THEOREM NoPrevoteLostInWindowAlways == Spec => NoPrevoteLostInWindow
  <1> DEFINE Kept == \A v \in DOMAIN prevotes \ DOMAIN prevotes' :
                       \/ v \in DOMAIN origin' /\ origin'[v] = prevotes[v]
                       \/ PeriodOf(height') > PeriodOf(prevotes[v].submitBlock) + 1
  <1>1. CommitInv /\ [Next]_vars => [Kept]_vars
    <2> SUFFICES ASSUME CommitInv, Next PROVE Kept
      OBVIOUS
    <2>1. CASE DOMAIN prevotes \subseteq DOMAIN prevotes'
      BY <2>1
    <2>2. ASSUME NEW v \in Validators, NEW f \in Accounts,
                 NEW salt \in Salts, NEW rates \in RateMaps,
                 AggregateExchangeRateVote(f, v, salt, rates)
          PROVE  Kept
      <3>1. DOMAIN prevotes \ DOMAIN prevotes' \subseteq {v}
        BY <2>2 DEF AggregateExchangeRateVote, Keep, CommitInv, TypeOK, IsStore
      <3>2. v \in DOMAIN origin' /\ origin'[v] = prevotes[v]
        BY <2>2 DEF AggregateExchangeRateVote, Put
      <3> QED
        BY <3>1, <3>2
    <2>3. ASSUME NEW active \in ActiveSets, EndBlock(active)
          PROVE  Kept
      <3>1. CASE prevotes' = prevotes
        BY <2>1, <3>1
      <3>2. CASE IsPeriodLastBlock(VotePeriod) /\ prevotes' = UnexpiredPrevotes
        <4> SUFFICES ASSUME NEW v \in DOMAIN prevotes, v \notin DOMAIN prevotes'
                     PROVE  PeriodOf(height') > PeriodOf(prevotes[v].submitBlock) + 1
          OBVIOUS
        <4> DEFINE submit == prevotes[v].submitBlock
        <4>1. submit \in Nat /\ height \in Nat /\ height' = height + 1
          BY <2>3, PrevoteTyped DEF CommitInv, TypeOK, EndBlock
        <4>2. ~(height <= submit + VotePeriod)
          BY <3>2 DEF UnexpiredPrevotes, Keep
        <4>3. ((height + 1) % VotePeriod) = 0
          BY <3>2 DEF IsPeriodLastBlock
        <4> HIDE DEF submit
        <4>4. ((height + 1) \div VotePeriod) > (submit \div VotePeriod) + 1
          BY <4>1, <4>2, <4>3, PeriodsArePositive, RemovedPrevoteAge
        <4> QED
          BY <4>1, <4>4 DEF PeriodOf, submit
      <3> QED
        BY <2>3, <3>1, <3>2 DEF EndBlock, CalcPrices
    <2>4. ASSUME NEW v \in Validators, NEW f \in Accounts, NEW hash \in Hash,
                 AggregateExchangeRatePrevote(f, v, hash)
          PROVE  Kept
      BY <2>1, <2>4 DEF AggregateExchangeRatePrevote, Put
    <2> QED
      BY <2>1, <2>2, <2>3, <2>4 DEF Next, Messages, DelegateFeedConsent, Unjail, EndBlockFails
  <1> QED
    BY <1>1, CommitInvariant, PTL DEF Spec, NoPrevoteLostInWindow

-----------------------------------------------------------------------------
(* Misses, jailing and failing blocks. *)

\* The vote periods that have ended since the slash window of height h began.
Elapsed(h) == PeriodsElapsed(VotePeriod, SlashWindow, h)

\* One more block, in the terms of this module.
LEMMA ElapsedStep ==
  ASSUME NEW h \in Nat
  PROVE  /\ Elapsed(h) \in Nat
         /\ ((h + 1) % SlashWindow) = 0 =>
              /\ Elapsed(h + 1) = 0
              /\ Elapsed(h) + 1 = (SlashWindow \div VotePeriod)
              /\ ((h + 1) % VotePeriod) = 0
         /\ ((h + 1) % SlashWindow) # 0 =>
              Elapsed(h + 1) = Elapsed(h) + (IF ((h + 1) % VotePeriod) = 0 THEN 1 ELSE 0)
  BY PeriodsArePositive, PeriodsElapsedStep DEF Elapsed

\* The bound of MissesAreEarned at the end of a vote period, before any reset.
LEMMA CountedBound ==
  ASSUME TypeOK, MissesAreEarned, NEW active, NEW v \in Validators,
         IsPeriodLastBlock(VotePeriod)
  PROVE  /\ CountedMisses(active)[v] \in Nat
         /\ CountedClean(active)[v] \in Nat
         /\ CountedMisses(active)[v]
              <= Cardinality(MandatoryList) * ((Elapsed(height) + 1) - CountedClean(active)[v])
  <1> DEFINE m == Cardinality(MandatoryList)
             e == Elapsed(height)
             c == clean[v]
             k == missCounters[v]
             x == Misses(active, v)
  <1>1. m \in Nat /\ x \in 0..m
    BY MissesBounded
  <1>2. e \in Nat /\ c \in Nat /\ k \in Nat
    BY ElapsedStep DEF TypeOK
  <1>3. k <= m * (e - c)
    BY DEF MissesAreEarned, Elapsed, PeriodsElapsed
  <1>4. /\ CountedMisses(active)[v] = IF v \in active THEN k + x ELSE k + 0
        /\ CountedClean(active)[v] = IF v \in active /\ x = 0 THEN c + 1 ELSE c + 0
    BY DEF CountedMisses, CountedClean
  <1> HIDE DEF m, e, c, k, x
  <1>5. k + x <= m * ((e + 1) - c) /\ k + 0 <= m * ((e + 1) - c)
        /\ k <= m * ((e + 1) - (c + 1))
    BY <1>1, <1>2, <1>3, PeriodCharge
  <1>6. CASE v \in active /\ x = 0
    BY <1>1, <1>2, <1>4, <1>5, <1>6 DEF m, e
  <1>7. CASE v \in active /\ x # 0
    BY <1>1, <1>2, <1>4, <1>5, <1>7 DEF m, e
  <1>8. CASE v \notin active
    BY <1>1, <1>2, <1>4, <1>5, <1>8 DEF m, e
  <1> QED
    BY <1>6, <1>7, <1>8

\* A chain starts without misses.
LEMMA MissesInit ==
  ASSUME Init
  PROVE  MissesAreEarned
  <1> SUFFICES ASSUME NEW v \in Validators
               PROVE  missCounters[v] <= Cardinality(MandatoryList) * (Elapsed(height) - clean[v])
    BY DEF MissesAreEarned, Elapsed, PeriodsElapsed
  <1>1. missCounters[v] = 0 /\ clean[v] = 0 /\ Elapsed(height) \in Nat
    BY ElapsedStep DEF Init
  <1>2. Cardinality(MandatoryList) \in Nat
    BY MissesBounded
  <1> QED
    BY <1>1, <1>2

\* Every message and every block keeps the bound of the misses.
LEMMA MissesStep ==
  ASSUME TypeOK, MissesAreEarned, [Next]_vars
  PROVE  MissesAreEarned'
  <1>1. CASE UNCHANGED <<height, missCounters, clean>>
    BY <1>1 DEF MissesAreEarned
  <1>2. ASSUME NEW active \in ActiveSets, EndBlock(active)
        PROVE  MissesAreEarned'
    <2>1. height \in Nat /\ height' = height + 1
      BY <1>2 DEF TypeOK, EndBlock
    <2> SUFFICES ASSUME NEW v \in Validators
                 PROVE  missCounters'[v]
                          <= Cardinality(MandatoryList) * (Elapsed(height + 1) - clean'[v])
      BY <2>1 DEF MissesAreEarned, Elapsed, PeriodsElapsed
    <2>2. Cardinality(MandatoryList) \in Nat
      BY MissesBounded
    <2>3. CASE IsPeriodLastBlock(SlashWindow)
      <3>1. missCounters'[v] = 0 /\ clean'[v] = 0
        BY <1>2, <2>3 DEF EndBlock, SlashAndResetMissCounters
      <3>2. Elapsed(height + 1) = 0
        BY <2>1, <2>3, ElapsedStep DEF IsPeriodLastBlock
      <3> QED
        BY <2>2, <3>1, <3>2
    <2>4. CASE ~IsPeriodLastBlock(SlashWindow) /\ IsPeriodLastBlock(VotePeriod)
      <3>1. missCounters' = CountedMisses(active) /\ clean' = CountedClean(active)
        BY <1>2, <2>4 DEF EndBlock
      <3>2. Elapsed(height + 1) = Elapsed(height) + 1
        BY <2>1, <2>4, ElapsedStep DEF IsPeriodLastBlock
      <3> QED
        BY <2>4, <3>1, <3>2, CountedBound
    <2>5. CASE ~IsPeriodLastBlock(SlashWindow) /\ ~IsPeriodLastBlock(VotePeriod)
      <3>1. missCounters' = CountedMisses(active) /\ clean' = CountedClean(active)
        BY <1>2, <2>5 DEF EndBlock
      <3>2. missCounters'[v] = missCounters[v] /\ clean'[v] = clean[v]
        BY <2>5, <3>1 DEF CountedMisses, CountedClean, TypeOK
      <3>3. Elapsed(height + 1) = Elapsed(height)
        BY <2>1, <2>5, ElapsedStep DEF IsPeriodLastBlock
      <3> QED
        BY <3>2, <3>3 DEF MissesAreEarned, Elapsed, PeriodsElapsed
    <2> QED
      BY <2>3, <2>4, <2>5
  <1> QED
    BY <1>1, <1>2
       DEF Next, Messages, vars, AggregateExchangeRatePrevote, AggregateExchangeRateVote,
           DelegateFeedConsent, Unjail, EndBlockFails

\* In every reachable state a validator's miss counter is at most the mandatory
\* denoms of the vote periods of this slash window that it has not won in full.
THEOREM MissesAreEarnedAlways == Spec => []MissesAreEarned
  <1>1. Init => MissesAreEarned
    BY MissesInit
  <1>2. TypeOK /\ MissesAreEarned /\ [Next]_vars => MissesAreEarned'
    BY MissesStep
  <1> QED
    BY <1>1, <1>2, TypeCorrect, PTL DEF Spec

\* The threshold of evaluateAndSlashIfNeeded in terms of clean periods: with w
\* vote periods in the window, c of them clean, m mandatory denoms and k misses.
LEMMA SlashArithmetic ==
  ASSUME NEW m \in Nat, NEW w \in Nat, NEW c \in Nat, NEW k \in Nat, NEW min \in Nat,
         k > 0, k <= m * (w - c), 100 * ((w * m) - k) < min * (w * m)
  PROVE  100 * c < min * w
  <1>1. m > 0
    <2>1. CASE m = 0
      BY <2>1
    <2> QED
      BY <2>1
  <1>2. m * (w - c) = (m * w) - (m * c)
    <2>1. m * (w + (-c)) = (m * w) + (m * (-c))
      BY MulDistributes
    <2>2. m * (-c) = -(m * c) /\ w + (-c) = w - c
      OBVIOUS
    <2> DEFINE a == m * w
               b == m * c
    <2>3. a \in Nat /\ b \in Nat
      OBVIOUS
    <2>4. m * (w - c) = a + (-b)
      BY <2>1, <2>2
    <2> HIDE DEF a, b
    <2>5. m * (w - c) = a - b
      BY <2>3, <2>4
    <2> QED
      BY <2>5 DEF a, b
  <1>3. w * m = m * w /\ m * w \in Nat /\ m * c \in Nat
    OBVIOUS
  <1>4. (w * m) - k >= m * c
    BY <1>2, <1>3
  <1>5. 100 * (m * c) < min * (w * m)
    BY <1>3, <1>4
  <1>6. 100 * (m * c) = m * (100 * c) /\ min * (w * m) = m * (min * w)
    <2>1. min * (w * m) = (min * w) * m
      BY MulAssociates
    <2>2. (min * w) * m = m * (min * w) /\ 100 * (m * c) = m * (100 * c)
      OBVIOUS
    <2> QED
      BY <2>1, <2>2
  <1>7. \A a, b \in Nat : m * a < m * b => a < b
    BY <1>1
  <1>8. 100 * c \in Nat /\ min * w \in Nat
    OBVIOUS
  <1> QED
    BY <1>5, <1>6, <1>7, <1>8

\* SlashAndResetMissCounters jails no validator whose clean vote periods reach the
\* share MinValidPerWindow of the slash window.
THEOREM JailedOnlyBelowMinimumAlways == Spec => JailedOnlyBelowMinimum
  <1> DEFINE Deserved ==
        \A v \in jailed' \ jailed :
          100 * CountedClean(bonded')[v] < MinValidPerWindow * (SlashWindow \div VotePeriod)
  <1>1. TypeOK /\ MissesAreEarned /\ [Next]_vars => [Deserved]_vars
    <2> SUFFICES ASSUME TypeOK, MissesAreEarned, Next PROVE Deserved
      OBVIOUS
    <2>1. CASE jailed' \subseteq jailed
      BY <2>1
    <2>2. ASSUME NEW active \in ActiveSets, EndBlock(active)
          PROVE  Deserved
      <3>1. CASE ~IsPeriodLastBlock(SlashWindow)
        BY <2>1, <2>2, <3>1 DEF EndBlock
      <3>2. CASE IsPeriodLastBlock(SlashWindow)
        <4>1. bonded' = active /\ jailed' = jailed \union Slashed(active, CountedMisses(active))
          BY <2>2, <3>2 DEF EndBlock, SlashAndResetMissCounters
        <4> SUFFICES ASSUME NEW v \in Slashed(active, CountedMisses(active))
                     PROVE  100 * CountedClean(active)[v]
                              < MinValidPerWindow * (SlashWindow \div VotePeriod)
          BY <4>1
        <4> DEFINE m == Cardinality(MandatoryList)
                   w == SlashWindow \div VotePeriod
                   c == CountedClean(active)[v]
                   k == CountedMisses(active)[v]
        <4>2. height \in Nat /\ v \in Validators
          BY DEF TypeOK, Slashed, ActiveSets
        <4>3. IsPeriodLastBlock(VotePeriod) /\ Elapsed(height) + 1 = w
          BY <3>2, <4>2, ElapsedStep DEF IsPeriodLastBlock
        <4>4. k \in Nat /\ c \in Nat /\ k <= m * ((Elapsed(height) + 1) - c)
          BY <4>2, <4>3, CountedBound
        <4>5. k > 0 /\ 100 * ((w * m) - k) < MinValidPerWindow * (w * m)
          BY DEF Slashed, PossibleWinsPerSlashWindow
        <4>6. m \in Nat /\ w \in Nat /\ MinValidPerWindow \in Nat
          <5>1. m \in Nat
            BY MissesBounded
          <5>2. w \in Nat
            BY PeriodsArePositive, DivMod
          <5>3. MinValidPerWindow \in Nat
            BY ParamsAssumption
          <5> QED
            BY <5>1, <5>2, <5>3
        <4> HIDE DEF m, w, c, k
        <4>7. k <= m * (w - c)
          BY <4>3, <4>4
        <4>8. 100 * c < MinValidPerWindow * w
          BY <4>4, <4>5, <4>6, <4>7, SlashArithmetic
        <4> QED
          BY <4>8 DEF c, w
      <3> QED
        BY <3>1, <3>2
    <2> QED
      BY <2>1, <2>2
         DEF Next, Messages, AggregateExchangeRatePrevote, AggregateExchangeRateVote,
             DelegateFeedConsent, Unjail, EndBlockFails
  <1> QED
    BY <1>1, TypeCorrect, MissesAreEarnedAlways, PTL DEF Spec, JailedOnlyBelowMinimum

\* The votes of active validators on a denom are a ballot, and an active set has power.
LEMMA ActiveBallot ==
  ASSUME TypeOK, NEW active \in ActiveSets, NEW d
  PROVE  /\ IsBallot(Ballot(active, d), Power)
         /\ DOMAIN Ballot(active, d) = {v \in active \ jailed :
                                          v \in DOMAIN votes /\ d \in DOMAIN votes[v]}
         /\ \A v \in DOMAIN Ballot(active, d) : Ballot(active, d)[v] = votes[v][d]
         /\ PowerOf(Power, active) \in Nat \ {0}
         /\ PowerOf(Power, DOMAIN Ballot(active, d)) \in Nat
  <1>1. active \subseteq Validators /\ active \intersect jailed = {} /\ active # {}
    BY DEF ActiveSets
  <1>2. Weighs(Power, Validators) /\ \A v \in Validators : Power[v] \in Nat \ {0}
    BY ParamsAssumption DEF Weighs
  <1>3. /\ DOMAIN Ballot(active, d) = {v \in active \ jailed :
                                         v \in DOMAIN votes /\ d \in DOMAIN votes[v]}
        /\ \A v \in DOMAIN Ballot(active, d) : Ballot(active, d)[v] = votes[v][d]
    BY <1>1 DEF Ballot
  <1>4. IsBallot(Ballot(active, d), Power)
    <2>1. \A v \in DOMAIN Ballot(active, d) : votes[v][d] \in Nat
      BY <1>3 DEF TypeOK, IsStore
    <2>2. IsFiniteSet(DOMAIN Ballot(active, d))
      BY <1>1, <1>2, <1>3, FS_Subset DEF Weighs
    <2> QED
      BY <1>1, <1>2, <1>3, <2>1, <2>2 DEF IsBallot
  <1>5. PowerOf(Power, active) \in Nat \ {0}
    <2>1. PICK v \in active : TRUE
      BY <1>1
    <2>2. SumOver(Power, active) = Power[v] + SumOver(Power, active \ {v})
      BY <1>1, <1>2, SumRemove
    <2>3. SumOver(Power, active \ {v}) \in Nat /\ Power[v] \in Nat \ {0}
      BY <1>1, <1>2, SumType
    <2>4. PowerOf(Power, active) = SumOver(Power, active)
      BY PowerIsSum
    <2> QED
      BY <2>2, <2>3, <2>4
  <1> QED
    BY <1>3, <1>4, <1>5, PowerFacts

\* A share in whole percent that reaches the threshold, multiplied out.
LEMMA ThresholdReached ==
  ASSUME NEW p \in Nat, NEW b \in Nat \ {0}, NEW t \in Nat, ((p * 100) \div b) >= t
  PROVE  100 * p >= t * b
  <1> DEFINE q == (p * 100) \div b
  <1>1. q \in Nat /\ b * q <= p * 100
    BY DivMod
  <1> HIDE DEF q
  <1>2. q >= t
    BY DEF q
  <1>3. t * b <= b * q
    BY <1>1, <1>2
  <1>4. t * b \in Nat /\ b * q \in Nat
    BY <1>1
  <1> QED
    BY <1>1, <1>3, <1>4

\* Whatever is voted and whoever is active, a rate that CalcPrices stores is a rate that
\* an active validator has voted in the period, and the share VoteThreshold of the active
\* power has voted on its denom; the rates of the period before are gone.
THEOREM RatesAreBackedAlways == Spec => RatesAreBacked
  <1> DEFINE Backed ==
        \A d \in DOMAIN exchangeRates' :
           \/ d \in DOMAIN exchangeRates /\ exchangeRates'[d] = exchangeRates[d]
                /\ ~(height' # height /\ IsPeriodLastBlock(VotePeriod))
           \/ LET voters == {v \in bonded' \ jailed :
                               v \in DOMAIN votes /\ d \in DOMAIN votes[v]}
              IN  /\ 100 * PowerOf(Power, voters) >= VoteThreshold * PowerOf(Power, bonded')
                  /\ \E v \in voters : votes[v][d] = exchangeRates'[d]
  <1>1. TypeOK /\ [Next]_vars => [Backed]_vars
    <2> SUFFICES ASSUME TypeOK, Next PROVE Backed
      OBVIOUS
    <2>1. CASE exchangeRates' = exchangeRates
               /\ ~(height' # height /\ IsPeriodLastBlock(VotePeriod))
      BY <2>1
    <2>2. ASSUME NEW active \in ActiveSets, EndBlock(active)
          PROVE  Backed
      <3>1. CASE ~IsPeriodLastBlock(VotePeriod)
        BY <2>1, <2>2, <3>1 DEF EndBlock
      <3>2. CASE IsPeriodLastBlock(VotePeriod)
        <4>1. bonded' = active /\ exchangeRates' = TalliedRates(active)
          BY <2>2, <3>2 DEF EndBlock, CalcPrices
        <4> SUFFICES ASSUME NEW d \in PassingDenoms(active)
                     PROVE  LET voters == {v \in active \ jailed :
                                             v \in DOMAIN votes /\ d \in DOMAIN votes[v]}
                            IN  /\ 100 * PowerOf(Power, voters)
                                     >= VoteThreshold * PowerOf(Power, active)
                                /\ \E v \in voters : votes[v][d] = exchangeRates'[d]
          BY <4>1 DEF TalliedRates
        <4> DEFINE b == Ballot(active, d)
        <4>2. DOMAIN b # {} /\ Support(b, Power, active) >= VoteThreshold
          BY DEF PassingDenoms
        <4>3. /\ IsBallot(b, Power)
              /\ DOMAIN b = {v \in active \ jailed : v \in DOMAIN votes /\ d \in DOMAIN votes[v]}
              /\ \A v \in DOMAIN b : b[v] = votes[v][d]
              /\ PowerOf(Power, active) \in Nat \ {0} /\ PowerOf(Power, DOMAIN b) \in Nat
          BY ActiveBallot
        <4>4. exchangeRates'[d] = WeightedMedian(b, Power)
          BY <4>1 DEF TalliedRates
        <4> HIDE DEF b
        <4>5. \E v \in DOMAIN b : b[v] = exchangeRates'[d]
          BY <4>2, <4>3, <4>4, MedianWasVoted
        <4>6. 100 * PowerOf(Power, DOMAIN b) >= VoteThreshold * PowerOf(Power, active)
          <5>1. VoteThreshold \in Nat
            BY ParamsAssumption
          <5>2. ((PowerOf(Power, DOMAIN b) * 100) \div PowerOf(Power, active)) >= VoteThreshold
            BY <4>2 DEF Support
          <5> QED
            BY <4>3, <5>1, <5>2, ThresholdReached
        <4> QED
          BY <4>3, <4>5, <4>6
      <3> QED
        BY <3>1, <3>2
    <2> QED
      BY <2>1, <2>2
         DEF Next, Messages, AggregateExchangeRatePrevote, AggregateExchangeRateVote,
             DelegateFeedConsent, Unjail, EndBlockFails
  <1> QED
    BY <1>1, TypeCorrect, PTL DEF Spec, RatesAreBacked

\* The chain stops on a tally only after a vote on a denom without a reward band.
THEOREM HaltsOnlyOnUnbandedVoteAlways == Spec => []HaltsOnlyOnUnbandedVote
  <1>1. Init => HaltsOnlyOnUnbandedVote
    BY DEF Init, HaltsOnlyOnUnbandedVote
  <1>2. HaltsOnlyOnUnbandedVote /\ [Next]_vars => HaltsOnlyOnUnbandedVote'
    <2> SUFFICES ASSUME HaltsOnlyOnUnbandedVote, [Next]_vars
                 PROVE  HaltsOnlyOnUnbandedVote'
      OBVIOUS
    <2>1. CASE UNCHANGED <<height, votes, halted>>
      BY <2>1 DEF HaltsOnlyOnUnbandedVote, IsPeriodLastBlock
    <2>2. CASE ~halted /\ UNCHANGED halted
      BY <2>2 DEF HaltsOnlyOnUnbandedVote
    <2>3. ASSUME NEW active \in ActiveSets, EndBlockFails(active)
          PROVE  HaltsOnlyOnUnbandedVote'
      <3>1. PICK d \in PassingDenoms(active) : d \notin DOMAIN RewardBands
        BY <2>3 DEF EndBlockFails, BandMissing
      <3>2. PICK v \in DOMAIN Ballot(active, d) : TRUE
        BY <3>1 DEF PassingDenoms
      <3>3. v \in DOMAIN votes /\ d \in DOMAIN votes[v]
        BY <3>2 DEF Ballot
      <3>4. height' = height /\ votes' = votes /\ IsPeriodLastBlock(VotePeriod)
        BY <2>3 DEF EndBlockFails
      <3> QED
        BY <3>1, <3>3, <3>4 DEF HaltsOnlyOnUnbandedVote, IsPeriodLastBlock
    <2> QED
      BY <2>1, <2>2, <2>3
         DEF Next, Messages, vars, AggregateExchangeRatePrevote, AggregateExchangeRateVote,
             DelegateFeedConsent, Unjail, EndBlock
  <1> QED
    BY <1>1, <1>2, PTL DEF Spec

-----------------------------------------------------------------------------
(* The refinement. *)

\* The sealed ballots of a store of prevotes: the mapping of Sealed.
SealedOf(store) == [v \in DOMAIN store |-> SealedBallot(store[v])]

\* An accepted prevote seals a ballot of the round it comes in.
LEMMA PrevoteSeals ==
  ASSUME CommitInv, NEW v \in Validators, NEW f \in Accounts, NEW hash \in Hash,
         AggregateExchangeRatePrevote(f, v, hash)
  PROVE  Sealed!Next
  <1> DEFINE p       == [hash |-> hash, submitBlock |-> height]
             content == Keep(hash.rates, AcceptList)
  <1>1. /\ hash.voter \in Validators
        /\ content \in {Keep(r, AcceptList) : r \in RateMaps}
    BY DEF Hash
  <1>2. SealedBallot(p) = [author |-> hash.voter, content |-> content, round |-> PeriodOf(height)]
    BY DEF SealedBallot
  <1>3. prevotes' = Put(prevotes, v, p) /\ v \notin DOMAIN prevotes
        /\ height' = height /\ votes' = votes
    BY DEF AggregateExchangeRatePrevote
  <1> HIDE DEF p, content
  <1>4. SealedOf(prevotes') = Sealed!Put(SealedOf(prevotes), v, SealedBallot(p))
    BY <1>3 DEF Put, Sealed!Put, SealedOf
  <1>5. v \notin DOMAIN SealedOf(prevotes)
    BY <1>3 DEF SealedOf
  <1>6. Sealed!Seal(v, hash.voter, content)
    BY <1>2, <1>3, <1>4, <1>5 DEF Sealed!Seal, SealedOf, PeriodOf
  <1> QED
    BY <1>1, <1>6 DEF Sealed!Next

\* An accepted vote opens the voter's own ballot of the round before.
LEMMA VoteOpens ==
  ASSUME CommitInv, NEW v \in Validators, NEW f \in Accounts,
         NEW salt \in Salts, NEW rates \in RateMaps,
         AggregateExchangeRateVote(f, v, salt, rates)
  PROVE  Sealed!Next
  <1>1. /\ v \in DOMAIN prevotes
        /\ PeriodOf(height) - PeriodOf(prevotes[v].submitBlock) = 1
        /\ prevotes[v].hash = [salt |-> salt, rates |-> rates, voter |-> v]
        /\ votes' = Put(votes, v, Keep(rates, AcceptList))
        /\ prevotes' = Keep(prevotes, Validators \ {v})
        /\ height' = height
    BY DEF AggregateExchangeRateVote, RevealPeriodMatches, FilteredRates
  <1>2. PeriodOf(height) \in Nat /\ PeriodOf(prevotes[v].submitBlock) \in Nat
    BY <1>1, PeriodsArePositive, PrevoteTyped, DivMod DEF PeriodOf, CommitInv, TypeOK
  <1>3. v \notin DOMAIN votes
    BY <1>1, <1>2 DEF CommitInv, OneCommitmentPerPeriod
  <1>4. /\ SealedOf(prevotes)[v].author = v
        /\ SealedOf(prevotes)[v].content = Keep(rates, AcceptList)
        /\ SealedOf(prevotes)[v].round + 1 = PeriodOf(height)
    BY <1>1, <1>2 DEF SealedOf, SealedBallot
  <1>5. SealedOf(prevotes') = Sealed!Keep(SealedOf(prevotes), DOMAIN SealedOf(prevotes) \ {v})
    BY <1>1 DEF SealedOf, Keep, Sealed!Keep, CommitInv, TypeOK, IsStore
  <1>6. votes' = Sealed!Put(votes, v, SealedOf(prevotes)[v].content)
    BY <1>1, <1>4 DEF Put, Sealed!Put
  <1>7. v \in DOMAIN SealedOf(prevotes) \ DOMAIN votes
    BY <1>1, <1>3 DEF SealedOf
  <1>8. Sealed!Open(v)
    BY <1>1, <1>4, <1>5, <1>6, <1>7 DEF Sealed!Open, SealedOf, PeriodOf
  <1> QED
    BY <1>8 DEF Sealed!Next

\* The last block of a vote period closes the round, and ClearBallots keeps the
\* ballots sealed in it; any other block is not seen.
LEMMA EndBlockCloses ==
  ASSUME CommitInv, NEW active \in ActiveSets, EndBlock(active)
  PROVE  [Sealed!Next]_(Sealed!vars)
  <1>1. height \in Nat /\ height' = height + 1
    BY DEF CommitInv, TypeOK, EndBlock
  <1>2. CASE ~IsPeriodLastBlock(VotePeriod)
    <2>1. PeriodOf(height') = PeriodOf(height)
      BY <1>1, <1>2, PeriodsArePositive, SamePeriod DEF PeriodOf, IsPeriodLastBlock
    <2>2. prevotes' = prevotes /\ votes' = votes
      BY <1>2 DEF EndBlock
    <2> QED
      BY <2>1, <2>2 DEF Sealed!vars, PeriodOf
  <1>3. CASE IsPeriodLastBlock(VotePeriod)
    <2> DEFINE kept == {v \in DOMAIN prevotes : height <= prevotes[v].submitBlock + VotePeriod}
    <2>1. PeriodOf(height') = PeriodOf(height) + 1
      BY <1>1, <1>3, PeriodsArePositive, NextPeriod DEF PeriodOf, IsPeriodLastBlock
    <2>2. prevotes' = Keep(prevotes, kept) /\ votes' = << >>
      BY <1>3 DEF EndBlock, CalcPrices, UnexpiredPrevotes
    <2>3. ASSUME NEW v \in DOMAIN prevotes, v \notin kept
          PROVE  SealedOf(prevotes)[v].round # PeriodOf(height)
      <3> DEFINE submit == prevotes[v].submitBlock
      <3>1. submit \in Nat /\ ~(height <= submit + VotePeriod)
        BY <2>3, PrevoteTyped DEF CommitInv
      <3>2. SealedOf(prevotes)[v].round = PeriodOf(submit)
        BY DEF SealedOf, SealedBallot
      <3> HIDE DEF submit
      <3>3. PeriodOf(height') > PeriodOf(submit) + 1
        BY <1>1, <1>3, <3>1, PeriodsArePositive, RemovedPrevoteAge
           DEF PeriodOf, IsPeriodLastBlock
      <3>4. PeriodOf(submit) \in Nat
        BY <3>1, PeriodsArePositive, DivMod DEF PeriodOf
      <3> QED
        BY <2>1, <3>2, <3>3, <3>4
    <2>4. kept \subseteq Validators
      BY DEF CommitInv, TypeOK, IsStore
    <2> HIDE DEF kept
    <2>5. SealedOf(prevotes') = Sealed!Keep(SealedOf(prevotes), kept)
      BY <2>2 DEF SealedOf, Keep, Sealed!Keep
    <2>6. \A v \in DOMAIN SealedOf(prevotes) :
            SealedOf(prevotes)[v].round = PeriodOf(height) => v \in kept
      BY <2>3 DEF SealedOf
    <2>7. Sealed!CloseRound(kept)
      BY <2>1, <2>2, <2>5, <2>6 DEF Sealed!CloseRound, SealedOf, PeriodOf
    <2> QED
      BY <2>4, <2>7 DEF Sealed!Next
  <1> QED
    BY <1>2, <1>3

\* A chain starts without ballots.
LEMMA SealedInit ==
  ASSUME Init
  PROVE  Sealed!Init
  <1>1. PeriodOf(height) \in Nat
    BY PeriodsArePositive, DivMod DEF Init, PeriodOf
  <1>2. SealedOf(prevotes) = << >>
    BY DEF Init, SealedOf
  <1> QED
    BY <1>1, <1>2 DEF Init, Sealed!Init, SealedOf

\* Every message and every block is a step of the sealed ballots, or is not seen.
LEMMA SealedStep ==
  ASSUME CommitInv, [Next]_vars
  PROVE  [Sealed!Next]_(Sealed!vars)
  <1>1. CASE UNCHANGED <<height, prevotes, votes>>
    BY <1>1 DEF Sealed!vars, PeriodOf
  <1> QED
    BY <1>1, PrevoteSeals, VoteOpens, EndBlockCloses
       DEF Next, Messages, vars, DelegateFeedConsent, Unjail, EndBlockFails

\* OracleVoting implements SealedBallots (ImplementsSealedBallots): every message and
\* every block is a step of the sealed ballots, or is not seen by them.
THEOREM ImplementsSealedBallotsAlways == Spec => ImplementsSealedBallots
  <1>1. Init => Sealed!Init
    BY SealedInit
  <1>2. CommitInv /\ [Next]_vars => [Sealed!Next]_(Sealed!vars)
    BY SealedStep
  <1> QED
    BY <1>1, <1>2, CommitInvariant, PTL DEF Spec, Sealed!Spec, ImplementsSealedBallots
=============================================================================
