----------------------- MODULE OracleExtensionsProofs -----------------------
(***************************************************************************)
(* Proofs about OracleExtensions and the price feeders under it, for any   *)
(* nodes, powers, configurations, faulty validators and reports of the     *)
(* providers.  They use the steps of Spec and not its fairness.            *)
(***************************************************************************)
EXTENDS OracleExtensions, OracleTheorems

\* EndBlocker starts a goroutine that was idle.
LEMMA StartedIsFree ==
  ASSUME NEW n \in Nodes, Free(n) # {}
  PROVE  (CHOOSE i \in Free(n) : \A j \in Free(n) : i <= j) \in Free(n)
<1>1. Free(n) \in SUBSET Nat
  BY FeederAssumption DEF Free, Starts
<1> QED
  BY <1>1, LeastOf

\* The constants of the module, as the proofs use them.
LEMMA ConstantTypes ==
  /\ MaxStarts \in Nat \ {0} /\ EnableHeight \in Nat /\ VotePeriod \in Nat \ {0}
  /\ MaxHeight \in Nat /\ MaxHeight >= VotePeriod
  /\ Faulty \subseteq Nodes /\ Correct \subseteq Nodes
  /\ << >> \in Prices /\ \A p \in Prices : p \in [DOMAIN p -> Nat]
  BY FeederAssumption, ExtensionsAssumption DEF Correct

-----------------------------------------------------------------------------
(* The price feeder: types, and the goroutines of a node. *)

\* A goroutine that does not overlap with another sets the pointer first and alone: while
\* it is starting the node has no instance and no server.
StartsAlone(n) ==
  ~overlapped[n] =>
    /\ \A i, j \in Starts : starts[n][i] = "starting" /\ starts[n][j] = "starting" => i = j
    /\ (\E i \in Starts : starts[n][i] = "starting")
         => oracle[n] = NoOracle /\ served[n] = NoOracle
    /\ served[n] # NoOracle => served[n] = oracle[n]

FeederInv == FeederTypeOK /\ \A n \in Nodes : StartsAlone(n)

\* No goroutine runs when a node starts.
LEMMA FeederInitially == FeederInit => FeederInv
<1> SUFFICES ASSUME FeederInit PROVE FeederInv
  OBVIOUS
<1>1. FeederTypeOK
  BY ConstantTypes DEF FeederInit, FeederTypeOK, Idle, Starts, NoOracle
<1>2. ASSUME NEW n \in Nodes PROVE StartsAlone(n)
  BY DEF FeederInit, StartsAlone, Idle
<1> QED
  BY <1>1, <1>2 DEF FeederInv

\* What the steps of other nodes leave alone.
LEMMA OtherFeeders ==
  ASSUME FeederInv, NEW n \in Nodes, StartsAlone(n)',
         \A m \in Nodes \ {n} : /\ oracle'[m] = oracle[m] /\ starts'[m] = starts[m]
                                /\ served'[m] = served[m] /\ overlapped'[m] = overlapped[m]
  PROVE  \A m \in Nodes : StartsAlone(m)'
  BY DEF FeederInv, StartsAlone

\* The goroutine that EndBlocker starts is the only one, or the history says so.
LEMMA StartFeederStep ==
  ASSUME FeederInv, NEW n \in Nodes, StartFeeder(n) PROVE FeederInv'
<1>1. CASE ~(MustStart(n) /\ Free(n) # {})
  BY <1>1 DEF StartFeeder, FeederInv, FeederTypeOK, StartsAlone
<1>2. CASE MustStart(n) /\ Free(n) # {}
  <2> DEFINE i == CHOOSE i \in Free(n) : \A j \in Free(n) : i <= j
  <2>1. i \in Starts
    BY <1>2, StartedIsFree DEF Free
  <2>2. /\ starts' = [starts EXCEPT ![n][i] = IF thresholds THEN "starting" ELSE "doomed"]
        /\ prices' = prices
        /\ overlapped' = [overlapped EXCEPT
             ![n] = @ \/ \E j \in Starts : starts[n][j] = "starting"]
        /\ oracle' = oracle /\ served' = served /\ thresholds' = thresholds
    BY <1>2 DEF StartFeeder
  <2> HIDE DEF i
  <2>3. FeederTypeOK'
    BY <2>1, <2>2, ConstantTypes DEF FeederInv, FeederTypeOK
  <2>4. StartsAlone(n)'
    BY <1>2, <2>1, <2>2 DEF FeederInv, FeederTypeOK, StartsAlone, MustStart
  <2>5. \A m \in Nodes \ {n} : /\ oracle'[m] = oracle[m] /\ starts'[m] = starts[m]
                               /\ served'[m] = served[m] /\ overlapped'[m] = overlapped[m]
    BY <2>2 DEF FeederInv, FeederTypeOK
  <2> QED
    BY <2>3, <2>4, <2>5, OtherFeeders DEF FeederInv
<1> QED
  BY <1>1, <1>2

\* A tick writes prices only.
LEMMA TickFeederStep ==
  ASSUME FeederInv, NEW n \in Nodes, NEW isTick, NEW report \in Prices,
         TickFeeder(n, isTick, report)
  PROVE  FeederInv'
<1>1. FeederTypeOK'
  <2>1. CASE prices' = prices
    BY <2>1 DEF TickFeeder, FeederInv, FeederTypeOK
  <2>2. CASE prices' = [prices EXCEPT ![n] = report]
    BY <2>2 DEF TickFeeder, FeederInv, FeederTypeOK
  <2> QED
    BY <2>1, <2>2 DEF TickFeeder
<1> QED
  BY <1>1 DEF TickFeeder, FeederInv, StartsAlone

\* The goroutine that sets the pointer ends its start; the server gets the instance that
\* the pointer holds.
LEMMA GoroutineStep ==
  ASSUME FeederInv, NEW n \in Nodes, NEW i \in Starts, Goroutine(n, i) PROVE FeederInv'
<1>1. CASE StartFails(n, i)
  <2>1. FeederTypeOK'
    BY <1>1 DEF StartFails, FeederInv, FeederTypeOK
  <2>2. StartsAlone(n)'
    BY <1>1 DEF StartFails, FeederInv, FeederTypeOK, StartsAlone
  <2>3. \A m \in Nodes \ {n} : /\ oracle'[m] = oracle[m] /\ starts'[m] = starts[m]
                               /\ served'[m] = served[m] /\ overlapped'[m] = overlapped[m]
    BY <1>1 DEF StartFails, FeederInv, FeederTypeOK
  <2> QED
    BY <2>1, <2>2, <2>3, OtherFeeders DEF FeederInv
<1>2. CASE SetOracle(n, i)
  <2>1. FeederTypeOK'
    BY <1>2, ConstantTypes DEF SetOracle, FeederInv, FeederTypeOK
  <2>2. StartsAlone(n)'
    BY <1>2 DEF SetOracle, FeederInv, FeederTypeOK, StartsAlone
  <2>3. \A m \in Nodes \ {n} : /\ oracle'[m] = oracle[m] /\ starts'[m] = starts[m]
                               /\ served'[m] = served[m] /\ overlapped'[m] = overlapped[m]
    BY <1>2 DEF SetOracle, FeederInv, FeederTypeOK
  <2> QED
    BY <2>1, <2>2, <2>3, OtherFeeders DEF FeederInv
<1>3. CASE StartServer(n, i)
  <2>1. FeederTypeOK'
    <3>1. PICK where \in {"serving", "idle"}, oracleServed \in {oracle[n], served[n]} :
            /\ starts' = [starts EXCEPT ![n][i] = where]
            /\ served' = [served EXCEPT ![n] = oracleServed]
      BY <1>3 DEF StartServer, FeederInv, FeederTypeOK
    <3>2. starts' \in [Nodes -> [Starts -> {"idle", "starting", "doomed", "set", "serving"}]]
      BY <3>1 DEF FeederInv, FeederTypeOK
    <3>3. served' \in [Nodes -> Starts \cup {NoOracle}]
      BY <3>1 DEF FeederInv, FeederTypeOK
    <3> QED
      BY <1>3, <3>2, <3>3 DEF StartServer, FeederInv, FeederTypeOK
  <2>2. StartsAlone(n)'
    BY <1>3 DEF StartServer, FeederInv, FeederTypeOK, StartsAlone
  <2>3. \A m \in Nodes \ {n} : /\ oracle'[m] = oracle[m] /\ starts'[m] = starts[m]
                               /\ served'[m] = served[m] /\ overlapped'[m] = overlapped[m]
    BY <1>3 DEF StartServer, FeederInv, FeederTypeOK
  <2> QED
    BY <2>1, <2>2, <2>3, OtherFeeders DEF FeederInv
<1> QED
  BY <1>1, <1>2, <1>3 DEF Goroutine

\* A process that starts again has no goroutine left.
LEMMA RestartFeederStep ==
  ASSUME FeederInv, NEW n \in Nodes, RestartFeeder(n) PROVE FeederInv'
<1>1. FeederTypeOK'
  BY ConstantTypes DEF RestartFeeder, FeederInv, FeederTypeOK, Idle, NoOracle
<1>2. StartsAlone(n)'
  BY DEF RestartFeeder, FeederInv, FeederTypeOK, StartsAlone, Idle
<1>3. \A m \in Nodes \ {n} : /\ oracle'[m] = oracle[m] /\ starts'[m] = starts[m]
                             /\ served'[m] = served[m] /\ overlapped'[m] = overlapped[m]
  BY DEF RestartFeeder, FeederInv, FeederTypeOK
<1> QED
  BY <1>1, <1>2, <1>3, OtherFeeders DEF FeederInv

\* The steps that do not touch a feeder, and a change of the thresholds.
LEMMA FeederUnchanged ==
  ASSUME FeederInv, UNCHANGED feederVars \/ SetThresholds PROVE FeederInv'
  BY DEF FeederInv, FeederTypeOK, StartsAlone, feederVars, SetThresholds

-----------------------------------------------------------------------------
(* The validators: types. *)

\* The extensions of a height, as TypeOK has them.
AreExtensions(exts) ==
  /\ DOMAIN exts \subseteq Nodes
  /\ \A n \in DOMAIN exts : IsExtension(n, exts[n])

ConsensusTypeOK ==
  /\ height \in 1..MaxHeight
  /\ turn \in DOMAIN Turns
  /\ AreExtensions(extensions)
  /\ AreExtensions(lastExtensions)
  /\ executing \in [Nodes -> {"no", "start", "tick"}]

\* TypeOK is what the feeders and the validators each promise.
LEMMA TypeParts == TypeOK <=> FeederTypeOK /\ ConsensusTypeOK
  BY DEF TypeOK, ConsensusTypeOK, AreExtensions

\* Every validator has its turn to propose.
LEMMA TurnsExist == Turns \in Seq(Nodes) /\ Len(Turns) \in Nat \ {0}
<1>1. Turns \in Seq(Nodes) /\ Range(Turns) = Nodes /\ Nodes # {}
  BY FeederAssumption, ExtensionsAssumption
<1>2. DOMAIN Turns # {}
  BY <1>1 DEF Range
<1> QED
  BY <1>1, <1>2

\* What ExtendVote makes of the prices of a feeder has positive rates of the AcceptList only.
LEMMA ExtendVoteIsExtension ==
  ASSUME FeederTypeOK, NEW n \in Correct, height \in 1..MaxHeight
  PROVE  IsExtension(n, ExtendVote(n)) /\ IsExtension(n, Empty)
<1>1. IsExtension(n, Empty)
  <2>1. IsStore(<< >>, AcceptList, Nat \ {0}) /\ IsStore(<< >>, DOMAIN << >>, Nat)
    BY DEF IsStore
  <2>2. 0 \in 0..MaxHeight
    BY ConstantTypes
  <2> QED
    BY <2>1, <2>2 DEF IsExtension, Empty
<1>2. CASE oracle[n] = NoOracle \/ ~Parses(prices[n])
  BY <1>1, <1>2 DEF ExtendVote
<1>3. CASE oracle[n] # NoOracle /\ Parses(prices[n])
  <2> DEFINE p == prices[n]
             kept == Keep(p, AcceptList)
  <2>1. p \in Prices
    BY ConstantTypes DEF FeederTypeOK
  <2>2. p \in [DOMAIN p -> Nat] /\ \A d \in DOMAIN p : p[d] > 0
    BY <1>3, <2>1, ConstantTypes DEF Parses
  <2>3. ExtendVote(n) = OracleVoteExtension(height, kept)
    BY <1>3 DEF ExtendVote
  <2> HIDE DEF p
  <2>4. kept \in [DOMAIN kept -> Nat \ {0}] /\ DOMAIN kept \subseteq AcceptList
    BY <2>2 DEF Keep
  <2> HIDE DEF kept
  <2>5. IsStore(kept, AcceptList, Nat \ {0}) /\ IsStore(kept, DOMAIN kept, Nat)
    BY <2>4 DEF IsStore
  <2>6. height \in 0..MaxHeight
    BY ConstantTypes
  <2> QED
    BY <1>1, <2>3, <2>5, <2>6 DEF IsExtension, OracleVoteExtension
<1> QED
  BY <1>1, <1>2, <1>3

\* A precommit adds one extension of its validator.
LEMMA PrecommitTypes ==
  ASSUME ConsensusTypeOK, NEW n \in Nodes, NEW ext, IsExtension(n, ext), Precommit(n, ext)
  PROVE  ConsensusTypeOK'
<1>1. /\ DOMAIN extensions' = DOMAIN extensions \union {n}
      /\ \A m \in DOMAIN extensions' : extensions'[m] = IF m = n THEN ext ELSE extensions[m]
  BY DEF Precommit, Put
<1>2. AreExtensions(extensions')
  BY <1>1 DEF ConsensusTypeOK, AreExtensions
<1> QED
  BY <1>2 DEF Precommit, ConsensusTypeOK, AreExtensions, IsExtension

\* The next height is one of the model's.
LEMMA HeightAfterType ==
  ASSUME height \in 1..MaxHeight PROVE HeightAfter \in 1..MaxHeight
  BY ConstantTypes DEF HeightAfter

Inv == FeederInv /\ ConsensusTypeOK

\* Nothing has been extended before the first block.
LEMMA InvInitially == Init => Inv
<1> SUFFICES ASSUME Init PROVE Inv
  OBVIOUS
<1>1. FeederInv
  BY FeederInitially DEF Init
<1>2. height \in 1..MaxHeight /\ turn \in DOMAIN Turns
  BY ConstantTypes, TurnsExist DEF Init
<1>3. AreExtensions(extensions) /\ AreExtensions(lastExtensions)
  BY DEF Init, AreExtensions
<1> QED
  BY <1>1, <1>2, <1>3 DEF Init, Inv, ConsensusTypeOK

\* Every step keeps the types and lets the goroutines of every node start alone.
LEMMA InvStep == Inv /\ [Next]_vars => Inv'
<1> SUFFICES ASSUME Inv, [Next]_vars PROVE Inv'
  OBVIOUS
<1>1. ASSUME UNCHANGED <<height, extensions, lastExtensions, executing>>,
             turn' = turn \/ NextTurn
      PROVE  ConsensusTypeOK'
  <2>1. turn' \in DOMAIN Turns
    BY <1>1, TurnsExist DEF Inv, ConsensusTypeOK, NextTurn
  <2> QED
    BY <1>1, <2>1 DEF Inv, ConsensusTypeOK, AreExtensions
<1>2. ASSUME ProposalAccepted \/ ProposalRejected PROVE Inv'
  BY <1>1, <1>2, FeederUnchanged DEF ProposalAccepted, ProposalRejected, Inv
<1>3. ASSUME NEW n \in Correct, CorrectPrecommit(n) PROVE Inv'
  <2>1. PICK ext \in {Empty, ExtendVote(n)} : Precommit(n, ext)
    BY <1>3 DEF CorrectPrecommit
  <2>2. IsExtension(n, ext)
    BY ExtendVoteIsExtension DEF Inv, FeederInv, ConsensusTypeOK
  <2>3. ConsensusTypeOK'
    BY <2>1, <2>2, PrecommitTypes, ConstantTypes DEF Inv
  <2>4. FeederInv'
    BY <2>1, FeederUnchanged DEF Precommit, Inv
  <2> QED
    BY <2>3, <2>4 DEF Inv
<1>4. ASSUME NEW n \in Faulty, FaultyPrecommit(n) PROVE Inv'
  <2>1. PICK ext \in FaultyExtensions : Precommit(n, ext)
    BY <1>4 DEF FaultyPrecommit
  <2>2. IsExtension(n, ext)
    <3>1. n \notin Correct /\ height \in 0..MaxHeight /\ 0 \in 0..MaxHeight
      BY ConstantTypes DEF Correct, Inv, ConsensusTypeOK
    <3>2. CASE ext \in {Empty, Undecodable}
      <4>1. ext.form \in {"empty", "undecodable"} /\ ext.height = 0 /\ ext.rates = << >>
        BY <3>2 DEF Empty, Undecodable
      <4>2. IsStore(<< >>, DOMAIN << >>, Nat)
        BY DEF IsStore
      <4> QED
        BY <3>1, <4>1, <4>2 DEF IsExtension
    <3>3. ASSUME NEW h, NEW p \in Prices, ext = OracleVoteExtension(h, p)
          PROVE  IsExtension(n, ext)
      <4>1. ext.rates = p /\ ext.height = h /\ ext.form = "sound"
        BY <3>3 DEF OracleVoteExtension
      <4>2. h = height
        BY <2>1, <4>1 DEF Precommit, VerifyVoteExtension
      <4>3. IsStore(p, DOMAIN p, Nat)
        BY ConstantTypes DEF IsStore
      <4> QED
        BY <3>1, <4>1, <4>2, <4>3 DEF IsExtension
    <3> QED
      BY <2>1, <3>2, <3>3 DEF FaultyExtensions
  <2>3. ConsensusTypeOK'
    BY <2>1, <2>2, PrecommitTypes, ConstantTypes DEF Inv
  <2>4. FeederInv'
    BY <2>1, FeederUnchanged DEF Precommit, Inv
  <2> QED
    BY <2>3, <2>4 DEF Inv
<1>13. ASSUME NEW n \in Faulty, LatePrecommit(n) PROVE Inv'
  <2>1. /\ DOMAIN lastExtensions' = DOMAIN lastExtensions \union {n}
        /\ \A m \in DOMAIN lastExtensions' :
             lastExtensions'[m] = IF m = n THEN Undecodable ELSE lastExtensions[m]
    BY <1>13 DEF LatePrecommit, Put
  <2>2. IsExtension(n, Undecodable)
    BY ConstantTypes DEF IsExtension, Undecodable, IsStore, Correct
  <2>3. AreExtensions(lastExtensions')
    BY <2>1, <2>2, ConstantTypes DEF Inv, ConsensusTypeOK, AreExtensions
  <2>4. ConsensusTypeOK'
    BY <1>13, <2>3 DEF LatePrecommit, Inv, ConsensusTypeOK, AreExtensions, IsExtension
  <2>5. FeederInv'
    BY <1>13, FeederUnchanged DEF LatePrecommit, Inv
  <2> QED
    BY <2>4, <2>5 DEF Inv
<1>5. ASSUME Decide PROVE Inv'
  <2>1. height' \in 1..MaxHeight
    BY <1>5, HeightAfterType DEF Decide, Inv, ConsensusTypeOK
  <2>2. AreExtensions(extensions')
    BY <1>5 DEF Decide, AreExtensions
  <2>3. AreExtensions(lastExtensions')
    BY <1>5 DEF Decide, Inv, ConsensusTypeOK
  <2>4. turn' \in DOMAIN Turns /\ executing' \in [Nodes -> {"no", "start", "tick"}]
    BY <1>5 DEF Decide, Inv, ConsensusTypeOK
  <2>5. FeederInv'
    BY <1>5, FeederUnchanged DEF Decide, Inv
  <2> QED
    BY <2>1, <2>2, <2>3, <2>4, <2>5
    DEF Inv, ConsensusTypeOK, AreExtensions, IsExtension
<1>6. ASSUME UNCHANGED consensusVars, executing' \in [Nodes -> {"no", "start", "tick"}]
      PROVE  ConsensusTypeOK'
  BY <1>6 DEF consensusVars, Inv, ConsensusTypeOK, AreExtensions
<1>7. ASSUME NEW n \in Correct, EndBlockStart(n) PROVE Inv'
  <2>1. FeederInv'
    BY <1>7, StartFeederStep, ConstantTypes DEF EndBlockStart, Inv
  <2>2. executing' \in [Nodes -> {"no", "start", "tick"}]
    BY <1>7 DEF EndBlockStart, Inv, ConsensusTypeOK
  <2> QED
    BY <1>6, <1>7, <2>1, <2>2 DEF EndBlockStart, Inv
<1>8. ASSUME NEW n \in Correct, EndBlockTick(n) PROVE Inv'
  <2>1. FeederInv'
    BY <1>8, TickFeederStep, ConstantTypes DEF EndBlockTick, Inv
  <2>2. executing' \in [Nodes -> {"no", "start", "tick"}]
    BY <1>8 DEF EndBlockTick, Inv, ConsensusTypeOK
  <2> QED
    BY <1>6, <1>8, <2>1, <2>2 DEF EndBlockTick, Inv
<1>9. ASSUME NEW n \in Correct, Restart(n) PROVE Inv'
  <2>1. FeederInv'
    BY <1>9, RestartFeederStep, ConstantTypes DEF Restart, Inv
  <2>2. executing' \in [Nodes -> {"no", "start", "tick"}]
    BY <1>9 DEF Restart, Inv, ConsensusTypeOK
  <2> QED
    BY <1>6, <1>9, <2>1, <2>2 DEF Restart, Inv
<1>10. ASSUME NEW n \in Correct, NEW i \in Starts, FeederStep(n, i) PROVE Inv'
  <2>1. FeederInv'
    BY <1>10, GoroutineStep, ConstantTypes DEF FeederStep, Inv
  <2> QED
    BY <1>6, <1>10, <2>1 DEF FeederStep, Inv, ConsensusTypeOK
<1>11. ASSUME Govern PROVE Inv'
  BY <1>6, <1>11, FeederUnchanged DEF Govern, Inv, ConsensusTypeOK
<1>12. ASSUME UNCHANGED vars PROVE Inv'
  BY <1>6, <1>12, FeederUnchanged DEF vars, Inv, ConsensusTypeOK
<1> QED
  BY <1>2, <1>3, <1>4, <1>5, <1>7, <1>8, <1>9, <1>10, <1>11, <1>12, <1>13 DEF Next

\* Whatever faulty validators extend and propose and however often nodes restart, a state
\* has the types of its stores, and what a correct validator extends its vote with has
\* positive rates, of denoms of the AcceptList only.
THEOREM TypeCorrect == Spec => []TypeOK
<1>1. Inv => TypeOK
  BY TypeParts DEF Inv, FeederInv
<1> QED
  BY InvInitially, InvStep, <1>1, PTL DEF Spec

\* Whatever the order in which goroutines set the pointer and start the server, and
\* wherever a node restarts, its server shows the prices that EndBlocker ticks, unless
\* two goroutines overlapped at their start.
THEOREM ServerShowsTickedPricesAlways == Spec => []ServerShowsTickedPrices
<1>1. Inv => ServerShowsTickedPrices
  BY DEF Inv, FeederInv, StartsAlone, ServerShowsTickedPrices
<1> QED
  BY InvInitially, InvStep, <1>1, PTL DEF Spec

-----------------------------------------------------------------------------
(* The votes of a block. *)

\* A proposal is made of a part of the last commit, whoever proposes.
LEMMA ProposalsHoldCommits ==
  ASSUME NEW n, NEW proposal \in Proposals(n), proposal.injected
  PROVE  \E Q : proposal.commit = Keep(lastExtensions, Q)
<1>1. CASE n \in Faulty
  <2>1. proposal # PlainTxs
    BY DEF PlainTxs, NoBlock
  <2>2. PICK commit \in CommitsOf(SUBSET DOMAIN lastExtensions) :
          \E votes \in [DOMAIN commit -> Prices] : proposal = Injected(commit, votes)
    BY <1>1, <2>1 DEF Proposals
  <2> QED
    BY <2>2 DEF CommitsOf, Injected
<1>2. CASE n \notin Faulty
  <2>1. PICK commit \in CommitsOf({Q \in SUBSET DOMAIN lastExtensions :
                                     height = 1 \/ IsQuorum(Q)}) :
          proposal = PrepareProposal(commit)
    BY <1>2 DEF Proposals
  <2>2. proposal.commit = commit
    BY <2>1 DEF PrepareProposal, PlainTxs, NoBlock, Injected
  <2> QED
    BY <2>1, <2>2 DEF CommitsOf
<1> QED
  BY <1>1, <1>2

\* What ProcessProposal accepts.
LEMMA AcceptedVotes ==
  ASSUME NEW n, NEW proposal \in Proposals(n), ProcessProposal(proposal),
         VoteExtensionsEnabled
  PROVE  /\ IsQuorum(DOMAIN proposal.votes)
         /\ \A m \in DOMAIN proposal.votes :
              m \in DOMAIN lastExtensions /\ proposal.votes[m] = lastExtensions[m].rates
<1>1. HandleVoteExtensions(proposal)
  BY DEF ProcessProposal
<1>2. PICK Q : proposal.commit = Keep(lastExtensions, Q)
  BY <1>1, ProposalsHoldCommits DEF HandleVoteExtensions
<1>3. /\ DOMAIN proposal.commit = DOMAIN lastExtensions \intersect Q
      /\ \A m \in DOMAIN proposal.commit : proposal.commit[m] = lastExtensions[m]
  BY <1>2 DEF Keep
<1>4. /\ DOMAIN proposal.votes = DOMAIN proposal.commit
      /\ \A m \in DOMAIN proposal.votes : proposal.votes[m] = proposal.commit[m].rates
  BY <1>1 DEF HandleVoteExtensions, VerifyExchangeRateVotes, GenerateExchangeRateVotes
<1>5. IsQuorum(DOMAIN proposal.commit)
  BY <1>1 DEF HandleVoteExtensions, ValidateVoteExtensions
<1> QED
  BY <1>3, <1>4, <1>5

\* Whoever proposes, correct or not, and whatever it does to the commit it collected, a
\* block that ProcessProposal accepts carries the rates that validators with more than
\* 2/3 of the power extended the block before with.
THEOREM BlockVotesAreExtendedAlways == Spec => []BlockVotesAreExtended
<1>1. Init => BlockVotesAreExtended
  BY DEF Init, NoBlock, BlockVotesAreExtended
<1>2. BlockVotesAreExtended /\ [Next]_vars => BlockVotesAreExtended'
  <2> SUFFICES ASSUME BlockVotesAreExtended, [Next]_vars PROVE BlockVotesAreExtended'
    OBVIOUS
  <2>1. ASSUME UNCHANGED <<height, block, lastExtensions>> PROVE BlockVotesAreExtended'
    BY <2>1 DEF BlockVotesAreExtended, VoteExtensionsEnabled
  <2>2. ASSUME ProposalAccepted PROVE BlockVotesAreExtended'
    <3>1. PICK proposal \in Proposals(Turns[turn]) :
            ProcessProposal(proposal) /\ block' = proposal
      BY <2>2 DEF ProposalAccepted
    <3>2. VoteExtensionsEnabled' = VoteExtensionsEnabled /\ lastExtensions' = lastExtensions
      BY <2>2 DEF ProposalAccepted, VoteExtensionsEnabled
    <3> QED
      BY <3>1, <3>2, AcceptedVotes DEF BlockVotesAreExtended
  <2>3. ASSUME Decide PROVE BlockVotesAreExtended'
    BY <2>3 DEF Decide, NoBlock, BlockVotesAreExtended
  <2>4. ASSUME NEW n, NEW ext, Precommit(n, ext) PROVE BlockVotesAreExtended'
    BY <2>1, <2>4 DEF Precommit
  <2>5. ASSUME UNCHANGED consensusVars PROVE BlockVotesAreExtended'
    BY <2>1, <2>5 DEF consensusVars
  <2>6. ASSUME ProposalRejected PROVE BlockVotesAreExtended'
    BY <2>1, <2>6 DEF ProposalRejected
  <2>7. ASSUME NEW n, LatePrecommit(n) PROVE BlockVotesAreExtended'
    BY <2>7 DEF LatePrecommit, BlockVotesAreExtended
  <2> QED
    BY <2>2, <2>3, <2>4, <2>5, <2>6, <2>7
    DEF Next, vars, CorrectPrecommit, FaultyPrecommit, EndBlockStart, EndBlockTick, Restart,
        FeederStep, Govern
<1> QED
  BY <1>1, <1>2, PTL DEF Spec

\* The power of nodes is a sum.
LEMMA TotalPowerIsSum ==
  /\ \A S : TotalPower(S) = SumOver(Power, S)
  /\ Weighs(Power, Nodes)
<1>1. \A S : TotalPower(S) = SumOver(Power, S)
  BY DEF TotalPower, SumOver
<1>2. Weighs(Power, Nodes)
  BY FeederAssumption, ExtensionsAssumption DEF Weighs
<1> QED
  BY <1>1, <1>2

\* Faulty validators have less than half of the power of every quorum: less than 1/3 of all
\* against more than 2/3.
LEMMA QuorumIsMostlyCorrect ==
  ASSUME NEW Q \in SUBSET Nodes, IsQuorum(Q)
  PROVE  2 * TotalPower(Q \intersect Correct) > TotalPower(Q)
<1> DEFINE all    == SumOver(Power, Nodes)
           quorum == SumOver(Power, Q)
           good   == SumOver(Power, Q \intersect Correct)
           bad    == SumOver(Power, Q \ (Q \intersect Correct))
           faulty == SumOver(Power, Faulty)
<1>1. Weighs(Power, Nodes) /\ Faulty \in SUBSET Nodes
  BY TotalPowerIsSum, ConstantTypes
<1>2. all \in Nat /\ quorum \in Nat /\ good \in Nat /\ bad \in Nat /\ faulty \in Nat
  BY <1>1, SumType
<1>3. quorum = good + bad
  BY <1>1, SumSplit
<1>4. bad <= faulty
  <2>1. (Q \ (Q \intersect Correct)) \in SUBSET Faulty
    BY DEF Correct
  <2> QED
    BY <1>1, <2>1, SumSplit
<1>5. 3 * faulty < all /\ 3 * quorum > 2 * all
  <2>1. 3 * TotalPower(Faulty) < TotalPower(Nodes)
    BY ExtensionsAssumption
  <2>2. 3 * TotalPower(Q) > 2 * TotalPower(Nodes)
    BY DEF IsQuorum
  <2> QED
    BY <2>1, <2>2, TotalPowerIsSum
<1>6. TotalPower(Q \intersect Correct) = good /\ TotalPower(Q) = quorum
  BY TotalPowerIsSum
<1> HIDE DEF all, quorum, good, bad, faulty
<1> QED
  BY <1>2, <1>3, <1>4, <1>5, <1>6

\* A block that ProcessProposal accepts carries votes of which validators that run this
\* code have more than half of the power, with rates of denoms of the AcceptList.
BlockVotesAreMostlyCorrect ==
  block.proposed /\ VoteExtensionsEnabled =>
    /\ 2 * TotalPower(DOMAIN block.votes \intersect Correct) > TotalPower(DOMAIN block.votes)
    /\ \A n \in DOMAIN block.votes \intersect Correct : DOMAIN block.votes[n] \subseteq AcceptList

\* Faulty validators, whatever they extend, propose and leave out of a commit, never have
\* half of the power behind the votes of a block.
THEOREM BlockVotesAreMostlyCorrectAlways == Spec => []BlockVotesAreMostlyCorrect
<1>1. TypeOK /\ BlockVotesAreExtended => BlockVotesAreMostlyCorrect
  <2> SUFFICES ASSUME TypeOK, BlockVotesAreExtended, block.proposed, VoteExtensionsEnabled
               PROVE  /\ 2 * TotalPower(DOMAIN block.votes \intersect Correct)
                           > TotalPower(DOMAIN block.votes)
                      /\ \A n \in DOMAIN block.votes \intersect Correct :
                           DOMAIN block.votes[n] \subseteq AcceptList
    BY DEF BlockVotesAreMostlyCorrect
  <2>1. /\ IsQuorum(DOMAIN block.votes)
        /\ \A n \in DOMAIN block.votes :
             n \in DOMAIN lastExtensions /\ block.votes[n] = lastExtensions[n].rates
    BY DEF BlockVotesAreExtended
  <2>2. /\ DOMAIN lastExtensions \subseteq Nodes
        /\ \A n \in DOMAIN lastExtensions : IsExtension(n, lastExtensions[n])
    BY DEF TypeOK
  <2>3. DOMAIN block.votes \in SUBSET Nodes
    BY <2>1, <2>2
  <2>4. \A n \in DOMAIN block.votes \intersect Correct :
          DOMAIN block.votes[n] \subseteq AcceptList
    BY <2>1, <2>2 DEF IsExtension, IsStore
  <2> QED
    BY <2>1, <2>3, <2>4, QuorumIsMostlyCorrect
<1> QED
  BY <1>1, TypeCorrect, BlockVotesAreExtendedAlways, PTL
=============================================================================
