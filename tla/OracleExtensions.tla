-------------------------- MODULE OracleExtensions --------------------------
(***************************************************************************)
(* Vote extensions and proposals (abci/voteextension.go, abci/proposal.go, *)
(* abci/util.go) over the price feeders of the nodes.  Validators extend   *)
(* their precommits with the prices of their feeder, the next proposer     *)
(* puts the extensions of its commit, and the votes made from them, first  *)
(* into its block, and the others accept the block only if they make the   *)
(* same votes from that commit.                                            *)
(*                                                                         *)
(* CometBFT is outside: proposers take turns, a precommit counts when its  *)
(* extension is verified, more than 2/3 of the power decide, and the nodes *)
(* execute a block before the next one is decided.  A precommit that comes *)
(* after the decision joins the commit, with an extension nobody verifies. *)
(* Signatures cannot be forged, so that a commit holds what was extended.  *)
(* Faulty validators, with less than 1/3 of the power, propose and extend  *)
(* what they like.                                                         *)
(***************************************************************************)
EXTENDS PriceFeeder, Sequences, FiniteSetsExt, Functions

CONSTANTS
  Power,        \* consensus power of each node's validator
  Faulty,       \* the nodes that do not run this code
  Turns,        \* the proposers in turn
  EnableHeight, \* consensus parameter Abci.VoteExtensionsEnableHeight
  VotePeriod,   \* params.VotePeriod
  AcceptList,   \* params.AcceptList
  MaxHeight,    \* heights after this one repeat the last vote period
  MaxRestarts,  \* bound on the restarts of nodes
  MaxChanges    \* bound on the changes of the thresholds

TotalPower(S) == MapThenSumSet(LAMBDA n : Power[n], S)
IsQuorum(S)   == 3 * TotalPower(S) > 2 * TotalPower(Nodes)

ASSUME ExtensionsAssumption ==
  /\ Power \in [Nodes -> Nat \ {0}]
  /\ Faulty \subseteq Nodes /\ 3 * TotalPower(Faulty) < TotalPower(Nodes)
  /\ Turns \in Seq(Nodes) /\ Range(Turns) = Nodes
  /\ EnableHeight \in Nat
  /\ VotePeriod \in Nat \ {0}
  /\ MaxHeight \in Nat /\ MaxHeight >= EnableHeight + VotePeriod
  /\ MaxRestarts \in Nat /\ MaxChanges \in Nat

VARIABLES
  height,          \* the height that is being decided
  turn,            \* whose turn it is to propose
  block,           \* the proposal that was accepted in this round, or NoBlock
  extensions,      \* the verified extensions of this height's precommits
  lastExtensions,  \* those of the height before
  executing,       \* where each node is in the EndBlocker of the block decided last
  votesStore,      \* keeper.Votes, as far as the blocks' injected votes reach it
  restarts, changes

consensusVars == <<height, turn, block, extensions, lastExtensions, votesStore>>
vars == <<feederVars, consensusVars, executing, restarts, changes>>

Correct == Nodes \ Faulty
Feeding == {n \in Correct : Config[n] # "off"}

\* A block is its injected transaction, or has none.
NoBlock  == [injected |-> FALSE, commit |-> << >>, votes |-> << >>, proposed |-> FALSE]
PlainTxs == [NoBlock EXCEPT !.proposed = TRUE]
Injected(commit, votes) ==
  [injected |-> TRUE, commit |-> commit, votes |-> votes, proposed |-> TRUE]

\* An extension is empty bytes, an OracleVoteExtension, or bytes that are not one.
Empty       == [form |-> "empty", height |-> 0, rates |-> << >>]
Undecodable == [form |-> "undecodable", height |-> 0, rates |-> << >>]
OracleVoteExtension(h, rates) == [form |-> "sound", height |-> h, rates |-> rates]

HeightAfter == IF height = MaxHeight THEN MaxHeight - VotePeriod + 1 ELSE height + 1

Init ==
  /\ FeederInit
  /\ height = 1
  /\ turn = 1
  /\ block = NoBlock
  /\ extensions = << >>
  /\ lastExtensions = << >>
  /\ executing = [n \in Nodes |-> "no"]
  /\ votesStore = << >>
  /\ restarts = 0
  /\ changes = 0

-----------------------------------------------------------------------------
(* The handlers. *)

\* Mutant of ExtendVote: the prices are sent without a look at the AcceptList.
ExtendVoteUnfiltered(n) ==
  IF oracle[n] = NoOracle THEN Empty
  ELSE OracleVoteExtension(height, prices[n])

\* ParseExchangeRateDecCoins takes the prices of a feeder: one that is not positive is an
\* error for all of them.
Parses(rates) == \A d \in DOMAIN rates : rates[d] > 0

\* ExtendVoteHandler; BaseApp makes an empty extension of its error.
ExtendVote(n) ==
  IF oracle[n] = NoOracle \/ ~Parses(prices[n]) THEN Empty
  ELSE OracleVoteExtension(height, Keep(prices[n], AcceptList))

\* Mutant of VerifyVoteExtension: an extension must be there.
VerifyNonEmptyExtension(ext) == ext.form = "sound" /\ ext.height = height

VerifyVoteExtension(ext) == ext.form = "empty" \/ (ext.form = "sound" /\ ext.height = height)

VoteExtensionsEnabled == EnableHeight # 0 /\ height > 1 /\ EnableHeight < height

\* baseapp.ValidateVoteExtensions: the signatures, and more than 2/3 of the power.
ValidateVoteExtensions(commit) == IsQuorum(DOMAIN commit)

\* generateExchangeRateVotes returns the error of one extension that it cannot decode.  Its
\* other errors do not come up: a consensus address is any bytes, and ValidateVoteExtensions
\* has looked up the same validators.
GenerationFails(commit) == \E n \in DOMAIN commit : commit[n].form = "undecodable"

\* The votes are sorted by voter, so that a set of voters stands for the list.
GenerateExchangeRateVotes(commit) == [n \in DOMAIN commit |-> commit[n].rates]

\* PrepareProposalHandler; BaseApp proposes the transactions as they are on an error.
PrepareProposal(commit) ==
  IF ValidateVoteExtensions(commit) /\ VoteExtensionsEnabled /\ ~GenerationFails(commit)
  THEN Injected(commit, GenerateExchangeRateVotes(commit))
  ELSE PlainTxs

\* Mutant of VerifyExchangeRateVotes: only the voters are compared.
VerifyVoters(injectedVotes, generatedVotes) ==
  DOMAIN injectedVotes = DOMAIN generatedVotes

VerifyExchangeRateVotes(injectedVotes, generatedVotes) ==
  /\ DOMAIN injectedVotes = DOMAIN generatedVotes
  /\ \A n \in DOMAIN injectedVotes : injectedVotes[n] = generatedVotes[n]

HandleVoteExtensions(proposal) ==
  /\ proposal.injected
  /\ ValidateVoteExtensions(proposal.commit)
  /\ ~GenerationFails(proposal.commit)
  /\ VerifyExchangeRateVotes(proposal.votes, GenerateExchangeRateVotes(proposal.commit))

\* ProcessProposalHandler.
ProcessProposal(proposal) == VoteExtensionsEnabled => HandleVoteExtensions(proposal)

\* PreBlocker, and the injected transaction, which does not decode as one: the votes
\* of the block reach no store.
FinalizeBlock(store, b) == store

-----------------------------------------------------------------------------
(* Consensus. *)

\* The commits a proposer may have collected.
CommitsOf(quorums) == {Keep(lastExtensions, Q) : Q \in quorums}

Proposals(n) ==
  IF n \in Faulty
  THEN {PlainTxs} \cup
       UNION {{Injected(commit, votes) : votes \in [DOMAIN commit -> Prices]} :
                commit \in CommitsOf(SUBSET DOMAIN lastExtensions)}
  ELSE {PrepareProposal(commit) :
          commit \in CommitsOf({Q \in SUBSET DOMAIN lastExtensions : height = 1 \/ IsQuorum(Q)})}

NextTurn == turn' = (turn % Len(Turns)) + 1

ProposalAccepted ==
  /\ ~block.proposed
  /\ executing[Turns[turn]] = "no"
  /\ \E proposal \in Proposals(Turns[turn]) :
       ProcessProposal(proposal) /\ block' = proposal
  /\ NextTurn
  /\ UNCHANGED <<feederVars, height, extensions, lastExtensions, executing, votesStore,
                 restarts, changes>>

\* Also the round of a faulty proposer that stays silent.
ProposalRejected ==
  /\ ~block.proposed
  /\ executing[Turns[turn]] = "no"
  /\ (\A proposal \in Proposals(Turns[turn]) : ProcessProposal(proposal)) => Turns[turn] \in Faulty
  /\ NextTurn
  /\ UNCHANGED <<feederVars, height, block, extensions, lastExtensions, executing,
                 votesStore, restarts, changes>>

Precommit(n, ext) ==
  /\ block.proposed
  /\ executing[n] = "no"
  /\ n \notin DOMAIN extensions
  /\ VerifyVoteExtension(ext)
  /\ extensions' = Put(extensions, n, ext)
  /\ UNCHANGED <<feederVars, height, turn, block, lastExtensions, executing, votesStore,
                 restarts, changes>>

\* CometBFT asks for extensions from the EnableHeight on.
ExtensionsAsked == EnableHeight # 0 /\ height >= EnableHeight

CorrectPrecommit(n) == Precommit(n, IF ExtensionsAsked THEN ExtendVote(n) ELSE Empty)

\* An extension of this height without rates has the effect of an empty one; no handler looks
\* at the rates of an extension, whether they would parse or not.
FaultyExtensions ==
  {Empty, Undecodable} \cup
    {OracleVoteExtension(h, p) :
       h \in {height, height + 1}, p \in {q \in Prices \ {<< >>} : Parses(q)}}

FaultyPrecommit(n) ==
  \E ext \in FaultyExtensions : (ext = Empty \/ ExtensionsAsked) /\ Precommit(n, ext)

\* A precommit for the height before, which CometBFT adds to the commit without
\* VerifyVoteExtension, between the execution of the block and the next proposal.  An
\* extension that decodes has the effect of one that was there in time, for nothing looks
\* at its height any more.
LatePrecommit(n) ==
  /\ VoteExtensionsEnabled
  /\ ~block.proposed
  /\ \A m \in Nodes : executing[m] = "no"
  /\ n \notin DOMAIN lastExtensions
  /\ lastExtensions' = Put(lastExtensions, n, Undecodable)
  /\ UNCHANGED <<feederVars, height, turn, block, extensions, executing, votesStore,
                 restarts, changes>>

Decide ==
  /\ IsQuorum(DOMAIN extensions)
  /\ \A n \in Nodes : executing[n] = "no"
  /\ height' = HeightAfter
  /\ block' = NoBlock
  /\ extensions' = << >>
  /\ lastExtensions' = extensions
  /\ votesStore' = FinalizeBlock(votesStore, block)
  /\ executing' = [n \in Nodes |-> IF n \in Feeding THEN "start" ELSE "no"]
  /\ UNCHANGED <<feederVars, turn, restarts, changes>>

-----------------------------------------------------------------------------
(* The nodes. *)

\* The first part of EndBlocker.
EndBlockStart(n) ==
  /\ executing[n] = "start"
  /\ StartFeeder(n)
  /\ executing' = [executing EXCEPT ![n] = "tick"]
  /\ UNCHANGED <<consensusVars, restarts, changes>>

\* The block that is executed is the last one of its period.
IsPeriodLastBlock == height % VotePeriod = 0

EndBlockTick(n) ==
  /\ executing[n] = "tick"
  /\ \E report \in Prices : TickFeeder(n, IsPeriodLastBlock, report)
  /\ executing' = [executing EXCEPT ![n] = "no"]
  /\ UNCHANGED <<consensusVars, restarts, changes>>

FeederStep(n, i) ==
  /\ Goroutine(n, i)
  /\ UNCHANGED <<consensusVars, executing, restarts, changes>>

\* A node that comes back executes the block again that it had not finished.
Restart(n) ==
  /\ restarts < MaxRestarts
  /\ restarts' = restarts + 1
  /\ RestartFeeder(n)
  /\ executing' = [executing EXCEPT ![n] = IF @ = "no" THEN "no" ELSE "start"]
  /\ UNCHANGED <<consensusVars, changes>>

Govern ==
  /\ changes < MaxChanges
  /\ changes' = changes + 1
  /\ SetThresholds
  /\ UNCHANGED <<consensusVars, executing, restarts>>

Next ==
  \/ ProposalAccepted
  \/ ProposalRejected
  \/ \E n \in Correct : CorrectPrecommit(n)
  \/ \E n \in Faulty : FaultyPrecommit(n) \/ LatePrecommit(n)
  \/ Decide
  \/ \E n \in Correct : EndBlockStart(n) \/ EndBlockTick(n) \/ Restart(n)
  \/ \E n \in Correct, i \in Starts : FeederStep(n, i)
  \/ Govern

\* Rounds go on and take turns, correct validators vote, nodes execute what is decided, and
\* the Go scheduler runs every goroutine.  Nothing is assumed of faulty validators, of
\* restarts or of governance.
Fairness ==
  /\ WF_vars(ProposalAccepted \/ ProposalRejected)
  /\ WF_vars(Decide)
  /\ \A n \in Correct : WF_vars(CorrectPrecommit(n))
  /\ \A n \in Feeding :
       /\ WF_vars(EndBlockStart(n) \/ EndBlockTick(n))
       /\ \A i \in Starts : WF_vars(FeederStep(n, i))

Spec == Init /\ [][Next]_vars /\ Fairness

-----------------------------------------------------------------------------
(* Correctness. *)

IsExtension(n, ext) ==
  /\ ext.form \in {"empty", "undecodable", "sound"} /\ ext.height \in 0..MaxHeight
  /\ IsStore(ext.rates, DOMAIN ext.rates, Nat)
  /\ n \in Correct =>
       /\ ext.form # "undecodable"
       /\ IsStore(ext.rates, AcceptList, Nat \ {0})

\* Types; what correct validators extend has positive rates for denoms of the AcceptList only.
TypeOK ==
  /\ FeederTypeOK
  /\ height \in 1..MaxHeight
  /\ turn \in DOMAIN Turns
  /\ \A exts \in {extensions, lastExtensions} :
       /\ DOMAIN exts \subseteq Nodes
       /\ \A n \in DOMAIN exts : IsExtension(n, exts[n])
  /\ executing \in [Nodes -> {"no", "start", "tick"}]

\* The votes in a block that ProcessProposal accepts are those of more than 2/3 of the power,
\* each with the very rates that its validator extended its precommit of the height
\* before with, whatever commit the proposer has chosen and whatever it has done to it.
BlockVotesAreExtended ==
  block.proposed /\ VoteExtensionsEnabled =>
    /\ IsQuorum(DOMAIN block.votes)
    /\ \A n \in DOMAIN block.votes :
         n \in DOMAIN lastExtensions /\ block.votes[n] = lastExtensions[n].rates

\* Heights are decided again and again.
BlocksGoOn == []<>(height = MaxHeight) /\ []<>(height # MaxHeight)

\* The handlers stop the chain for one reason only, a late precommit with an extension that
\* does not decode, as long as it is in the commit that the proposers start from.  Nodes
\* without a price feeder, restarts, feeders that are still starting, prices that do not
\* parse, extensions that are refused and proposals of faulty validators only cost rounds.
ChainAdvances == BlocksGoOn \/ <>[]GenerationFails(lastExtensions)

\* Whatever fails or overlaps at first, once the thresholds parse, and as long as blocks are
\* executed, the feeder of every node whose own configuration loads is running.
FeedersSettle ==
  BlocksGoOn /\ <>[]thresholds =>
    <>[](\A n \in {m \in Nodes : Config[m] \in {"noServer", "ok"}} : Settled(n))

\* The votes that a block carries are in the store when the block is executed.
VotesAreStored ==
  [][height' # height /\ VoteExtensionsEnabled => votesStore' = block.votes]_vars
=============================================================================
