--------------------------- MODULE OracleGoverned ---------------------------
(***************************************************************************)
(* Slash windows under changing parameters: the plans and messages of      *)
(* OracleParams, and in the same EndBlock, after the plan that is due, the *)
(* miss counters of CalcPrices and SlashAndResetMissCounters, which read   *)
(* the parameters as they then are.  A tally makes every validator miss    *)
(* any number of the mandatory denoms: OracleVoting says which.            *)
(***************************************************************************)
EXTENDS OracleParams

CONSTANT Validators  \* operator addresses

VARIABLES
  missCounters,  \* keeper.MissCounters; 0 is an absent counter
  halted,        \* EndBlock has panicked: no block follows
  changed        \* history: the periods or the MandatoryList have changed since the
                 \* counters were last reset

slashVars    == <<missCounters, halted, changed>>
governedVars == <<vars, slashVars>>

GovernedTypeOK ==
  /\ TypeOK
  /\ missCounters \in [Validators -> Nat]
  /\ halted \in BOOLEAN
  /\ changed \in BOOLEAN

GovernedInit ==
  /\ Init
  /\ missCounters = [v \in Validators |-> 0]
  /\ halted = FALSE
  /\ changed = FALSE

\* Mutant of ParamsOfBlock: the block goes on with the parameters it began with.
ParamsOfBlockStart == params

\* The parameters that EndBlocker reads after the plan of this block.
ParamsOfBlock ==
  IF height \in DOMAIN plans THEN Merged(params, DOMAIN plans[height], plans[height]) ELSE params

IsPeriodLastBlock(blocksPerPeriod) == (height + 1) % blocksPerPeriod = 0

PossibleWinsPerSlashWindow(p) ==
  (p["SlashWindow"] \div p["VotePeriod"]) * Cardinality(p["MandatoryList"])

\* The counters after the miss counting of CalcPrices.
CountedMisses(p, misses) ==
  [v \in Validators |->
     missCounters[v] + (IF IsPeriodLastBlock(p["VotePeriod"]) THEN misses[v] ELSE 0)]

\* evaluateAndSlashIfNeeded divides by 0 for a counter that exists.
SlashPanics(p, counters) ==
  /\ IsPeriodLastBlock(p["SlashWindow"])
  /\ PossibleWinsPerSlashWindow(p) = 0
  /\ \E v \in Validators : counters[v] > 0

\* Mutant of CountersAfter: the validators without a miss in the last period keep the
\* counters of the window.
CountersOfMissers(p, misses) ==
  [v \in Validators |->
     IF IsPeriodLastBlock(p["SlashWindow"]) /\ misses[v] > 0 THEN 0
     ELSE CountedMisses(p, misses)[v]]

\* SlashAndResetMissCounters deletes every counter it has judged.
CountersAfter(p, misses) ==
  IF IsPeriodLastBlock(p["SlashWindow"]) THEN [v \in Validators |-> 0]
  ELSE CountedMisses(p, misses)

\* What makes the possible wins of two blocks incomparable.
SameWindow(p, q) ==
  \A key \in {"VotePeriod", "SlashWindow", "MandatoryList"} : p[key] = q[key]

GovernedEndBlock(misses) ==
  /\ ~halted
  /\ ~SlashPanics(ParamsOfBlock, CountedMisses(ParamsOfBlock, misses))
  /\ EndBlock
  /\ missCounters' = CountersAfter(ParamsOfBlock, misses)
  /\ changed' = (~IsPeriodLastBlock(ParamsOfBlock["SlashWindow"])
                   /\ (changed \/ ~SameWindow(params, ParamsOfBlock)))
  /\ UNCHANGED halted

\* The panic reaches the block executor and the block is not committed.
GovernedEndBlockPanics(misses) ==
  /\ ~halted
  /\ height < MaxHeight
  /\ SlashPanics(ParamsOfBlock, CountedMisses(ParamsOfBlock, misses))
  /\ halted' = TRUE
  /\ UNCHANGED <<vars, missCounters, changed>>

\* Governance; LegacyGovUpdateParams takes effect at once.
GovernedMessages ==
  /\ ~halted
  /\ Messages
  /\ changed' = (changed \/ ~SameWindow(params, params'))
  /\ UNCHANGED <<missCounters, halted>>

GovernedNext ==
  \/ GovernedMessages
  \/ \E misses \in [Validators -> 0..Cardinality(ParamsOfBlock["MandatoryList"])] :
       GovernedEndBlock(misses) \/ GovernedEndBlockPanics(misses)

GovernedSpec == GovernedInit /\ [][GovernedNext]_governedVars

-----------------------------------------------------------------------------
(* Correctness. *)

\* evaluateAndSlashIfNeeded panics, and stops every node, only through governance: the
\* MandatoryList was emptied in this slash window with misses pending, or, by a change
\* that Params.Validate has not seen as a whole, the VotePeriod exceeds the SlashWindow;
\* then the panic may come windows later, with the first misses that are counted.
PanicsOnlyOnChangedWindow ==
  halted =>
    \/ /\ ParamsOfBlock["MandatoryList"] = {}
       /\ changed \/ ~SameWindow(params, ParamsOfBlock)
    \/ mixed
    \/ height \in DOMAIN plans /\ Mixes(params, base[height], DOMAIN plans[height])

\* In a slash window whose parameters do not change a validator has no more misses than
\* PossibleWinsPerSlashWindow, so that its valid rate is not negative: vote periods
\* that are not aligned with the window would be charged to it too often.
MissesWithinPossibleWins ==
  ~changed /\ ~mixed =>
    \A v \in Validators : missCounters[v] <= PossibleWinsPerSlashWindow(params)
=============================================================================
