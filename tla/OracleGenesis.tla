--------------------------- MODULE OracleGenesis ---------------------------
(***************************************************************************)
(* A chain that is stopped after some block, exported and started again    *)
(* from the exported genesis (x/oracle/genesis.go, app/export.go).  The    *)
(* height goes on: an export for height zero is not modelled.  The other   *)
(* modules export and import what OracleChain has of them.                 *)
(***************************************************************************)
EXTENDS OracleChain

CONSTANT MaxRestarts  \* bound on the restarts

ASSUME RestartsAssumption == MaxRestarts \in Nat

VARIABLES
  committed,  \* no message was executed since the last block was committed
  restarts,   \* the restarts so far
  started     \* history: the first height of the chain, or since its last restart

restartVars == <<committed, restarts, started>>
genesisVars == <<chainVars, restartVars>>

GenesisInit ==
  /\ ChainInit
  /\ committed = FALSE
  /\ restarts = 0
  /\ started = height

\* The genesis state with the prevotes that are given.
GenesisStateWith(aggregatePrevotes) ==
  [feederDelegations |-> feederDelegations, exchangeRates |-> exchangeRates,
   missCounters |-> missCounters, prevotes |-> aggregatePrevotes, votes |-> votes,
   historicPrices |-> historicPrices, medians |-> medianPrices,
   medianDeviations |-> medianDeviations]

\* Mutant of ExportGenesis: the prevotes are not iterated.
ExportWithoutPrevotes == GenesisStateWith(<< >>)

\* ExportGenesis: neither the reward set nor the plans and averages are part of it.
ExportGenesis == GenesisStateWith(prevotes)

\* InitGenesis on empty stores; SetHistoricPrice finds the last block of a denom again.
InitGenesis(genState) ==
  /\ feederDelegations' = genState.feederDelegations
  /\ exchangeRates' = genState.exchangeRates
  /\ missCounters' = genState.missCounters
  /\ prevotes' = genState.prevotes
  /\ votes' = genState.votes
  /\ historicPrices' = genState.historicPrices
  /\ medianPrices' = genState.medians
  /\ medianDeviations' = genState.medianDeviations
  /\ lastHistoricPriceBlock' =
       [d \in {k[1] : k \in DOMAIN genState.historicPrices} |->
          Max(History!BlocksOf(genState.historicPrices, d))]
  /\ validatorRewardSet' = {}

\* ExportAppStateAndValidators reads the last committed state.
Restart ==
  /\ committed
  /\ ~halted
  /\ restarts < MaxRestarts
  /\ InitGenesis(ExportGenesis)
  /\ committed' = FALSE
  /\ restarts' = restarts + 1
  /\ started' = height
  /\ UNCHANGED <<height, bonded, jailed, halted, origin, clean, rewardVars>>

GenesisNext ==
  \/ ChainMessages /\ committed' = FALSE /\ UNCHANGED <<restarts, started>>
  \/ \E active \in ActiveSets :
       \/ ChainEndBlock(active) /\ committed' = TRUE /\ UNCHANGED <<restarts, started>>
       \/ ChainEndBlockFails(active) /\ UNCHANGED restartVars
  \/ Restart

GenesisSpec == GenesisInit /\ [][GenesisNext]_genesisVars

-----------------------------------------------------------------------------
(* Correctness.  What OracleVoting and OracleChain promise holds of a chain   *)
(* that restarts as well: the commitments, the misses, the stamps.            *)

\* Without a reward set RewardBallotWinners pays nobody.  An export loses the set, and
\* EndBlocker renews it by the height alone: the gap after a start or a restart is never
\* longer than SlashWindow blocks.
RewardGapIsBounded ==
  validatorRewardSet = {} => height <= started + SlashWindow
=============================================================================
