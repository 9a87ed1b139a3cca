---------------------------- MODULE OracleParams ----------------------------
(***************************************************************************)
(* The parameters of x/oracle and the plans that change them: the messages *)
(* of governance (keeper/msg_server.go), the store of plans                *)
(* (keeper/param_update_plan.go), their execution by EndBlocker, and what  *)
(* is checked of the parameters, together (types/params.go) and one by one *)
(* (types/plan.go).                                                        *)
(*                                                                         *)
(* The parameters that no check compares with another one are left out. A  *)
(* list of denoms is the set of their symbols as they are spelled; the     *)
(* base denom and the exponent go with the symbol.  Of the reward bands    *)
(* only the denoms that have one matter here.  Governance executes its     *)
(* proposals in its own EndBlock, before that of x/oracle.                 *)
(***************************************************************************)
EXTENDS Integers, FiniteSets, Sequences, Functions, OracleStores

CONSTANTS
  Denoms,      \* spellings of denom symbols
  Upper,       \* strings.ToUpper: the normal spelling of each
  Pairs,       \* currency pairs
  InitParams,  \* the parameters of the genesis state
  Updates,     \* contents of the messages that update parameters: [keys, changes]
  Additions,   \* contents of MsgGovAddDenoms
  MaxHeight,   \* bound on the block height
  MaxProposals \* bound on the messages of governance

PeriodKeys == {"VotePeriod", "RewardDistributionWindow", "SlashWindow",
               "HistoricStampPeriod", "MedianStampPeriod"}
ListKeys   == {"AcceptList", "MandatoryList"}
FeederKeys == {"CurrencyPairProviders", "CurrencyDeviationThresholds"}
ParamKeys  == PeriodKeys \union ListKeys \union FeederKeys \union {"RewardBands"}

\* The values of a parameter.
Values(key) ==
  IF key \in PeriodKeys THEN Nat
  ELSE IF key = "CurrencyPairProviders" THEN SUBSET Pairs ELSE SUBSET Denoms

IsChanges(c) == DOMAIN c \subseteq ParamKeys /\ \A key \in DOMAIN c : c[key] \in Values(key)

\* The parameters that Validate compares with each other, or that a vote needs together.
Groups == {PeriodKeys, ListKeys \union {"RewardBands"}}

Mixes(p, base, keys) ==
  \E g \in Groups : keys \intersect g # {} /\ \E key \in g : p[key] # base[key]

-----------------------------------------------------------------------------
(* Checks. *)

\* DenomList.Normalize.
Normalize(list) == {Upper[d] : d \in list}

\* DenomList.Contains, which ignores the spelling; GetBandFromDenom likewise.
ListsDenom(list, d) == \E e \in list : Upper[e] = Upper[d]

\* Params.Validate; ContainDenoms compares the entries as they are spelled.
Validate(p) ==
  /\ p["VotePeriod"] > 0
  /\ p["RewardDistributionWindow"] >= p["VotePeriod"]
  /\ p["SlashWindow"] >= p["VotePeriod"]
  /\ p["SlashWindow"] % p["VotePeriod"] = 0
  /\ p["HistoricStampPeriod"] <= p["MedianStampPeriod"]
  /\ p["HistoricStampPeriod"] % p["VotePeriod"] = 0
  /\ p["MedianStampPeriod"] % p["VotePeriod"] = 0
  /\ p["MandatoryList"] \subseteq p["AcceptList"]

\* ParamUpdatePlan.ValidateBasic and MsgLegacyGovUpdateParams.ValidateBasic.
ValidateBasic(keys, changes) == \A key \in keys \intersect PeriodKeys : changes[key] > 0

\* The lists of the genesis state are spelled as those of DefaultParams are, in capitals.
\* ValidateGenesis does not ask for it, but every list that governance writes later is.
ASSUME GovernanceAssumption ==
  /\ IsFiniteSet(Denoms)
  /\ Upper \in [Denoms -> Denoms]
  /\ \A d \in Denoms : Upper[Upper[d]] = Upper[d]
  /\ DOMAIN InitParams = ParamKeys /\ IsChanges(InitParams) /\ Validate(InitParams)
  /\ \A key \in ListKeys : Normalize(InitParams[key]) = InitParams[key]
  /\ \A u \in Updates : /\ u.keys \in Seq(ParamKeys)
                        /\ IsChanges(u.changes) /\ DOMAIN u.changes = Range(u.keys)
  /\ \A a \in Additions :
       a.denoms \subseteq Denoms /\ a.mandatory \in BOOLEAN
         /\ a.pairs \subseteq Pairs /\ a.thresholds \subseteq Denoms
  /\ MaxHeight \in Nat
  /\ MaxProposals \in Nat

VARIABLES
  height,    \* height of the block being executed
  params,    \* the parameter subspace of the module
  plans,     \* keeper.ParamUpdatePlans: height -> plan; of its changes, those of its keys
  proposals, \* the messages of governance so far
  base,      \* history: the parameters that each plan was validated against
  adds,      \* history: the plans that GovAddDenoms made, and their denoms
  promised,  \* history: the denoms such plans have added, and nothing was to remove
  mixed      \* history: a plan changed parameters whose group had changed since it was
             \* validated, or LegacyGovUpdateParams one that it does not check

vars == <<height, params, plans, proposals, base, adds, promised, mixed>>

TypeOK ==
  /\ height \in Nat
  /\ DOMAIN params = ParamKeys /\ IsChanges(params)
  /\ \A key \in ListKeys : Normalize(params[key]) = params[key]
  /\ \A h \in DOMAIN plans : IsChanges(plans[h])
  /\ proposals \in 0..MaxProposals
  /\ DOMAIN base = DOMAIN plans
  /\ DOMAIN adds \subseteq DOMAIN plans
  /\ promised \subseteq Denoms
  /\ mixed \in BOOLEAN

Init ==
  /\ height = 1
  /\ params = InitParams
  /\ plans = << >>
  /\ proposals = 0
  /\ base = << >>
  /\ adds = << >>
  /\ promised = {}
  /\ mixed = FALSE

-----------------------------------------------------------------------------
(* Plans. *)

\* Mutant of Merged: the lists of a plan are not normalized.
MergedAsSpelled(p, keys, changes) ==
  [key \in ParamKeys |-> IF key \in keys THEN changes[key] ELSE p[key]]

\* ValidateParamChanges and ExecuteParamUpdatePlan: the parameters with the changes
\* of the keys.
Merged(p, keys, changes) ==
  [key \in ParamKeys |->
     IF key \notin keys THEN p[key]
     ELSE IF key \in ListKeys THEN Normalize(changes[key]) ELSE changes[key]]

\* Mutants of MaySchedule: a plan for the last block is let in; the changes are not
\* validated together with the parameters they join.
MayScheduleLate(h, keys, changes) ==
  h >= height - 1 /\ ValidateBasic(keys, changes) /\ Validate(Merged(params, keys, changes))
MayScheduleUnmerged(h, keys, changes) ==
  h >= height /\ ValidateBasic(keys, changes) /\ Validate(params)

\* What ScheduleParamUpdatePlan and the plan's ValidateBasic require.
MaySchedule(h, keys, changes) ==
  /\ h >= height
  /\ ValidateBasic(keys, changes)
  /\ Validate(Merged(params, keys, changes))

\* The bound on the messages.
Propose == proposals < MaxProposals /\ proposals' = proposals + 1

\* ScheduleParamUpdatePlan: a plan for the same height is replaced.
ScheduleParamUpdatePlan(h, keys, changes) ==
  /\ Propose
  /\ MaySchedule(h, keys, changes)
  /\ plans' = Put(plans, h, Keep(changes, keys))
  /\ base' = Put(base, h, params)
  /\ UNCHANGED <<height, params, promised, mixed>>

GovUpdateParams(u, h) ==
  /\ ScheduleParamUpdatePlan(h, Range(u.keys), u.changes)
  /\ adds' = Keep(adds, DOMAIN adds \ {h})

\* Mutant of AddedKeys: the bands come only with new accepted denoms.
AddedKeysOfAccepted(a) ==
  (IF \E d \in a.denoms : ~ListsDenom(params["AcceptList"], d) THEN {"AcceptList"} ELSE {})
    \union (IF a.mandatory /\ a.denoms # {} THEN {"MandatoryList"} ELSE {})

\* The keys of the plan that GovAddDenoms makes.
AddedKeys(a) ==
  (IF \E d \in a.denoms : ~ListsDenom(params["AcceptList"], d) THEN {"AcceptList"} ELSE {})
    \union (IF a.mandatory /\ a.denoms # {} THEN {"MandatoryList"} ELSE {})
    \union (IF a.denoms # {} THEN {"RewardBands"} ELSE {})
    \union (IF a.pairs # {} THEN {"CurrencyPairProviders"} ELSE {})
    \union (IF a.thresholds # {} THEN {"CurrencyDeviationThresholds"} ELSE {})

\* Its changes: all the parameters of the time, with what is added to the lists.
AddedChanges(a) ==
  [params EXCEPT
    !["AcceptList"]    = @ \union {d \in a.denoms : ~ListsDenom(@, d)},
    !["MandatoryList"] = IF a.mandatory THEN @ \union a.denoms ELSE @,
    !["RewardBands"]   = @ \union {d \in a.denoms : ~ListsDenom(@, d)},
    !["CurrencyPairProviders"] = @ \union a.pairs,
    !["CurrencyDeviationThresholds"] = @ \union a.thresholds]

\* GovAddDenoms fails for a denom that is in the list it would join, also when the
\* message names it twice.
GovAddDenoms(a, h) ==
  /\ \A d \in a.denoms :
       /\ ~ListsDenom(params[IF a.mandatory THEN "MandatoryList" ELSE "AcceptList"], d)
       /\ ~ListsDenom(a.denoms \ {d}, d)
  /\ ScheduleParamUpdatePlan(h, AddedKeys(a), AddedChanges(a))
  /\ adds' = Put(adds, h, a.denoms)

GovRemoveCurrencyPairProviders(pairs, h) ==
  /\ ScheduleParamUpdatePlan(h, {"CurrencyPairProviders"},
       [params EXCEPT !["CurrencyPairProviders"] = @ \ pairs])
  /\ adds' = Keep(adds, DOMAIN adds \ {h})

\* The currencies to remove are normalized, the stored ones are compared as spelled.
GovRemoveCurrencyDeviationThresholds(currencies, h) ==
  /\ ScheduleParamUpdatePlan(h, {"CurrencyDeviationThresholds"},
       [params EXCEPT !["CurrencyDeviationThresholds"] = @ \ Normalize(currencies)])
  /\ adds' = Keep(adds, DOMAIN adds \ {h})

\* ClearParamUpdatePlan, on a plan that exists.
GovCancelUpdateParamPlan(h) ==
  /\ Propose
  /\ h \in DOMAIN plans
  /\ plans' = Keep(plans, DOMAIN plans \ {h})
  /\ base' = Keep(base, DOMAIN base \ {h})
  /\ adds' = Keep(adds, DOMAIN adds \ {h})
  /\ UNCHANGED <<height, params, promised, mixed>>

\* What LegacyGovUpdateParams checks of one key, against the parameters as the
\* earlier keys of the message have left them.
LegacyAccepts(p, key, x) ==
  CASE key \in {"RewardDistributionWindow", "SlashWindow"} -> x >= p["VotePeriod"]
    [] key = "AcceptList" -> Normalize(p["MandatoryList"]) \subseteq Normalize(x)
    [] key = "MandatoryList" -> Normalize(x) \subseteq Normalize(p["AcceptList"])
    [] key = "HistoricStampPeriod" ->
         x >= 1 /\ x <= p["MedianStampPeriod"] /\ x % p["VotePeriod"] = 0
    [] key = "MedianStampPeriod" ->
         x >= 1 /\ x >= p["HistoricStampPeriod"] /\ x % p["VotePeriod"] = 0
    [] key \in {"VotePeriod", "RewardBands"} -> TRUE
    [] key \in FeederKeys -> FALSE

\* The parameters after the first n keys of the message.
AfterKeys(u, n) == Merged(params, Range(SubSeq(u.keys, 1, n)), u.changes)

\* LegacyGovUpdateParams, at once; the message has no effect when a key is refused.
LegacyGovUpdateParams(u) ==
  /\ Propose
  /\ ValidateBasic(Range(u.keys), u.changes)
  /\ \A i \in DOMAIN u.keys : LegacyAccepts(AfterKeys(u, i - 1), u.keys[i], u.changes[u.keys[i]])
  /\ params' = AfterKeys(u, Len(u.keys))
  /\ promised' = IF Range(u.keys) \subseteq PeriodKeys THEN promised ELSE {}
  /\ mixed' = (mixed \/ Range(u.keys) \intersect {"VotePeriod", "SlashWindow"} # {})
  /\ UNCHANGED <<height, plans, base, adds>>

\* The history variables when the plan of this block, if any, is executed.
PromisedAfter(h) ==
  IF h \in DOMAIN adds THEN promised \union Normalize(adds[h])
  ELSE IF DOMAIN plans[h] \intersect (ListKeys \union {"RewardBands"}) = {} THEN promised ELSE {}

\* EndBlocker: ShouldExecute, ExecuteParamUpdatePlan, ClearParamUpdatePlan.
EndBlock ==
  /\ height < MaxHeight
  /\ height' = height + 1
  /\ \/ /\ height \in DOMAIN plans
        /\ params' = Merged(params, DOMAIN plans[height], plans[height])
        /\ plans' = Keep(plans, DOMAIN plans \ {height})
        /\ base' = Keep(base, DOMAIN base \ {height})
        /\ adds' = Keep(adds, DOMAIN adds \ {height})
        /\ promised' = PromisedAfter(height)
        /\ mixed' = (mixed \/ Mixes(params, base[height], DOMAIN plans[height]))
     \/ /\ height \notin DOMAIN plans
        /\ UNCHANGED <<params, plans, base, adds, promised, mixed>>
  /\ UNCHANGED proposals

\* The messages of governance.
Messages ==
  \/ \E h \in 1..MaxHeight :
       \/ \E u \in Updates : GovUpdateParams(u, h)
       \/ \E a \in Additions : GovAddDenoms(a, h)
       \/ \E pairs \in (SUBSET Pairs) \ {{}} : GovRemoveCurrencyPairProviders(pairs, h)
       \/ \E currencies \in {{d} : d \in Denoms} :
            GovRemoveCurrencyDeviationThresholds(currencies, h)
       \/ GovCancelUpdateParamPlan(h)
  \/ \E u \in Updates : LegacyGovUpdateParams(u)

Next == Messages \/ EndBlock

Spec == Init /\ [][Next]_vars

-----------------------------------------------------------------------------
(* Correctness. *)

\* ExecuteParamUpdatePlan runs every plan that stays in the store: no plan is left
\* behind by its height, where ShouldExecute would never run it.
PlansAreDue == \A h \in DOMAIN plans : h >= height

\* ScheduleParamUpdatePlan validates a plan against the parameters of its time, and
\* the parameters stay valid as long as no executed plan finds a group of compared
\* parameters changed since, and LegacyGovUpdateParams leaves VotePeriod and
\* SlashWindow alone.
ValidUnlessMixed == ~mixed => Validate(params)

\* What GovAddDenoms adds: accepted denoms with a reward band to tally them by.
AddedDenomsStay ==
  \A d \in promised : ListsDenom(params["AcceptList"], d) /\ ListsDenom(params["RewardBands"], d)

\* Plans that do not overlap in their groups keep what GovAddDenoms has added.
AddedDenomsStayUnlessMixed == ~mixed => AddedDenomsStay
=============================================================================
