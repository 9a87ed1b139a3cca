--------------------------- MODULE MCOracleParams ---------------------------
(***************************************************************************)
(* Small instances of OracleGoverned: denom A is accepted and mandatory    *)
(* from the start, denom B, also spelled b, is not.                        *)
(***************************************************************************)
EXTENDS OracleGoverned, TLC

CONSTANTS A, B, b, p1, v1

ToUpper == A :> A @@ B :> B @@ b :> B

Genesis ==
  [key \in ParamKeys |->
     IF key \in PeriodKeys THEN (IF key = "VotePeriod" THEN 1 ELSE 2)
     ELSE IF key = "CurrencyPairProviders" THEN Pairs ELSE {A}]

\* Periods that are valid with each other, one that is longer than the slash window,
\* and lists that are valid: alone and together.
UpdatesOfAll ==
  {[keys |-> <<"VotePeriod">>, changes |-> "VotePeriod" :> 2],
   [keys |-> <<"VotePeriod">>, changes |-> "VotePeriod" :> 4],
   [keys |-> <<"SlashWindow", "RewardDistributionWindow">>,
    changes |-> "SlashWindow" :> 3 @@ "RewardDistributionWindow" :> 3],
   [keys |-> <<"MedianStampPeriod", "HistoricStampPeriod">>,
    changes |-> "MedianStampPeriod" :> 3 @@ "HistoricStampPeriod" :> 1],
   [keys |-> <<"MandatoryList", "AcceptList">>,
    changes |-> "MandatoryList" :> {} @@ "AcceptList" :> {b}],
   [keys |-> <<"RewardBands">>, changes |-> "RewardBands" :> {A, b}]}

Addition(denoms, mandatory, pairs, thresholds) ==
  [denoms |-> denoms, mandatory |-> mandatory, pairs |-> pairs, thresholds |-> thresholds]

\* B accepted, B mandatory, and only what the price feeder uses.
AdditionsOfB ==
  {Addition({b}, FALSE, {}, {}), Addition({B}, TRUE, {}, {b}), Addition({}, FALSE, Pairs, {})}
\* B accepted, and A mandatory.
AdditionsOfAB == {Addition({B}, FALSE, {}, {}), Addition({A}, TRUE, {}, {})}

\* A genesis state in which A is accepted only.
GenesisAcceptOnly == [Genesis EXCEPT !["MandatoryList"] = {}]
=============================================================================
