-------------------------- MODULE OracleParamsProofs --------------------------
(***************************************************************************)
(* Proofs about OracleParams and OracleGoverned, for any denoms,           *)
(* parameters, messages of governance and validators.                      *)
(***************************************************************************)
EXTENDS OracleGoverned, OracleTheorems

-----------------------------------------------------------------------------
(* The checks, by the group of parameters they compare. *)

\* The parameters of the denoms: what a plan of GovAddDenoms changes together.
DenomKeys == ListKeys \union {"RewardBands"}

\* A full set of parameters, as the subspace of the module holds it.
IsParams(p) ==
  /\ DOMAIN p = ParamKeys
  /\ IsChanges(p)
  /\ \A key \in ListKeys : Normalize(p[key]) = p[key]

PeriodsValid(p) ==
  /\ p["VotePeriod"] > 0
  /\ p["RewardDistributionWindow"] >= p["VotePeriod"]
  /\ p["SlashWindow"] >= p["VotePeriod"]
  /\ p["SlashWindow"] % p["VotePeriod"] = 0
  /\ p["HistoricStampPeriod"] <= p["MedianStampPeriod"]
  /\ p["HistoricStampPeriod"] % p["VotePeriod"] = 0
  /\ p["MedianStampPeriod"] % p["VotePeriod"] = 0

ListsValid(p) == p["MandatoryList"] \subseteq p["AcceptList"]

\* Params.Validate compares parameters of one group only.
LEMMA ValidateByGroup == \A p : Validate(p) <=> PeriodsValid(p) /\ ListsValid(p)
  BY DEF Validate, PeriodsValid, ListsValid

\* The periods that are valid stay so when none of them changes.
LEMMA SamePeriodsValid ==
  ASSUME NEW p, NEW q, \A key \in PeriodKeys : p[key] = q[key], PeriodsValid(p)
  PROVE  PeriodsValid(q)
<1>1. /\ p["VotePeriod"] = q["VotePeriod"]
      /\ p["RewardDistributionWindow"] = q["RewardDistributionWindow"]
      /\ p["SlashWindow"] = q["SlashWindow"]
      /\ p["HistoricStampPeriod"] = q["HistoricStampPeriod"]
      /\ p["MedianStampPeriod"] = q["MedianStampPeriod"]
  BY DEF PeriodKeys
<1> QED
  BY <1>1 DEF PeriodsValid

\* Likewise for the lists.
LEMMA SameListsValid ==
  ASSUME NEW p, NEW q, \A key \in DenomKeys : p[key] = q[key], ListsValid(p)
  PROVE  ListsValid(q)
<1>1. p["MandatoryList"] = q["MandatoryList"] /\ p["AcceptList"] = q["AcceptList"]
  BY DEF DenomKeys, ListKeys
<1> QED
  BY <1>1 DEF ListsValid

\* A normalized list is a list of denoms that Normalize leaves alone.
LEMMA NormalizeTwice ==
  ASSUME NEW list \in SUBSET Denoms
  PROVE  Normalize(list) \in SUBSET Denoms /\ Normalize(Normalize(list)) = Normalize(list)
<1>1. \A d \in Denoms : Upper[d] \in Denoms /\ Upper[Upper[d]] = Upper[d]
  BY GovernanceAssumption
<1> QED
  BY <1>1 DEF Normalize

\* Merging changes into parameters gives parameters.
LEMMA MergedIsParams ==
  ASSUME NEW p, IsParams(p), NEW c, NEW keys \in SUBSET DOMAIN c, IsChanges(c)
  PROVE  IsParams(Merged(p, keys, c))
<1> DEFINE q == Merged(p, keys, c)
<1>1. \A key \in ParamKeys :
        q[key] = IF key \notin keys THEN p[key]
                 ELSE IF key \in ListKeys THEN Normalize(c[key]) ELSE c[key]
  BY DEF Merged
<1>2. DOMAIN q = ParamKeys
  BY DEF Merged
<1> HIDE DEF q
<1>3. \A key \in ListKeys : Values(key) = SUBSET Denoms /\ key \in ParamKeys
  BY DEF ListKeys, PeriodKeys, ParamKeys, Values
<1>4. \A key \in ListKeys \intersect keys :
        /\ c[key] \in SUBSET Denoms
        /\ Normalize(c[key]) \in SUBSET Denoms
        /\ Normalize(Normalize(c[key])) = Normalize(c[key])
  BY <1>3, NormalizeTwice DEF IsChanges
<1>5. \A key \in ParamKeys : q[key] \in Values(key)
  BY <1>1, <1>3, <1>4 DEF IsParams, IsChanges
<1>6. \A key \in ListKeys : Normalize(q[key]) = q[key]
  BY <1>1, <1>3, <1>4 DEF IsParams
<1> QED
  BY <1>2, <1>5, <1>6 DEF IsParams, IsChanges, q

\* A plan keeps of its changes those of its keys, and they merge alike.
LEMMA MergedKept ==
  ASSUME NEW p, NEW c, NEW keys \in SUBSET DOMAIN c
  PROVE  /\ DOMAIN Keep(c, keys) = keys
         /\ Merged(p, DOMAIN Keep(c, keys), Keep(c, keys)) = Merged(p, keys, c)
<1>1. DOMAIN Keep(c, keys) = keys /\ \A key \in keys : Keep(c, keys)[key] = c[key]
  BY DEF Keep
<1> QED
  BY <1>1 DEF Merged

\* What the execution of a plan that does not mix makes of a group: the values it was
\* validated with, or the values the group already had.
LEMMA UnmixedGroup ==
  ASSUME NEW p, NEW b, NEW c, ~Mixes(p, b, DOMAIN c), NEW g \in Groups
  PROVE  \/ \A key \in g : Merged(p, DOMAIN c, c)[key] = Merged(b, DOMAIN c, c)[key]
         \/ /\ DOMAIN c \intersect g = {}
            /\ \A key \in g : Merged(p, DOMAIN c, c)[key] = p[key]
<1>1. g \subseteq ParamKeys
  BY DEF Groups, ParamKeys, PeriodKeys, ListKeys
<1>2. CASE DOMAIN c \intersect g = {}
  BY <1>1, <1>2 DEF Merged
<1>3. CASE \A key \in g : p[key] = b[key]
  BY <1>1, <1>3 DEF Merged
<1> QED
  BY <1>2, <1>3 DEF Mixes

\* A plan that was validated and does not mix leaves valid parameters valid.
LEMMA UnmixedIsValid ==
  ASSUME NEW p, NEW b, NEW c, ~Mixes(p, b, DOMAIN c), Validate(p),
         Validate(Merged(b, DOMAIN c, c))
  PROVE  Validate(Merged(p, DOMAIN c, c))
<1> DEFINE q == Merged(p, DOMAIN c, c)
           r == Merged(b, DOMAIN c, c)
<1>1. PeriodKeys \in Groups /\ DenomKeys \in Groups
  BY DEF Groups, DenomKeys
<1>2. \/ \A key \in PeriodKeys : r[key] = q[key]
      \/ \A key \in PeriodKeys : p[key] = q[key]
  BY <1>1, UnmixedGroup
<1>3. \/ \A key \in DenomKeys : r[key] = q[key]
      \/ \A key \in DenomKeys : p[key] = q[key]
  BY <1>1, UnmixedGroup
<1>4. Validate(r) /\ Validate(p)
  OBVIOUS
<1> HIDE DEF q, r
<1>5. PeriodsValid(q)
  BY <1>2, <1>4, ValidateByGroup, SamePeriodsValid
<1>6. ListsValid(q)
  BY <1>3, <1>4, ValidateByGroup, SameListsValid
<1> QED
  BY <1>5, <1>6, ValidateByGroup DEF q

-----------------------------------------------------------------------------
(* The keys of a legacy message, one after the other. *)

\* The keys of the first n + 1 entries of a list.
LEMMA OneMoreKey ==
  ASSUME NEW S, NEW s \in Seq(S), NEW n \in Nat, n + 1 <= Len(s)
  PROVE  Range(SubSeq(s, 1, n + 1)) = Range(SubSeq(s, 1, n)) \union {s[n + 1]}
<1>1. /\ SubSeq(s, 1, n + 1) = [i \in 1..(n + 1) |-> s[i]]
      /\ SubSeq(s, 1, n) = [i \in 1..n |-> s[i]]
  OBVIOUS
<1>2. /\ Range(SubSeq(s, 1, n + 1)) = {s[i] : i \in 1..(n + 1)}
      /\ Range(SubSeq(s, 1, n)) = {s[i] : i \in 1..n}
  BY <1>1 DEF Range
<1>3. 1..(n + 1) = 1..n \union {n + 1}
  OBVIOUS
<1> QED
  BY <1>2, <1>3

\* A key that LegacyGovUpdateParams accepts, other than the two it does not compare with
\* everything they bound, leaves valid parameters valid.
LEMMA LegacyKeyIsValid ==
  ASSUME NEW p, IsParams(p), Validate(p), NEW key \in ParamKeys \ {"VotePeriod", "SlashWindow"},
         NEW x \in Values(key), LegacyAccepts(p, key, x), NEW q,
         \A k \in ParamKeys \ {key} : q[k] = p[k],
         q[key] = IF key \in ListKeys THEN Normalize(x) ELSE x
  PROVE  Validate(q)
<1>1. /\ p["VotePeriod"] \in Nat /\ p["RewardDistributionWindow"] \in Nat
      /\ p["HistoricStampPeriod"] \in Nat /\ p["MedianStampPeriod"] \in Nat
      /\ p["SlashWindow"] \in Nat
  BY DEF IsParams, IsChanges, Values, ParamKeys, PeriodKeys
<1>2. CASE key = "RewardDistributionWindow"
  BY <1>1, <1>2 DEF LegacyAccepts, Validate, ParamKeys, PeriodKeys, ListKeys, FeederKeys, Values
<1>3. CASE key = "HistoricStampPeriod"
  BY <1>1, <1>3 DEF LegacyAccepts, Validate, ParamKeys, PeriodKeys, ListKeys, FeederKeys, Values
<1>4. CASE key = "MedianStampPeriod"
  BY <1>1, <1>4 DEF LegacyAccepts, Validate, ParamKeys, PeriodKeys, ListKeys, FeederKeys, Values
<1>5. CASE key = "AcceptList"
  BY <1>1, <1>5 DEF LegacyAccepts, IsParams, Validate, ParamKeys, PeriodKeys, ListKeys,
                          FeederKeys, Values
<1>6. CASE key = "MandatoryList"
  BY <1>1, <1>6 DEF LegacyAccepts, IsParams, Validate, ParamKeys, PeriodKeys, ListKeys,
                          FeederKeys, Values
<1>7. CASE key \in FeederKeys \union {"RewardBands"}
  BY <1>1, <1>7 DEF Validate, ParamKeys, PeriodKeys, ListKeys, FeederKeys
<1> QED
  BY <1>2, <1>3, <1>4, <1>5, <1>6, <1>7 DEF ParamKeys, PeriodKeys, ListKeys, FeederKeys

\* A legacy message leaves parameters, and valid ones as long as it does not name
\* VotePeriod or SlashWindow.
LEMMA LegacyIsValid ==
  ASSUME NEW u \in Updates, IsParams(params), LegacyGovUpdateParams(u)
  PROVE  /\ IsParams(params')
         /\ \A key \in ParamKeys \ Range(u.keys) : params'[key] = params[key]
         /\ Validate(params) /\ Range(u.keys) \intersect {"VotePeriod", "SlashWindow"} = {}
              => Validate(params')
<1>1. /\ u.keys \in Seq(ParamKeys) /\ IsChanges(u.changes)
      /\ DOMAIN u.changes = Range(u.keys)
  BY GovernanceAssumption
<1> DEFINE n == Len(u.keys)
           K(i) == Range(SubSeq(u.keys, 1, i))
<1>2. n \in Nat /\ DOMAIN u.keys = 1..n
  BY <1>1
<1>3. K(n) = Range(u.keys)
  <2>1. SubSeq(u.keys, 1, n) = u.keys
    BY <1>1
  <2> QED
    BY <2>1
<1>4. \A i \in 0..n : K(i) \subseteq Range(u.keys)
  BY <1>1, <1>2 DEF Range
<1>5. params' = Merged(params, Range(u.keys), u.changes)
  BY <1>3 DEF LegacyGovUpdateParams, AfterKeys
<1>6. IsParams(params')
  BY <1>1, <1>5, MergedIsParams
<1>7. \A key \in ParamKeys \ Range(u.keys) : params'[key] = params[key]
  BY <1>5 DEF Merged
<1>8. ASSUME Validate(params), Range(u.keys) \intersect {"VotePeriod", "SlashWindow"} = {}
      PROVE  Validate(params')
  <2> DEFINE G == {i \in Nat : i <= n => Validate(AfterKeys(u, i))}
  <2>1. 0 \in G
    <3>1. K(0) = {}
      BY <1>1 DEF Range
    <3>2. \A key \in ParamKeys : AfterKeys(u, 0)[key] = params[key]
      BY <3>1 DEF AfterKeys, Merged
    <3>3. Validate(AfterKeys(u, 0))
      <4>1. /\ \A key \in PeriodKeys : AfterKeys(u, 0)[key] = params[key]
            /\ \A key \in DenomKeys : AfterKeys(u, 0)[key] = params[key]
        BY <3>2 DEF ParamKeys, DenomKeys
      <4> QED
        BY <1>8, <4>1, ValidateByGroup, SamePeriodsValid, SameListsValid
    <3> QED
      BY <3>3
  <2>2. \A i \in Nat : i \in G => (i + 1) \in G
    <3> SUFFICES ASSUME NEW i \in Nat, i + 1 <= n, Validate(AfterKeys(u, i))
                 PROVE  Validate(AfterKeys(u, i + 1))
      BY <1>2
    <3> DEFINE key == u.keys[i + 1]
               x   == u.changes[key]
               p   == AfterKeys(u, i)
               q   == AfterKeys(u, i + 1)
    <3>1. i \in 0..n /\ (i + 1) \in DOMAIN u.keys
      BY <1>2
    <3>2. K(i) \subseteq Range(u.keys) /\ key \in Range(u.keys)
      BY <1>4, <3>1 DEF Range
    <3>3. IsParams(p)
      BY <1>1, <3>2, MergedIsParams DEF AfterKeys
    <3>4. K(i + 1) = K(i) \union {key}
      BY <1>1, <1>2, OneMoreKey
    <3>5. key \in ParamKeys \ {"VotePeriod", "SlashWindow"} /\ x \in Values(key)
      BY <1>1, <1>8, <3>2 DEF IsChanges
    <3>6. LegacyAccepts(p, key, x)
      <4>1. (i + 1) - 1 = i
        OBVIOUS
      <4>2. LegacyAccepts(AfterKeys(u, (i + 1) - 1), key, x)
        BY <3>1 DEF LegacyGovUpdateParams
      <4> QED
        BY <4>1, <4>2
    <3>7. /\ \A k \in ParamKeys \ {key} : q[k] = p[k]
          /\ q[key] = IF key \in ListKeys THEN Normalize(x) ELSE x
      <4> HIDE DEF key
      <4> QED
        BY <3>4, <3>5 DEF AfterKeys, Merged
    <3> HIDE DEF key, x, p, q
    <3>8. Validate(p)
      BY DEF p
    <3>9. Validate(q)
      BY <3>3, <3>5, <3>6, <3>7, <3>8, LegacyKeyIsValid
    <3> QED
      BY <3>9 DEF q
  <2>3. n \in G
    <3> HIDE DEF G
    <3> QED
      BY <1>2, <2>1, <2>2, SetInduction
  <2>4. params' = AfterKeys(u, n)
    BY DEF LegacyGovUpdateParams
  <2> QED
    BY <1>2, <2>3, <2>4
<1> QED
  BY <1>6, <1>7, <1>8
-----------------------------------------------------------------------------
(* Plans that were validated, and the parameters they make. *)

\* A plan with changes c that was validated against the parameters b.
IsValidPlan(b, c) ==
  /\ IsParams(b)
  /\ IsChanges(c)
  /\ Validate(Merged(b, DOMAIN c, c))

\* The inductive invariant: every plan of the store was validated against the parameters
\* that base has for it, and its block is not past.
PlansInv ==
  /\ height \in Nat
  /\ IsParams(params)
  /\ DOMAIN plans \subseteq Nat
  /\ DOMAIN base = DOMAIN plans
  /\ \A h \in DOMAIN plans : IsValidPlan(base[h], plans[h])
  /\ proposals \in 0..MaxProposals
  /\ mixed \in BOOLEAN
  /\ PlansAreDue
  /\ ValidUnlessMixed

\* Whichever message makes it, a scheduled plan is a change of parameters.
LEMMA ScheduledChanges ==
  ASSUME PlansInv, NEW h,
         \/ \E u \in Updates : GovUpdateParams(u, h)
         \/ \E a \in Additions : GovAddDenoms(a, h)
         \/ \E pairs \in (SUBSET Pairs) \ {{}} : GovRemoveCurrencyPairProviders(pairs, h)
         \/ \E currencies \in {{d} : d \in Denoms} :
              GovRemoveCurrencyDeviationThresholds(currencies, h)
  PROVE  \E keys, c : /\ keys \subseteq DOMAIN c
                      /\ IsChanges(c)
                      /\ ScheduleParamUpdatePlan(h, keys, c)
<1>0. /\ DOMAIN params = ParamKeys /\ \A key \in ParamKeys : params[key] \in Values(key)
      /\ Values("CurrencyPairProviders") = SUBSET Pairs
      /\ \A key \in DenomKeys \union {"CurrencyDeviationThresholds"} : Values(key) = SUBSET Denoms
      /\ DenomKeys \union FeederKeys \subseteq ParamKeys
  BY DEF PlansInv, IsParams, IsChanges, Values, PeriodKeys, DenomKeys, ListKeys, FeederKeys,
         ParamKeys
<1>1. ASSUME NEW u \in Updates, GovUpdateParams(u, h)
      PROVE  /\ Range(u.keys) \subseteq DOMAIN u.changes
             /\ IsChanges(u.changes)
             /\ ScheduleParamUpdatePlan(h, Range(u.keys), u.changes)
  BY <1>1, GovernanceAssumption DEF GovUpdateParams
<1>2. ASSUME NEW a \in Additions, GovAddDenoms(a, h)
      PROVE  /\ AddedKeys(a) \subseteq DOMAIN AddedChanges(a)
             /\ IsChanges(AddedChanges(a))
             /\ ScheduleParamUpdatePlan(h, AddedKeys(a), AddedChanges(a))
  <2>1. a.denoms \subseteq Denoms /\ a.pairs \subseteq Pairs /\ a.thresholds \subseteq Denoms
    BY GovernanceAssumption
  <2>2. DOMAIN AddedChanges(a) = ParamKeys
    BY <1>0 DEF AddedChanges
  <2>3. \A key \in ParamKeys : AddedChanges(a)[key] \in Values(key)
    <3> SUFFICES ASSUME NEW key \in ParamKeys PROVE AddedChanges(a)[key] \in Values(key)
      OBVIOUS
    <3>1. CASE key \in PeriodKeys
      BY <1>0, <3>1 DEF AddedChanges, PeriodKeys
    <3>2. CASE key \in DenomKeys \union {"CurrencyDeviationThresholds"}
      BY <1>0, <2>1, <3>2 DEF AddedChanges, DenomKeys, ListKeys
    <3>3. CASE key = "CurrencyPairProviders"
      BY <1>0, <2>1, <3>3 DEF AddedChanges
    <3> QED
      BY <3>1, <3>2, <3>3 DEF ParamKeys, DenomKeys, FeederKeys
  <2>4. AddedKeys(a) \subseteq ParamKeys
    BY DEF AddedKeys, ParamKeys, ListKeys, FeederKeys
  <2> QED
    BY <1>2, <2>2, <2>3, <2>4 DEF IsChanges, GovAddDenoms
<1>3. ASSUME NEW pairs, GovRemoveCurrencyPairProviders(pairs, h)
      PROVE  \E keys, c : /\ keys \subseteq DOMAIN c
                          /\ IsChanges(c)
                          /\ ScheduleParamUpdatePlan(h, keys, c)
  <2> DEFINE c == [params EXCEPT !["CurrencyPairProviders"] = @ \ pairs]
  <2>1. DOMAIN c = ParamKeys /\ \A key \in ParamKeys : c[key] \in Values(key)
    BY <1>0
  <2>2. ScheduleParamUpdatePlan(h, {"CurrencyPairProviders"}, c)
    BY <1>3 DEF GovRemoveCurrencyPairProviders
  <2>3. {"CurrencyPairProviders"} \subseteq DOMAIN c /\ IsChanges(c)
    BY <2>1 DEF IsChanges, ParamKeys, FeederKeys
  <2> QED
    BY <2>2, <2>3
<1>4. ASSUME NEW currencies, GovRemoveCurrencyDeviationThresholds(currencies, h)
      PROVE  \E keys, c : /\ keys \subseteq DOMAIN c
                          /\ IsChanges(c)
                          /\ ScheduleParamUpdatePlan(h, keys, c)
  <2> DEFINE c == [params EXCEPT !["CurrencyDeviationThresholds"] = @ \ Normalize(currencies)]
  <2>1. DOMAIN c = ParamKeys /\ \A key \in ParamKeys : c[key] \in Values(key)
    BY <1>0
  <2>2. ScheduleParamUpdatePlan(h, {"CurrencyDeviationThresholds"}, c)
    BY <1>4 DEF GovRemoveCurrencyDeviationThresholds
  <2>3. {"CurrencyDeviationThresholds"} \subseteq DOMAIN c /\ IsChanges(c)
    BY <2>1 DEF IsChanges, ParamKeys, FeederKeys
  <2> QED
    BY <2>2, <2>3
<1> QED
  BY <1>1, <1>2, <1>3, <1>4

\* Scheduling a plan keeps the invariant.
LEMMA PlansInvSchedule ==
  ASSUME PlansInv, NEW h \in 1..MaxHeight, NEW c, NEW keys \in SUBSET DOMAIN c, IsChanges(c),
         ScheduleParamUpdatePlan(h, keys, c)
  PROVE  PlansInv'
<1>1. /\ UNCHANGED <<height, params, mixed>>
      /\ h >= height
      /\ Validate(Merged(params, keys, c))
      /\ h \in Nat
      /\ proposals' \in 0..MaxProposals
  BY GovernanceAssumption DEF ScheduleParamUpdatePlan, MaySchedule, Propose, PlansInv
<1>2. plans' = Put(plans, h, Keep(c, keys)) /\ base' = Put(base, h, params)
  BY DEF ScheduleParamUpdatePlan
<1>3. /\ DOMAIN plans' = DOMAIN plans \union {h}
      /\ plans'[h] = Keep(c, keys)
      /\ \A i \in DOMAIN plans \ {h} : plans'[i] = plans[i]
  BY <1>2 DEF Put
<1>4. /\ DOMAIN base' = DOMAIN base \union {h}
      /\ base'[h] = params
      /\ \A i \in DOMAIN base \ {h} : base'[i] = base[i]
  BY <1>2 DEF Put
<1>5. IsValidPlan(params, Keep(c, keys))
  <2>1. DOMAIN Keep(c, keys) = keys /\ \A key \in keys : Keep(c, keys)[key] = c[key]
    BY DEF Keep
  <2> QED
    BY <1>1, <2>1, MergedKept DEF IsValidPlan, IsChanges, PlansInv
<1>6. \A i \in DOMAIN plans' : IsValidPlan(base'[i], plans'[i])
  BY <1>3, <1>4, <1>5 DEF PlansInv
<1> QED
  BY <1>1, <1>3, <1>4, <1>6 DEF PlansInv, PlansAreDue, ValidUnlessMixed

\* The parameters that EndBlocker goes on with are parameters, and valid ones unless
\* something is mixed.
LEMMA ParamsOfBlockValid ==
  ASSUME PlansInv
  PROVE  /\ IsParams(ParamsOfBlock)
         /\ \/ mixed
            \/ height \in DOMAIN plans /\ Mixes(params, base[height], DOMAIN plans[height])
            \/ Validate(ParamsOfBlock)
<1>1. CASE height \notin DOMAIN plans
  BY <1>1 DEF ParamsOfBlock, PlansInv, ValidUnlessMixed
<1>2. CASE height \in DOMAIN plans
  <2> DEFINE b == base[height]
             c == plans[height]
  <2>1. IsValidPlan(b, c) /\ ParamsOfBlock = Merged(params, DOMAIN c, c)
    BY <1>2 DEF PlansInv, ParamsOfBlock
  <2> HIDE DEF b, c
  <2>2. IsParams(ParamsOfBlock)
    BY <2>1, MergedIsParams DEF PlansInv, IsValidPlan
  <2>3. ~mixed /\ ~Mixes(params, b, DOMAIN c) => Validate(ParamsOfBlock)
    BY <2>1, UnmixedIsValid DEF PlansInv, ValidUnlessMixed, IsValidPlan
  <2> QED
    BY <1>2, <2>2, <2>3 DEF b, c
<1> QED
  BY <1>1, <1>2

\* The end of a block.
LEMMA EndBlockExecutes ==
  ASSUME EndBlock, mixed \in BOOLEAN
  PROVE  /\ height' = height + 1
         /\ params' = ParamsOfBlock
         /\ DOMAIN plans' = DOMAIN plans \ {height}
         /\ \A i \in DOMAIN plans' : plans'[i] = plans[i]
         /\ DOMAIN base = DOMAIN plans =>
              /\ DOMAIN base' = DOMAIN plans'
              /\ \A i \in DOMAIN base' : base'[i] = base[i]
         /\ proposals' = proposals
         /\ mixed' = (mixed \/ (/\ height \in DOMAIN plans
                               /\ Mixes(params, base[height], DOMAIN plans[height])))
<1>1. CASE height \in DOMAIN plans
  <2>1. /\ plans' = Keep(plans, DOMAIN plans \ {height})
        /\ base' = Keep(base, DOMAIN base \ {height})
        /\ params' = ParamsOfBlock
        /\ mixed' = (mixed \/ Mixes(params, base[height], DOMAIN plans[height]))
    BY <1>1 DEF EndBlock, ParamsOfBlock
  <2> QED
    BY <1>1, <2>1 DEF EndBlock, Keep
<1>2. CASE height \notin DOMAIN plans
  BY <1>2 DEF EndBlock, ParamsOfBlock
<1> QED
  BY <1>1, <1>2

\* In every reachable state the parameters are well-formed, every plan of the store was
\* validated and is still to come, and unless something was mixed the parameters are valid.
THEOREM PlansInvariant == Spec => []PlansInv
<1>1. Init => PlansInv
  <2> SUFFICES ASSUME Init PROVE PlansInv
    OBVIOUS
  <2>1. IsParams(params) /\ Validate(params) /\ MaxProposals \in Nat
    BY GovernanceAssumption DEF Init, IsParams
  <2>2. DOMAIN plans = {} /\ DOMAIN base = {}
    BY DEF Init
  <2>3. height = 1 /\ proposals = 0 /\ mixed = FALSE
    BY DEF Init
  <2>4. mixed \in BOOLEAN /\ ValidUnlessMixed
    BY <2>1, <2>3 DEF ValidUnlessMixed
  <2>5. height \in Nat /\ proposals \in 0..MaxProposals
    BY <2>1, <2>3
  <2> QED
    BY <2>1, <2>2, <2>4, <2>5 DEF PlansInv, PlansAreDue
<1>2. PlansInv /\ [Next]_vars => PlansInv'
  <2> SUFFICES ASSUME PlansInv, [Next]_vars PROVE PlansInv'
    OBVIOUS
  <2>1. ASSUME NEW h \in 1..MaxHeight,
               \/ \E u \in Updates : GovUpdateParams(u, h)
               \/ \E a \in Additions : GovAddDenoms(a, h)
               \/ \E pairs \in (SUBSET Pairs) \ {{}} : GovRemoveCurrencyPairProviders(pairs, h)
               \/ \E currencies \in {{d} : d \in Denoms} :
                    GovRemoveCurrencyDeviationThresholds(currencies, h)
        PROVE  PlansInv'
    <3>1. PICK keys, c : /\ keys \subseteq DOMAIN c
                         /\ IsChanges(c)
                         /\ ScheduleParamUpdatePlan(h, keys, c)
      BY <2>1, ScheduledChanges
    <3> QED
      BY <3>1, PlansInvSchedule
  <2>2. ASSUME NEW h \in 1..MaxHeight, GovCancelUpdateParamPlan(h) PROVE PlansInv'
    <3>1. /\ plans' = Keep(plans, DOMAIN plans \ {h})
          /\ base' = Keep(base, DOMAIN base \ {h})
          /\ UNCHANGED <<height, params, mixed>>
          /\ proposals' \in 0..MaxProposals
      BY <2>2, GovernanceAssumption DEF GovCancelUpdateParamPlan, Propose, PlansInv
    <3>2. /\ DOMAIN plans' = DOMAIN plans \ {h}
          /\ DOMAIN base' = DOMAIN base \ {h}
          /\ \A i \in DOMAIN plans' : plans'[i] = plans[i]
          /\ \A i \in DOMAIN base' : base'[i] = base[i]
      BY <3>1 DEF Keep
    <3> QED
      BY <3>1, <3>2 DEF PlansInv, PlansAreDue, ValidUnlessMixed
  <2>3. ASSUME NEW u \in Updates, LegacyGovUpdateParams(u) PROVE PlansInv'
    <3>1. /\ UNCHANGED <<height, plans, base>>
          /\ mixed' = (mixed \/ Range(u.keys) \intersect {"VotePeriod", "SlashWindow"} # {})
          /\ proposals' \in 0..MaxProposals
      BY <2>3, GovernanceAssumption DEF LegacyGovUpdateParams, Propose, PlansInv
    <3>2. IsParams(params')
      BY <2>3, LegacyIsValid DEF PlansInv
    <3>3. ~mixed' => Validate(params')
      BY <2>3, <3>1, LegacyIsValid DEF PlansInv, ValidUnlessMixed
    <3> QED
      BY <3>1, <3>2, <3>3 DEF PlansInv, PlansAreDue, ValidUnlessMixed
  <2>4. CASE EndBlock
    <3>1. /\ height' = height + 1
          /\ params' = ParamsOfBlock
          /\ DOMAIN plans' = DOMAIN plans \ {height}
          /\ \A i \in DOMAIN plans' : plans'[i] = plans[i]
          /\ DOMAIN base' = DOMAIN plans'
          /\ \A i \in DOMAIN base' : base'[i] = base[i]
          /\ proposals' = proposals
      BY <2>4, EndBlockExecutes DEF PlansInv
    <3>2. mixed' = (mixed \/ (/\ height \in DOMAIN plans
                             /\ Mixes(params, base[height], DOMAIN plans[height])))
      BY <2>4, EndBlockExecutes DEF PlansInv
    <3>3. mixed' \in BOOLEAN
      BY <3>2
    <3>4. IsParams(params') /\ ValidUnlessMixed'
      BY <3>1, <3>2, ParamsOfBlockValid DEF ValidUnlessMixed
    <3>5. \A i \in DOMAIN plans' : i >= height'
      BY <3>1 DEF PlansInv, PlansAreDue
    <3> QED
      BY <3>1, <3>3, <3>4, <3>5 DEF PlansInv, PlansAreDue
  <2>5. CASE UNCHANGED vars
    BY <2>5 DEF vars, PlansInv, PlansAreDue, ValidUnlessMixed
  <2> QED
    BY <2>1, <2>2, <2>3, <2>4, <2>5 DEF Next, Messages
<1> QED
  BY <1>1, <1>2, PTL DEF Spec

\* Whatever governance proposes, no plan stays in the store past its height: EndBlocker
\* removes the plan of every block it ends, and a plan is never scheduled for a past one.
THEOREM PlansAreDueAlways == Spec => []PlansAreDue
<1>1. PlansInv => PlansAreDue
  BY DEF PlansInv
<1> QED
  BY <1>1, PlansInvariant, PTL

\* The parameters stay valid as long as no executed plan finds a group of compared
\* parameters changed since ScheduleParamUpdatePlan has validated it, and no
\* LegacyGovUpdateParams names VotePeriod or SlashWindow.
THEOREM ValidUnlessMixedAlways == Spec => []ValidUnlessMixed
<1>1. PlansInv => ValidUnlessMixed
  BY DEF PlansInv
<1> QED
  BY <1>1, PlansInvariant, PTL
-----------------------------------------------------------------------------
(* The denoms that GovAddDenoms adds. *)

\* The parameters p have every denom of D in the accept list and with a band.
Serves(p, D) ==
  \A d \in D : ListsDenom(p["AcceptList"], d) /\ ListsDenom(p["RewardBands"], d)

\* A plan with changes c for the denoms D, made when the parameters were b: it leaves the
\* parameters of the denoms alone when it adds none, and otherwise serves what it adds
\* together with whatever b served.
IsAddition(b, c, D) ==
  /\ D \subseteq Denoms
  /\ D = {} => DOMAIN c \intersect DenomKeys = {}
  /\ D # {} => "RewardBands" \in DOMAIN c
  /\ Serves(Merged(b, DOMAIN c, c), D)
  /\ \A d \in Denoms : Serves(b, {d}) => Serves(Merged(b, DOMAIN c, c), {d})

\* The strengthening of AddedDenomsStayUnlessMixed.
AddsInv ==
  /\ DOMAIN adds \subseteq DOMAIN plans
  /\ \A h \in DOMAIN adds : IsAddition(base[h], plans[h], adds[h])
  /\ promised \subseteq Denoms
  /\ ~mixed => Serves(params, promised)

\* Contains does not see the spelling, of the list or of the denom.
LEMMA ContainsAnySpelling ==
  ASSUME NEW list \in SUBSET Denoms, NEW d \in Denoms
  PROVE  /\ ListsDenom(Normalize(list), d) <=> ListsDenom(list, d)
         /\ Upper[d] \in Denoms
         /\ ListsDenom(list, Upper[d]) <=> ListsDenom(list, d)
<1>1. \A e \in Denoms : Upper[e] \in Denoms /\ Upper[Upper[e]] = Upper[e]
  BY GovernanceAssumption
<1>2. ListsDenom(Normalize(list), d) <=> \E e \in list : Upper[Upper[e]] = Upper[d]
  BY DEF ListsDenom, Normalize
<1> QED
  BY <1>1, <1>2 DEF ListsDenom

\* A list contains what it contained before denoms joined it, and the denoms.
LEMMA JoinedContains ==
  ASSUME NEW list \in SUBSET Denoms, NEW D \in SUBSET Denoms
  PROVE  LET joined == list \union {d \in D : ~ListsDenom(list, d)}
         IN  /\ joined \in SUBSET Denoms
             /\ \A d \in Denoms : ListsDenom(list, d) => ListsDenom(joined, d)
             /\ \A d \in D : ListsDenom(joined, d)
  BY DEF ListsDenom

\* The plan of GovAddDenoms serves what the message adds.
LEMMA AdditionServes ==
  ASSUME PlansInv, NEW a \in Additions
  PROVE  LET c == Keep(AddedChanges(a), AddedKeys(a)) IN IsAddition(params, c, a.denoms)
<1> DEFINE c  == Keep(AddedChanges(a), AddedKeys(a))
           K  == AddedKeys(a)
           q  == Merged(params, DOMAIN c, c)
           D  == a.denoms
           al == params["AcceptList"]
           rb == params["RewardBands"]
           AL == al \union {d \in D : ~ListsDenom(al, d)}
           RB == rb \union {d \in D : ~ListsDenom(rb, d)}
<1>1. D \in SUBSET Denoms
  BY GovernanceAssumption
<1>2. /\ DOMAIN params = ParamKeys
      /\ al \in SUBSET Denoms /\ rb \in SUBSET Denoms
      /\ Normalize(al) = al
  BY DEF PlansInv, IsParams, IsChanges, Values, ParamKeys, PeriodKeys, ListKeys
<1>3. K \subseteq ParamKeys
  BY DEF AddedKeys, ParamKeys, ListKeys, FeederKeys
<1>4. /\ DOMAIN AddedChanges(a) = ParamKeys
      /\ AddedChanges(a)["AcceptList"] = AL
      /\ AddedChanges(a)["RewardBands"] = RB
  BY <1>2 DEF AddedChanges, ParamKeys, ListKeys
<1>5. DOMAIN c = K /\ q = Merged(params, K, AddedChanges(a))
  BY <1>3, <1>4, MergedKept
<1>6. /\ "AcceptList" \in K <=> \E d \in D : ~ListsDenom(al, d)
      /\ "RewardBands" \in K <=> D # {}
      /\ D = {} => K \intersect DenomKeys = {}
  BY DEF AddedKeys, DenomKeys, ListKeys
<1>7. /\ q["AcceptList"] = IF "AcceptList" \in K THEN Normalize(AL) ELSE al
      /\ q["RewardBands"] = IF "RewardBands" \in K THEN RB ELSE rb
  BY <1>4, <1>5 DEF Merged, ParamKeys, ListKeys
<1>8. /\ AL \in SUBSET Denoms
      /\ \A d \in Denoms : ListsDenom(al, d) => ListsDenom(AL, d)
      /\ \A d \in D : ListsDenom(AL, d)
  BY <1>1, <1>2, JoinedContains
<1>9. /\ \A d \in Denoms : ListsDenom(rb, d) => ListsDenom(RB, d)
      /\ \A d \in D : ListsDenom(RB, d)
  BY <1>1, <1>2, JoinedContains
<1> HIDE DEF c, K, q, D, al, rb, AL, RB
<1>10. /\ \A d \in Denoms : ListsDenom(al, d) => ListsDenom(q["AcceptList"], d)
       /\ \A d \in D : ListsDenom(q["AcceptList"], d)
  BY <1>1, <1>6, <1>7, <1>8, ContainsAnySpelling
<1>11. /\ \A d \in Denoms : ListsDenom(rb, d) => ListsDenom(q["RewardBands"], d)
       /\ \A d \in D : ListsDenom(q["RewardBands"], d)
  BY <1>1, <1>6, <1>7, <1>9
<1>12. Serves(q, D) /\ \A d \in Denoms : Serves(params, {d}) => Serves(q, {d})
  BY <1>10, <1>11 DEF Serves, al, rb
<1>13. IsAddition(params, c, D)
  BY <1>1, <1>5, <1>6, <1>12 DEF IsAddition, q
<1> QED
  BY <1>13 DEF c, K, D

\* Parameters with the same lists and bands serve the same denoms.
LEMMA SameServes ==
  ASSUME NEW p, NEW q, \A key \in DenomKeys : p[key] = q[key], NEW D
  PROVE  Serves(p, D) <=> Serves(q, D)
<1>1. p["AcceptList"] = q["AcceptList"] /\ p["RewardBands"] = q["RewardBands"]
  BY DEF DenomKeys, ListKeys
<1> QED
  BY <1>1 DEF Serves

\* Scheduling a plan for height h, with the history of additions that goes with it.
LEMMA AddsInvSchedule ==
  ASSUME PlansInv, AddsInv, NEW h, NEW c, NEW keys, ScheduleParamUpdatePlan(h, keys, c),
         \/ adds' = Keep(adds, DOMAIN adds \ {h})
         \/ \E D : adds' = Put(adds, h, D) /\ IsAddition(params, Keep(c, keys), D)
  PROVE  AddsInv'
<1>1. /\ DOMAIN plans' = DOMAIN plans \union {h} /\ DOMAIN base' = DOMAIN base \union {h}
      /\ plans'[h] = Keep(c, keys) /\ base'[h] = params
      /\ \A i \in DOMAIN plans \ {h} : plans'[i] = plans[i] /\ base'[i] = base[i]
  BY DEF ScheduleParamUpdatePlan, Put, PlansInv
<1>2. UNCHANGED <<params, promised, mixed>>
  BY DEF ScheduleParamUpdatePlan
<1>3. CASE adds' = Keep(adds, DOMAIN adds \ {h})
  <2>1. DOMAIN adds' = DOMAIN adds \ {h} /\ \A i \in DOMAIN adds' : adds'[i] = adds[i]
    BY <1>3 DEF Keep
  <2>2. \A i \in DOMAIN adds' : IsAddition(base'[i], plans'[i], adds'[i])
    BY <1>1, <2>1 DEF AddsInv
  <2> QED
    BY <1>1, <1>2, <2>1, <2>2 DEF AddsInv
<1>4. ASSUME NEW D, adds' = Put(adds, h, D), IsAddition(params, Keep(c, keys), D)
      PROVE  AddsInv'
  <2>1. /\ DOMAIN adds' = DOMAIN adds \union {h} /\ adds'[h] = D
        /\ \A i \in DOMAIN adds \ {h} : adds'[i] = adds[i]
    BY <1>4 DEF Put
  <2>2. \A i \in DOMAIN adds' : IsAddition(base'[i], plans'[i], adds'[i])
    BY <1>1, <1>4, <2>1 DEF AddsInv
  <2> QED
    BY <1>1, <1>2, <2>1, <2>2 DEF AddsInv
<1> QED
  BY <1>3, <1>4

\* What PromisedAfter promises the executed plan serves, unless it mixes.
LEMMA PromisedServed ==
  ASSUME PlansInv, AddsInv, height \in DOMAIN plans, ~mixed,
         ~Mixes(params, base[height], DOMAIN plans[height])
  PROVE  Serves(ParamsOfBlock, PromisedAfter(height))
<1> DEFINE c == plans[height]
           b == base[height]
           q == Merged(params, DOMAIN c, c)
           r == Merged(b, DOMAIN c, c)
<1>1. ParamsOfBlock = q /\ Serves(params, promised) /\ promised \subseteq Denoms
  BY DEF ParamsOfBlock, AddsInv
<1>2. DenomKeys \in Groups
  BY DEF Groups, DenomKeys
<1>3. \/ \A key \in DenomKeys : q[key] = r[key]
      \/ DOMAIN c \intersect DenomKeys = {} /\ \A key \in DenomKeys : q[key] = params[key]
  BY <1>2, UnmixedGroup
<1>4. CASE DOMAIN c \intersect DenomKeys = {}
  <2>1. \A key \in DenomKeys : q[key] = params[key]
    BY <1>4 DEF Merged, DenomKeys, ListKeys, ParamKeys
  <2>2. Serves(q, promised)
    BY <1>1, <2>1, SameServes
  <2>3. ASSUME height \in DOMAIN adds PROVE adds[height] = {}
    <3>1. IsAddition(b, c, adds[height])
      BY <2>3 DEF AddsInv
    <3> QED
      BY <1>4, <3>1 DEF IsAddition, DenomKeys
  <2>4. PromisedAfter(height) = promised
    BY <1>4, <2>3 DEF PromisedAfter, Normalize, DenomKeys
  <2> QED
    BY <1>1, <2>2, <2>4
<1>5. CASE DOMAIN c \intersect DenomKeys # {} /\ height \notin DOMAIN adds
  BY <1>5 DEF PromisedAfter, DenomKeys, Serves
<1>6. CASE DOMAIN c \intersect DenomKeys # {} /\ height \in DOMAIN adds
  <2> DEFINE D == adds[height]
  <2>1. IsAddition(b, c, D)
    BY <1>6 DEF AddsInv
  <2>2. \A key \in DenomKeys : q[key] = r[key]
    BY <1>3, <1>6
  <2>3. D \in SUBSET Denoms /\ D # {} /\ Serves(r, D)
        /\ \A d \in Denoms : Serves(b, {d}) => Serves(r, {d})
    BY <1>6, <2>1 DEF IsAddition
  <2>4. \A key \in DenomKeys : params[key] = b[key]
    <3>1. DOMAIN c \intersect DenomKeys # {}
      BY <1>6
    <3> QED
      BY <1>2, <3>1 DEF Mixes
  <2> HIDE DEF D
  <2>5. \A d \in promised : Serves(b, {d})
    <3>1. Serves(b, promised)
      BY <1>1, <2>4, SameServes
    <3> QED
      BY <3>1 DEF Serves
  <2>6. Serves(r, promised)
    <3> HIDE DEF r
    <3>1. \A d \in promised : Serves(r, {d})
      BY <1>1, <2>3, <2>5
    <3> QED
      BY <3>1 DEF Serves
  <2>7. Serves(r, Normalize(D))
    <3>1. /\ r["AcceptList"] \in SUBSET Denoms
          /\ r["RewardBands"] \in SUBSET Denoms
      <4>1. IsValidPlan(b, c)
        BY DEF PlansInv
      <4>2. IsParams(r)
        BY <4>1, MergedIsParams DEF IsValidPlan
      <4> HIDE DEF r
      <4> QED
        BY <4>2 DEF IsParams, IsChanges, Values, ParamKeys, PeriodKeys, ListKeys
    <3> HIDE DEF r
    <3>2. \A d \in D : /\ ListsDenom(r["AcceptList"], Upper[d])
                       /\ ListsDenom(r["RewardBands"], Upper[d])
      BY <2>3, <3>1, ContainsAnySpelling DEF Serves
    <3> QED
      BY <3>2 DEF Serves, Normalize
  <2>8. PromisedAfter(height) = promised \union Normalize(D)
    BY <1>6 DEF PromisedAfter, D
  <2>9. Serves(r, PromisedAfter(height))
    BY <2>6, <2>7, <2>8 DEF Serves
  <2> QED
    BY <1>1, <2>2, <2>9, SameServes
<1> QED
  BY <1>4, <1>5, <1>6
\* In every reachable state each plan of GovAddDenoms serves what it adds, and unless
\* something was mixed the parameters serve what was promised.
THEOREM AddsInvariant == Spec => []AddsInv
<1>1. Init => AddsInv
  BY DEF Init, AddsInv, Serves
<1>2. PlansInv /\ AddsInv /\ [Next]_vars => AddsInv'
  <2> SUFFICES ASSUME PlansInv, AddsInv, [Next]_vars PROVE AddsInv'
    OBVIOUS
  <2>1. ASSUME NEW h, NEW u \in Updates, GovUpdateParams(u, h) PROVE AddsInv'
    BY <2>1, AddsInvSchedule DEF GovUpdateParams
  <2>2. ASSUME NEW h, NEW a \in Additions, GovAddDenoms(a, h) PROVE AddsInv'
    <3>1. IsAddition(params, Keep(AddedChanges(a), AddedKeys(a)), a.denoms)
      BY AdditionServes
    <3>2. /\ ScheduleParamUpdatePlan(h, AddedKeys(a), AddedChanges(a))
          /\ adds' = Put(adds, h, a.denoms)
      BY <2>2 DEF GovAddDenoms
    <3> QED
      BY <3>1, <3>2, AddsInvSchedule
  <2>3. ASSUME NEW h, NEW pairs, GovRemoveCurrencyPairProviders(pairs, h) PROVE AddsInv'
    BY <2>3, AddsInvSchedule DEF GovRemoveCurrencyPairProviders
  <2>4. ASSUME NEW h, NEW currencies, GovRemoveCurrencyDeviationThresholds(currencies, h)
        PROVE  AddsInv'
    BY <2>4, AddsInvSchedule DEF GovRemoveCurrencyDeviationThresholds
  <2>5. ASSUME NEW h, GovCancelUpdateParamPlan(h) PROVE AddsInv'
    <3>1. /\ DOMAIN plans' = DOMAIN plans \ {h}
          /\ DOMAIN adds' = DOMAIN adds \ {h}
          /\ \A i \in DOMAIN plans' : plans'[i] = plans[i] /\ base'[i] = base[i]
          /\ \A i \in DOMAIN adds' : adds'[i] = adds[i]
          /\ UNCHANGED <<params, promised, mixed>>
      BY <2>5 DEF GovCancelUpdateParamPlan, Keep, PlansInv
    <3>2. \A i \in DOMAIN adds' : IsAddition(base'[i], plans'[i], adds'[i])
      BY <3>1 DEF AddsInv
    <3> QED
      BY <3>1, <3>2 DEF AddsInv
  <2>6. ASSUME NEW u \in Updates, LegacyGovUpdateParams(u) PROVE AddsInv'
    <3>1. /\ UNCHANGED <<plans, base, adds>>
          /\ promised' = IF Range(u.keys) \subseteq PeriodKeys THEN promised ELSE {}
          /\ ~mixed' => ~mixed
      BY <2>6 DEF LegacyGovUpdateParams
    <3>2. ~mixed' => Serves(params', promised')
      <4>1. CASE Range(u.keys) \subseteq PeriodKeys
        <5>1. \A key \in DenomKeys : params'[key] = params[key]
          <6>1. \A key \in DenomKeys : key \in ParamKeys \ Range(u.keys)
            BY <4>1 DEF DenomKeys, ListKeys, ParamKeys, PeriodKeys
          <6>2. \A key \in ParamKeys \ Range(u.keys) : params'[key] = params[key]
            BY <2>6, LegacyIsValid DEF PlansInv
          <6> QED
            BY <6>1, <6>2
        <5>2. ~mixed => Serves(params', promised)
          BY <5>1, SameServes DEF AddsInv
        <5> QED
          BY <3>1, <4>1, <5>2
      <4>2. CASE ~(Range(u.keys) \subseteq PeriodKeys)
        BY <3>1, <4>2 DEF Serves
      <4> QED
        BY <4>1, <4>2
    <3> QED
      BY <3>1, <3>2 DEF AddsInv
  <2>7. CASE EndBlock
    <3>1. /\ params' = ParamsOfBlock
          /\ DOMAIN plans' = DOMAIN plans \ {height}
          /\ \A i \in DOMAIN plans' : plans'[i] = plans[i] /\ base'[i] = base[i]
          /\ ~mixed' => /\ ~mixed
                        /\ \/ height \notin DOMAIN plans
                           \/ ~Mixes(params, base[height], DOMAIN plans[height])
      BY <2>7, EndBlockExecutes DEF PlansInv
    <3>2. /\ DOMAIN adds' = DOMAIN adds \ {height}
          /\ \A i \in DOMAIN adds' : adds'[i] = adds[i]
      <4>1. CASE height \in DOMAIN plans
        BY <2>7, <4>1 DEF EndBlock, Keep
      <4>2. CASE height \notin DOMAIN plans
        BY <2>7, <4>2 DEF EndBlock, AddsInv
      <4> QED
        BY <4>1, <4>2
    <3>3. promised' = IF height \in DOMAIN plans THEN PromisedAfter(height) ELSE promised
      BY <2>7 DEF EndBlock
    <3>4. promised' \subseteq Denoms
      <4>1. CASE height \in DOMAIN adds
        <5>1. Normalize(adds[height]) \in SUBSET Denoms
          BY <4>1, NormalizeTwice DEF AddsInv, IsAddition
        <5> QED
          BY <3>3, <4>1, <5>1 DEF PromisedAfter, AddsInv
      <4>2. CASE height \notin DOMAIN adds
        BY <3>3, <4>2 DEF PromisedAfter, AddsInv
      <4> QED
        BY <4>1, <4>2
    <3>5. ~mixed' => Serves(params', promised')
      <4>1. CASE height \in DOMAIN plans
        BY <3>1, <3>3, <4>1, PromisedServed
      <4>2. CASE height \notin DOMAIN plans
        BY <3>1, <3>3, <4>2 DEF ParamsOfBlock, AddsInv
      <4> QED
        BY <4>1, <4>2
    <3>6. \A i \in DOMAIN adds' : IsAddition(base'[i], plans'[i], adds'[i])
      BY <3>1, <3>2 DEF AddsInv
    <3> QED
      BY <3>1, <3>2, <3>4, <3>5, <3>6 DEF AddsInv
  <2>8. CASE UNCHANGED vars
    BY <2>8 DEF vars, AddsInv
  <2> QED
    BY <2>1, <2>2, <2>3, <2>4, <2>5, <2>6, <2>7, <2>8 DEF Next, Messages
<1> QED
  BY <1>1, <1>2, PlansInvariant, PTL DEF Spec

\* Plans of any number and order keep what GovAddDenoms has added, an accepted denom with
\* a reward band, as long as no executed plan finds its group changed since its validation.
THEOREM AddedDenomsStayAlways == Spec => []AddedDenomsStayUnlessMixed
<1>1. AddsInv => AddedDenomsStayUnlessMixed
  BY DEF AddsInv, Serves, AddedDenomsStayUnlessMixed, AddedDenomsStay
<1> QED
  BY <1>1, AddsInvariant, PTL

\* The state of the parameters and plans keeps its type.
THEOREM TypeCorrect == Spec => []TypeOK
<1>1. PlansInv /\ AddsInv => TypeOK
  BY DEF PlansInv, AddsInv, TypeOK, IsParams, IsValidPlan
<1> QED
  BY <1>1, PlansInvariant, AddsInvariant, PTL

-----------------------------------------------------------------------------
(* Slash windows. *)

\* The messages and blocks of OracleGoverned are those of OracleParams.
THEOREM GovernedImplements == GovernedSpec => Spec
<1>1. GovernedInit => Init
  BY DEF GovernedInit
<1>2. [GovernedNext]_governedVars => [Next]_vars
  BY DEF GovernedNext, GovernedMessages, GovernedEndBlock, GovernedEndBlockPanics, Next,
         governedVars, vars
<1> QED
  BY <1>1, <1>2, PTL DEF Spec, GovernedSpec

\* The number of mandatory denoms.
Mandatory(p) == Cardinality(p["MandatoryList"])

\* The vote periods of the slash window of this block that have ended.
ElapsedPeriods(p) == PeriodsElapsed(p["VotePeriod"], p["SlashWindow"], height)

\* The strengthening of MissesWithinPossibleWins: the bound of the vote periods that have
\* ended, instead of that of the window.
MissesInv ==
  /\ missCounters \in [Validators -> Nat]
  /\ halted \in BOOLEAN
  /\ changed \in BOOLEAN
  /\ ~changed /\ ~mixed =>
       \A v \in Validators : missCounters[v] <= Mandatory(params) * ElapsedPeriods(params)

\* What valid parameters are to the slash window.
LEMMA WindowOfParams ==
  ASSUME NEW p, IsParams(p)
  PROVE  /\ IsFiniteSet(p["MandatoryList"])
         /\ Mandatory(p) \in Nat
         /\ Validate(p) =>
              /\ p["VotePeriod"] \in Nat \ {0}
              /\ p["SlashWindow"] \in Nat \ {0}
              /\ p["SlashWindow"] >= p["VotePeriod"]
              /\ (p["SlashWindow"] % p["VotePeriod"]) = 0
<1>1. p["MandatoryList"] \subseteq Denoms /\ p["VotePeriod"] \in Nat /\ p["SlashWindow"] \in Nat
  BY DEF IsParams, IsChanges, Values, ParamKeys, PeriodKeys, ListKeys
<1>2. IsFiniteSet(p["MandatoryList"])
  BY <1>1, GovernanceAssumption, FS_Subset
<1>3. Mandatory(p) \in Nat
  BY <1>2, FS_CardinalityType DEF Mandatory
<1> QED
  BY <1>1, <1>2, <1>3 DEF Validate

\* The same window has the same bound.
LEMMA SameWindowSameBound ==
  ASSUME NEW p, NEW q, SameWindow(p, q)
  PROVE  /\ Mandatory(p) = Mandatory(q)
         /\ ElapsedPeriods(p) = ElapsedPeriods(q)
         /\ p["SlashWindow"] = q["SlashWindow"] /\ p["VotePeriod"] = q["VotePeriod"]
         /\ p["MandatoryList"] = q["MandatoryList"]
  BY DEF SameWindow, Mandatory, ElapsedPeriods
\* The end of a block that does not panic.
LEMMA MissesInvEndBlock ==
  ASSUME PlansInv, PlansInv', MissesInv,
         NEW misses \in [Validators -> 0..Mandatory(ParamsOfBlock)], GovernedEndBlock(misses)
  PROVE  MissesInv'
<1> DEFINE P == ParamsOfBlock
           m == Mandatory(P)
           n == P["VotePeriod"]
           w == P["SlashWindow"]
<1>1. /\ EndBlock
      /\ missCounters' = CountersAfter(P, misses)
      /\ changed' = (~IsPeriodLastBlock(w) /\ (changed \/ ~SameWindow(params, P)))
      /\ halted' = halted
  BY DEF GovernedEndBlock
<1>2. height \in Nat /\ height' = height + 1 /\ params' = P /\ (~mixed' => ~mixed)
  BY <1>1, EndBlockExecutes DEF PlansInv
<1>3. IsParams(P)
  BY ParamsOfBlockValid
<1>4. m \in Nat
  BY <1>3, WindowOfParams
<1> HIDE DEF P
<1>5. \A v \in Validators :
        /\ missCounters[v] \in Nat
        /\ misses[v] \in 0..m
        /\ CountedMisses(P, misses)[v] =
             missCounters[v] + (IF IsPeriodLastBlock(n) THEN misses[v] ELSE 0)
  BY DEF MissesInv, CountedMisses, P
<1>6. missCounters' \in [Validators -> Nat]
  <2>1. CASE IsPeriodLastBlock(w)
    BY <1>1, <2>1 DEF CountersAfter
  <2>2. CASE ~IsPeriodLastBlock(w)
    <3>1. missCounters' = CountedMisses(P, misses)
      BY <1>1, <2>2 DEF CountersAfter
    <3>2. \A v \in Validators : CountedMisses(P, misses)[v] \in Nat
      BY <1>4, <1>5
    <3> QED
      BY <3>1, <3>2 DEF CountedMisses
  <2> QED
    BY <2>1, <2>2
<1>7. ASSUME ~changed', ~mixed', NEW v \in Validators
      PROVE  missCounters'[v] <= Mandatory(params') * PeriodsElapsed(n, w, height + 1)
  <2>1. Validate(P)
    BY <1>2, <1>7 DEF PlansInv, ValidUnlessMixed
  <2>2. n \in Nat \ {0} /\ w \in Nat \ {0} /\ (w % n) = 0
    BY <1>3, <2>1, WindowOfParams
  <2>3. Mandatory(params') = m
    BY <1>2
  <2> DEFINE e == PeriodsElapsed(n, w, height)
             f == PeriodsElapsed(n, w, height + 1)
  <2>4. /\ e \in Nat
        /\ ((height + 1) % w) = 0 => f = 0
        /\ ((height + 1) % w) # 0 => f = e + (IF ((height + 1) % n) = 0 THEN 1 ELSE 0)
    BY <1>2, <2>2, PeriodsElapsedStep
  <2> HIDE DEF m, n, w, e, f
  <2>5. CASE IsPeriodLastBlock(w)
    <3>1. missCounters'[v] = 0 /\ f = 0
      BY <1>1, <2>4, <2>5 DEF CountersAfter, IsPeriodLastBlock, w
    <3> QED
      BY <1>4, <2>3, <3>1 DEF f
  <2>6. CASE ~IsPeriodLastBlock(w)
    <3>1. ~changed /\ ~mixed /\ SameWindow(params, P)
      BY <1>1, <1>2, <1>7, <2>6
    <3>2. missCounters[v] <= m * e
      <4>1. Mandatory(params) = m /\ ElapsedPeriods(params) = e
        BY <3>1, SameWindowSameBound DEF m, e, n, w, ElapsedPeriods
      <4> QED
        BY <3>1, <4>1 DEF MissesInv
    <3>3. missCounters'[v] = missCounters[v] + (IF IsPeriodLastBlock(n) THEN misses[v] ELSE 0)
      BY <1>1, <1>5, <2>6 DEF CountersAfter, w
    <3>4. m * (e + 1) = (m * e) + m /\ m * e \in Nat
      BY <1>4, <2>4, MulDistributes
    <3>5. CASE IsPeriodLastBlock(n)
      <4>1. f = e + 1
        BY <2>4, <2>6, <3>5 DEF IsPeriodLastBlock
      <4>2. missCounters'[v] <= (m * e) + m
        BY <1>4, <1>5, <3>2, <3>3, <3>4, <3>5
      <4> QED
        BY <2>3, <3>4, <4>1, <4>2 DEF f
    <3>6. CASE ~IsPeriodLastBlock(n)
      <4>1. f = e
        BY <2>4, <2>6, <3>6 DEF IsPeriodLastBlock
      <4> QED
        BY <1>5, <2>3, <3>2, <3>3, <3>6, <4>1 DEF f
    <3> QED
      BY <3>5, <3>6
  <2> QED
    BY <2>5, <2>6
<1>8. changed' \in BOOLEAN /\ halted' \in BOOLEAN
  BY <1>1 DEF MissesInv
<1> QED
  BY <1>2, <1>6, <1>7, <1>8 DEF MissesInv, ElapsedPeriods

\* In every reachable state, as long as the window's parameters do not change, a validator
\* has missed at most the mandatory denoms of the vote periods of the window so far.
THEOREM MissesInvariant == GovernedSpec => []MissesInv
<1>1. GovernedInit => MissesInv
  <2> SUFFICES ASSUME GovernedInit PROVE MissesInv
    OBVIOUS
  <2>1. IsParams(params) /\ Validate(params)
    BY GovernanceAssumption DEF GovernedInit, Init, IsParams
  <2>2. height = 1 /\ missCounters = [v \in Validators |-> 0]
        /\ halted \in BOOLEAN /\ changed \in BOOLEAN
    BY DEF GovernedInit, Init
  <2>3. Mandatory(params) \in Nat /\ ElapsedPeriods(params) \in Nat
    <3>1. 1 \in Nat
      OBVIOUS
    <3> QED
      BY <2>1, <2>2, <3>1, WindowOfParams, PeriodsElapsedStep DEF ElapsedPeriods
  <2>4. \A v \in Validators : missCounters[v] <= Mandatory(params) * ElapsedPeriods(params)
    BY <2>2, <2>3
  <2> QED
    BY <2>2, <2>4 DEF MissesInv
<1>2. PlansInv /\ PlansInv' /\ MissesInv /\ [GovernedNext]_governedVars => MissesInv'
  <2> SUFFICES ASSUME PlansInv, PlansInv', MissesInv, [GovernedNext]_governedVars
               PROVE  MissesInv'
    OBVIOUS
  <2>1. CASE GovernedMessages
    <3>1. /\ changed' = (changed \/ ~SameWindow(params, params'))
          /\ UNCHANGED <<missCounters, halted>>
          /\ Messages
      BY <2>1 DEF GovernedMessages
    <3>2. height' = height /\ (~mixed' => ~mixed)
      <4>1. ASSUME NEW h, NEW keys, NEW c, ScheduleParamUpdatePlan(h, keys, c)
            PROVE  height' = height /\ (~mixed' => ~mixed)
        BY <4>1 DEF ScheduleParamUpdatePlan
      <4>2. ASSUME NEW h, GovCancelUpdateParamPlan(h)
            PROVE  height' = height /\ (~mixed' => ~mixed)
        BY <4>2 DEF GovCancelUpdateParamPlan
      <4>3. ASSUME NEW u \in Updates, LegacyGovUpdateParams(u)
            PROVE  height' = height /\ (~mixed' => ~mixed)
        BY <4>3 DEF LegacyGovUpdateParams
      <4> QED
        BY <3>1, <4>1, <4>2, <4>3
           DEF Messages, GovUpdateParams, GovAddDenoms, GovRemoveCurrencyPairProviders,
               GovRemoveCurrencyDeviationThresholds
    <3>3. ASSUME ~changed', ~mixed', NEW v \in Validators
          PROVE  missCounters'[v] <= Mandatory(params') * ElapsedPeriods(params)'
      <4>1. ~changed /\ ~mixed /\ SameWindow(params, params')
        BY <3>1, <3>2, <3>3
      <4>2. /\ Mandatory(params') = Mandatory(params)
            /\ ElapsedPeriods(params)' = ElapsedPeriods(params)
        BY <3>2, <4>1 DEF SameWindow, Mandatory, ElapsedPeriods
      <4> QED
        BY <3>1, <4>1, <4>2 DEF MissesInv
    <3>4. changed' \in BOOLEAN /\ halted' \in BOOLEAN
      BY <3>1 DEF MissesInv
    <3> QED
      BY <3>1, <3>3, <3>4 DEF MissesInv
  <2>2. ASSUME NEW misses \in [Validators -> 0..Mandatory(ParamsOfBlock)],
               GovernedEndBlock(misses)
        PROVE  MissesInv'
    BY <2>2, MissesInvEndBlock
  <2>3. ASSUME NEW misses, GovernedEndBlockPanics(misses) PROVE MissesInv'
    BY <2>3 DEF GovernedEndBlockPanics, MissesInv, vars, ElapsedPeriods
  <2>4. CASE UNCHANGED governedVars
    BY <2>4 DEF governedVars, slashVars, vars, MissesInv, ElapsedPeriods
  <2> QED
    BY <2>1, <2>2, <2>3, <2>4 DEF GovernedNext, Mandatory
<1> QED
  BY <1>1, <1>2, PlansInvariant, GovernedImplements, PTL DEF GovernedSpec

\* The whole state keeps its type.
THEOREM GovernedTypeCorrect == GovernedSpec => []GovernedTypeOK
<1>1. TypeOK /\ MissesInv => GovernedTypeOK
  BY DEF MissesInv, GovernedTypeOK
<1> QED
  BY <1>1, TypeCorrect, MissesInvariant, GovernedImplements, PTL

\* A counter never exceeds PossibleWinsPerSlashWindow in a window whose parameters do not
\* change, for any parameters that Params.Validate accepts: the valid rate that
\* evaluateAndSlashIfNeeded computes is never negative.
THEOREM MissesWithinPossibleWinsAlways == GovernedSpec => []MissesWithinPossibleWins
<1>1. PlansInv /\ MissesInv => MissesWithinPossibleWins
  <2> SUFFICES ASSUME PlansInv, MissesInv, ~changed, ~mixed, NEW v \in Validators
               PROVE  missCounters[v] <= PossibleWinsPerSlashWindow(params)
    BY DEF MissesWithinPossibleWins
  <2> DEFINE m == Mandatory(params)
             n == params["VotePeriod"]
             w == params["SlashWindow"]
             x == height % w
  <2>1. /\ m \in Nat /\ n \in Nat \ {0} /\ w \in Nat \ {0} /\ (w % n) = 0 /\ height \in Nat
    BY WindowOfParams DEF PlansInv, ValidUnlessMixed
  <2>2. missCounters[v] \in Nat /\ missCounters[v] <= m * (x \div n)
    BY DEF MissesInv, ElapsedPeriods, PeriodsElapsed
  <2>3. PossibleWinsPerSlashWindow(params) = (w \div n) * m
    BY DEF PossibleWinsPerSlashWindow, Mandatory
  <2> HIDE DEF m, n, w
  <2>4. x \in Nat /\ x <= w
    BY <2>1, DivMod
  <2> HIDE DEF x
  <2>5. (x \div n) \in Nat /\ (w \div n) \in Nat /\ (x \div n) <= (w \div n)
    BY <2>1, <2>4, DivMod, PeriodsInOrder
  <2> DEFINE a == x \div n
             b == w \div n
  <2> HIDE DEF a, b
  <2>6. a \in Nat /\ (b - a) \in Nat /\ b \in Nat /\ a + (b - a) = b
    BY <2>5 DEF a, b
  <2>7. m * (a + (b - a)) = (m * a) + (m * (b - a))
    BY <2>1, <2>6, MulDistributes
  <2>8. m * a \in Nat /\ m * (b - a) \in Nat
    BY <2>1, <2>6
  <2>9. m * a <= m * b
    BY <2>6, <2>7, <2>8
  <2>10. m * b = b * m
    BY <2>1, <2>6
  <2>11. m * b \in Nat
    BY <2>1, <2>6
  <2>12. missCounters[v] <= m * a
    BY <2>2 DEF a
  <2>13. missCounters[v] <= m * b
    BY <2>2, <2>8, <2>9, <2>11, <2>12
  <2> QED
    BY <2>3, <2>10, <2>13 DEF b
<1> QED
  BY <1>1, PlansInvariant, MissesInvariant, GovernedImplements, PTL

\* EndBlock divides by zero, and stops every node, only after governance has emptied the
\* MandatoryList in this slash window, or through parameters that Params.Validate has not
\* seen together: for any validators and any history of misses.
THEOREM PanicsOnlyOnChangedWindowAlways == GovernedSpec => []PanicsOnlyOnChangedWindow
<1>1. GovernedInit => PanicsOnlyOnChangedWindow
  BY DEF GovernedInit, PanicsOnlyOnChangedWindow
<1>2. /\ PlansInv /\ MissesInv /\ PanicsOnlyOnChangedWindow /\ [GovernedNext]_governedVars
      => PanicsOnlyOnChangedWindow'
  <2> SUFFICES ASSUME PlansInv, MissesInv, PanicsOnlyOnChangedWindow,
                      [GovernedNext]_governedVars
               PROVE  PanicsOnlyOnChangedWindow'
    OBVIOUS
  <2>1. CASE UNCHANGED governedVars
    BY <2>1 DEF governedVars, slashVars, vars, PanicsOnlyOnChangedWindow, ParamsOfBlock
  <2>2. CASE ~halted'
    BY <2>2 DEF PanicsOnlyOnChangedWindow
  <2>3. ASSUME NEW misses \in [Validators -> 0..Mandatory(ParamsOfBlock)],
               GovernedEndBlockPanics(misses)
        PROVE  PanicsOnlyOnChangedWindow'
    <3> DEFINE P == ParamsOfBlock
               m == Mandatory(P)
               n == P["VotePeriod"]
               w == P["SlashWindow"]
    <3>1. UNCHANGED vars /\ changed' = changed /\ SlashPanics(P, CountedMisses(P, misses))
      BY <2>3 DEF GovernedEndBlockPanics
    <3>2. ASSUME ~mixed,
                 ~(height \in DOMAIN plans
                     /\ Mixes(params, base[height], DOMAIN plans[height]))
          PROVE  P["MandatoryList"] = {} /\ (changed \/ ~SameWindow(params, P))
      <4>1. IsParams(P) /\ Validate(P)
        BY <3>2, ParamsOfBlockValid
      <4> HIDE DEF P
      <4>2. /\ m \in Nat /\ n \in Nat \ {0} /\ w \in Nat \ {0} /\ w >= n
            /\ IsFiniteSet(P["MandatoryList"])
        BY <4>1, WindowOfParams
      <4>3. (w \div n) * m = 0
        BY <3>1 DEF SlashPanics, PossibleWinsPerSlashWindow, Mandatory
      <4>4. (w \div n) \in Nat \ {0}
        <5>1. (n \div n) = 1
          <6>1. n = (n * 1) + 0
            BY <4>2
          <6> QED
            BY <4>2, <6>1, DivModUnique
        <5>2. (w \div n) \in Nat /\ (n \div n) <= (w \div n)
          BY <4>2, DivMod, PeriodsInOrder
        <5> QED
          BY <5>1, <5>2
      <4>5. m = 0
        BY <4>2, <4>3, <4>4
      <4>6. P["MandatoryList"] = {}
        BY <4>2, <4>5, FS_EmptySet DEF Mandatory
      <4>7. PICK v \in Validators : CountedMisses(P, misses)[v] > 0
        BY <3>1 DEF SlashPanics
      <4>8. missCounters[v] \in Nat /\ misses[v] \in 0..m
        BY DEF MissesInv, P
      <4>9. missCounters[v] > 0
        <5>1. CountedMisses(P, misses)[v] =
                missCounters[v] + (IF IsPeriodLastBlock(n) THEN misses[v] ELSE 0)
          BY DEF CountedMisses
        <5> HIDE DEF m, n
        <5>2. misses[v] = 0
          BY <4>5, <4>8
        <5> QED
          BY <4>7, <4>8, <5>1, <5>2
      <4>10. ASSUME ~changed, SameWindow(params, P) PROVE FALSE
        <5>1. Mandatory(params) = 0
          BY <4>5, <4>10, SameWindowSameBound
        <5>2. missCounters[v] <= Mandatory(params) * ElapsedPeriods(params)
          BY <3>2, <4>10 DEF MissesInv
        <5>3. ElapsedPeriods(params) \in Nat
          <6>1. Validate(params) /\ IsParams(params) /\ height \in Nat
            BY <3>2 DEF PlansInv, ValidUnlessMixed
          <6> QED
            BY <6>1, WindowOfParams, PeriodsElapsedStep DEF ElapsedPeriods
        <5> QED
          BY <4>8, <4>9, <5>1, <5>2, <5>3
      <4> QED
        BY <4>6, <4>10
    <3> QED
      BY <3>1, <3>2 DEF PanicsOnlyOnChangedWindow, vars, ParamsOfBlock
  <2>4. ASSUME NEW misses, GovernedEndBlock(misses) PROVE PanicsOnlyOnChangedWindow'
    BY <2>4 DEF GovernedEndBlock, PanicsOnlyOnChangedWindow
  <2>5. CASE GovernedMessages
    BY <2>5 DEF GovernedMessages, PanicsOnlyOnChangedWindow
  <2> QED
    BY <2>1, <2>3, <2>4, <2>5 DEF GovernedNext, Mandatory
<1> QED
  BY <1>1, <1>2, PlansInvariant, MissesInvariant, GovernedImplements, PTL DEF GovernedSpec
=============================================================================
