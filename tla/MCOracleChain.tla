--------------------------- MODULE MCOracleChain ---------------------------
(***************************************************************************)
(* Small instances of OracleChain and of its restarts: two validators of   *)
(* equal power, and one denom that is mandatory and whose base denom is    *)
(* the one of the chain.                                                   *)
(***************************************************************************)
EXTENDS OracleGenesis, TLC

CONSTANTS v1, v2, A, udm

Powers == v1 :> 1 @@ v2 :> 1
Ranks  == v1 :> 1 @@ v2 :> 2
\* A single rate: who abstains misses.
RatesOfA == {A :> 10}
BandOfA  == A :> 20
BaseOfA  == A :> udm
Pool     == udm :> 40

\* 1 - log(k + 1) / log(b + 1) in hundredths, up to two possible misses.
Factors ==
  [x \in (0..2) \X (0..2) |->
     IF x[1] >= x[2] THEN 0 ELSE IF x[1] = 0 THEN 100 ELSE 37]

\* The factor of one miss of two stands for one whose float64 has 19 digits, as that of
\* 59 misses of 60 has.
Unprintable == {<<1, 2>>}
=============================================================================
