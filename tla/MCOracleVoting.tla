--------------------------- MODULE MCOracleVoting ---------------------------
(***************************************************************************)
(* A small instance of OracleVoting.  Denom A is mandatory, B is accepted, *)
(* D is accepted and has no reward band, C is not listed at all.           *)
(***************************************************************************)
EXTENDS OracleVoting, TLC

CONSTANTS v1, v2, A, B, C, D

\* One validator outweighs the other, and alone reaches the threshold.
Powers == v1 :> 1 @@ v2 :> 2

\* Two rates of A, each outside the band of the other, with each of the other denoms.
Rates == {A :> 10 @@ B :> 10 @@ C :> 10, A :> 20 @@ D :> 10}

Bands == A :> 20 @@ B :> 20
=============================================================================
