--------------------------- MODULE OracleDecimals ---------------------------
(***************************************************************************)
(* The range of the decimals of cosmossdk.io/math, a library outside the   *)
(* repository.  MsgAggregateExchangeRateVote admits every rate that a      *)
(* decimal can hold, so no sum of two rates is too large for one; the      *)
(* square of a difference of two rates may be, and then the library        *)
(* panics.                                                                 *)
(***************************************************************************)
EXTENDS Naturals

CONSTANT
  MaxSquare  \* the largest decimal, in squares of the unit of the rates

ASSUME DecimalAssumption == MaxSquare \in Nat
=============================================================================
