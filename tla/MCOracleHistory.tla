--------------------------- MODULE MCOracleHistory ---------------------------
(***************************************************************************)
(* Small instances of OracleHistory.                                       *)
(***************************************************************************)
EXTENDS OracleHistory

CONSTANT A  \* the denom of the instances
=============================================================================
