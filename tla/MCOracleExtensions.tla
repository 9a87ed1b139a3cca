------------------------ MODULE MCOracleExtensions ------------------------
(***************************************************************************)
(* Values of the constants of OracleExtensions for TLC.                    *)
(***************************************************************************)
EXTENDS OracleExtensions, TLC

CONSTANTS n1, n2, f, A, X

MCPower  == n1 :> 3 @@ n2 :> 3 @@ f :> 1
MCConfig == n1 :> "ok" @@ n2 :> "off" @@ f :> "off"
MCTurns  == <<f, n1, n2>>

\* Nothing, or prices of a denom of the AcceptList and of one that is not on it.  A report that
\* does not parse has the effect of a feeder that is not running yet: an empty extension.
MCPrices == {<< >>, A :> 1 @@ X :> 1}
=============================================================================
