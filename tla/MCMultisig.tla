----------------------------- MODULE MCMultisig -----------------------------
(***************************************************************************)
(* Values of the constants of Multisig for TLC.                            *)
(***************************************************************************)
EXTENDS Multisig

CONSTANTS p1, p2, p3

\* Nobody but the creator, one other signer, the creator listed by itself.
MCSignerLists == {<< >>, <<p2>>, <<p1, p2>>}
=============================================================================
