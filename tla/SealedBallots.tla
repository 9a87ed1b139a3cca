--------------------------- MODULE SealedBallots ---------------------------
(***************************************************************************)
(* What the commit-reveal of x/oracle promises: voting goes in rounds, and *)
(* what a voter opens in a round it has sealed in the round before, before *)
(* anything was opened in this one.  A voter opens at most one ballot in a *)
(* round, its own, and no ballot that can still be opened is lost.         *)
(*                                                                         *)
(* Who may act for a voter, what the ballots decide and when a round ends  *)
(* are matters of the implementation.                                      *)
(***************************************************************************)
EXTENDS Naturals, OracleStores

CONSTANTS
  Voters,   \* those who vote
  Contents  \* what a ballot may say

VARIABLES
  round,    \* the current round
  sealed,   \* voter -> its sealed ballot: [author, content, round]
  opened    \* voter -> what its ballot of this round says

vars == <<round, sealed, opened>>

\* A sealed ballot may also be a copy of one that somebody else has made.
Ballot == [author : Voters, content : Contents, round : Nat]

Init ==
  /\ round \in Nat
  /\ sealed = << >>
  /\ opened = << >>

Seal(v, author, content) ==
  /\ v \notin DOMAIN sealed
  /\ sealed' = Put(sealed, v, [author |-> author, content |-> content, round |-> round])
  /\ UNCHANGED <<round, opened>>

Open(v) ==
  /\ v \in DOMAIN sealed \ DOMAIN opened
  /\ sealed[v].author = v
  /\ sealed[v].round + 1 = round
  /\ opened' = Put(opened, v, sealed[v].content)
  /\ sealed' = Keep(sealed, DOMAIN sealed \ {v})
  /\ UNCHANGED round

\* A ballot sealed in the round that ends stays; older ones may be thrown away.
CloseRound(kept) ==
  /\ \A v \in DOMAIN sealed : sealed[v].round = round => v \in kept
  /\ sealed' = Keep(sealed, kept)
  /\ opened' = << >>
  /\ round' = round + 1

Next ==
  \/ \E v, author \in Voters, content \in Contents : Seal(v, author, content)
  \/ \E v \in Voters : Open(v)
  \/ \E kept \in SUBSET Voters : CloseRound(kept)

Spec == Init /\ [][Next]_vars
=============================================================================
