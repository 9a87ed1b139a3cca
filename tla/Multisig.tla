------------------------------ MODULE Multisig ------------------------------
(***************************************************************************)
(* x/multisig: the ten messages of keeper/msg_server.go and the module's   *)
(* export and import.  Every message is answered, and the answer is part   *)
(* of the state: BaseApp turns a panic into a failed transaction, and      *)
(* drops what the transaction has written on a panic as on an error.       *)
(*                                                                         *)
(* An account is known by the seed its address is derived from, a call by  *)
(* its hash.                                                               *)
(***************************************************************************)
EXTENDS Naturals, Sequences, SequencesExt, OracleStores

CONSTANTS
  People,       \* addresses that send messages
  Authority,    \* the address of x/gov
  Seeds,        \* seeds of multisig accounts
  SignerLists,  \* what a creator may list as signers
  Thresholds,   \* thresholds that messages carry
  Calls,        \* calls to propose
  Ids           \* ids of proposals that messages carry

ASSUME MultisigAssumption ==
  /\ SignerLists \subseteq Seq(People)
  /\ Thresholds \subseteq Nat

VARIABLES
  params,     \* keeper.Params
  accounts,   \* keeper.MultisigAccounts: [signers, threshold]
  proposals,  \* the ORM table of proposals by id: [multisig, call, approvals]
  answer      \* the last message and how it ended: "ok", "error" or "panic"

state == <<params, accounts, proposals>>
vars  == <<state, answer>>

Init ==
  /\ params = FALSE
  /\ accounts = << >>
  /\ proposals = << >>
  /\ answer = <<"Genesis", "ok">>

Succeed(message)   == answer' = <<message, "ok">>
Fail(message, how) == answer' = <<message, how>> /\ UNCHANGED state

\* contains: the loop variable hides the argument, and is compared with itself.
ListContains(list, p) == Len(list) > 0

\* Unique index on the account and the call.
ProposalsOn(seed, call) ==
  {id \in DOMAIN proposals : proposals[id].multisig = seed /\ proposals[id].call = call}

UpdateParams(sender, value) ==
  IF sender # Authority THEN Fail("UpdateParams", "error")
  ELSE /\ params' = value
       /\ Succeed("UpdateParams")
       /\ UNCHANGED <<accounts, proposals>>

\* Mutant of SeedIsTaken: a second account of a seed replaces the first.
NoSeedIsTaken(seed) == FALSE

SeedIsTaken(seed) == seed \in DOMAIN accounts

ValidThreshold(threshold) == threshold >= 1

\* The number of signers is not restricted: no list is shorter than 2 and longer than 10.
CreateMultisigAccount(sender, seed, signers, threshold) ==
  IF ~ValidThreshold(threshold) \/ SeedIsTaken(seed) THEN Fail("CreateMultisigAccount", "error")
  ELSE /\ accounts' = Put(accounts, seed,
                          [signers |-> Append(signers, sender), threshold |-> threshold])
       /\ Succeed("CreateMultisigAccount")
       /\ UNCHANGED <<params, proposals>>

\* The message does not say who sends it.
AddMultisigSigner(seed, signer, newThreshold) ==
  IF seed \notin DOMAIN accounts \/ ListContains(accounts[seed].signers, signer)
  THEN Fail("AddMultisigSigner", "error")
  ELSE /\ accounts' = Put(accounts, seed,
            [signers   |-> Append(accounts[seed].signers, signer),
             threshold |-> IF newThreshold # 0 THEN newThreshold ELSE accounts[seed].threshold])
       /\ Succeed("AddMultisigSigner")
       /\ UNCHANGED <<params, proposals>>

Unimplemented ==
  \E message \in {"CleanupMultisigSigner", "SetThreshold", "CancelMultisigProposal",
                   "CleanupMultisigProposal"} :
    Fail(message, "panic")

\* A call that is new makes GetByMultisigAddressCallHash fail, and the handler then reads
\* the id of the proposal that it did not get; one that is there is inserted again, which
\* the unique index refuses.  The deposit is never collected.
InitializeMultisigProposal(proposer, seed, call) ==
  IF seed \notin DOMAIN accounts \/ ~ListContains(accounts[seed].signers, proposer)
  THEN Fail("InitializeMultisigProposal", "error")
  ELSE IF ProposalsOn(seed, call) = {} THEN Fail("InitializeMultisigProposal", "panic")
  ELSE Fail("InitializeMultisigProposal", "error")

\* A proposal that is not there is dereferenced all the same.
ApproveMultisigProposal(approver, seed, id) ==
  IF seed \notin DOMAIN accounts \/ ~ListContains(accounts[seed].signers, approver)
  THEN Fail("ApproveMultisigProposal", "error")
  ELSE IF id \notin DOMAIN proposals THEN Fail("ApproveMultisigProposal", "panic")
  ELSE /\ proposals' =
            IF ListContains(proposals[id].approvals, approver)
                 \/ Len(proposals[id].approvals) >= accounts[seed].threshold
            THEN proposals
            ELSE [proposals EXCEPT ![id].approvals = Append(@, approver)]
       /\ Succeed("ApproveMultisigProposal")
       /\ UNCHANGED <<params, accounts>>

\* What DispatchActions routes is the message itself, which comes back here until the gas
\* is used up.
ApproveAndDispatchMultisigProposal(approver, seed, call, id) ==
  IF \/ seed \notin DOMAIN accounts
     \/ ~ListContains(accounts[seed].signers, approver)
     \/ id \notin ProposalsOn(seed, call)
     \/ Len(proposals[id].approvals)
          + (IF ListContains(proposals[id].approvals, approver) THEN 0 ELSE 1)
          < accounts[seed].threshold
  THEN Fail("ApproveAndDispatchMultisigProposal", "error")
  ELSE Fail("ApproveAndDispatchMultisigProposal", "panic")

\* ExportGenesis and InitGenesis of the module carry the parameters alone.
ExportAndInitGenesis ==
  /\ accounts' = << >>
  /\ proposals' = << >>
  /\ Succeed("Genesis")
  /\ UNCHANGED params

Next ==
  \/ \E p \in People \cup {Authority}, value \in BOOLEAN : UpdateParams(p, value)
  \/ \E p \in People, seed \in Seeds, list \in SignerLists, t \in Thresholds :
       CreateMultisigAccount(p, seed, list, t)
  \/ \E seed \in Seeds, p \in People, t \in Thresholds : AddMultisigSigner(seed, p, t)
  \/ Unimplemented
  \/ \E p \in People, seed \in Seeds, call \in Calls :
       InitializeMultisigProposal(p, seed, call)
  \/ \E p \in People, seed \in Seeds, id \in Ids :
       ApproveMultisigProposal(p, seed, id)
  \/ \E p \in People, seed \in Seeds, call \in Calls, id \in Ids :
       ApproveAndDispatchMultisigProposal(p, seed, call, id)
  \/ ExportAndInitGenesis

Spec == Init /\ [][Next]_vars

-----------------------------------------------------------------------------
(* Correctness. *)

\* No message takes an account away from those who sign for it, whoever sends it: an account
\* that is created with the same seed does not replace it, a signer that is added joins the
\* others, and some number of signatures is always asked for.  Only an export and import of
\* the chain loses accounts, and then all of them.
SignersAreKept ==
  [][answer'[1] = "Genesis" \/ \A seed \in DOMAIN accounts :
       /\ seed \in DOMAIN accounts'
       /\ ToSet(accounts[seed].signers) \subseteq ToSet(accounts'[seed].signers)
       /\ accounts'[seed].threshold >= 1]_vars

\* Somebody who does not sign for an account yet can be added to its signers, and a signer
\* can propose a call that nobody has proposed yet.
SignersAreServed ==
  [][\A p \in People, seed \in DOMAIN accounts :
       /\ \A t \in Thresholds :
            AddMultisigSigner(seed, p, t) /\ p \notin ToSet(accounts[seed].signers)
              => answer'[2] = "ok"
       /\ \A call \in Calls :
            /\ InitializeMultisigProposal(p, seed, call)
            /\ p \in ToSet(accounts[seed].signers)
            /\ ProposalsOn(seed, call) = {}
            => answer'[2] = "ok"]_vars
=============================================================================
