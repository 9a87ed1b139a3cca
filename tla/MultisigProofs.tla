--------------------------- MODULE MultisigProofs ---------------------------
(***************************************************************************)
(* Proofs about Multisig, for any people, seeds, lists of signers,         *)
(* thresholds and calls.                                                   *)
(***************************************************************************)
EXTENDS Multisig, TLAPS

\* An account has a list of signers that is not empty, for CreateMultisigAccount appends
\* the sender to what it was given, and a threshold that was checked.
AccountsHaveSigners ==
  \A seed \in DOMAIN accounts :
    /\ accounts[seed].signers \in Seq(People)
    /\ Len(accounts[seed].signers) > 0
    /\ accounts[seed].threshold \in Nat \ {0}

\* The table of proposals is empty.
NothingIsProposed == proposals = << >>

\* What a step may do to the accounts.
Kept ==
  answer'[1] = "Genesis" \/ \A seed \in DOMAIN accounts :
    /\ seed \in DOMAIN accounts'
    /\ ToSet(accounts[seed].signers) \subseteq ToSet(accounts'[seed].signers)
    /\ accounts'[seed].threshold >= 1

\* One account is written: the others stay, and it has the signers that it had and more.
LEMMA AccountWritten ==
  ASSUME AccountsHaveSigners, NEW seed, NEW account, accounts' = Put(accounts, seed, account),
         account.signers \in Seq(People), Len(account.signers) > 0,
         account.threshold \in Nat \ {0},
         seed \in DOMAIN accounts => ToSet(accounts[seed].signers) \subseteq ToSet(account.signers)
  PROVE  AccountsHaveSigners' /\ Kept
<1>1. /\ DOMAIN accounts' = DOMAIN accounts \union {seed}
      /\ \A s \in DOMAIN accounts' : accounts'[s] = IF s = seed THEN account ELSE accounts[s]
  BY DEF Put
<1>2. AccountsHaveSigners'
  BY <1>1 DEF AccountsHaveSigners
<1>3. \A s \in DOMAIN accounts' : accounts'[s].threshold >= 1
  BY <1>2 DEF AccountsHaveSigners
<1>4. \A s \in DOMAIN accounts :
        s \in DOMAIN accounts' /\ ToSet(accounts[s].signers) \subseteq ToSet(accounts'[s].signers)
  BY <1>1
<1> QED
  BY <1>2, <1>3, <1>4 DEF Kept

\* A list has all its entries, and the new one, when one is appended.
LEMMA AppendedSigner ==
  ASSUME NEW list \in Seq(People), NEW p \in People
  PROVE  /\ Append(list, p) \in Seq(People) /\ Len(Append(list, p)) > 0
         /\ ToSet(list) \subseteq ToSet(Append(list, p))
<1>1. /\ Append(list, p) \in Seq(People) /\ Len(Append(list, p)) = Len(list) + 1
      /\ \A i \in 1..Len(list) : Append(list, p)[i] = list[i]
  OBVIOUS
<1>2. DOMAIN list \subseteq DOMAIN Append(list, p)
  BY <1>1
<1>3. \A i \in DOMAIN list : Append(list, p)[i] = list[i]
  BY <1>1
<1> QED
  BY <1>1, <1>2, <1>3 DEF ToSet

\* Whatever contains answers, a message that succeeds on an account creates it or adds to its
\* signers: the others fail, or leave the account as it is.
LEMMA MultisigStep ==
  ASSUME AccountsHaveSigners, NothingIsProposed, [Next]_vars
  PROVE  AccountsHaveSigners' /\ NothingIsProposed' /\ Kept
<1> DEFINE Goal == AccountsHaveSigners' /\ NothingIsProposed' /\ Kept
<1>1. ASSUME UNCHANGED <<accounts, proposals>> PROVE Goal
  <2>1. \A seed \in DOMAIN accounts : accounts[seed].threshold >= 1
    BY DEF AccountsHaveSigners
  <2> QED
    BY <1>1, <2>1 DEF AccountsHaveSigners, NothingIsProposed, Kept
<1>2. ASSUME NEW message, NEW how, Fail(message, how) PROVE Goal
  BY <1>1, <1>2 DEF Fail, state
<1>3. ASSUME NEW p, NEW value, UpdateParams(p, value) PROVE Goal
  BY <1>1, <1>2, <1>3 DEF UpdateParams
<1>4. ASSUME NEW p \in People, NEW seed \in Seeds, NEW list \in SignerLists,
             NEW t \in Thresholds, CreateMultisigAccount(p, seed, list, t)
      PROVE  Goal
  <2>1. CASE ~ValidThreshold(t) \/ SeedIsTaken(seed)
    BY <1>2, <1>4, <2>1 DEF CreateMultisigAccount
  <2>2. CASE ValidThreshold(t) /\ ~SeedIsTaken(seed)
    <3> DEFINE account == [signers |-> Append(list, p), threshold |-> t]
    <3>1. accounts' = Put(accounts, seed, account) /\ proposals' = proposals
      BY <1>4, <2>2 DEF CreateMultisigAccount
    <3>2. seed \notin DOMAIN accounts
      BY <2>2 DEF SeedIsTaken
    <3>3. account.signers \in Seq(People) /\ Len(account.signers) > 0
      BY AppendedSigner, MultisigAssumption
    <3>4. account.threshold \in Nat \ {0}
      BY <2>2, MultisigAssumption DEF ValidThreshold
    <3> HIDE DEF account
    <3> QED
      BY <3>1, <3>2, <3>3, <3>4, AccountWritten DEF NothingIsProposed
  <2> QED
    BY <2>1, <2>2
<1>5. ASSUME NEW p \in People, NEW seed \in Seeds, NEW t \in Thresholds,
             AddMultisigSigner(seed, p, t)
      PROVE  Goal
  <2>1. CASE seed \notin DOMAIN accounts \/ ListContains(accounts[seed].signers, p)
    BY <1>2, <1>5, <2>1 DEF AddMultisigSigner
  <2>2. CASE seed \in DOMAIN accounts /\ ~ListContains(accounts[seed].signers, p)
    <3> DEFINE account == [signers   |-> Append(accounts[seed].signers, p),
                           threshold |-> IF t # 0 THEN t ELSE accounts[seed].threshold]
    <3>1. accounts' = Put(accounts, seed, account) /\ proposals' = proposals
      BY <1>5, <2>2 DEF AddMultisigSigner
    <3>2. accounts[seed].signers \in Seq(People) /\ accounts[seed].threshold \in Nat \ {0}
      BY <2>2 DEF AccountsHaveSigners
    <3>3. /\ account.signers \in Seq(People) /\ Len(account.signers) > 0
          /\ ToSet(accounts[seed].signers) \subseteq ToSet(account.signers)
      BY <3>2, AppendedSigner
    <3>4. account.threshold \in Nat \ {0}
      BY <3>2, MultisigAssumption
    <3> HIDE DEF account
    <3> QED
      BY <3>1, <3>3, <3>4, AccountWritten DEF NothingIsProposed
  <2> QED
    BY <2>1, <2>2
<1>6. ASSUME Unimplemented PROVE Goal
  BY <1>2, <1>6 DEF Unimplemented
<1>7. ASSUME NEW p, NEW seed, NEW call, InitializeMultisigProposal(p, seed, call)
      PROVE  Goal
  BY <1>2, <1>7 DEF InitializeMultisigProposal
<1>8. ASSUME NEW p, NEW seed, NEW id, ApproveMultisigProposal(p, seed, id) PROVE Goal
  BY <1>2, <1>8 DEF ApproveMultisigProposal, NothingIsProposed
<1>9. ASSUME NEW p, NEW seed, NEW call, NEW id,
             ApproveAndDispatchMultisigProposal(p, seed, call, id)
      PROVE  Goal
  BY <1>2, <1>9 DEF ApproveAndDispatchMultisigProposal
<1>10. ASSUME ExportAndInitGenesis PROVE Goal
  BY <1>10 DEF ExportAndInitGenesis, Succeed, AccountsHaveSigners, NothingIsProposed, Kept
<1>11. ASSUME UNCHANGED vars PROVE Goal
  BY <1>1, <1>11 DEF vars, state
<1> QED
  BY <1>3, <1>4, <1>5, <1>6, <1>7, <1>8, <1>9, <1>10, <1>11 DEF Next

\* Initially there are no accounts and no proposals.
LEMMA MultisigInit == Init => AccountsHaveSigners /\ NothingIsProposed
  BY DEF Init, AccountsHaveSigners, NothingIsProposed

\* Whatever is sent and whoever sends it, no message takes an account away from its signers,
\* and none lets it be without a threshold: only the import of a genesis loses accounts.
THEOREM SignersAreKeptAlways == Spec => SignersAreKept
<1>1. AccountsHaveSigners /\ NothingIsProposed /\ [Next]_vars
        => (AccountsHaveSigners /\ NothingIsProposed)'
  BY MultisigStep
<1>2. AccountsHaveSigners /\ NothingIsProposed /\ [Next]_vars =>
        [answer'[1] = "Genesis" \/ \A seed \in DOMAIN accounts :
           /\ seed \in DOMAIN accounts'
           /\ ToSet(accounts[seed].signers) \subseteq ToSet(accounts'[seed].signers)
           /\ accounts'[seed].threshold >= 1]_vars
  BY MultisigStep DEF Kept
<1> QED
  BY MultisigInit, <1>1, <1>2, PTL DEF Spec, SignersAreKept

\* Whatever is sent, no proposal is ever stored: the only message that would insert one
\* panics before it does, and the table stays empty from genesis on.
THEOREM NothingIsProposedAlways == Spec => []NothingIsProposed
<1>1. AccountsHaveSigners /\ NothingIsProposed /\ [Next]_vars
        => (AccountsHaveSigners /\ NothingIsProposed)'
  BY MultisigStep
<1> QED
  BY MultisigInit, <1>1, PTL DEF Spec
=============================================================================
