----------------------------- MODULE ActionProofs -----------------------------
(***************************************************************************)
(* What a step of the program may never do: the action properties of       *)
(* Safety.tla, for any constants.                                          *)
(*                                                                         *)
(* Those about the account alone follow from Custody, which every step     *)
(* implements (CustodyProofs).  Those about its PDAs follow from what a    *)
(* step can do to the PDAs of one account (PdaStep), shown for each        *)
(* instruction, which also tells which instruction settled a commit or     *)
(* ended a session: the rest is that instruction's arithmetic.  The vaults *)
(* and the configurations are shown instruction by instruction.            *)
(***************************************************************************)
EXTENDS CustodyProofs, FiniteSetTheorems

-----------------------------------------------------------------------------
(* The account. *)

\* An account in custody changes, other than by receiving lamports, only when the
\* commit that pends for it is applied.
LEMMA CustodyStepIsFaithful ==
    ASSUME Inv, TypeOK', C!Next \/ UNCHANGED C!custodyVars, NEW a \in Accounts, IsDelegated(a),
           ~ SessionEnds(a),
           \/ delegatedAccount'[a].data # delegatedAccount[a].data
           \/ delegatedAccount'[a].lamports < delegatedAccount[a].lamports
    PROVE  /\ CommitIsConsumed(a)
           /\ \/ delegatedAccount'[a].data = commitState[a].data
              \/ delegatedAccount'[a] = Absent
  <1>1. /\ delegatedAccount \in [Accounts -> DelegatableAccount]
        /\ delegatedAccount[a] \in DelegatableAccount
        /\ delegatedAccount[a].lamports \in Nat
        /\ delegatedAccount'[a].lamports \in Nat
    BY AccountsAreTyped DEF Inv, TypeOK, DelegatableAccount
  <1>2. C!IsHeld(a) /\ custodyTerms[a] # {} /\ delegatedAccount[a].owner = Dlp
    BY HeldIsDelegated DEF C!IsHeld
  <1>3. PICK b \in Accounts :
          \/ \E owner \in Owners : C!Take(b, owner)
          \/ C!Propose(b)
          \/ C!Apply(b)
          \/ C!Return(b)
          \/ C!Receive(b)
          \/ C!AtHome(b)
    <2>1. ~ UNCHANGED C!custodyVars
      BY <1>1 DEF C!custodyVars
    <2> QED
      BY <2>1 DEF C!Next
  <1>4. ASSUME C!Apply(b) PROVE b = a
    <2> SUFFICES ASSUME b # a PROVE FALSE
      OBVIOUS
    <2>1. delegatedAccount'[a] = delegatedAccount[a]
      BY <1>1, <1>4 DEF C!Apply
    <2> QED
      BY <1>1, <2>1
  <1>5. CASE C!Apply(b)
    <2>1. PICK p \in custodyProposal[a] :
             \E lamports \in {p.lamports + (delegatedAccount[a].lamports - t.balance) : t \in custodyTerms[a]} :
                LET applied == [delegatedAccount[a] EXCEPT !.lamports = lamports, !.data = p.data]
                IN  delegatedAccount' = [delegatedAccount EXCEPT ![a] = C!Kept(applied)]
      BY <1>4, <1>5 DEF C!Apply
    <2>2. PICK lamports :
             delegatedAccount' = [delegatedAccount EXCEPT ![a] =
                 C!Kept([delegatedAccount[a] EXCEPT !.lamports = lamports, !.data = p.data])]
      BY <2>1
    <2>3. custodyProposal'[a] = {}
      BY <1>4, <1>5 DEF C!Apply, custodyProposal
    <2>4. ~ HasPendingCommit(a)'
      BY <2>3 DEF custodyProposal, ProposalOf
    <2>5. HasPendingCommit(a) /\ p.data = commitState[a].data
      <3>1. p \in ProposalOf(a)
        BY <2>1 DEF custodyProposal
      <3>2. HasPendingCommit(a)
        BY <3>1 DEF ProposalOf
      <3>3. p = [validator |-> commitRecord[a].data.identity,
                 slot      |-> commitRecord[a].data.slot,
                 lamports  |-> commitRecord[a].data.lamports,
                 data      |-> commitState[a].data]
        BY <3>1, <3>2 DEF ProposalOf
      <3> QED
        BY <3>2, <3>3
    <2>6. delegatedAccount'[a] =
             C!Kept([delegatedAccount[a] EXCEPT !.lamports = lamports, !.data = p.data])
      BY <1>1, <2>2
    <2>7. delegatedAccount'[a].data = p.data \/ delegatedAccount'[a] = Absent
      BY <1>1, <2>6 DEF C!Kept, DelegatableAccount
    <2> QED
      BY <2>4, <2>5, <2>7 DEF CommitIsConsumed
  <1>6. CASE \E owner \in Owners : C!Take(b, owner)
    <2>1. custodyTerms[b] = {}
      BY <1>6 DEF C!Take
    <2> QED
      BY <1>1, <1>2, <1>6, <2>1 DEF C!Take
  <1>7. CASE C!Propose(b)
    BY <1>1, <1>7 DEF C!Propose
  <1>8. CASE C!Return(b)
    <2>1. b # a
      <3> SUFFICES ASSUME b = a PROVE FALSE
        OBVIOUS
      <3>1. custodyTerms'[a] = {}
        BY <1>8 DEF C!Return, custodyTerms
      <3>2. InSession(a) /\ ~ InSession(a)'
        BY <1>2, <3>1 DEF custodyTerms, TermsOf, InSession
      <3> QED
        BY <3>2 DEF SessionEnds
    <2>2. delegatedAccount'[a] = delegatedAccount[a]
      BY <1>1, <1>8, <2>1 DEF C!Return
    <2> QED
      BY <1>1, <2>2
  <1>9. CASE C!Receive(b)
    <2>1. CASE b = a
      <3>1. delegatedAccount'[a].data = delegatedAccount[a].data
        BY <1>1, <1>9, <2>1 DEF C!Receive, DelegatableAccount
      <3>2. delegatedAccount'[a].lamports >= delegatedAccount[a].lamports
        BY <1>9, <2>1 DEF C!Receive
      <3> QED
        BY <1>1, <3>1, <3>2
    <2>2. CASE b # a
      <3>1. delegatedAccount'[a] = delegatedAccount[a]
        BY <1>1, <1>9, <2>2 DEF C!Receive
      <3> QED
        BY <1>1, <3>1
    <2> QED
      BY <2>1, <2>2
  <1>10. CASE C!AtHome(b)
    <2>1. b # a
      BY <1>2, <1>10 DEF C!AtHome
    <2>2. delegatedAccount'[a] = delegatedAccount[a]
      BY <1>1, <1>10, <2>1 DEF C!AtHome
    <2> QED
      BY <1>1, <2>2
  <1> QED
    BY <1>3, <1>5, <1>6, <1>7, <1>8, <1>9, <1>10

\* Whoever is taken keeps its lamports and contents, on the record as on the
\* account, and inherits no commit.
LEMMA CustodyStepTakesIntact ==
    ASSUME Inv, Inv', C!Next \/ UNCHANGED C!custodyVars, NEW a \in Accounts,
           ~ InSession(a), InSession(a)'
    PROVE  /\ delegatedAccount'[a].lamports = delegatedAccount[a].lamports
           /\ delegatedAccount'[a].data = delegatedAccount[a].data
           /\ DelegatedLamports(a)' = delegatedAccount[a].lamports
           /\ ~ HasPendingCommit(a)'
  <1> DEFINE Terms(owner) ==
        [owner |-> owner, balance |-> delegatedAccount[a].lamports, slot |-> 0, released |-> FALSE]
  <1>1. /\ delegatedAccount \in [Accounts -> DelegatableAccount]
        /\ delegatedAccount[a] \in DelegatableAccount
        /\ Safe(a)
    BY DEF Inv, TypeOK
  <1>2. custodyTerms[a] = {} /\ custodyTerms'[a] # {}
    BY DEF custodyTerms, TermsOf, InSession
  <1>3. custodyTerms' # custodyTerms
    BY <1>2
  <1>4. PICK b \in Accounts :
          \/ \E owner \in Owners : C!Take(b, owner)
          \/ C!Propose(b)
          \/ C!Apply(b)
          \/ C!Return(b)
    BY <1>3 DEF C!Next, C!custodyVars, C!Receive, C!AtHome
  <1>5. b = a
    <2> SUFFICES ASSUME b # a PROVE custodyTerms'[a] = custodyTerms[a]
      BY <1>2
    <2>1. CASE \E owner \in Owners : C!Take(b, owner)
      BY <2>1 DEF C!Take, custodyTerms
    <2>2. CASE C!Propose(b)
      BY <2>2 DEF C!Propose, custodyTerms
    <2>3. CASE C!Apply(b)
      BY <2>3 DEF C!Apply, custodyTerms
    <2>4. CASE C!Return(b)
      BY <2>4 DEF C!Return, custodyTerms
    <2> QED
      BY <1>4, <2>1, <2>2, <2>3, <2>4
  <1>6. PICK owner \in Owners : C!Take(a, owner)
    BY <1>2, <1>4, <1>5 DEF C!Propose, C!Apply, C!Return, C!IsHeld
  <1>7. delegatedAccount'[a] = C!Kept(delegatedAccount[a])
    BY <1>1, <1>6 DEF C!Take
  <1>8. delegatedAccount[a].lamports = 0 => delegatedAccount[a].data = Absent.data
    BY <1>1 DEF Safe, Absent, Account
  <1>9. /\ delegatedAccount'[a].lamports = delegatedAccount[a].lamports
        /\ delegatedAccount'[a].data = delegatedAccount[a].data
    BY <1>1, <1>7, <1>8 DEF C!Kept, DelegatableAccount, Absent, Account
  <1>10. custodyTerms'[a] = {Terms(owner)}
    BY <1>6 DEF C!Take, custodyTerms
  <1>11. TermsOf(a)' = {Terms(owner)}
    BY <1>10 DEF custodyTerms
  <1>12. DelegatedLamports(a)' = delegatedAccount[a].lamports
    <2> DEFINE now == [owner    |-> delegationRecord[a].data.owner,
                       balance  |-> delegationRecord[a].data.lamports,
                       slot     |-> delegationMetadata[a].data.lastUpdateSlot,
                       released |-> delegationMetadata[a].data.isUndelegatable]
    <2>1. TermsOf(a)' = {now'}
      BY DEF TermsOf, InSession
    <2>2. now'.balance = delegationRecord'[a].data.lamports
      OBVIOUS
    <2>3. Terms(owner).balance = delegatedAccount[a].lamports
      OBVIOUS
    <2> HIDE DEF now, Terms
    <2>4. now' = Terms(owner)
      BY <1>11, <2>1
    <2> QED
      BY <2>2, <2>3, <2>4 DEF DelegatedLamports
  <1>13. ~ HasPendingCommit(a)
    BY <1>1 DEF Safe, IsDelegated, InSession
  <1>14. ProposalOf(a)' = ProposalOf(a)
    BY <1>6 DEF C!Take, custodyProposal
  <1>15. ~ HasPendingCommit(a)'
    BY <1>13, <1>14 DEF ProposalOf
  <1> QED
    BY <1>9, <1>12, <1>15

-----------------------------------------------------------------------------
\* From a step of the program to one of Custody, and to the types after it.
LEMMA StepMaps ==
    ASSUME Inv, [Next]_vars
    PROVE  Inv' /\ TypeOK' /\ (C!Next \/ UNCHANGED C!custodyVars)
  <1>1. Inv'
    BY NextKeepsInv, UnchangedKeepsInv
  <1> QED
    BY <1>1, NextMaps, StutterMaps DEF Inv

\* So every step of the program is faithful to custody.
LEMMA StepsAreFaithful ==
    []Inv /\ [][Next]_vars => CustodyIsFaithful
  <1>1. Inv /\ [Next]_vars =>
          [\A a \in Accounts :
             IsDelegated(a) /\ ~ SessionEnds(a)
                /\ (delegatedAccount'[a].data # delegatedAccount[a].data
                       \/ delegatedAccount'[a].lamports < delegatedAccount[a].lamports)
             => /\ CommitIsConsumed(a)
                /\ \/ delegatedAccount'[a].data = commitState[a].data
                   \/ delegatedAccount'[a] = Absent]_vars
    BY StepMaps, CustodyStepIsFaithful
  <1> QED
    BY <1>1, PTL DEF CustodyIsFaithful

\* And every step that begins a session takes the account as it is.
LEMMA StepsTakeIntact ==
    []Inv /\ [][Next]_vars => AccountIsTakenIntact
  <1>1. Inv /\ [Next]_vars =>
          [\A a \in Accounts :
             ~ InSession(a) /\ InSession(a)' =>
               /\ delegatedAccount'[a].lamports = delegatedAccount[a].lamports
               /\ delegatedAccount'[a].data = delegatedAccount[a].data
               /\ DelegatedLamports(a)' = delegatedAccount[a].lamports
               /\ ~ HasPendingCommit(a)']_vars
    BY StepMaps, CustodyStepTakesIntact
  <1> QED
    BY <1>1, PTL DEF AccountIsTakenIntact

-----------------------------------------------------------------------------
(* The PDAs. *)

\* What a step does to the PDAs of one account.  It is in no session, and if one
\* begins nobody released the account yet and a PDA is taken for the program it is
\* derived from; or
OutOfSession(a) ==
    /\ ~ InSession(a)
    /\ InSession(a)' =>
          /\ ~ delegationMetadata'[a].data.isUndelegatable
          /\ a \notin OnCurve => delegationRecord'[a].data.owner = OwnerProgram[a]

\* nothing happens to its PDAs but that someone sends lamports to the commit state; or
PdasAreKept(a) ==
    /\ delegationRecord'[a] = delegationRecord[a]
    /\ delegationMetadata'[a] = delegationMetadata[a]
    /\ commitRecord'[a] = commitRecord[a]
    /\ commitState'[a].owner = commitState[a].owner
    /\ commitState'[a].data = commitState[a].data
    /\ commitState'[a].lamports >= commitState[a].lamports

\* a commit is accepted, when none pends and none released the account yet; or
CommitArrives(a) ==
    /\ ~ HasPendingCommit(a) /\ HasPendingCommit(a)'
    /\ delegationRecord'[a] = delegationRecord[a]
    /\ ~ delegationMetadata[a].data.isUndelegatable
    /\ delegationMetadata'[a].owner = delegationMetadata[a].owner
    /\ delegationMetadata'[a].data.lastUpdateSlot = delegationMetadata[a].data.lastUpdateSlot
    /\ delegationMetadata'[a].data.rentPayer = delegationMetadata[a].data.rentPayer

\* it is finalized; or
CommitLeaves(a) ==
    /\ CommitIsConsumed(a)
    /\ \E v \in Validators : Finalize(v, a)
    /\ delegationMetadata'[a].owner = delegationMetadata[a].owner
    /\ delegationMetadata'[a].data.lastUpdateSlot = commitRecord[a].data.slot
    /\ delegationMetadata'[a].data.isUndelegatable = delegationMetadata[a].data.isUndelegatable
    /\ delegationMetadata'[a].data.rentPayer = delegationMetadata[a].data.rentPayer

\* the session ends.
AccountLeaves(a) ==
    /\ ~ InSession(a)'
    /\ \E v \in Validators, program \in Owners, reimbursed \in Wallets :
          \/ UndelegateEmpty(v, a, program, reimbursed)
          \/ UndelegateViaCpi(v, a, program, reimbursed)

PdaStep(a) ==
    \/ OutOfSession(a)
    \/ AccountLeaves(a)
    \/ PdasAreKept(a)
    \/ CommitArrives(a)
    \/ CommitLeaves(a)

\* An instruction that writes no PDA of the account keeps them.
LEMMA SamePdasAreKept ==
    ASSUME Inv, NEW a \in Accounts, delegationRecord'[a] = delegationRecord[a],
           delegationMetadata'[a] = delegationMetadata[a],
           commitState'[a] = commitState[a], commitRecord'[a] = commitRecord[a]
    PROVE  PdaStep(a)
  <1>1. commitState[a].lamports \in Nat
    BY AccountsAreTyped DEF Inv, Typed
  <1> QED
    BY <1>1 DEF PdaStep, PdasAreKept

\* A delegation is of an account that is in no session, so it leaves those that are.
LEMMA DelegatePdas ==
    ASSUME Inv, NEW b \in Accounts, NEW a \in Accounts, NEW payer \in Wallets,
           NEW program \in Owners, NEW handed, NEW taken,
           ProcessDelegate(payer, b, program, handed, taken)
    PROVE  PdaStep(a)
  <1>1. CASE a = b
    <2>1. ~ InSession(a)
      BY <1>1, ProgramsDiffer DEF ProcessDelegate, InSession, IsInitialized, IsUninitialized
    <2>2. delegationMetadata'[a].data.isUndelegatable = FALSE
      BY <1>1 DEF ProcessDelegate, CreatedPda, Account, Inv, TypeOK
    <2>3. delegationRecord'[a].data.owner = program
      BY <1>1 DEF ProcessDelegate, CreatedPda, Account, Inv, TypeOK
    <2>4. a \notin OnCurve => program = OwnerProgram[a]
      BY <1>1 DEF ProcessDelegate
    <2> QED
      BY <2>1, <2>2, <2>3, <2>4 DEF PdaStep, OutOfSession
  <1>2. CASE a # b
    <2>1. /\ delegationRecord'[a] = delegationRecord[a]
          /\ delegationMetadata'[a] = delegationMetadata[a]
          /\ commitState'[a] = commitState[a]
          /\ commitRecord'[a] = commitRecord[a]
      BY <1>2 DEF ProcessDelegate, commitPdas, Inv, TypeOK
    <2> QED
      BY <2>1, SamePdasAreKept
  <1> QED
    BY <1>1, <1>2

\* Undelegation ends the session of its account, and of no other.
LEMMA UndelegatePdas ==
    ASSUME Inv, NEW b \in Accounts, NEW a \in Accounts, NEW v \in Validators,
           NEW program \in Owners, NEW reimbursed \in Wallets,
           \/ UndelegateEmpty(v, b, program, reimbursed)
           \/ UndelegateViaCpi(v, b, program, reimbursed)
    PROVE  PdaStep(a)
  <1>1. /\ delegationRecord' = [delegationRecord EXCEPT ![b] = Absent]
        /\ delegationMetadata' = [delegationMetadata EXCEPT ![b] = Absent]
        /\ UNCHANGED <<commitState, commitRecord>>
    BY UndelegateWrites DEF Cleanup, commitPdas
  <1>2. CASE a = b
    <2>1. delegationRecord'[a] = Absent
      BY <1>1, <1>2 DEF Inv, TypeOK
    <2> QED
      BY <1>2, <2>1, AbsentIsUninitialized DEF PdaStep, AccountLeaves, InSession
  <1>3. CASE a # b
    <2>1. /\ delegationRecord'[a] = delegationRecord[a]
          /\ delegationMetadata'[a] = delegationMetadata[a]
      BY <1>1, <1>3 DEF Inv, TypeOK
    <2> QED
      BY <1>1, <2>1, SamePdasAreKept
  <1> QED
    BY <1>2, <1>3

\* A commit is accepted for one account, which has none pending and is not released.
LEMMA CommitPdas ==
    ASSUME Inv, NEW b \in Accounts, NEW a \in Accounts, NEW v \in Validators,
           NEW args \in CommitArgs(Data), CommitStateInternal(v, b, args)
    PROVE  PdaStep(a)
  <1>1. /\ NoPendingCommit(b)
        /\ ~ delegationMetadata[b].data.isUndelegatable
        /\ delegationMetadata' =
              [delegationMetadata EXCEPT ![b].data.isUndelegatable = args.allowUndelegation]
    BY DEF CommitStateInternal
  <1>2. CASE a = b
    <2>1. InSession(a) => delegationMetadata[a].data \in MetadataData
      BY AccountsAreTyped DEF Inv, Safe, Typed, InSession
    <2>2. ~ HasPendingCommit(a)
      BY <1>1, <1>2, ProgramsDiffer
      DEF NoPendingCommit, HasPendingCommit, IsInitialized, IsUninitialized
    <2>3. delegationMetadata'[a] =
             [delegationMetadata[a] EXCEPT !.data =
                [delegationMetadata[a].data EXCEPT !.isUndelegatable = args.allowUndelegation]]
      BY <1>1, <1>2 DEF Inv, TypeOK
    <2>4. InSession(a) =>
             /\ delegationMetadata'[a].owner = delegationMetadata[a].owner
             /\ delegationMetadata'[a].data.lastUpdateSlot = delegationMetadata[a].data.lastUpdateSlot
             /\ delegationMetadata'[a].data.rentPayer = delegationMetadata[a].data.rentPayer
      <3>1. delegationMetadata[a] \in Pda(MetadataData)
        BY DEF Inv, TypeOK
      <3> QED
        BY <2>1, <2>3, <3>1 DEF Pda, MetadataData
    <2>5. IsInitialized(commitState'[a]) /\ IsInitialized(commitRecord'[a])
      BY <1>2 DEF CommitStateInternal, CreatedPda, Account, IsInitialized, Inv, TypeOK
    <2>6. delegationRecord'[a] = delegationRecord[a]
      BY DEF CommitStateInternal
    <2>7. CASE InSession(a)
      BY <1>1, <1>2, <2>2, <2>4, <2>5, <2>6, <2>7 DEF PdaStep, CommitArrives, HasPendingCommit
    <2>8. CASE ~ InSession(a)
      BY <2>6, <2>8 DEF PdaStep, OutOfSession, InSession, IsInitialized
    <2> QED
      BY <2>7, <2>8
  <1>3. CASE a # b
    <2>1. delegationRecord'[a] = delegationRecord[a] /\ delegationMetadata'[a] = delegationMetadata[a]
      BY <1>1, <1>3 DEF Inv, TypeOK, CommitStateInternal
    <2>2. commitState'[a] = commitState[a] /\ commitRecord'[a] = commitRecord[a]
      BY <1>3 DEF CommitStateInternal, Inv, TypeOK
    <2> QED
      BY <2>1, <2>2, SamePdasAreKept
  <1> QED
    BY <1>2, <1>3

\* Finalizing consumes the commit of its account, and of no other.
LEMMA FinalizePdas ==
    ASSUME Inv, NEW b \in Accounts, NEW a \in Accounts, NEW v \in Validators, Finalize(v, b)
    PROVE  PdaStep(a)
  <1>1. /\ HasPendingCommit(b)
        /\ delegationMetadata' =
              [delegationMetadata EXCEPT ![b].data.lastUpdateSlot = commitRecord[b].data.slot]
        /\ commitState' = [commitState EXCEPT ![b] = Absent]
        /\ commitRecord' = [commitRecord EXCEPT ![b] = Absent]
    BY DEF Finalize, ProcessFinalize
  <1>2. CASE a = b
    <2>1. delegationMetadata[a].data \in MetadataData /\ delegationMetadata[a] \in Pda(MetadataData)
      BY <1>1, <1>2, AccountsAreTyped DEF Inv, TypeOK, Safe, Typed, IsDelegated
    <2>2. delegationMetadata'[a] =
             [delegationMetadata[a] EXCEPT !.data =
                [delegationMetadata[a].data EXCEPT !.lastUpdateSlot = commitRecord[a].data.slot]]
      BY <1>1, <1>2 DEF Inv, TypeOK
    <2>3. /\ delegationMetadata'[a].owner = delegationMetadata[a].owner
          /\ delegationMetadata'[a].data.lastUpdateSlot = commitRecord[a].data.slot
          /\ delegationMetadata'[a].data.isUndelegatable = delegationMetadata[a].data.isUndelegatable
          /\ delegationMetadata'[a].data.rentPayer = delegationMetadata[a].data.rentPayer
      BY <2>1, <2>2 DEF Pda, MetadataData
    <2>4. commitState'[a] = Absent
      BY <1>1, <1>2 DEF Inv, TypeOK
    <2>5. ~ HasPendingCommit(a)'
      BY <2>4, AbsentIsUninitialized DEF HasPendingCommit
    <2> QED
      BY <1>1, <1>2, <2>3, <2>5 DEF PdaStep, CommitLeaves, CommitIsConsumed
  <1>3. CASE a # b
    <2>1. /\ delegationRecord'[a] = delegationRecord[a]
          /\ delegationMetadata'[a] = delegationMetadata[a]
          /\ commitState'[a] = commitState[a]
          /\ commitRecord'[a] = commitRecord[a]
      BY <1>1, <1>3 DEF Inv, TypeOK, Finalize, ProcessFinalize
    <2> QED
      BY <2>1, SamePdasAreKept
  <1> QED
    BY <1>2, <1>3

\* Sending lamports to a commit state keeps what it proposes.
LEMMA DepositToCommitStatePdas ==
    ASSUME Inv, NEW b \in Accounts, NEW a \in Accounts, NEW payer \in Depositors,
           NEW amount \in Deposits, DepositToCommitState(payer, b, amount)
    PROVE  PdaStep(a)
  <1> DEFINE credited == [commitState[b] EXCEPT !.lamports = @ + amount]
  <1>1. /\ commitState' = [commitState EXCEPT ![b] = credited]
        /\ UNCHANGED <<delegationRecord, delegationMetadata, commitRecord>>
    BY DEF DepositToCommitState, delegationPdas
  <1>2. commitState[b] \in Pda(Data) /\ commitState[b].lamports \in Nat /\ amount \in Nat
    BY AccountsAreTyped, DepositsAssumption DEF Inv, TypeOK, Typed
  <1>3. /\ credited.owner = commitState[b].owner
        /\ credited.data = commitState[b].data
        /\ credited.lamports >= commitState[b].lamports
    BY <1>2 DEF Pda
  <1> HIDE DEF credited
  <1>4. CASE a = b
    <2>1. commitState'[a] = credited
      BY <1>1, <1>4 DEF Inv, TypeOK
    <2> QED
      BY <1>1, <1>3, <1>4, <2>1 DEF PdaStep, PdasAreKept
  <1>5. CASE a # b
    <2>1. commitState'[a] = commitState[a]
      BY <1>1, <1>5 DEF Inv, TypeOK
    <2> QED
      BY <1>1, <2>1, SamePdasAreKept
  <1> QED
    BY <1>4, <1>5

\* Every step of the program does one of these.
LEMMA NextIsPdaStep ==
    ASSUME Inv, [Next]_vars, NEW a \in Accounts
    PROVE  PdaStep(a)
  <1>1. ASSUME UNCHANGED <<delegationPdas, commitPdas>> PROVE PdaStep(a)
    BY <1>1, SamePdasAreKept DEF delegationPdas, commitPdas
  <1>2. CASE DelegationNext
    <2>1. ASSUME NEW b \in Accounts, NEW payer \in Wallets, NEW program \in Owners,
                 Delegate(payer, b, program)
          PROVE  PdaStep(a)
      <3>1. \E handed, taken : ProcessDelegate(payer, b, program, handed, taken)
        BY <2>1 DEF Delegate
      <3> QED
        BY <3>1, DelegatePdas
    <2> QED
      BY <1>2, <2>1, UndelegatePdas DEF DelegationNext
  <1>3. CASE CommitNext
    <2> PICK v \in Validators, b \in Accounts :
          \/ CommitState(v, b)
          \/ CommitStateFromBuffer(v, b)
          \/ CommitOutdated(v, b)
          \/ Finalize(v, b)
          \/ FinalizeNothing(v, b)
      BY <1>3 DEF CommitNext
    <2>1. CASE CommitState(v, b) \/ CommitStateFromBuffer(v, b)
      <3>1. PICK args \in CommitArgs(InlineData) \cup CommitArgs(BufferData) :
               CommitStateInternal(v, b, args)
        BY <2>1 DEF CommitState, CommitStateFromBuffer
      <3>2. args \in CommitArgs(Data)
        BY <3>1, CommitAssumption DEF CommitArgs
      <3> QED
        BY <3>1, <3>2, CommitPdas
    <2>2. CASE Finalize(v, b)
      BY <2>2, FinalizePdas
    <2>3. CASE CommitOutdated(v, b) \/ FinalizeNothing(v, b)
      <3>1. UNCHANGED <<delegationPdas, commitPdas>>
        BY <2>3 DEF CommitOutdated, FinalizeNothing, vars
      <3> QED
        BY <1>1, <3>1
    <2> QED
      BY <2>1, <2>2, <2>3
  <1>4. CASE EnvironmentNext
    <2>1. ASSUME NEW b \in Accounts, NEW payer \in Depositors, NEW amount \in Deposits,
                 Deposit(payer, b, amount)
          PROVE  PdaStep(a)
      BY <1>1, <2>1 DEF Deposit
    <2>2. ASSUME NEW b \in Accounts, NEW data \in Data, OwnerWrite(b, data)
          PROVE  PdaStep(a)
      BY <1>1, <2>2 DEF OwnerWrite
    <2>3. ASSUME NEW b \in Accounts, NEW data \in Data, NEW payer \in Wallets,
                 OwnerCreate(payer, b, data)
          PROVE  PdaStep(a)
      BY <1>1, <2>3 DEF OwnerCreate
    <2> QED
      BY <1>4, <2>1, <2>2, <2>3, DepositToCommitStatePdas DEF EnvironmentNext
  <1>5. CASE FeesVaultsNext \/ ProgramConfigNext
    BY <1>1, <1>5, FeesLeaveDelegations
  <1>6. CASE EphemeralBalanceNext
    <2>1. ASSUME NEW b \in Accounts, NEW payer \in Wallets, NEW pubkey \in Wallets,
                 DelegateEphemeralBalance(payer, pubkey, b)
          PROVE  PdaStep(a)
      <3>1. \E handed, taken : ProcessDelegate(payer, b, SystemProgram, handed, taken)
        BY <2>1 DEF DelegateEphemeralBalance
      <3>2. SystemProgram \in Owners
        BY DEF Owners
      <3> QED
        BY <3>1, <3>2, DelegatePdas
    <2>2. ASSUME NEW b \in Accounts, NEW payer \in Wallets, NEW amount \in TopUpAmounts,
                 TopUpEphemeralBalance(payer, b, amount)
          PROVE  PdaStep(a)
      BY <1>1, <2>2 DEF TopUpEphemeralBalance
    <2>3. ASSUME NEW b \in Accounts, NEW payer \in Wallets, CloseEphemeralBalance(payer, b)
          PROVE  PdaStep(a)
      BY <1>1, <2>3 DEF CloseEphemeralBalance
    <2> QED
      BY <1>6, <2>1, <2>2, <2>3 DEF EphemeralBalanceNext
  <1>7. CASE UNCHANGED vars
    BY <1>1, <1>7 DEF vars
  <1> QED
    BY <1>2, <1>3, <1>4, <1>5, <1>6, <1>7 DEF Next, SessionNext

\* The account of a PDA is held for the program its key is derived from.
OwnersAreDerived ==
    \A a \in Accounts \ OnCurve :
        InSession(a) => delegationRecord[a].data.owner = OwnerProgram[a]

\* No step changes whom a held account is held for.
LEMMA StepKeepsOwners ==
    ASSUME Inv, OwnersAreDerived, [Next]_vars
    PROVE  OwnersAreDerived'
  <1> SUFFICES ASSUME NEW a \in Accounts \ OnCurve, InSession(a)'
               PROVE  delegationRecord'[a].data.owner = OwnerProgram[a]
    BY DEF OwnersAreDerived
  <1>1. PdaStep(a)
    BY NextIsPdaStep
  <1>2. CASE OutOfSession(a)
    BY <1>2 DEF OutOfSession
  <1>3. CASE PdasAreKept(a) \/ CommitArrives(a)
    BY <1>3 DEF PdasAreKept, CommitArrives, OwnersAreDerived, InSession
  <1>4. CASE CommitLeaves(a)
    <2>1. PICK v \in Validators : Finalize(v, a)
      BY <1>4 DEF CommitLeaves
    <2>2. delegationRecord'[a] = SettledRecord(delegationRecord[a], SettledAccount(a).lamports)
      BY <2>1 DEF Finalize, ProcessFinalize, Inv, TypeOK
    <2>3. InSession(a)
      BY <2>1 DEF Finalize, ProcessFinalize, IsDelegated, InSession, Inv, Safe
    <2>4. delegationRecord[a] \in Pda(RecordData) /\ delegationRecord[a].data \in RecordData
      BY <2>3, AccountsAreTyped DEF Inv, TypeOK, Typed, InSession
    <2>5. delegationRecord'[a].data.owner = delegationRecord[a].data.owner
      BY <2>2, <2>4 DEF SettledRecord, Pda, RecordData
    <2> QED
      BY <2>3, <2>5 DEF OwnersAreDerived
  <1> QED
    BY <1>1, <1>2, <1>3, <1>4 DEF PdaStep, AccountLeaves

\* So accounts are held for their programs throughout, from no session at all.
LEMMA OwnersStayDerived == Spec => []OwnersAreDerived
  <1>1. Init => OwnersAreDerived
    BY AbsentIsUninitialized DEF Init, AccountsInit, OwnersAreDerived, InSession
  <1>2. OwnersAreDerived /\ Inv /\ [Next]_vars => OwnersAreDerived'
    BY StepKeepsOwners
  <1> QED
    BY <1>1, <1>2, ProgramKeepsInv, PTL DEF Spec

\* A commit that a step does not consume is kept as it is.
LEMMA StepKeepsPendingCommit ==
    ASSUME Inv, [Next]_vars, NEW a \in Accounts, HasPendingCommit(a), ~ CommitIsConsumed(a)
    PROVE  /\ commitRecord'[a] = commitRecord[a]
           /\ commitState'[a].data = commitState[a].data
           /\ commitState'[a].lamports >= commitState[a].lamports
  <1>1. Safe(a) /\ Safe(a)'
    BY StepMaps DEF Inv
  <1>2. InSession(a) /\ InSession(a)'
    BY <1>1 DEF Safe, IsDelegated, InSession, CommitIsConsumed
  <1>3. PdaStep(a)
    BY NextIsPdaStep
  <1> QED
    BY <1>2, <1>3 DEF PdaStep, OutOfSession, PdasAreKept, CommitArrives, CommitLeaves, AccountLeaves

\* No step but the one that consumes a pending commit touches it.
LEMMA StepsKeepPendingCommits ==
    []Inv /\ [][Next]_vars => PendingCommitIsImmutable
  <1>1. Inv /\ [Next]_vars =>
          [\A a \in Accounts :
             HasPendingCommit(a) /\ ~ CommitIsConsumed(a) =>
               /\ commitRecord'[a] = commitRecord[a]
               /\ commitState'[a].data = commitState[a].data
               /\ commitState'[a].lamports >= commitState[a].lamports]_vars
    BY StepKeepsPendingCommit
  <1> QED
    BY <1>1, PTL DEF PendingCommitIsImmutable

\* No step takes a session back to an earlier slot, payer or release.
LEMMA StepsMoveForward ==
    []Inv /\ [][Next]_vars => SessionMovesForward
  <1>1. ASSUME Inv, [Next]_vars, NEW a \in Accounts, InSession(a), InSession(a)'
        PROVE  LET old == delegationMetadata[a].data
                   new == delegationMetadata'[a].data
               IN  /\ new.lastUpdateSlot >= old.lastUpdateSlot
                   /\ new.rentPayer = old.rentPayer
                   /\ old.isUndelegatable =>
                         /\ new.isUndelegatable
                         /\ HasPendingCommit(a)' => HasPendingCommit(a)
    <2>1. Safe(a) /\ PdaStep(a)
      BY <1>1, NextIsPdaStep DEF Inv
    <2>2. delegationMetadata[a].data.lastUpdateSlot \in Nat
      BY <1>1, <2>1, AccountsAreTyped DEF Inv, Safe, Typed, InSession
    <2>3. CASE PdasAreKept(a)
      BY <2>2, <2>3 DEF PdasAreKept, HasPendingCommit, IsInitialized
    <2>4. CASE CommitArrives(a)
      <3>1. ~ delegationMetadata[a].data.isUndelegatable
        BY <2>4 DEF CommitArrives
      <3> QED
        BY <2>2, <2>4, <3>1 DEF CommitArrives
    <2>5. CASE CommitLeaves(a)
      <3>1. delegationMetadata'[a].data.lastUpdateSlot >= delegationMetadata[a].data.lastUpdateSlot
        BY <2>1, <2>5 DEF CommitLeaves, CommitIsConsumed, Safe
      <3>2. /\ delegationMetadata'[a].data.isUndelegatable = delegationMetadata[a].data.isUndelegatable
            /\ delegationMetadata'[a].data.rentPayer = delegationMetadata[a].data.rentPayer
        BY <2>5 DEF CommitLeaves
      <3>3. ~ HasPendingCommit(a)'
        BY <2>5 DEF CommitLeaves, CommitIsConsumed
      <3> QED
        BY <3>1, <3>2, <3>3
    <2> QED
      BY <1>1, <2>1, <2>3, <2>4, <2>5 DEF PdaStep, OutOfSession, AccountLeaves
  <1>2. Inv /\ [Next]_vars =>
          [\A a \in Accounts :
             InSession(a) /\ InSession(a)' =>
               LET old == delegationMetadata[a].data
                   new == delegationMetadata'[a].data
               IN  /\ new.lastUpdateSlot >= old.lastUpdateSlot
                   /\ new.rentPayer = old.rentPayer
                   /\ old.isUndelegatable =>
                         /\ new.isUndelegatable
                         /\ HasPendingCommit(a)' => HasPendingCommit(a)]_vars
    BY <1>1
  <1> QED
    BY <1>2, PTL DEF SessionMovesForward

-----------------------------------------------------------------------------
(* Settlements and returns: which instruction it was, and its arithmetic. *)

\* The instruction that consumed a commit is Finalize.
LEMMA OnlyFinalizeConsumes ==
    ASSUME Inv, [Next]_vars, NEW a \in Accounts, CommitIsConsumed(a)
    PROVE  \E v \in Validators : Finalize(v, a)
  <1>1. Safe(a) /\ PdaStep(a)
    BY NextIsPdaStep DEF Inv
  <1>2. InSession(a)
    BY <1>1 DEF Safe, IsDelegated, InSession, CommitIsConsumed
  <1>3. ~ PdasAreKept(a) /\ ~ CommitArrives(a)
    BY DEF PdasAreKept, CommitArrives, CommitIsConsumed, HasPendingCommit, IsInitialized
  <1>4. ~ AccountLeaves(a)
    BY ProgramsDiffer
    DEF AccountLeaves, UndelegateEmpty, UndelegateViaCpi, CallOwnerProgram, CanUndelegate, NoPendingCommit,
        CommitIsConsumed, HasPendingCommit, IsInitialized, IsUninitialized
  <1> QED
    BY <1>1, <1>2, <1>3, <1>4 DEF PdaStep, OutOfSession, CommitLeaves

\* The instruction that ended a session is one of the two ways to undelegate.
LEMMA OnlyUndelegateEnds ==
    ASSUME Inv, [Next]_vars, NEW a \in Accounts, SessionEnds(a)
    PROVE  \E v \in Validators, program \in Owners, reimbursed \in Wallets :
              \/ UndelegateEmpty(v, a, program, reimbursed)
              \/ UndelegateViaCpi(v, a, program, reimbursed)
  <1>1. Safe(a) /\ Safe(a)' /\ PdaStep(a)
    BY NextIsPdaStep, StepMaps DEF Inv
  <1>2. InSession(a) /\ ~ InSession(a)'
    BY DEF SessionEnds
  <1>3. IsInitialized(delegationMetadata[a]) /\ ~ IsInitialized(delegationMetadata'[a])
    BY <1>1, <1>2 DEF Safe, InSession
  <1> QED
    BY <1>1, <1>2, <1>3
    DEF PdaStep, OutOfSession, PdasAreKept, CommitArrives, CommitLeaves, AccountLeaves, IsInitialized

\* What Finalize does to the account, its record and metadata, the validator's vault
\* and the validator's wallet adds up.
LEMMA FinalizeIsExact ==
    ASSUME Inv, NEW a \in Accounts, NEW v \in Validators, Finalize(v, a)
    PROVE  LET commit == commitRecord[a].data
               recorded == DelegatedLamports(a)
               deposited == delegatedAccount[a].lamports - recorded
               advanced == commitState[a].lamports + commitRecord[a].lamports
           IN  /\ commit.identity = v
               /\ delegatedAccount'[a].lamports = commit.lamports + deposited
               /\ DelegatedLamports(a)' = commit.lamports + deposited
               /\ (wallet'[v] - wallet[v])
                    + (validatorFeesVault'[v].lamports - validatorFeesVault[v].lamports)
                     = advanced + recorded - commit.lamports
               /\ wallet'[v] <= wallet[v] + advanced
               /\ delegationMetadata'[a].data.lastUpdateSlot = commit.slot
  <1> DEFINE commit == commitRecord[a].data
             recorded == DelegatedLamports(a)
             settlement == Settlement(recorded, commit.lamports)
             settled == SettledAccount(a)
             lamports == delegatedAccount[a].lamports - settlement.toVault + settlement.toAccount
             leftover == commitState[a].lamports - settlement.toAccount + commitRecord[a].lamports
  <1>1. /\ HasPendingCommit(a) /\ IsDelegated(a)
        /\ commit.identity = v
        /\ delegatedAccount' = [delegatedAccount EXCEPT ![a] = Purged(settled)]
        /\ delegationRecord' =
              [delegationRecord EXCEPT ![a] = SettledRecord(@, settled.lamports)]
        /\ delegationMetadata' = [delegationMetadata EXCEPT ![a].data.lastUpdateSlot = commit.slot]
        /\ validatorFeesVault' = [validatorFeesVault EXCEPT ![v].lamports = @ + settlement.toVault]
        /\ wallet' = [wallet EXCEPT ![v] = @ + leftover]
    BY DEF Finalize, ProcessFinalize
  <1>2. Safe(a) /\ Typed(a)
    BY AccountsAreTyped DEF Inv
  <1>3. /\ delegatedAccount[a] \in DelegatableAccount
        /\ delegationRecord[a] \in Pda(RecordData)
        /\ delegationMetadata[a] \in Pda(MetadataData)
        /\ validatorFeesVault[v] \in Pda(VaultData)
        /\ validatorFeesVault[v].lamports \in Nat
        /\ v \in Wallets /\ wallet[v] \in Nat
    BY PdaContents, LedgerAssumption DEF Inv, TypeOK
  <1>4. /\ delegatedAccount[a].lamports \in Nat
        /\ recorded \in Nat /\ commit.lamports \in Nat
        /\ commitState[a].lamports \in Nat /\ commitRecord[a].lamports \in Nat
        /\ delegationRecord[a].data \in RecordData
        /\ delegationMetadata[a].data \in MetadataData
    BY <1>1, <1>2 DEF Typed, IsDelegated, HasPendingCommit
  <1>5. settled.lamports = lamports
    BY <1>3 DEF SettledAccount, DelegatableAccount
  <1>6. /\ settlement.toVault \in Nat /\ settlement.toAccount \in Nat
        /\ settlement.toVault - settlement.toAccount = recorded - commit.lamports
    BY <1>4 DEF Settlement
  <1> HIDE DEF settlement
  <1>7. lamports = commit.lamports + (delegatedAccount[a].lamports - recorded) /\ lamports \in Int
    <2> HIDE DEF commit, recorded
    <2> DEFINE balance == delegatedAccount[a].lamports
               toVault == settlement.toVault
               toAccount == settlement.toAccount
               committed == commit.lamports
    <2>1. /\ balance \in Nat /\ recorded \in Nat /\ committed \in Nat
          /\ toVault \in Nat /\ toAccount \in Nat
          /\ toVault - toAccount = recorded - committed
      BY <1>4, <1>6
    <2>2. lamports = balance - toVault + toAccount
      OBVIOUS
    <2> HIDE DEF lamports, balance, toVault, toAccount, committed
    <2>3. lamports = committed + (balance - recorded) /\ lamports \in Int
      BY <2>1, <2>2
    <2> QED
      BY <2>3 DEF balance, committed
  <1>8. delegatedAccount'[a].lamports = lamports
    <2> HIDE DEF settled, lamports
    <2>1. delegatedAccount'[a] = Purged(settled)
      BY <1>1 DEF Inv, TypeOK
    <2> QED
      BY <1>5, <2>1 DEF Purged, Absent, Account
  <1>9. DelegatedLamports(a)' = lamports
    <2> HIDE DEF settled, lamports
    <2>1. delegationRecord'[a] = SettledRecord(delegationRecord[a], lamports)
      BY <1>1, <1>5 DEF Inv, TypeOK
    <2> QED
      BY <1>3, <1>4, <2>1 DEF SettledRecord, DelegatedLamports, Pda, RecordData
  <1>10. delegationMetadata'[a].data.lastUpdateSlot = commit.slot
    <2>1. delegationMetadata'[a] =
             [delegationMetadata[a] EXCEPT !.data =
                [delegationMetadata[a].data EXCEPT !.lastUpdateSlot = commit.slot]]
      BY <1>1 DEF Inv, TypeOK
    <2> QED
      BY <1>3, <1>4, <2>1 DEF Pda, MetadataData
  <1>11. validatorFeesVault'[v].lamports = validatorFeesVault[v].lamports + settlement.toVault
    <2>1. validatorFeesVault'[v] =
             [validatorFeesVault[v] EXCEPT !.lamports = @ + settlement.toVault]
      BY <1>1 DEF Inv, TypeOK
    <2> QED
      BY <1>3, <2>1 DEF Pda
  <1>12. wallet'[v] = wallet[v] + leftover
    BY <1>1, <1>3 DEF Inv, TypeOK
  <1>13. /\ (wallet'[v] - wallet[v])
              + (validatorFeesVault'[v].lamports - validatorFeesVault[v].lamports)
               = commitState[a].lamports + commitRecord[a].lamports + recorded - commit.lamports
         /\ wallet'[v] <= wallet[v] + (commitState[a].lamports + commitRecord[a].lamports)
    <2> DEFINE paid == validatorFeesVault'[v].lamports
               left == wallet'[v]
    <2>1. paid = validatorFeesVault[v].lamports + settlement.toVault /\ left = wallet[v] + leftover
      BY <1>11, <1>12
    <2> HIDE DEF paid, left, commit, recorded
    <2>2. /\ (left - wallet[v]) + (paid - validatorFeesVault[v].lamports)
                = commitState[a].lamports + commitRecord[a].lamports + recorded - commit.lamports
          /\ left <= wallet[v] + (commitState[a].lamports + commitRecord[a].lamports)
      BY <1>3, <1>4, <1>6, <2>1
    <2> QED
      BY <2>2 DEF paid, left
  <1> QED
    BY <1>1, <1>7, <1>8, <1>9, <1>10, <1>13

\* So every step that consumes a commit settles it exactly.
LEMMA StepsSettleExactly ==
    []Inv /\ [][Next]_vars => SettlementIsExact
  <1>1. ASSUME Inv, [Next]_vars, NEW a \in Accounts, CommitIsConsumed(a)
        PROVE  LET commit == commitRecord[a].data
                   recorded == DelegatedLamports(a)
                   deposited == delegatedAccount[a].lamports - recorded
                   advanced == commitState[a].lamports + commitRecord[a].lamports
                   v == commit.identity
               IN  /\ delegatedAccount'[a].lamports = commit.lamports + deposited
                   /\ DelegatedLamports(a)' = commit.lamports + deposited
                   /\ (wallet'[v] - wallet[v])
                        + (validatorFeesVault'[v].lamports - validatorFeesVault[v].lamports)
                         = advanced + recorded - commit.lamports
                   /\ wallet'[v] <= wallet[v] + advanced
                   /\ delegationMetadata'[a].data.lastUpdateSlot = commit.slot
    <2>1. PICK v \in Validators : Finalize(v, a)
      BY <1>1, OnlyFinalizeConsumes
    <2>2. commitRecord[a].data.identity = v
      BY <1>1, <2>1, FinalizeIsExact
    <2> QED
      BY <1>1, <2>1, <2>2, FinalizeIsExact
  <1>2. Inv /\ [Next]_vars =>
          [\A a \in Accounts :
             CommitIsConsumed(a) =>
               LET commit == commitRecord[a].data
                   recorded == DelegatedLamports(a)
                   deposited == delegatedAccount[a].lamports - recorded
                   advanced == commitState[a].lamports + commitRecord[a].lamports
                   v == commit.identity
               IN  /\ delegatedAccount'[a].lamports = commit.lamports + deposited
                   /\ DelegatedLamports(a)' = commit.lamports + deposited
                   /\ (wallet'[v] - wallet[v])
                        + (validatorFeesVault'[v].lamports - validatorFeesVault[v].lamports)
                         = advanced + recorded - commit.lamports
                   /\ wallet'[v] <= wallet[v] + advanced
                   /\ delegationMetadata'[a].data.lastUpdateSlot = commit.slot]_vars
    BY <1>1
  <1> QED
    BY <1>2, PTL DEF SettlementIsExact

\* The wallet that paid for a PDA gets back nine tenths of its lamports or more.
LEMMA RefundIsMost ==
    ASSUME NEW lamports \in Nat
    PROVE  /\ FeeSplit(lamports).refund \in Nat
           /\ 100 * FeeSplit(lamports).refund >= 90 * lamports
  <1> DEFINE total == Percent(lamports, RentFeesPercentage)
  <1>1. total \in Nat /\ 100 * total <= 10 * lamports
    BY DEF Percent, RentFeesPercentage
  <1>2. FeeSplit(lamports).refund = lamports - total
    BY DEF FeeSplit
  <1> HIDE DEF total
  <1> QED
    BY <1>1, <1>2, FeeSplitIsExact

\* Undelegating returns the account with its contents, to within its rent, and
\* refunds the payer of its PDAs.
LEMMA UndelegateReturnsIntact ==
    ASSUME Inv, NEW a \in Accounts, NEW u \in Validators, NEW program \in Owners,
           NEW reimbursed \in Wallets,
           UndelegateEmpty(u, a, program, reimbursed) \/ UndelegateViaCpi(u, a, program, reimbursed)
    PROVE  LET before == delegatedAccount[a]
               withheld == before.lamports - delegatedAccount'[a].lamports
               payer == delegationMetadata[a].data.rentPayer
               rent == delegationRecord[a].lamports + delegationMetadata[a].lamports
           IN  /\ \/ delegatedAccount'[a] =
                        [before EXCEPT !.owner = delegationRecord[a].data.owner,
                                       !.lamports = @ - withheld]
                  \/ delegatedAccount'[a] = Absent
               /\ 0 <= withheld
               /\ withheld <= IF before.data = NoData THEN 0 ELSE DataRent[before.data]
               /\ delegationMetadata[a].data.isUndelegatable
               /\ NoPendingCommit(a) /\ NoPendingCommit(a)'
               /\ delegationRecord'[a] = Absent /\ delegationMetadata'[a] = Absent
               /\ \E v \in Validators :
                     LET purse == [wallet EXCEPT ![v] = @ + withheld]
                     IN  /\ 100 * (wallet'[payer] - purse[payer]) >= 90 * rent
                         /\ \A w \in Wallets \ {payer} : wallet'[w] = purse[w]
  <1> DEFINE before == delegatedAccount[a]
             record == FeeSplit(delegationRecord[a].lamports)
             metadata == FeeSplit(delegationMetadata[a].lamports)
  <1>1. PICK withheld \in Nat :
           /\ CanUndelegate(u, a, program, reimbursed)
           /\ UNCHANGED commitPdas
           /\ withheld <= IF before.data = NoData THEN 0 ELSE DataRent[before.data]
           /\ before.lamports - withheld \in Nat
           /\ delegatedAccount' =
                 [delegatedAccount EXCEPT ![a] =
                    Purged([owner |-> program, lamports |-> before.lamports - withheld,
                            data |-> before.data])]
           /\ Cleanup(u, a, reimbursed, [wallet EXCEPT ![u] = @ + withheld])
    BY UndelegateWrites
  <1> DEFINE purse == [wallet EXCEPT ![u] = @ + withheld]
             left == [owner |-> program, lamports |-> before.lamports - withheld,
                      data |-> before.data]
  <1>2. /\ delegationMetadata[a].data.isUndelegatable
        /\ NoPendingCommit(a)
        /\ program = delegationRecord[a].data.owner
        /\ reimbursed = delegationMetadata[a].data.rentPayer
        /\ delegationRecord' = [delegationRecord EXCEPT ![a] = Absent]
        /\ delegationMetadata' = [delegationMetadata EXCEPT ![a] = Absent]
        /\ wallet' = [purse EXCEPT ![reimbursed] = @ + record.refund + metadata.refund]
    BY <1>1 DEF CanUndelegate, Cleanup
  <1>3. delegationRecord'[a] = Absent /\ delegationMetadata'[a] = Absent
    BY <1>2 DEF Inv, TypeOK
  <1>4. NoPendingCommit(a)'
    BY <1>1, <1>2 DEF NoPendingCommit, commitPdas, IsUninitialized
  <1>5. /\ before \in DelegatableAccount /\ before.lamports \in Nat
        /\ delegatedAccount'[a] = Purged(left)
    BY <1>1, AccountsAreTyped DEF Inv, TypeOK, Typed
  <1>6. /\ withheld = before.lamports - delegatedAccount'[a].lamports
        /\ \/ delegatedAccount'[a] =
                 [before EXCEPT !.owner = delegationRecord[a].data.owner, !.lamports = @ - withheld]
           \/ delegatedAccount'[a] = Absent
    <2>1. CASE left.lamports = 0
      <3>1. delegatedAccount'[a] = Absent
        BY <1>5, <2>1 DEF Purged
      <3>2. delegatedAccount'[a].lamports = 0
        BY <3>1 DEF Absent, Account
      <3>3. before.lamports - withheld = 0
        BY <2>1
      <3>4. withheld = before.lamports - delegatedAccount'[a].lamports
        BY <1>5, <3>2, <3>3
      <3> QED
        BY <3>1, <3>4
    <2>2. CASE left.lamports # 0
      <3>1. delegatedAccount'[a] = left
        BY <1>5, <2>2 DEF Purged
      <3> DEFINE given == [before EXCEPT !.owner = program]
                 remains == before.lamports - withheld
      <3>2. given = [owner |-> program, lamports |-> before.lamports, data |-> before.data]
        BY <1>5 DEF DelegatableAccount
      <3>3. [before EXCEPT !.owner = program, !.lamports = remains] = [given EXCEPT !.lamports = remains]
        OBVIOUS
      <3>4. left = [owner |-> program, lamports |-> remains, data |-> before.data]
        OBVIOUS
      <3>5. [before EXCEPT !.owner = program, !.lamports = remains] = left
        <4> HIDE DEF left, remains, given
        <4> QED
          BY <3>2, <3>3, <3>4
      <3>6. delegatedAccount'[a].lamports = before.lamports - withheld
        BY <3>1
      <3>7. withheld = before.lamports - delegatedAccount'[a].lamports
        BY <1>5, <3>6
      <3> QED
        BY <1>2, <3>1, <3>5, <3>7
    <2> QED
      BY <2>1, <2>2
  <1>7. purse \in [Wallets -> Nat]
    BY PurseIsTyped DEF Inv, TypeOK
  <1> HIDE DEF purse, left
  <1>8. \A w \in Wallets \ {reimbursed} : wallet'[w] = purse[w]
    BY <1>2, <1>7
  <1>9. 100 * (wallet'[reimbursed] - purse[reimbursed])
          >= 90 * (delegationRecord[a].lamports + delegationMetadata[a].lamports)
    <2>1. /\ delegationRecord[a].lamports \in Nat /\ delegationMetadata[a].lamports \in Nat
          /\ purse[reimbursed] \in Nat
      BY <1>7, AccountsAreTyped DEF Inv, Typed
    <2>2. /\ record.refund \in Nat /\ 100 * record.refund >= 90 * delegationRecord[a].lamports
          /\ metadata.refund \in Nat /\ 100 * metadata.refund >= 90 * delegationMetadata[a].lamports
      BY <2>1, RefundIsMost
    <2> DEFINE after == wallet'[reimbursed]
               refund == record.refund
               alsoRefund == metadata.refund
    <2>3. after = purse[reimbursed] + refund + alsoRefund
      BY <1>2, <1>7
    <2>4. refund \in Nat /\ alsoRefund \in Nat
          /\ 100 * refund >= 90 * delegationRecord[a].lamports
          /\ 100 * alsoRefund >= 90 * delegationMetadata[a].lamports
      BY <2>2
    <2> HIDE DEF after, refund, alsoRefund, record, metadata
    <2>5. 100 * (after - purse[reimbursed])
            >= 90 * (delegationRecord[a].lamports + delegationMetadata[a].lamports)
      BY <2>1, <2>3, <2>4
    <2> QED
      BY <2>5 DEF after
  <1> DEFINE lost == before.lamports - delegatedAccount'[a].lamports
  <1>10. lost = withheld
    BY <1>6
  <1>11. /\ \/ delegatedAccount'[a] =
                 [before EXCEPT !.owner = delegationRecord[a].data.owner, !.lamports = @ - lost]
            \/ delegatedAccount'[a] = Absent
         /\ 0 <= lost
         /\ lost <= IF before.data = NoData THEN 0 ELSE DataRent[before.data]
    <2> HIDE DEF lost
    <2>1. 0 <= withheld
      OBVIOUS
    <2> QED
      BY <1>1, <1>6, <1>10, <2>1
  <1>12. \E v \in Validators :
            LET gained == [wallet EXCEPT ![v] = @ + lost]
            IN  /\ 100 * (wallet'[reimbursed] - gained[reimbursed])
                     >= 90 * (delegationRecord[a].lamports + delegationMetadata[a].lamports)
                /\ \A w \in Wallets \ {reimbursed} : wallet'[w] = gained[w]
    <2> HIDE DEF lost
    <2>1. purse = [wallet EXCEPT ![u] = @ + lost]
      BY <1>10 DEF purse
    <2> QED
      BY <1>8, <1>9, <2>1
  <1> QED
    BY <1>2, <1>3, <1>4, <1>11, <1>12

\* So every step that ends a session returns the account intact.
LEMMA StepsReturnIntact ==
    []Inv /\ [][Next]_vars => AccountIsReturnedIntact
  <1>1. ASSUME Inv, [Next]_vars, NEW a \in Accounts, SessionEnds(a)
        PROVE  LET before == delegatedAccount[a]
                   withheld == before.lamports - delegatedAccount'[a].lamports
                   payer == delegationMetadata[a].data.rentPayer
                   rent == delegationRecord[a].lamports + delegationMetadata[a].lamports
               IN  /\ \/ delegatedAccount'[a] =
                            [before EXCEPT !.owner = delegationRecord[a].data.owner,
                                           !.lamports = @ - withheld]
                      \/ delegatedAccount'[a] = Absent
                   /\ 0 <= withheld
                   /\ withheld <= IF before.data = NoData THEN 0 ELSE DataRent[before.data]
                   /\ delegationMetadata[a].data.isUndelegatable
                   /\ NoPendingCommit(a) /\ NoPendingCommit(a)'
                   /\ delegationRecord'[a] = Absent /\ delegationMetadata'[a] = Absent
                   /\ \E v \in Validators :
                         LET purse == [wallet EXCEPT ![v] = @ + withheld]
                         IN  /\ 100 * (wallet'[payer] - purse[payer]) >= 90 * rent
                             /\ \A w \in Wallets \ {payer} : wallet'[w] = purse[w]
    BY <1>1, OnlyUndelegateEnds, UndelegateReturnsIntact
  <1>2. Inv /\ [Next]_vars =>
          [\A a \in Accounts :
             SessionEnds(a) =>
               LET before == delegatedAccount[a]
                   withheld == before.lamports - delegatedAccount'[a].lamports
                   payer == delegationMetadata[a].data.rentPayer
                   rent == delegationRecord[a].lamports + delegationMetadata[a].lamports
               IN  /\ \/ delegatedAccount'[a] =
                            [before EXCEPT !.owner = delegationRecord[a].data.owner,
                                           !.lamports = @ - withheld]
                      \/ delegatedAccount'[a] = Absent
                   /\ 0 <= withheld
                   /\ withheld <= IF before.data = NoData THEN 0 ELSE DataRent[before.data]
                   /\ delegationMetadata[a].data.isUndelegatable
                   /\ NoPendingCommit(a) /\ NoPendingCommit(a)'
                   /\ delegationRecord'[a] = Absent /\ delegationMetadata'[a] = Absent
                   /\ \E v \in Validators :
                         LET purse == [wallet EXCEPT ![v] = @ + withheld]
                         IN  /\ 100 * (wallet'[payer] - purse[payer]) >= 90 * rent
                             /\ \A w \in Wallets \ {payer} : wallet'[w] = purse[w]]_vars
    BY <1>1
  <1> QED
    BY <1>2, PTL DEF AccountIsReturnedIntact

-----------------------------------------------------------------------------
(* The vaults. *)

\* What VaultsPayTheirOwners says of a validator's vault, and of the protocol's.
ValidatorVaultPays(v) ==
    LET paid == validatorFeesVault[v].lamports - validatorFeesVault'[v].lamports
        share == feesVault'.lamports - feesVault.lamports
    IN  paid > 0 =>
          /\ wallet' = [wallet EXCEPT ![v] = @ + (paid - share)]
          /\ 0 <= 10 * share /\ 10 * share <= paid
          /\ IsInitialized(validatorFeesVault'[v]) => paid < 10 * share + 10

ProtocolVaultPays ==
    LET paid == feesVault.lamports - feesVault'.lamports
    IN  paid > 0 => wallet' = [wallet EXCEPT ![Admin] = @ + paid]

\* A vault that earns pays nobody.
LEMMA EarningVaultPaysNobody ==
    ASSUME Inv, NEW u \in Validators, NEW amount \in Nat,
           validatorFeesVault'[u].lamports = validatorFeesVault[u].lamports + amount
    PROVE  ValidatorVaultPays(u)
  <1>1. validatorFeesVault[u].lamports \in Nat
    BY VaultsAreTyped
  <1>2. ~ (validatorFeesVault[u].lamports - validatorFeesVault'[u].lamports > 0)
    BY <1>1
  <1> QED
    BY <1>2 DEF ValidatorVaultPays

\* Nor does a vault that stays as it is.
LEMMA SameVaultPaysNobody ==
    ASSUME Inv, NEW u \in Validators, validatorFeesVault'[u] = validatorFeesVault[u]
    PROVE  ValidatorVaultPays(u)
  <1>1. validatorFeesVault[u].lamports \in Nat
    BY VaultsAreTyped
  <1>2. validatorFeesVault'[u].lamports = validatorFeesVault[u].lamports + 0
    BY <1>1
  <1> QED
    BY <1>2, EarningVaultPaysNobody

\* Fees and settlements are earned.
LEMMA PaidVaultsPayNobody ==
    ASSUME Inv, NEW v \in Validators, NEW fees \in Nat, NEW u \in Validators,
           validatorFeesVault' = [validatorFeesVault EXCEPT ![v].lamports = @ + fees]
    PROVE  ValidatorVaultPays(u)
  <1>1. validatorFeesVault[u] \in Pda(VaultData) /\ validatorFeesVault[u].lamports \in Nat
    BY VaultsAreTyped
  <1>2. CASE u = v
    <2>1. validatorFeesVault'[u] = [validatorFeesVault[u] EXCEPT !.lamports = @ + fees]
      BY <1>2 DEF Inv, TypeOK
    <2>2. validatorFeesVault'[u].lamports = validatorFeesVault[u].lamports + fees
      BY <1>1, <2>1 DEF Pda
    <2> QED
      BY <2>2, EarningVaultPaysNobody
  <1>3. CASE u # v
    <2>1. validatorFeesVault'[u] = validatorFeesVault[u]
      BY <1>3 DEF Inv, TypeOK
    <2> QED
      BY <2>1, SameVaultPaysNobody
  <1> QED
    BY <1>2, <1>3

\* A step that leaves all vaults alone pays nobody.
LEMMA UnchangedVaultsPayNobody ==
    ASSUME Inv
    PROVE  /\ validatorFeesVault' = validatorFeesVault => \A u \in Validators : ValidatorVaultPays(u)
           /\ feesVault' = feesVault => ProtocolVaultPays
  <1>1. ASSUME NEW u \in Validators, validatorFeesVault' = validatorFeesVault
        PROVE  ValidatorVaultPays(u)
    <2>1. validatorFeesVault'[u] = validatorFeesVault[u]
      BY <1>1
    <2> QED
      BY <2>1, SameVaultPaysNobody
  <1>2. ASSUME feesVault' = feesVault PROVE ProtocolVaultPays
    <2>1. ~ (feesVault.lamports - feesVault'.lamports > 0)
      BY <1>2, VaultsAreTyped
    <2> QED
      BY <2>1 DEF ProtocolVaultPays
  <1> QED
    BY <1>1, <1>2

\* The protocol's vault pays nobody when it earns, either.
LEMMA EarningProtocolPaysNobody ==
    ASSUME Inv, NEW fees \in Nat, feesVault' = [feesVault EXCEPT !.lamports = @ + fees]
    PROVE  ProtocolVaultPays
  <1>1. feesVault \in Pda(VaultData) /\ feesVault.lamports \in Nat
    BY VaultsAreTyped
  <1>2. feesVault'.lamports = feesVault.lamports + fees
    BY <1>1 DEF Pda
  <1>3. ~ (feesVault.lamports - feesVault'.lamports > 0)
    BY <1>1, <1>2
  <1> QED
    BY <1>3 DEF ProtocolVaultPays

\* The fees of the delegation PDAs.
LEMMA CleanupPaysVaults ==
    ASSUME Inv, NEW a \in Accounts, NEW v \in Validators, NEW reimbursed, NEW purse,
           Cleanup(v, a, reimbursed, purse)
    PROVE  ProtocolVaultPays /\ \A u \in Validators : ValidatorVaultPays(u)
  <1> DEFINE record == FeeSplit(delegationRecord[a].lamports)
             metadata == FeeSplit(delegationMetadata[a].lamports)
             fees == record.validator + metadata.validator
             protocolFees == record.protocol + metadata.protocol
  <1>1. /\ record.validator \in Nat /\ metadata.validator \in Nat
        /\ record.protocol \in Nat /\ metadata.protocol \in Nat
    BY AccountsAreTyped, FeeSplitIsExact DEF Inv, Typed
  <1>2. /\ validatorFeesVault[v].lamports + record.validator + metadata.validator
              = validatorFeesVault[v].lamports + fees
        /\ feesVault.lamports + record.protocol + metadata.protocol
              = feesVault.lamports + protocolFees
        /\ fees \in Nat /\ protocolFees \in Nat
    <2>1. validatorFeesVault[v].lamports \in Nat /\ feesVault.lamports \in Nat
      BY VaultsAreTyped
    <2> HIDE DEF record, metadata
    <2> QED
      BY <1>1, <2>1
  <1>3. /\ validatorFeesVault' = [validatorFeesVault EXCEPT ![v].lamports = @ + fees]
        /\ feesVault' = [feesVault EXCEPT !.lamports = @ + protocolFees]
    <2>1. /\ validatorFeesVault' = [validatorFeesVault EXCEPT ![v].lamports =
                validatorFeesVault[v].lamports + record.validator + metadata.validator]
          /\ feesVault' = [feesVault EXCEPT !.lamports =
                feesVault.lamports + record.protocol + metadata.protocol]
      BY DEF Cleanup
    <2> HIDE DEF record, metadata, fees, protocolFees
    <2> QED
      BY <1>2, <2>1
  <1> HIDE DEF fees, protocolFees
  <1> QED
    BY <1>2, <1>3, PaidVaultsPayNobody, EarningProtocolPaysNobody

\* A settlement only adds to the vault of the validator.
LEMMA FinalizePaysVaults ==
    ASSUME Inv, NEW a \in Accounts, NEW v \in Validators, Finalize(v, a)
    PROVE  ProtocolVaultPays /\ \A u \in Validators : ValidatorVaultPays(u)
  <1> DEFINE toVault == Settlement(DelegatedLamports(a), commitRecord[a].data.lamports).toVault
  <1>1. /\ HasPendingCommit(a) /\ IsDelegated(a)
        /\ validatorFeesVault' = [validatorFeesVault EXCEPT ![v].lamports = @ + toVault]
        /\ feesVault' = feesVault
    BY DEF Finalize, ProcessFinalize
  <1>2. toVault \in Nat
    BY <1>1, AccountsAreTyped, SettlementIsOneSided
    DEF Inv, Typed, HasPendingCommit, IsDelegated
  <1> HIDE DEF toVault
  <1> QED
    BY <1>1, <1>2, PaidVaultsPayNobody, UnchangedVaultsPayNobody

\* A vault that is created costs somebody its rent, and pays nobody.
LEMMA CreatedVaultPaysNobody ==
    ASSUME NEW vault \in Pda(VaultData), vault.lamports \in Nat
    PROVE  /\ CreatedVault(vault).lamports \in Nat
           /\ CreatedVault(vault).lamports >= vault.lamports
  <1>1. VaultRent \in Nat
    BY LedgerAssumption
  <1> QED
    BY <1>1 DEF CreatedVault, CreatedPda, TopUpCost, Account

\* The protocol's vault is created with what it already held, or more.
LEMMA InitProtocolFeesVaultPays ==
    ASSUME Inv, NEW payer \in Wallets, InitProtocolFeesVault(payer)
    PROVE  ProtocolVaultPays /\ \A u \in Validators : ValidatorVaultPays(u)
  <1>1. feesVault' = CreatedVault(feesVault) /\ validatorFeesVault' = validatorFeesVault
    BY DEF InitProtocolFeesVault
  <1>2. feesVault \in Pda(VaultData) /\ feesVault.lamports \in Nat
    BY VaultsAreTyped
  <1>3. feesVault'.lamports \in Nat /\ feesVault'.lamports >= feesVault.lamports
    BY <1>1, <1>2, CreatedVaultPaysNobody
  <1>4. ~ (feesVault.lamports - feesVault'.lamports > 0)
    BY <1>2, <1>3
  <1> QED
    BY <1>1, <1>4, UnchangedVaultsPayNobody DEF ProtocolVaultPays

\* So is a validator's.
LEMMA InitValidatorFeesVaultPays ==
    ASSUME Inv, NEW payer \in Wallets, NEW admin \in Wallets, NEW v \in Validators,
           InitValidatorFeesVault(payer, admin, v)
    PROVE  ProtocolVaultPays /\ \A u \in Validators : ValidatorVaultPays(u)
  <1>1. /\ feesVault' = feesVault
        /\ validatorFeesVault' = [validatorFeesVault EXCEPT ![v] = CreatedVault(@)]
    BY DEF InitValidatorFeesVault
  <1>2. ASSUME NEW u \in Validators PROVE ValidatorVaultPays(u)
    <2>1. /\ validatorFeesVault[u] \in Pda(VaultData) /\ validatorFeesVault[u].lamports \in Nat
          /\ \/ validatorFeesVault'[u] = validatorFeesVault[u]
             \/ validatorFeesVault'[u] = CreatedVault(validatorFeesVault[u])
      BY <1>1, VaultsAreTyped DEF Inv, TypeOK
    <2>2. /\ validatorFeesVault'[u].lamports \in Nat
          /\ validatorFeesVault'[u].lamports >= validatorFeesVault[u].lamports
      BY <2>1, CreatedVaultPaysNobody
    <2>3. ~ (validatorFeesVault[u].lamports - validatorFeesVault'[u].lamports > 0)
      BY <2>1, <2>2
    <2> QED
      BY <2>3 DEF ValidatorVaultPays
  <1> QED
    BY <1>1, <1>2, UnchangedVaultsPayNobody

\* A vault that is closed pays all it holds to its validator, and the protocol nothing.
LEMMA CloseValidatorFeesVaultPays ==
    ASSUME Inv, NEW admin \in Wallets, NEW v \in Validators, CloseValidatorFeesVault(admin, v)
    PROVE  ProtocolVaultPays /\ \A u \in Validators : ValidatorVaultPays(u)
  <1>1. /\ feesVault' = feesVault
        /\ validatorFeesVault' = [validatorFeesVault EXCEPT ![v] = Absent]
        /\ wallet' = [wallet EXCEPT ![v] = @ + validatorFeesVault[v].lamports]
    BY DEF CloseValidatorFeesVault
  <1>2. ASSUME NEW u \in Validators PROVE ValidatorVaultPays(u)
    <2>1. CASE u = v
      <3>1. /\ validatorFeesVault[u].lamports \in Nat /\ feesVault.lamports \in Nat
            /\ validatorFeesVault'[u] = Absent
        BY <1>1, <2>1, VaultsAreTyped DEF Inv, TypeOK
      <3>2. /\ validatorFeesVault'[u].lamports = 0
            /\ ~ IsInitialized(validatorFeesVault'[u])
        BY <3>1, AbsentIsUninitialized DEF Absent, Account
      <3> DEFINE paid == validatorFeesVault[u].lamports - validatorFeesVault'[u].lamports
                 share == feesVault'.lamports - feesVault.lamports
      <3>3. share = 0 /\ paid \in Nat /\ paid - share = validatorFeesVault[v].lamports
        BY <1>1, <2>1, <3>1, <3>2
      <3>4. 0 <= 10 * share /\ 10 * share <= paid
        BY <3>3
      <3>5. wallet' = [wallet EXCEPT ![u] = @ + (paid - share)]
        BY <1>1, <2>1, <3>3
      <3> QED
        BY <3>2, <3>4, <3>5 DEF ValidatorVaultPays
    <2>2. CASE u # v
      <3>1. validatorFeesVault'[u] = validatorFeesVault[u]
        BY <1>1, <2>2 DEF Inv, TypeOK
      <3> QED
        BY <3>1, SameVaultPaysNobody
    <2> QED
      BY <2>1, <2>2
  <1> QED
    BY <1>1, <1>2, UnchangedVaultsPayNobody

\* The protocol's share of a claim is a tenth of it, rounded down.
LEMMA ShareIsATenth ==
    ASSUME NEW amount \in Nat
    PROVE  LET share == Percent(amount, ProtocolFeesPercentage)
           IN  share \in Nat /\ 10 * share <= amount /\ amount < 10 * share + 10
  BY DEF Percent, ProtocolFeesPercentage

\* A claim pays the validator what leaves its vault, less the share of the protocol.
LEMMA ValidatorClaimFeesPays ==
    ASSUME Inv, NEW v \in Validators, ValidatorClaimFees(v)
    PROVE  ProtocolVaultPays /\ \A u \in Validators : ValidatorVaultPays(u)
  <1>1. PICK amount \in ClaimAmounts \cup {Claimable(validatorFeesVault[v])} :
           /\ amount <= Claimable(validatorFeesVault[v])
           /\ feesVault' = [feesVault EXCEPT !.lamports = @ + Percent(amount, ProtocolFeesPercentage)]
           /\ validatorFeesVault' = [validatorFeesVault EXCEPT ![v].lamports = @ - amount]
           /\ wallet' = [wallet EXCEPT ![v] = @ + (amount - Percent(amount, ProtocolFeesPercentage))]
    BY DEF ValidatorClaimFees, Claims
  <1>2. amount \in Nat
    <2>1. Claimable(validatorFeesVault[v]) \in Nat
      BY VaultsAreTyped DEF ValidatorClaimFees, Claimable, Funded
    <2> QED
      BY <1>1, <2>1, ClaimAssumption
  <1> DEFINE share == Percent(amount, ProtocolFeesPercentage)
  <1>3. share \in Nat /\ 10 * share <= amount /\ amount < 10 * share + 10
    BY <1>2, ShareIsATenth
  <1>4. feesVault' = [feesVault EXCEPT !.lamports = @ + share]
        /\ wallet' = [wallet EXCEPT ![v] = @ + (amount - share)]
    BY <1>1
  <1> HIDE DEF share
  <1>5. ProtocolVaultPays
    BY <1>3, <1>4, EarningProtocolPaysNobody
  <1>6. ASSUME NEW u \in Validators PROVE ValidatorVaultPays(u)
    <2>1. CASE u = v
      <3>1. /\ validatorFeesVault[u] \in Pda(VaultData) /\ validatorFeesVault[u].lamports \in Nat
            /\ feesVault \in Pda(VaultData) /\ feesVault.lamports \in Nat
        BY VaultsAreTyped
      <3>2. /\ validatorFeesVault'[u] = [validatorFeesVault[u] EXCEPT !.lamports = @ - amount]
        BY <1>1, <2>1 DEF Inv, TypeOK
      <3>3. /\ validatorFeesVault'[u].lamports = validatorFeesVault[u].lamports - amount
            /\ feesVault'.lamports = feesVault.lamports + share
        BY <1>4, <3>1, <3>2 DEF Pda
      <3>4. /\ validatorFeesVault[u].lamports - validatorFeesVault'[u].lamports = amount
            /\ feesVault'.lamports - feesVault.lamports = share
            /\ 0 <= 10 * share
        BY <1>2, <1>3, <3>1, <3>3
      <3> QED
        BY <1>3, <1>4, <2>1, <3>4 DEF ValidatorVaultPays
    <2>2. CASE u # v
      <3>1. validatorFeesVault'[u] = validatorFeesVault[u]
        BY <1>1, <2>2 DEF Inv, TypeOK
      <3> QED
        BY <3>1, SameVaultPaysNobody
    <2> QED
      BY <2>1, <2>2
  <1> QED
    BY <1>5, <1>6

\* The protocol's claim pays the admin what leaves the vault.
LEMMA ProtocolClaimFeesPays ==
    ASSUME Inv, NEW admin \in Wallets, ProtocolClaimFees(admin)
    PROVE  ProtocolVaultPays /\ \A u \in Validators : ValidatorVaultPays(u)
  <1> DEFINE claimed == Claimable(feesVault)
  <1>1. /\ admin = Admin
        /\ feesVault' = [feesVault EXCEPT !.lamports = @ - claimed]
        /\ wallet' = [wallet EXCEPT ![admin] = @ + claimed]
        /\ validatorFeesVault' = validatorFeesVault
    BY DEF ProtocolClaimFees
  <1>2. feesVault \in Pda(VaultData) /\ feesVault.lamports \in Nat /\ claimed \in Int
    BY VaultsAreTyped DEF Claimable
  <1> HIDE DEF claimed
  <1>3. feesVault'.lamports = feesVault.lamports - claimed
    BY <1>1, <1>2 DEF Pda
  <1>4. feesVault.lamports - feesVault'.lamports = claimed
    BY <1>2, <1>3
  <1> QED
    BY <1>1, <1>4, UnchangedVaultsPayNobody DEF ProtocolVaultPays

\* Every step of the program pays the owners of the vaults, or nobody.
LEMMA StepsPayVaultOwners ==
    []Inv /\ [][Next]_vars => VaultsPayTheirOwners
  <1>1. ASSUME Inv, Next
        PROVE  ProtocolVaultPays /\ \A u \in Validators : ValidatorVaultPays(u)
    <2>1. CASE UNCHANGED vaults
      <3>1. validatorFeesVault' = validatorFeesVault /\ feesVault' = feesVault
        BY <2>1 DEF vaults
      <3> QED
        BY <1>1, <3>1, UnchangedVaultsPayNobody
    <2>2. CASE SessionNext
      <3>1. CASE DelegationNext
        <4>1. CASE \E payer \in Wallets, a \in Accounts, program \in Owners : Delegate(payer, a, program)
          BY <2>1, <4>1 DEF Delegate, ProcessDelegate
        <4>2. CASE \E v \in Validators, a \in Accounts, program \in Owners, reimbursed \in Wallets :
                       \/ UndelegateEmpty(v, a, program, reimbursed)
                       \/ UndelegateViaCpi(v, a, program, reimbursed)
          BY <1>1, <4>2, UndelegateWrites, CleanupPaysVaults
        <4> QED
          BY <3>1, <4>1, <4>2 DEF DelegationNext
      <3>2. CASE CommitNext
        <4> PICK v \in Validators, a \in Accounts :
              \/ CommitState(v, a)
              \/ CommitStateFromBuffer(v, a)
              \/ CommitOutdated(v, a)
              \/ Finalize(v, a)
              \/ FinalizeNothing(v, a)
          BY <3>2 DEF CommitNext
        <4>1. CASE CommitState(v, a) \/ CommitStateFromBuffer(v, a)
          BY <2>1, <4>1 DEF CommitState, CommitStateFromBuffer, CommitStateInternal
        <4>2. CASE Finalize(v, a)
          BY <1>1, <4>2, FinalizePaysVaults
        <4>3. CASE CommitOutdated(v, a) \/ FinalizeNothing(v, a)
          BY <2>1, <4>3 DEF CommitOutdated, FinalizeNothing, vars
        <4> QED
          BY <4>1, <4>2, <4>3
      <3>3. CASE EnvironmentNext
        BY <2>1, <3>3, ZenonT(60)
        DEF EnvironmentNext, Deposit, DepositToCommitState, OwnerWrite, OwnerCreate
      <3> QED
        BY <2>2, <3>1, <3>2, <3>3 DEF SessionNext
    <2>3. CASE FeesVaultsNext
      BY <1>1, <2>3, InitProtocolFeesVaultPays, InitValidatorFeesVaultPays,
         CloseValidatorFeesVaultPays, ValidatorClaimFeesPays, ProtocolClaimFeesPays
      DEF FeesVaultsNext
    <2>4. CASE ProgramConfigNext
      BY <2>1, <2>4 DEF ProgramConfigNext, WhitelistValidatorForProgram
    <2>5. CASE EphemeralBalanceNext
      BY <2>1, <2>5, ZenonT(60)
      DEF EphemeralBalanceNext, TopUpEphemeralBalance, DelegateEphemeralBalance,
          ProcessDelegate, CloseEphemeralBalance
    <2> QED
      BY <1>1, <2>2, <2>3, <2>4, <2>5 DEF Next
  <1>2. Inv /\ [Next]_vars =>
          [/\ \A v \in Validators :
                LET paid == validatorFeesVault[v].lamports - validatorFeesVault'[v].lamports
                    share == feesVault'.lamports - feesVault.lamports
                IN  paid > 0 =>
                      /\ wallet' = [wallet EXCEPT ![v] = @ + (paid - share)]
                      /\ 0 <= 10 * share /\ 10 * share <= paid
                      /\ IsInitialized(validatorFeesVault'[v]) => paid < 10 * share + 10
           /\ LET paid == feesVault.lamports - feesVault'.lamports
              IN  paid > 0 => wallet' = [wallet EXCEPT ![Admin] = @ + paid]]_vars
    BY <1>1 DEF ValidatorVaultPays, ProtocolVaultPays
  <1> QED
    BY <1>2, PTL DEF VaultsPayTheirOwners

-----------------------------------------------------------------------------
(* The escrows. *)

\* Only its owner takes lamports from an account at home.
LEMMA HomeIsUntaken ==
    ASSUME Inv, TypeOK', NEW a \in Accounts, ~ IsDelegated(a), NEW b \in Accounts,
           \/ \E owner \in Owners : C!Take(b, owner)
           \/ C!Propose(b)
           \/ C!Apply(b)
           \/ C!Return(b)
           \/ C!Receive(b)
    PROVE  ~ (delegatedAccount[a].lamports - delegatedAccount'[a].lamports > 0)
  <1>1. /\ delegatedAccount \in [Accounts -> DelegatableAccount]
        /\ delegatedAccount[a] \in DelegatableAccount
        /\ delegatedAccount[a].lamports \in Nat
        /\ delegatedAccount'[a].lamports \in Nat
    BY AccountsAreTyped DEF Inv, TypeOK, DelegatableAccount
  <1>2. SUFFICES delegatedAccount'[a].lamports >= delegatedAccount[a].lamports
    BY <1>1
  <1>3. CASE \E owner \in Owners : C!Take(b, owner)
    <2>1. \/ delegatedAccount'[a] = delegatedAccount[a]
          \/ delegatedAccount'[a] = C!Kept(delegatedAccount[a])
      BY <1>1, <1>3 DEF C!Take
    <2>2. C!Kept(delegatedAccount[a]).lamports = delegatedAccount[a].lamports
      BY <1>1 DEF C!Kept, DelegatableAccount, Absent, Account
    <2> QED
      BY <1>1, <2>1, <2>2
  <1>4. CASE C!Propose(b)
    BY <1>1, <1>4 DEF C!Propose
  <1>5. CASE C!Apply(b) \/ C!Return(b)
    <2>1. b # a
      BY <1>5, HeldIsDelegated DEF C!Apply, C!Return
    <2>2. delegatedAccount'[a] = delegatedAccount[a]
      BY <1>1, <1>5, <2>1 DEF C!Apply, C!Return
    <2> QED
      BY <1>1, <2>2
  <1>6. CASE C!Receive(b)
    <2>1. CASE b = a
      BY <1>6, <2>1 DEF C!Receive
    <2>2. CASE b # a
      <3>1. delegatedAccount'[a] = delegatedAccount[a]
        BY <1>1, <1>6, <2>2 DEF C!Receive
      <3> QED
        BY <1>1, <3>1
    <2> QED
      BY <2>1, <2>2
  <1> QED
    BY <1>3, <1>4, <1>5, <1>6

\* Its owner program never takes any, and an escrow is closed to its wallet.
LEMMA HomeEscrowPaysItsOwner ==
    ASSUME Inv, [Next]_vars, NEW a \in Escrows, a \in Accounts, ~ IsDelegated(a),
           delegatedAccount[a].lamports - delegatedAccount'[a].lamports > 0
    PROVE  CloseEphemeralBalance(EscrowOf[a], a)
  <1>1. TypeOK'
    BY StepMaps
  <1>2. /\ delegatedAccount \in [Accounts -> DelegatableAccount]
        /\ delegatedAccount[a].lamports \in Nat
    BY AccountsAreTyped DEF Inv, TypeOK, DelegatableAccount
  <1>3. delegatedAccount'[a] # delegatedAccount[a]
    BY <1>2
  <1>4. ASSUME NEW b \in Accounts,
               \/ \E owner \in Owners : C!Take(b, owner)
               \/ C!Propose(b)
               \/ C!Apply(b)
               \/ C!Return(b)
               \/ C!Receive(b)
        PROVE  FALSE
    BY <1>1, <1>4, HomeIsUntaken
  <1>5. ASSUME UNCHANGED delegatedAccount PROVE FALSE
    BY <1>3, <1>5
  <1>6. ~ DelegationNext
    BY <1>4, DelegateTakes, UndelegateReturns DEF DelegationNext
  <1>7. ~ CommitNext
    <2> SUFFICES ASSUME CommitNext PROVE FALSE
      OBVIOUS
    <2> PICK v \in Validators, b \in Accounts :
          \/ CommitState(v, b)
          \/ CommitStateFromBuffer(v, b)
          \/ CommitOutdated(v, b)
          \/ Finalize(v, b)
          \/ FinalizeNothing(v, b)
      BY DEF CommitNext
    <2>1. CASE CommitState(v, b) \/ CommitStateFromBuffer(v, b)
      BY <1>4, <2>1, CommitStateProposes
    <2>2. CASE Finalize(v, b)
      BY <1>4, <2>2, FinalizeApplies
    <2>3. CASE CommitOutdated(v, b) \/ FinalizeNothing(v, b)
      BY <1>5, <2>3 DEF CommitOutdated, FinalizeNothing, vars
    <2> QED
      BY <2>1, <2>2, <2>3
  <1>8. ~ EnvironmentNext
    <2>1. ASSUME NEW b \in Accounts, NEW payer \in Depositors, NEW amount \in Deposits,
                 Deposit(payer, b, amount) \/ DepositToCommitState(payer, b, amount)
          PROVE  FALSE
      BY <1>4, <1>5, <2>1, DepositIsReceived DEF DepositToCommitState
    <2>2. ASSUME NEW b \in Accounts, NEW data \in Data, OwnerWrite(b, data)
          PROVE  FALSE
      <3>1. \/ delegatedAccount'[a] = delegatedAccount[a]
            \/ delegatedAccount'[a] = [delegatedAccount[a] EXCEPT !.data = data]
        BY <1>2, <2>2 DEF OwnerWrite
      <3>2. delegatedAccount[a] \in DelegatableAccount
        BY <1>2
      <3>3. delegatedAccount'[a].lamports = delegatedAccount[a].lamports
        BY <3>1, <3>2 DEF DelegatableAccount
      <3> QED
        BY <1>2, <3>3
    <2>3. ASSUME NEW b \in Accounts, NEW data \in Data, NEW payer \in Wallets,
                 OwnerCreate(payer, b, data)
          PROVE  FALSE
      <3>1. b # a
        BY <2>3, LedgerAssumption DEF OwnerCreate
      <3> QED
        BY <1>2, <1>3, <2>3, <3>1 DEF OwnerCreate
    <2> QED
      BY <2>1, <2>2, <2>3 DEF EnvironmentNext
  <1>9. ~ (FeesVaultsNext \/ ProgramConfigNext)
    BY <1>5 DEF FeesVaultsNext, InitProtocolFeesVault, InitValidatorFeesVault,
                CloseValidatorFeesVault, ValidatorClaimFees, ProtocolClaimFees,
                ProgramConfigNext, WhitelistValidatorForProgram
  <1>10. EphemeralBalanceNext
    BY <1>5, <1>6, <1>7, <1>8, <1>9 DEF Next, SessionNext, vars
  <1>11. SystemProgram \in Owners
    BY DEF Owners
  <1>12. PICK payer \in Wallets, b \in Accounts : CloseEphemeralBalance(payer, b)
    BY <1>4, <1>10, <1>11, TopUpIsReceived, DelegateEphemeralBalanceTakes
    DEF EphemeralBalanceNext
  <1>13. b = a
    BY <1>2, <1>3, <1>12 DEF CloseEphemeralBalance
  <1> QED
    BY <1>12, <1>13 DEF CloseEphemeralBalance

\* An escrow goes back to the system program without a CPI: nothing is withheld.
LEMMA EscrowIsReturnedInFull ==
    ASSUME Inv, OwnersAreDerived, [Next]_vars, NEW a \in Escrows, a \in Accounts, SessionEnds(a)
    PROVE  delegatedAccount'[a].lamports = delegatedAccount[a].lamports
  <1>1. PICK v \in Validators, program \in Owners, reimbursed \in Wallets :
           \/ UndelegateEmpty(v, a, program, reimbursed)
           \/ UndelegateViaCpi(v, a, program, reimbursed)
    BY OnlyUndelegateEnds
  <1>2. CanUndelegate(v, a, program, reimbursed)
    BY <1>1 DEF UndelegateEmpty, UndelegateViaCpi, CallOwnerProgram
  <1>3. program = SystemProgram
    <2>1. a \notin OnCurve /\ OwnerProgram[a] = SystemProgram
      BY LedgerAssumption
    <2> QED
      BY <1>2, <2>1 DEF CanUndelegate, OwnersAreDerived, SessionEnds
  <1>4. UndelegateEmpty(v, a, program, reimbursed)
    BY <1>1, <1>3 DEF UndelegateViaCpi, CpiOutcomes
  <1>5. delegatedAccount'[a] = [delegatedAccount[a] EXCEPT !.owner = program]
    BY <1>4 DEF UndelegateEmpty, Inv, TypeOK
  <1>6. delegatedAccount[a] \in DelegatableAccount
    BY DEF Inv, TypeOK
  <1> QED
    BY <1>5, <1>6 DEF DelegatableAccount

\* What leaves an escrow is settled, or goes to its wallet.
LEMMA StepsPayEscrowOwners ==
    []Inv /\ []OwnersAreDerived /\ [][Next]_vars => EscrowPaysItsOwner
  <1>1. ASSUME Inv, OwnersAreDerived, [Next]_vars, NEW a \in Escrows,
               delegatedAccount[a].lamports - delegatedAccount'[a].lamports > 0
        PROVE  IF IsDelegated(a)
               THEN CommitIsConsumed(a)
               ELSE wallet' = [wallet EXCEPT ![EscrowOf[a]] =
                       @ + (delegatedAccount[a].lamports - delegatedAccount'[a].lamports)]
    <2>1. a \in Accounts
      BY LedgerAssumption
    <2>2. /\ delegatedAccount[a].lamports \in Nat /\ delegatedAccount'[a].lamports \in Nat
          /\ delegatedAccount \in [Accounts -> DelegatableAccount]
      BY <1>1, <2>1, StepMaps, AccountsAreTyped DEF Inv, TypeOK, DelegatableAccount
    <2>3. CASE IsDelegated(a)
      <3>1. delegatedAccount'[a].lamports < delegatedAccount[a].lamports
        BY <1>1, <2>2
      <3>2. ~ SessionEnds(a)
        BY <1>1, <2>1, <2>2, <3>1, EscrowIsReturnedInFull
      <3> QED
        BY <1>1, <2>1, <2>3, <3>1, <3>2, StepMaps, CustodyStepIsFaithful
    <2>4. CASE ~ IsDelegated(a)
      <3>1. CloseEphemeralBalance(EscrowOf[a], a)
        BY <1>1, <2>1, <2>4, HomeEscrowPaysItsOwner
      <3>2. /\ delegatedAccount' = [delegatedAccount EXCEPT ![a] =
                                       Purged([delegatedAccount[a] EXCEPT !.lamports = 0])]
            /\ wallet' = [wallet EXCEPT ![EscrowOf[a]] = @ + delegatedAccount[a].lamports]
        BY <3>1 DEF CloseEphemeralBalance
      <3>3. delegatedAccount'[a] = Purged([delegatedAccount[a] EXCEPT !.lamports = 0])
        BY <2>1, <2>2, <3>2
      <3>4. delegatedAccount[a] \in DelegatableAccount
        BY <2>1, <2>2
      <3>5. delegatedAccount'[a].lamports = 0
        BY <3>3, <3>4 DEF Purged, Absent, Account, DelegatableAccount
      <3>6. delegatedAccount[a].lamports - delegatedAccount'[a].lamports
              = delegatedAccount[a].lamports
        BY <2>2, <3>5
      <3> QED
        BY <2>4, <3>2, <3>6
    <2> QED
      BY <2>3, <2>4
  <1>2. Inv /\ OwnersAreDerived /\ [Next]_vars =>
          [\A a \in Escrows :
             LET paid == delegatedAccount[a].lamports - delegatedAccount'[a].lamports
             IN  paid > 0 =>
                   IF IsDelegated(a)
                   THEN CommitIsConsumed(a)
                   ELSE wallet' = [wallet EXCEPT ![EscrowOf[a]] = @ + paid]]_vars
    BY <1>1
  <1> QED
    BY <1>2, PTL DEF EscrowPaysItsOwner

-----------------------------------------------------------------------------
(* The configurations. *)

\* The validators of a program before an instruction creates its configuration
\* are none.
ApprovedBefore(p) == IF IsInitialized(programConfig[p]) THEN programConfig[p].data ELSE {}

\* One validator joins or leaves, at an authority's expense.
LEMMA WhitelistIsPermanent ==
    ASSUME Inv, NEW authority \in Wallets, NEW v \in Validators, NEW p \in Owners,
           NEW insert \in BOOLEAN, WhitelistValidatorForProgram(authority, v, p, insert)
    PROVE  LET before == ApprovedBefore(p)
               after == programConfig'[p].data
           IN  /\ IsInitialized(programConfig'[p])
               /\ programConfig'[p].lamports >= programConfig[p].lamports
               /\ Cardinality((after \ before) \cup (before \ after)) <= 1
               /\ \A w \in Wallets : wallet'[w] # wallet[w] =>
                     w = Admin \/ (p \in Programs /\ w = UpgradeAuthority[p])
  <1> DEFINE stored == programConfig[p]
             isNew == stored.owner = SystemProgram
             config == IF isNew THEN CreatedPda(stored, Dlp, DataRent[NoData], {}) ELSE stored
             approved == Updated(config.data, v, insert)
             resized == ResizedPda(config, ConfigRent(approved), approved)
             cost == resized.lamports - stored.lamports
  <1>1. /\ IsAuthority(authority, p)
        /\ programConfig' = [programConfig EXCEPT ![p] = resized]
        /\ wallet' = [wallet EXCEPT ![authority] = @ - cost]
    BY DEF WhitelistValidatorForProgram
  <1>2. programConfig'[p] = resized
    BY <1>1 DEF Inv, TypeOK
  <1>3. stored \in Pda(SUBSET Validators) /\ stored.lamports \in Nat
    BY PdaContents DEF Inv, TypeOK
  <1>4. /\ config.owner = Dlp
        /\ config.data = ApprovedBefore(p) /\ config.data \in SUBSET Validators
        /\ config.lamports \in Nat /\ config.lamports >= stored.lamports
    <2>1. CASE isNew
      <3>1. DataRent[NoData] \in Nat
        BY LedgerAssumption
      <3>2. config = CreatedPda(stored, Dlp, DataRent[NoData], {})
        BY <2>1
      <3>3. ApprovedBefore(p) = {}
        BY <2>1, ProgramsDiffer DEF ApprovedBefore, IsInitialized
      <3> HIDE DEF stored, config
      <3>4. /\ config.owner = Dlp /\ config.data = {}
            /\ config.lamports \in Nat /\ config.lamports >= stored.lamports
        BY <1>3, <3>1, <3>2, CreatedPdaIsRentExempt
      <3> QED
        BY <3>3, <3>4
    <2>2. CASE ~ isNew
      BY <1>3, <2>2, ProgramsDiffer DEF Pda, ApprovedBefore, IsInitialized
    <2> QED
      BY <2>1, <2>2
  <1> HIDE DEF config
  <1>5. ConfigRent(approved) \in Nat
    <2>1. approved \in SUBSET Validators
      BY <1>4 DEF Updated
    <2> QED
      BY <2>1, LedgerAssumption
  <1>6. resized.owner = Dlp /\ resized.data = approved /\ resized.lamports >= stored.lamports
    <2> DEFINE rent == ConfigRent(approved)
    <2>1. rent \in Nat
      BY <1>5
    <2> HIDE DEF approved, rent
    <2>2. /\ resized.owner = config.owner /\ resized.data = approved
          /\ resized.lamports = config.lamports + TopUpCost(config, rent)
      BY DEF rent, ResizedPda, Account
    <2> HIDE DEF resized
    <2> QED
      BY <1>3, <1>4, <2>1, <2>2 DEF TopUpCost
  <1>7. Cardinality((approved \ config.data) \cup (config.data \ approved)) <= 1
    <2> DEFINE changed == (approved \ config.data) \cup (config.data \ approved)
    <2>1. changed \in SUBSET {v}
      BY DEF Updated
    <2>2. IsFiniteSet({v}) /\ Cardinality({v}) = 1
      BY FS_Singleton
    <2> HIDE DEF changed
    <2>3. Cardinality(changed) <= Cardinality({v})
      BY <2>1, <2>2, FS_Subset
    <2> QED
      BY <2>2, <2>3 DEF changed
  <1>8. \A w \in Wallets : wallet'[w] # wallet[w] => w = authority
    BY <1>1 DEF Inv, TypeOK
  <1>9. authority = Admin \/ (p \in Programs /\ authority = UpgradeAuthority[p])
    BY <1>1 DEF IsAuthority
  <1> HIDE DEF approved, resized
  <1> QED
    BY <1>2, <1>4, <1>6, <1>7, <1>8, <1>9 DEF IsInitialized

\* Nothing but WhitelistValidatorForProgram changes a configuration.
LEMMA OnlyWhitelistConfigures ==
    ASSUME Inv, [Next]_vars, NEW p \in Owners, programConfig'[p] # programConfig[p]
    PROVE  \E authority \in Wallets, v \in Validators, insert \in BOOLEAN :
              WhitelistValidatorForProgram(authority, v, p, insert)
  <1>1. ASSUME UNCHANGED programConfig PROVE FALSE
    BY <1>1
  <1>2. ~ DelegationNext
    <2>1. ASSUME NEW a \in Accounts, NEW payer \in Wallets, NEW program \in Owners,
                 Delegate(payer, a, program)
          PROVE  FALSE
      BY <1>1, <2>1 DEF Delegate, ProcessDelegate
    <2>2. ASSUME NEW v \in Validators, NEW a \in Accounts, NEW program \in Owners,
                 NEW reimbursed \in Wallets,
                 \/ UndelegateEmpty(v, a, program, reimbursed)
                 \/ UndelegateViaCpi(v, a, program, reimbursed)
          PROVE  FALSE
      BY <1>1, <2>2 DEF UndelegateEmpty, UndelegateViaCpi, ResumeUndelegate
    <2> QED
      BY <2>1, <2>2 DEF DelegationNext
  <1>3. ~ CommitNext
    <2>1. ASSUME NEW v \in Validators, NEW a \in Accounts,
                 CommitState(v, a) \/ CommitStateFromBuffer(v, a)
          PROVE  FALSE
      BY <1>1, <2>1 DEF CommitState, CommitStateFromBuffer, CommitStateInternal
    <2>2. ASSUME NEW v \in Validators, NEW a \in Accounts, Finalize(v, a)
          PROVE  FALSE
      BY <1>1, <2>2 DEF Finalize, ProcessFinalize
    <2>3. ASSUME NEW v \in Validators, NEW a \in Accounts,
                 CommitOutdated(v, a) \/ FinalizeNothing(v, a)
          PROVE  FALSE
      BY <1>1, <2>3 DEF CommitOutdated, FinalizeNothing, vars
    <2> QED
      BY <2>1, <2>2, <2>3 DEF CommitNext
  <1>4. ~ EnvironmentNext
    <2>1. ASSUME NEW a, NEW payer, NEW amount,
                 Deposit(payer, a, amount) \/ DepositToCommitState(payer, a, amount)
          PROVE  FALSE
      BY <1>1, <2>1 DEF Deposit, DepositToCommitState
    <2>2. ASSUME NEW a, NEW payer, NEW data, OwnerWrite(a, data) \/ OwnerCreate(payer, a, data)
          PROVE  FALSE
      BY <1>1, <2>2 DEF OwnerWrite, OwnerCreate
    <2> QED
      BY <2>1, <2>2 DEF EnvironmentNext
  <1>5. ~ FeesVaultsNext
    <2>1. ASSUME NEW payer, NEW admin, NEW v,
                 \/ InitProtocolFeesVault(payer) \/ InitValidatorFeesVault(payer, admin, v)
                 \/ CloseValidatorFeesVault(admin, v)
          PROVE  FALSE
      BY <1>1, <2>1
      DEF InitProtocolFeesVault, InitValidatorFeesVault, CloseValidatorFeesVault
    <2>2. ASSUME NEW admin, NEW v, ValidatorClaimFees(v) \/ ProtocolClaimFees(admin)
          PROVE  FALSE
      BY <1>1, <2>2 DEF ValidatorClaimFees, ProtocolClaimFees
    <2> QED
      BY <2>1, <2>2 DEF FeesVaultsNext
  <1>6. ~ EphemeralBalanceNext
    <2>1. ASSUME NEW payer, NEW pubkey, NEW a, DelegateEphemeralBalance(payer, pubkey, a)
          PROVE  FALSE
      BY <1>1, <2>1 DEF DelegateEphemeralBalance, ProcessDelegate
    <2>2. ASSUME NEW payer, NEW a, NEW amount,
                 TopUpEphemeralBalance(payer, a, amount) \/ CloseEphemeralBalance(payer, a)
          PROVE  FALSE
      BY <1>1, <2>2 DEF TopUpEphemeralBalance, CloseEphemeralBalance
    <2> QED
      BY <2>1, <2>2 DEF EphemeralBalanceNext
  <1>7. PICK authority \in Wallets, v \in Validators, program \in Owners, insert \in BOOLEAN :
           WhitelistValidatorForProgram(authority, v, program, insert)
    BY <1>1, <1>2, <1>3, <1>4, <1>5, <1>6 DEF Next, SessionNext, ProgramConfigNext, vars
  <1>8. program = p
    BY <1>7 DEF WhitelistValidatorForProgram, Inv, TypeOK
  <1> QED
    BY <1>7, <1>8

\* Every step keeps configurations, or changes one validator of one.
LEMMA StepsKeepConfigurations ==
    []Inv /\ [][Next]_vars => ConfigurationIsPermanent
  <1>1. ASSUME Inv, [Next]_vars, NEW p \in Owners, programConfig'[p] # programConfig[p]
        PROVE  LET before == ApprovedBefore(p)
                   after == programConfig'[p].data
               IN  /\ IsInitialized(programConfig'[p])
                   /\ programConfig'[p].lamports >= programConfig[p].lamports
                   /\ Cardinality((after \ before) \cup (before \ after)) <= 1
                   /\ \A w \in Wallets : wallet'[w] # wallet[w] =>
                         w = Admin \/ (p \in Programs /\ w = UpgradeAuthority[p])
    <2> PICK authority \in Wallets, v \in Validators, insert \in BOOLEAN :
          WhitelistValidatorForProgram(authority, v, p, insert)
      BY <1>1, OnlyWhitelistConfigures
    <2> QED
      BY <1>1, WhitelistIsPermanent
  <1>2. Inv /\ [Next]_vars =>
          [\A p \in Owners :
             programConfig'[p] # programConfig[p] =>
               LET before == IF IsInitialized(programConfig[p]) THEN programConfig[p].data ELSE {}
                   after == programConfig'[p].data
               IN  /\ IsInitialized(programConfig'[p])
                   /\ programConfig'[p].lamports >= programConfig[p].lamports
                   /\ Cardinality((after \ before) \cup (before \ after)) <= 1
                   /\ \A w \in Wallets : wallet'[w] # wallet[w] =>
                         w = Admin \/ (p \in Programs /\ w = UpgradeAuthority[p])]_vars
    BY <1>1 DEF ApprovedBefore
  <1> QED
    BY <1>2, PTL DEF ConfigurationIsPermanent

-----------------------------------------------------------------------------
(* The theorems: of the whole program, and of the sessions the session runs check. *)

\* While an account is delegated only the settlement of its commit takes
\* lamports from it or writes it.
THEOREM CustodyIsAlwaysFaithful == Spec => CustodyIsFaithful
  BY StepsAreFaithful, ProgramKeepsInv, PTL DEF Spec

\* A delegation takes the account as it is, for its balance, with no commit.
THEOREM AccountIsAlwaysTakenIntact == Spec => AccountIsTakenIntact
  BY StepsTakeIntact, ProgramKeepsInv, PTL DEF Spec

\* A pending commit stays as it was accepted until it is finalized.
THEOREM PendingCommitIsAlwaysImmutable == Spec => PendingCommitIsImmutable
  BY StepsKeepPendingCommits, ProgramKeepsInv, PTL DEF Spec

\* A session moves forward: to later slots, and to its release.
THEOREM SessionsAlwaysMoveForward == Spec => SessionMovesForward
  BY StepsMoveForward, ProgramKeepsInv, PTL DEF Spec

\* A settlement adds up, to the lamport, for the account, its record, the vault and
\* the validator.
THEOREM SettlementIsAlwaysExact == Spec => SettlementIsExact
  BY StepsSettleExactly, ProgramKeepsInv, PTL DEF Spec

\* A session ends by returning the account as it is to the program it was delegated
\* for, and most of the rent to the wallet that paid it.
THEOREM AccountIsAlwaysReturnedIntact == Spec => AccountIsReturnedIntact
  BY StepsReturnIntact, ProgramKeepsInv, PTL DEF Spec

\* What leaves a vault goes to its validator, but for the protocol's tenth, and what
\* leaves the protocol's goes to the admin.
THEOREM VaultsAlwaysPayTheirOwners == Spec => VaultsPayTheirOwners
  BY StepsPayVaultOwners, ProgramKeepsInv, PTL DEF Spec

\* What leaves an escrow at home goes to the wallet it is derived from.
THEOREM EscrowAlwaysPaysItsOwner == Spec => EscrowPaysItsOwner
  BY StepsPayEscrowOwners, OwnersStayDerived, ProgramKeepsInv, PTL DEF Spec

\* The validators of a program change one at a time, at an authority's expense, and
\* a configuration is never closed.
THEOREM ConfigurationIsAlwaysPermanent == Spec => ConfigurationIsPermanent
  BY StepsKeepConfigurations, ProgramKeepsInv, PTL DEF Spec

\* All of this holds of sessions among validators that are set up.
THEOREM SessionsActSafely ==
    SessionSpec => /\ CustodyIsFaithful
                   /\ AccountIsTakenIntact
                   /\ PendingCommitIsImmutable
                   /\ SessionMovesForward
                   /\ SettlementIsExact
                   /\ AccountIsReturnedIntact
  <1>1. [SessionNext]_vars => [Next]_vars
    BY DEF Next
  <1>2. SessionSpec => []Inv /\ [][Next]_vars
    BY <1>1, SessionsKeepInv, PTL DEF SessionSpec
  <1> QED
    BY <1>2, StepsAreFaithful, StepsTakeIntact, StepsKeepPendingCommits, StepsMoveForward,
       StepsSettleExactly, StepsReturnIntact, PTL
=============================================================================
