-------------------------- MODULE FairSessionProofs --------------------------
(***************************************************************************)
(* Sessions whose vaults are opened and closed stay safe; and a validator  *)
(* that goes on settles its commits and returns what was released.         *)
(*                                                                         *)
(* The fairness of FairSession.tla says WF_vars(A), which is about ENABLED *)
(* A.  TryingSpec has the guard of A in its place (CanFinalize,            *)
(* CanReturn); FinalizeHasGuard and UndelegateHasGuard show that A is its  *)
(* guard and assignments.  That a guard enables its action, the one step   *)
(* from FairSessionSpec to TryingSpec, is a hypothesis (GuardsEnable) of   *)
(* the theorems that are about FairSessionSpec.                            *)
(*                                                                         *)
(* Each of the two properties is one application of weak fairness: what is *)
(* to be settled or returned stays so until it is (the step lemmas), and   *)
(* meanwhile the guard holds (the invariant: the collateral is there, the  *)
(* buffer can be created, the account is worth its rent).                  *)
(***************************************************************************)
EXTENDS FairSession, ActionProofs

-----------------------------------------------------------------------------
(* Safety. *)

\* A fair session is a behaviour of the program, but for where it starts.
LEMMA FairStepIsStep == [FairSessionNext]_vars => [Next]_vars
  <1> SUFFICES ASSUME FairSessionNext PROVE Next
    OBVIOUS
  <1>1. Admin \in Wallets
    BY LedgerAssumption
  <1> QED
    BY <1>1 DEF FairSessionNext, Next, FeesVaultsNext

\* The protocol's vault, which is open from the start, is never closed.
LEMMA FeesVaultStaysOpen ==
    ASSUME Inv, IsInitialized(feesVault), [FairSessionNext]_vars
    PROVE  IsInitialized(feesVault')
  <1>1. CASE UNCHANGED feesVault
    BY <1>1 DEF IsInitialized
  <1>2. feesVault \in Pda(VaultData)
    BY DEF Inv, TypeOK
  <1>3. CASE DelegationNext
    <2>1. ASSUME NEW a \in Accounts, NEW v \in Validators, NEW program \in Owners,
                 NEW reimbursed \in Wallets,
                 \/ UndelegateEmpty(v, a, program, reimbursed)
                 \/ UndelegateViaCpi(v, a, program, reimbursed)
          PROVE  IsInitialized(feesVault')
      <3>1. \E paid : feesVault' = [feesVault EXCEPT !.lamports = paid]
        BY <2>1, UndelegateWrites DEF Cleanup
      <3> QED
        BY <1>2, <3>1 DEF Pda, IsInitialized
    <2>2. ASSUME NEW a \in Accounts, NEW payer \in Wallets, NEW program \in Owners,
                 Delegate(payer, a, program)
          PROVE  UNCHANGED feesVault
      BY <2>2 DEF Delegate, ProcessDelegate, vaults
    <2> QED
      BY <1>1, <1>3, <2>1, <2>2 DEF DelegationNext
  <1>4. CASE CommitNext
    <2>1. ASSUME NEW v, NEW a, CommitState(v, a) \/ CommitStateFromBuffer(v, a)
          PROVE  UNCHANGED feesVault
      <3>1. \E args : CommitStateInternal(v, a, args)
        BY <2>1 DEF CommitState, CommitStateFromBuffer
      <3> QED
        BY <3>1 DEF CommitStateInternal, vaults
    <2>2. ASSUME NEW v, NEW a, Finalize(v, a) PROVE UNCHANGED feesVault
      BY <2>2 DEF Finalize, ProcessFinalize
    <2>3. ASSUME NEW v, NEW a, CommitOutdated(v, a) \/ FinalizeNothing(v, a)
          PROVE  UNCHANGED feesVault
      BY <2>3 DEF CommitOutdated, FinalizeNothing, vars, vaults
    <2> QED
      BY <1>1, <1>4, <2>1, <2>2, <2>3 DEF CommitNext
  <1>5. CASE EnvironmentNext
    BY <1>1, <1>5, ZenonT(60) DEF EnvironmentNext, Deposit, DepositToCommitState, OwnerWrite, OwnerCreate,
                      vaults
  <1>6. CASE \E payer \in Wallets, v \in Validators :
                \/ InitValidatorFeesVault(payer, Admin, v)
                \/ CloseValidatorFeesVault(Admin, v)
    BY <1>1, <1>6 DEF InitValidatorFeesVault, CloseValidatorFeesVault
  <1>7. CASE UNCHANGED vars
    BY <1>1, <1>7 DEF vars, vaults
  <1> QED
    BY <1>3, <1>4, <1>5, <1>6, <1>7 DEF FairSessionNext, SessionNext

\* The inductive invariant of the program, and that the protocol's vault is open.
FairInv == Inv /\ IsInitialized(feesVault)

\* It holds at the start and is kept.
LEMMA FairStepKeepsInv ==
    /\ SessionInit => FairInv
    /\ FairInv /\ [FairSessionNext]_vars => FairInv'
  <1>1. SessionInit => FairInv
    BY SessionInitEstablishesInv DEF FairInv, SessionInit, Account, IsInitialized
  <1>2. ASSUME FairInv, [FairSessionNext]_vars PROVE FairInv'
    <2>1. Inv'
      BY <1>2, FairStepIsStep, StepMaps DEF FairInv
    <2>2. IsInitialized(feesVault')
      BY <1>2, FeesVaultStaysOpen DEF FairInv
    <2> QED
      BY <2>1, <2>2 DEF FairInv, IsInitialized
  <1> QED
    BY <1>1, <1>2

\* Sessions whose validators' vaults are opened and closed keep every invariant.
THEOREM FairSessionsKeepInv == FairSessionSpec => []FairInv
  BY FairStepKeepsInv, PTL DEF FairSessionSpec

\* What may be undelegated in such a session fits the buffer it goes through.
THEOREM FairSessionsFit == FairSessionSpec => []UndelegatableFits
  <1>1. FairInv => UndelegatableFits
    BY InvImpliesSafety DEF FairInv
  <1> QED
    BY FairSessionsKeepInv, <1>1, PTL

-----------------------------------------------------------------------------
(* The guards, and what is left of the actions. *)

\* What Finalize tests.
CanFinalize(v, a) ==
    LET settlement == Settlement(DelegatedLamports(a), commitRecord[a].data.lamports)
    IN  /\ IsDelegated(a)
        /\ IsInitialized(validatorFeesVault[v])
        /\ HasPendingCommit(a)
        /\ commitRecord[a].data.account = a
        /\ commitRecord[a].data.identity = v
        /\ delegatedAccount[a].lamports >= settlement.toVault
        /\ commitState[a].lamports >= settlement.toAccount
        /\ IsRentExempt(SettledAccount(a), DataRent[SettledAccount(a).data])

\* The outcomes of the CPI that Undelegate goes on with.
AcceptedOutcomes(a, program) ==
    {cpi \in CpiOutcomes(a, program) :
        LET reopened == Reopened(delegatedAccount[a], cpi)
        IN  CpiIsFaithful(delegatedAccount[a], cpi) /\ IsRentExempt(reopened, DataRent[reopened.data])}

\* What Undelegate tests of an account to be returned by v.
CanReturnBy(v, a, program, reimbursed) ==
    LET before == delegatedAccount[a]
    IN  /\ CanUndelegate(v, a, program, reimbursed)
        /\ before.data # NoData =>
              /\ CanCreate(before.data)
              /\ wallet[v] >= DataRent[before.data]
              /\ AcceptedOutcomes(a, program) # {}

CanReturn(a) ==
    \E v \in Validators, program \in Owners, reimbursed \in Wallets :
        CanReturnBy(v, a, program, reimbursed)

\* What Finalize assigns to each variable.
FinalizeAssigns(v, a) ==
    LET commit == commitRecord[a].data
        settlement == Settlement(DelegatedLamports(a), commit.lamports)
        leftover == commitState[a].lamports - settlement.toAccount + commitRecord[a].lamports
        settled == SettledAccount(a)
    IN  /\ delegatedAccount' = [delegatedAccount EXCEPT ![a] = Purged(settled)]
        /\ delegationRecord' =
              [delegationRecord EXCEPT ![a] = SettledRecord(@, settled.lamports)]
        /\ delegationMetadata' = [delegationMetadata EXCEPT ![a].data.lastUpdateSlot = commit.slot]
        /\ commitState' = [commitState EXCEPT ![a] = Absent]
        /\ commitRecord' = [commitRecord EXCEPT ![a] = Absent]
        /\ validatorFeesVault' = [validatorFeesVault EXCEPT ![v].lamports = @ + settlement.toVault]
        /\ feesVault' = feesVault
        /\ programConfig' = programConfig
        /\ wallet' = [wallet EXCEPT ![v] = @ + leftover]

\* What Undelegate assigns: the account as it is, or as its owner program may
\* reopen it, and what Cleanup assigns.
UndelegateAssigns(v, a, program, reimbursed) ==
    \/ /\ delegatedAccount[a].data = NoData
       /\ delegatedAccount' = [delegatedAccount EXCEPT ![a].owner = program]
       /\ Cleanup(v, a, reimbursed, wallet)
       /\ UNCHANGED <<commitPdas, programConfig>>
    \/ /\ delegatedAccount[a].data # NoData
       /\ \E cpi \in AcceptedOutcomes(a, program) :
             ResumeUndelegate(v, a, reimbursed, cpi, Purged(Reopened(delegatedAccount[a], cpi)))

\* Finalize is its guard and its assignments.
LEMMA FinalizeHasGuard ==
    ASSUME NEW v, NEW a
    PROVE  Finalize(v, a) <=> CanFinalize(v, a) /\ FinalizeAssigns(v, a)
  BY Zenon DEF Finalize, ProcessFinalize, CanFinalize, FinalizeAssigns

\* So is Undelegate, for some validator, owner program and payer.
LEMMA UndelegateHasGuard ==
    ASSUME NEW a
    PROVE  Undelegate(a) <=>
             \E v \in Validators, program \in Owners, reimbursed \in Wallets :
                /\ CanReturnBy(v, a, program, reimbursed)
                /\ UndelegateAssigns(v, a, program, reimbursed)
  <1>1. ASSUME NEW v, NEW program, NEW reimbursed
        PROVE  (\/ UndelegateEmpty(v, a, program, reimbursed)
                \/ UndelegateViaCpi(v, a, program, reimbursed)) <=>
                 /\ CanReturnBy(v, a, program, reimbursed)
                 /\ UndelegateAssigns(v, a, program, reimbursed)
    <2>1. CASE delegatedAccount[a].data = NoData
      BY <2>1, Zenon DEF UndelegateEmpty, UndelegateViaCpi, CallOwnerProgram, CanReturnBy,
                         UndelegateAssigns
    <2>2. CASE delegatedAccount[a].data # NoData
      <3>1. UndelegateViaCpi(v, a, program, reimbursed) <=>
              /\ CallOwnerProgram(v, a, program, reimbursed)
              /\ \E cpi \in AcceptedOutcomes(a, program) :
                    ResumeUndelegate(v, a, reimbursed, cpi, Purged(Reopened(delegatedAccount[a], cpi)))
        BY Zenon DEF UndelegateViaCpi, AcceptedOutcomes, ResumeUndelegate
      <3>2. ~ UndelegateEmpty(v, a, program, reimbursed)
        BY <2>2 DEF UndelegateEmpty
      <3> QED
        BY <2>2, <3>1, <3>2, Zenon DEF CallOwnerProgram, CanReturnBy, UndelegateAssigns
    <2> QED
      BY <2>1, <2>2
  <1> QED
    BY <1>1, Zenon DEF Undelegate

-----------------------------------------------------------------------------
(* Commits are settled. *)

\* A commit that covers the rent of its contents can be finalized by its validator.
LEMMA SettleableCanBeFinalized ==
    ASSUME Inv, NEW v \in Validators, NEW a \in Accounts, IsSettleable(v, a), VaultIsOpen(v)
    PROVE  CanFinalize(v, a)
  <1> DEFINE recorded == DelegatedLamports(a)
             committed == commitRecord[a].data.lamports
             settlement == Settlement(recorded, committed)
             lamports == delegatedAccount[a].lamports
             settled == SettledAccount(a)
  <1>1. /\ HasPendingCommit(a) /\ Safe(a) /\ Typed(a)
        /\ committed >= DataRent[commitState[a].data]
        /\ commitRecord[a].data.identity = v
    BY AccountsAreTyped DEF Inv, IsSettleable
  <1>2. /\ IsDelegated(a)
        /\ commitRecord[a].data.account = a
        /\ recorded <= lamports
        /\ committed - recorded <= commitState[a].lamports
    BY <1>1 DEF Safe
  <1>3. /\ recorded \in Nat /\ committed \in Nat /\ lamports \in Nat
        /\ commitState[a].lamports \in Nat
        /\ delegatedAccount[a] \in DelegatableAccount
    BY <1>1, <1>2 DEF Typed, IsDelegated, HasPendingCommit
  <1>4. lamports >= settlement.toVault /\ commitState[a].lamports >= settlement.toAccount
    <2> DEFINE held == commitState[a].lamports
    <2>1. recorded <= lamports /\ committed - recorded <= held /\ held \in Nat
      BY <1>2, <1>3
    <2> HIDE DEF recorded, committed, lamports, held
    <2>2. lamports >= settlement.toVault /\ held >= settlement.toAccount
      BY <1>3, <2>1 DEF Settlement
    <2> QED
      BY <2>2 DEF held
  <1>5. /\ settled.lamports = lamports - settlement.toVault + settlement.toAccount
        /\ settled.data = commitState[a].data
    BY <1>3 DEF SettledAccount, DelegatableAccount
  <1>6. lamports - settlement.toVault + settlement.toAccount >= committed
    <2> HIDE DEF recorded, committed, lamports
    <2> QED
      BY <1>2, <1>3 DEF Settlement
  <1>7. IsRentExempt(settled, DataRent[settled.data])
    <2> DEFINE rent == DataRent[commitState[a].data]
               left == settled.lamports
    <2>1. rent \in Nat
      BY <1>1, LedgerAssumption DEF HasPendingCommit, Typed
    <2>2. left >= rent
      <3>1. left >= committed /\ committed >= rent /\ left \in Int
        <4> HIDE DEF settled, rent, committed, recorded, lamports
        <4>1. settlement.toVault \in Nat /\ settlement.toAccount \in Nat
          BY <1>3, SettlementIsOneSided
        <4> HIDE DEF settlement
        <4> QED
          BY <1>1, <1>3, <1>5, <1>6, <4>1 DEF rent, committed
      <3> HIDE DEF left, rent, committed
      <3> QED
        BY <1>3, <2>1, <3>1
    <2> QED
      BY <1>5, <2>2 DEF IsRentExempt
  <1> QED
    BY <1>1, <1>2, <1>4, <1>7 DEF CanFinalize, VaultIsOpen

\* Whatever happens, it stays so until it is finalized.
LEMMA SettleableStaysSo ==
    ASSUME Inv, [Next]_vars, NEW v \in Validators, NEW a \in Accounts,
           IsSettleable(v, a), HasPendingCommit(a)'
    PROVE  IsSettleable(v, a)'
  <1>1. HasPendingCommit(a) /\ ~ CommitIsConsumed(a)
    BY DEF IsSettleable, CommitIsConsumed
  <1>2. commitRecord'[a] = commitRecord[a] /\ commitState'[a].data = commitState[a].data
    BY <1>1, StepKeepsPendingCommit
  <1> QED
    BY <1>2 DEF IsSettleable

\* Finalizing consumes it.
LEMMA FinalizeSettles ==
    ASSUME Inv, NEW v \in Validators, NEW a \in Accounts, Finalize(v, a)
    PROVE  ~ HasPendingCommit(a)'
  <1>1. commitState' = [commitState EXCEPT ![a] = Absent]
    BY DEF Finalize, ProcessFinalize
  <1>2. commitState'[a] = Absent
    BY <1>1 DEF Inv, TypeOK
  <1> QED
    BY <1>2, AbsentIsUninitialized DEF HasPendingCommit

\* Weak fairness, with the guard in place of ENABLED.
FinalizeIsTried(v, a) ==
    []<> ~ CanFinalize(v, a) \/ []<> <<Finalize(v, a)>>_vars

\* A validator that goes on settles its commit.
LEMMA CommitIsSettled ==
    ASSUME NEW v \in Validators, NEW a \in Accounts
    PROVE  []FairInv /\ [][FairSessionNext]_vars /\ FinalizeIsTried(v, a)
             => (IsSettleable(v, a) ~> ~ HasPendingCommit(a) \/ ~ VaultIsOpen(v))
  <1>1. FairInv /\ IsSettleable(v, a) /\ [FairSessionNext]_vars
          => IsSettleable(v, a)' \/ ~ HasPendingCommit(a)'
    BY FairStepIsStep, SettleableStaysSo DEF FairInv
  <1>2. FairInv /\ <<Finalize(v, a)>>_vars => ~ HasPendingCommit(a)'
    BY FinalizeSettles DEF FairInv
  <1>3. FairInv /\ IsSettleable(v, a) /\ VaultIsOpen(v) => CanFinalize(v, a)
    BY SettleableCanBeFinalized DEF FairInv
  <1> QED
    BY <1>1, <1>2, <1>3, PTL DEF FinalizeIsTried

-----------------------------------------------------------------------------
(* Released accounts are returned. *)

\* An owner program can charge the validator the rent of any contents that an
\* undelegation buffer can hold, and leave it all in the account.
OwnersCanChargeRent ==
    /\ 0 \in CpiPayments
    /\ \A data \in Data \ (TooLarge \cup {NoData}) : DataRent[data] \in CpiPayments

\* No validator can advance the rent of the buffer.
NobodyCanAdvance(a) == \A v \in Validators : ~ CanAdvance(v, a)

\* A released account can be returned by whoever can advance the rent of the buffer.
LEMMA ReturnableCanBeReturned ==
    ASSUME FairInv, OwnersCanChargeRent, NEW a \in Accounts, IsReturnable(a), ~ NobodyCanAdvance(a)
    PROVE  CanReturn(a)
  <1> DEFINE before == delegatedAccount[a]
             program == delegationRecord[a].data.owner
             payer == delegationMetadata[a].data.rentPayer
             cpi == [owner |-> program, data |-> before.data,
                     charged |-> DataRent[before.data], diverted |-> 0]
  <1>1. PICK v \in Validators : VaultIsOpen(v) /\ wallet[v] >= DataRent[before.data]
    BY DEF NobodyCanAdvance, CanAdvance
  <1>2. /\ Inv /\ Safe(a) /\ Typed(a) /\ IsInitialized(feesVault)
        /\ IsDelegated(a) /\ NoPendingCommit(a) /\ delegationMetadata[a].data.isUndelegatable
    BY AccountsAreTyped DEF FairInv, Inv, IsReturnable
  <1>3. program \in Owners /\ payer \in Wallets
    BY <1>2 DEF Typed, IsDelegated, RecordData, MetadataData
  <1>4. CanUndelegate(v, a, program, payer)
    BY <1>1, <1>2 DEF CanUndelegate, VaultIsOpen
  <1>5. CanCreate(before.data)
    <2>1. ~ HasPendingCommit(a)
      BY <1>2, ProgramsDiffer DEF NoPendingCommit, HasPendingCommit, IsInitialized, IsUninitialized
    <2> QED
      BY <1>2, <2>1 DEF Safe
  <1>6. ASSUME before.data # NoData
        PROVE  cpi \in AcceptedOutcomes(a, program)
    <2>1. a \notin OnCurve /\ program # SystemProgram
      BY <1>6 DEF IsReturnable
    <2>2. before.data \in Data /\ DataRent[before.data] \in CpiPayments /\ 0 \in CpiPayments
      BY <1>2, <1>5, <1>6 DEF Typed, OwnersCanChargeRent, CanCreate
    <2>3. before.lamports >= DataRent[before.data]
      BY <1>2 DEF Safe, IsDelegated, IsRentExempt
    <2>4. DataRent[before.data] \in Nat /\ before.lamports \in Nat
      BY <1>2, <2>2, LedgerAssumption DEF Typed
    <2>5. cpi \in CpiOutcomes(a, program)
      BY <1>3, <2>1, <2>2, <2>4 DEF CpiOutcomes
    <2>6. CpiIsFaithful(before, cpi)
      BY <2>3 DEF CpiIsFaithful
    <2>7. Reopened(before, cpi) = [owner |-> program, lamports |-> before.lamports, data |-> before.data]
      <3>1. DataRent[before.data] - 0 + (before.lamports - DataRent[before.data]) = before.lamports
        BY <2>4
      <3> QED
        BY <3>1 DEF Reopened, ExtraLamports, Account
    <2>8. LET reopened == Reopened(before, cpi) IN IsRentExempt(reopened, DataRent[reopened.data])
      BY <2>3, <2>7 DEF IsRentExempt
    <2> HIDE DEF cpi
    <2> QED
      BY <2>5, <2>6, <2>8 DEF AcceptedOutcomes
  <1>7. CanReturnBy(v, a, program, payer)
    <2> HIDE DEF cpi
    <2> QED
      BY <1>1, <1>4, <1>5, <1>6 DEF CanReturnBy
  <1> QED
    BY <1>3, <1>7 DEF CanReturn

\* While a session lasts, Dlp owns the account.
LEMMA HeldAccountStaysHeld ==
    ASSUME Inv, [Next]_vars, NEW a \in Accounts, IsDelegated(a), InSession(a)',
           ~ CommitIsConsumed(a)
    PROVE  /\ IsInitialized(delegatedAccount'[a])
           /\ delegatedAccount'[a].data = delegatedAccount[a].data
  <1>1. TypeOK' /\ (C!Next \/ UNCHANGED C!custodyVars)
    BY StepMaps
  <1>2. delegatedAccount'[a].data = delegatedAccount[a].data
    BY <1>1, CustodyStepIsFaithful DEF SessionEnds
  <1>3. /\ C!IsHeld(a) /\ custodyTerms[a] # {} /\ delegatedAccount[a].owner = Dlp
        /\ custodyTerms'[a] # {}
    BY HeldIsDelegated DEF C!IsHeld, custodyTerms, TermsOf, InSession
  <1>4. /\ delegatedAccount \in [Accounts -> DelegatableAccount]
        /\ delegatedAccount[a] \in DelegatableAccount
    BY DEF Inv, TypeOK
  <1>5. CASE UNCHANGED C!custodyVars
    BY <1>2, <1>3, <1>5 DEF C!custodyVars, IsInitialized
  <1>6. CASE C!Next
    <2> PICK b \in Accounts :
          \/ \E owner \in Owners : C!Take(b, owner)
          \/ C!Propose(b)
          \/ C!Apply(b)
          \/ C!Return(b)
          \/ C!Receive(b)
          \/ C!AtHome(b)
      BY <1>6 DEF C!Next
    <2>1. CASE \E owner \in Owners : C!Take(b, owner)
      BY <1>3, <1>4, <2>1 DEF C!Take, IsInitialized
    <2>2. CASE C!Propose(b)
      BY <1>3, <2>2 DEF C!Propose, IsInitialized
    <2>3. CASE C!Apply(b)
      <3>1. b # a
        <4> SUFFICES ASSUME b = a PROVE CommitIsConsumed(a)
          OBVIOUS
        <4>1. custodyProposal[a] # {} /\ custodyProposal'[a] = {}
          BY <2>3 DEF C!Apply, custodyProposal
        <4> QED
          BY <4>1 DEF custodyProposal, ProposalOf, CommitIsConsumed
      <3> QED
        BY <1>3, <1>4, <2>3, <3>1 DEF C!Apply, IsInitialized
    <2>4. CASE C!Return(b)
      <3>1. b # a
        BY <1>3, <2>4 DEF C!Return, custodyTerms
      <3> QED
        BY <1>3, <1>4, <2>4, <3>1 DEF C!Return, IsInitialized
    <2>5. CASE C!Receive(b)
      BY <1>3, <1>4, <2>5 DEF C!Receive, IsInitialized, DelegatableAccount
    <2>6. CASE C!AtHome(b)
      BY <1>3, <1>4, <2>6 DEF C!AtHome, IsInitialized
    <2> QED
      BY <1>2, <2>1, <2>2, <2>3, <2>4, <2>5, <2>6
  <1> QED
    BY <1>1, <1>5, <1>6

\* Whatever happens, a released account stays so until it is returned.
LEMMA ReturnableStaysSo ==
    ASSUME Inv, [Next]_vars, NEW a \in Accounts, IsReturnable(a), InSession(a)'
    PROVE  IsReturnable(a)'
  <1>1. InSession(a) /\ ~ HasPendingCommit(a)
    BY ProgramsDiffer DEF IsReturnable, IsDelegated, InSession, NoPendingCommit, HasPendingCommit,
                          IsInitialized, IsUninitialized
  <1>2. PdasAreKept(a)
    <2>1. PdaStep(a)
      BY NextIsPdaStep
    <2>2. ~ OutOfSession(a) /\ ~ AccountLeaves(a)
      BY <1>1 DEF OutOfSession, AccountLeaves
    <2>3. ~ CommitArrives(a)
      BY DEF CommitArrives, IsReturnable
    <2>4. ~ CommitLeaves(a)
      BY <1>1 DEF CommitLeaves, CommitIsConsumed
    <2> QED
      BY <2>1, <2>2, <2>3, <2>4 DEF PdaStep
  <1>3. IsInitialized(delegatedAccount'[a]) /\ delegatedAccount'[a].data = delegatedAccount[a].data
    BY <1>1, HeldAccountStaysHeld DEF IsReturnable, CommitIsConsumed
  <1> QED
    BY <1>2, <1>3 DEF IsReturnable, PdasAreKept, IsDelegated, NoPendingCommit, IsInitialized,
                      IsUninitialized

\* Undelegating returns it.
LEMMA UndelegateEndsSession ==
    ASSUME Inv, NEW a \in Accounts, Undelegate(a)
    PROVE  ~ InSession(a)'
  <1>1. delegationRecord'[a] = Absent
    BY UndelegateReturnsIntact DEF Undelegate
  <1> QED
    BY <1>1, AbsentIsUninitialized DEF InSession

\* Weak fairness, with the guard in place of ENABLED.
UndelegateIsTried(a) == []<> ~ CanReturn(a) \/ []<> <<Undelegate(a)>>_vars

\* A validator that goes on, and can pay for the buffer, returns the account.
LEMMA AccountIsReturned ==
    ASSUME OwnersCanChargeRent, NEW a \in Accounts
    PROVE  []FairInv /\ [][FairSessionNext]_vars /\ UndelegateIsTried(a)
             => (IsReturnable(a) ~> ~ InSession(a) \/ NobodyCanAdvance(a))
  <1>1. FairInv /\ IsReturnable(a) /\ [FairSessionNext]_vars => IsReturnable(a)' \/ ~ InSession(a)'
    BY FairStepIsStep, ReturnableStaysSo DEF FairInv
  <1>2. FairInv /\ <<Undelegate(a)>>_vars => ~ InSession(a)'
    BY UndelegateEndsSession DEF FairInv
  <1>3. FairInv /\ IsReturnable(a) /\ ~ NobodyCanAdvance(a) => CanReturn(a)
    BY ReturnableCanBeReturned
  <1> QED
    BY <1>1, <1>2, <1>3, PTL DEF UndelegateIsTried

-----------------------------------------------------------------------------
(* The theorems. *)

\* A fair session, with the guards in place of ENABLED.
Trying ==
    \A a \in Accounts :
        /\ \A v \in Validators : FinalizeIsTried(v, a)
        /\ UndelegateIsTried(a)

TryingSpec == SessionInit /\ [][FairSessionNext]_vars /\ Trying

\* Such a session keeps the invariant.
LEMMA TryingKeepsInv == TryingSpec => []FairInv
  BY FairStepKeepsInv, PTL DEF TryingSpec

\* A commit that covers the rent of its contents is finalized in the end, whatever
\* happens meanwhile, unless the vault of its validator is closed first.
THEOREM PendingCommitIsAlwaysSettled == TryingSpec => PendingCommitIsSettled
  <1>1. ASSUME NEW a \in Accounts, NEW v \in Validators
        PROVE  TryingSpec => (IsSettleable(v, a) ~> ~ HasPendingCommit(a) \/ ~ VaultIsOpen(v))
    <2>1. Trying => FinalizeIsTried(v, a)
      BY DEF Trying
    <2> QED
      BY TryingKeepsInv, CommitIsSettled, <2>1, PTL DEF TryingSpec
  <1> QED
    BY <1>1 DEF PendingCommitIsSettled

\* An account that was released goes home in the end, whatever happens meanwhile,
\* unless every validator is unable to advance the rent of the buffer at some moment.
THEOREM ReleasedAccountIsAlwaysReturned ==
    ASSUME OwnersCanChargeRent
    PROVE  TryingSpec => ReleasedAccountIsReturned
  <1>1. ASSUME NEW a \in Accounts
        PROVE  TryingSpec =>
                 (IsReturnable(a) ~> ~ InSession(a) \/ \A v \in Validators : ~ CanAdvance(v, a))
    <2>1. Trying => UndelegateIsTried(a)
      BY DEF Trying
    <2>2. TryingSpec => (IsReturnable(a) ~> ~ InSession(a) \/ NobodyCanAdvance(a))
      BY TryingKeepsInv, AccountIsReturned, <2>1, PTL DEF TryingSpec
    <2>3. NobodyCanAdvance(a) => \A v \in Validators : ~ CanAdvance(v, a)
      BY DEF NobodyCanAdvance
    <2> QED
      BY <2>2, <2>3, PTL
  <1> QED
    BY <1>1 DEF ReleasedAccountIsReturned

-----------------------------------------------------------------------------
(* From ENABLED to the guards. *)

\* An action whose guard holds is enabled: it assigns a value to every variable,
\* and changes the commit record, or the delegation record.
FinalizeIsEnabled(v, a) == CanFinalize(v, a) => ENABLED <<Finalize(v, a)>>_vars

UndelegateIsEnabled(a) == CanReturn(a) => ENABLED <<Undelegate(a)>>_vars

GuardsEnable ==
    \A a \in Accounts :
        /\ \A v \in Validators : FinalizeIsEnabled(v, a)
        /\ UndelegateIsEnabled(a)

\* A fair session is one with the guards in place of ENABLED.
THEOREM FairValidatorsTry == FairSessionSpec /\ []GuardsEnable => TryingSpec
  <1>1. ASSUME NEW a \in Accounts, NEW v \in Validators
        PROVE  Fairness /\ []GuardsEnable => FinalizeIsTried(v, a)
    <2>1. Fairness => KeepsFinalizing(v, a)
      BY DEF Fairness
    <2>2. GuardsEnable => FinalizeIsEnabled(v, a)
      BY DEF GuardsEnable
    <2>3. KeepsFinalizing(v, a) /\ []FinalizeIsEnabled(v, a) => FinalizeIsTried(v, a)
      BY PTL DEF KeepsFinalizing, FinalizeIsEnabled, FinalizeIsTried
    <2> QED
      BY <2>1, <2>2, <2>3, PTL
  <1>2. ASSUME NEW a \in Accounts
        PROVE  Fairness /\ []GuardsEnable => UndelegateIsTried(a)
    <2>1. Fairness => KeepsUndelegating(a)
      BY DEF Fairness
    <2>2. GuardsEnable => UndelegateIsEnabled(a)
      BY DEF GuardsEnable
    <2>3. KeepsUndelegating(a) /\ []UndelegateIsEnabled(a) => UndelegateIsTried(a)
      BY PTL DEF KeepsUndelegating, UndelegateIsEnabled, UndelegateIsTried
    <2> QED
      BY <2>1, <2>2, <2>3, PTL
  <1>3. Fairness /\ []GuardsEnable => Trying
    BY <1>1, <1>2 DEF Trying
  <1> QED
    BY <1>3, PTL DEF FairSessionSpec, TryingSpec

\* Nobody is ever stuck in a fair session.
THEOREM NobodyIsEverStuck ==
    ASSUME OwnersCanChargeRent
    PROVE  FairSessionSpec /\ []GuardsEnable => []NobodyIsStuck
  <1>1. ASSUME FairInv, GuardsEnable, NEW a \in Accounts, NEW v \in Validators,
               IsSettleable(v, a), VaultIsOpen(v)
        PROVE  ENABLED <<Finalize(v, a)>>_vars
    <2>1. CanFinalize(v, a)
      BY <1>1, SettleableCanBeFinalized DEF FairInv
    <2> QED
      BY <1>1, <2>1 DEF GuardsEnable, FinalizeIsEnabled
  <1>2. ASSUME FairInv, GuardsEnable, NEW a \in Accounts,
               IsReturnable(a), \E v \in Validators : CanAdvance(v, a)
        PROVE  ENABLED <<Undelegate(a)>>_vars
    <2>1. CanReturn(a)
      BY <1>2, ReturnableCanBeReturned DEF NobodyCanAdvance
    <2> QED
      BY <1>2, <2>1 DEF GuardsEnable, UndelegateIsEnabled
  <1>3. FairInv /\ GuardsEnable => NobodyIsStuck
    BY <1>1, <1>2 DEF NobodyIsStuck
  <1> QED
    BY FairSessionsKeepInv, <1>3, PTL

\* So every commit that covers the rent of its contents is settled in a fair
\* session, and every released account is returned.
THEOREM FairSessionsGoOn ==
    ASSUME OwnersCanChargeRent
    PROVE  FairSessionSpec /\ []GuardsEnable => PendingCommitIsSettled /\ ReleasedAccountIsReturned
  BY FairValidatorsTry, PendingCommitIsAlwaysSettled, ReleasedAccountIsAlwaysReturned, PTL
=============================================================================
