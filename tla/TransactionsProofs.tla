------------------------- MODULE TransactionsProofs -------------------------
(***************************************************************************)
(* What the program promises when several of its instructions share a      *)
(* transaction, for bundles of any length.                                 *)
(*                                                                         *)
(* Inv of DelegationProgramProofs is an invariant of single instructions   *)
(* only: inside a bundle an account may hold less than its rent, or        *)
(* nothing, and a commit may outlive the account it is about.  What is     *)
(* left of it, Intact, is kept by each instruction of a bundle, by the     *)
(* runtime that removes the empty accounts at the end, and by rolling      *)
(* back.  The inductive invariant adds that the ledger to roll back to is  *)
(* intact, too, and what became of the commits the bundle brought.         *)
(***************************************************************************)
EXTENDS Transactions, DelegationProgramProofs

LedgerIsTyped(s) ==
    /\ s.account \in [Accounts -> DelegatableAccount]
    /\ s.record \in [Accounts -> Pda(RecordData)]
    /\ s.metadata \in [Accounts -> Pda(MetadataData)]
    /\ s.state \in [Accounts -> Pda(Data)]
    /\ s.commit \in [Accounts -> Pda(CommitRecordData)]
    /\ s.vault \in [Validators -> Pda(VaultData)]
    /\ s.fees \in Pda(VaultData)
    /\ s.config \in [Owners -> Pda(SUBSET Validators)]
    /\ s.wallet \in [Wallets -> Nat]

\* What a bundle keeps of one account of the ledger s: the record is covered, the
\* PDAs come and go together, and a pending commit has its collateral, is no older
\* than the last update and has an account, unless there was nothing left in it.
Sound(s, a) ==
    /\ IsInitialized(s.record[a]) <=> IsInitialized(s.metadata[a])
    /\ IsInitialized(s.state[a]) <=> IsInitialized(s.commit[a])
    /\ IsInitialized(s.account[a]) =>
          /\ IsInitialized(s.record[a])
          /\ s.record[a].data.lamports <= s.account[a].lamports
    /\ IsInitialized(s.commit[a]) =>
          /\ IsInitialized(s.record[a])
          /\ IsInitialized(s.account[a]) \/ s.record[a].data.lamports = 0
          /\ s.metadata[a].data.lastUpdateSlot <= s.commit[a].data.slot
          /\ s.commit[a].data.lamports - s.record[a].data.lamports <= s.state[a].lamports

Intact(s) == LedgerIsTyped(s) /\ \A a \in Accounts : Sound(s, a)

\* A commit that was brought and not yet undelegated has been applied, or a later
\* one was, or it is the one that is pending.
IsApplied(a, slot) ==
    /\ a \in Accounts /\ slot \in Slots
    /\ IsInitialized(delegationMetadata[a])
    /\ slot <= delegationMetadata[a].data.lastUpdateSlot

IsPending(a, slot) ==
    /\ a \in Accounts /\ slot \in Slots
    /\ IsInitialized(delegationMetadata[a])
    /\ HasPendingCommit(a)
    /\ commitRecord[a].data.slot = slot

IsAsked(c) == IsApplied(c[2], c[3]) \/ IsPending(c[2], c[3])
IsAnswered(c) == IsApplied(c[2], c[3])

\* The inductive invariant.
TransactionsInv ==
    /\ Intact(Now)
    /\ IF InTransaction THEN Intact(before[1]) ELSE asked = {} /\ answered = {}
    /\ \A c \in asked : IsAsked(c)
    /\ \A c \in answered : IsAnswered(c)

-----------------------------------------------------------------------------
(* The ledger, as the variables hold it. *)

\* The type invariant, of the current ledger.
LEMMA NowIsTyped == TypeOK <=> LedgerIsTyped(Now)
  BY DEF TypeOK, LedgerIsTyped, Now

\* What being sound means for the current ledger.
LEMMA SoundNow ==
    ASSUME NEW a \in Accounts
    PROVE  Sound(Now, a) <=>
             /\ IsInitialized(delegationRecord[a]) <=> IsInitialized(delegationMetadata[a])
             /\ IsInitialized(commitState[a]) <=> IsInitialized(commitRecord[a])
             /\ IsInitialized(delegatedAccount[a]) =>
                   /\ IsInitialized(delegationRecord[a])
                   /\ DelegatedLamports(a) <= delegatedAccount[a].lamports
             /\ IsInitialized(commitRecord[a]) =>
                   /\ IsInitialized(delegationRecord[a])
                   /\ IsInitialized(delegatedAccount[a]) \/ DelegatedLamports(a) = 0
                   /\ delegationMetadata[a].data.lastUpdateSlot <= commitRecord[a].data.slot
                   /\ commitRecord[a].data.lamports - DelegatedLamports(a) <= commitState[a].lamports
  BY DEF Sound, Now, DelegatedLamports

\* An intact ledger is what the effects of the instructions are stated for.
LEMMA IntactNow ==
    ASSUME Intact(Now)
    PROVE  TypeOK /\ \A a \in Accounts : Sound(Now, a) /\ Typed(a)
  BY NowIsTyped, AccountsAreTyped DEF Intact

\* A step that concerns one account keeps the ledger intact if it leaves that
\* account sound.
LEMMA OneAccountIntact ==
    ASSUME Intact(Now), NEW a \in Accounts, TypeOK', Sound(Now, a)',
           \A b \in Accounts \ {a} : AccountUnchanged(b)
    PROVE  Intact(Now)'
  <1>1. ASSUME NEW b \in Accounts \ {a} PROVE Sound(Now, b)'
    <2>1. Sound(Now, b) /\ AccountUnchanged(b)
      BY DEF Intact
    <2> QED
      BY <2>1 DEF Sound, Now, AccountUnchanged, IsInitialized
  <1>2. LedgerIsTyped(Now)'
    BY DEF TypeOK, LedgerIsTyped, Now
  <1> QED
    BY <1>1, <1>2 DEF Intact

\* A step that leaves the variables of the program alone keeps the ledger intact.
LEMMA UnchangedStaysIntact ==
    ASSUME Intact(Now), UNCHANGED vars
    PROVE  Intact(Now)'
  BY ZenonT(60) DEF Intact, LedgerIsTyped, Sound, Now, vars, delegationPdas, commitPdas, vaults, IsInitialized

\* What became of a commit of another account does not change.
LEMMA CommitsElsewhere ==
    ASSUME NEW b \in Accounts, NEW slot, AccountUnchanged(b)
    PROVE  /\ IsApplied(b, slot) => IsApplied(b, slot)'
           /\ IsPending(b, slot) => IsPending(b, slot)'
  BY DEF IsApplied, IsPending, AccountUnchanged, HasPendingCommit, IsInitialized

\* Nor does it when nothing changes.
LEMMA CommitsUnchanged ==
    ASSUME NEW c, UNCHANGED <<delegationMetadata, commitState, commitRecord>>
    PROVE  /\ IsAsked(c) => IsAsked(c)'
           /\ IsAnswered(c) => IsAnswered(c)'
  BY DEF IsAsked, IsAnswered, IsApplied, IsPending, HasPendingCommit, IsInitialized

-----------------------------------------------------------------------------
(* The instructions of a bundle. *)

\* What the instructions of a bundle leave alone.
LEMMA InBundle ==
    ASSUME TransactionsInv, Execute, Intact(Now)',
           \A c \in asked' : IsAsked(c)', \A c \in answered' : IsAnswered(c)'
    PROVE  TransactionsInv'
  BY DEF TransactionsInv, Execute, InTransaction

\* A commit is brought: it is pending now, or there was a later update.  The ones
\* brought before it are applied, as nothing was pending.
LEMMA ExecuteCommitKeepsInv ==
    ASSUME TransactionsInv, NEW a \in Accounts, NEW v \in Validators, ExecuteCommit(v, a)
    PROVE  TransactionsInv'
  <1>1. PICK args \in CommitArgs(InlineData) :
           /\ Execute
           /\ CommitOrSkip(v, a, args)
           /\ asked' = asked \cup {<<v, a, args.slot>>}
           /\ answered' = answered
    BY DEF ExecuteCommit
  <1>2. /\ args \in CommitArgs(Data) /\ args.slot \in Slots
        /\ Intact(Now) /\ TypeOK /\ Sound(Now, a) /\ Typed(a)
    BY CommitAssumption, IntactNow DEF CommitArgs, TransactionsInv
  <1>3. CASE IsOutdated(a, args)
    <2>1. UNCHANGED vars
      BY <1>1, <1>3 DEF CommitOrSkip
    <2>2. UNCHANGED <<delegationMetadata, commitState, commitRecord>>
      BY <2>1 DEF vars, delegationPdas, commitPdas
    <2>3. IsAnswered(<<v, a, args.slot>>)
      <3>1. IsDelegated(a) /\ args.slot < delegationMetadata[a].data.lastUpdateSlot
        BY <1>1, <1>3 DEF CommitOrSkip, CanCommit, IsOutdated
      <3>2. args.slot \in Nat /\ delegationMetadata[a].data.lastUpdateSlot \in Nat
        BY <1>2, <3>1, LedgerAssumption DEF Typed, IsDelegated
      <3> QED
        BY <1>2, <3>1, <3>2 DEF IsAnswered, IsApplied, IsDelegated
    <2>4. \A c \in asked' : IsAsked(c)'
      BY <1>1, <2>2, <2>3, CommitsUnchanged DEF TransactionsInv, IsAsked, IsAnswered
    <2>5. \A c \in answered' : IsAnswered(c)'
      BY <1>1, <2>2, CommitsUnchanged DEF TransactionsInv
    <2> QED
      BY <1>1, <1>2, <2>1, <2>4, <2>5, UnchangedStaysIntact, InBundle
  <1>4. CASE ~ IsOutdated(a, args)
    <2>1. CommitStateInternal(v, a, args)
      BY <1>1, <1>4 DEF CommitOrSkip
    <2>2. TypeOK' /\ CommitIsWritten(v, a, args)
      BY <1>2, <2>1, CommitWrites
    <2>3. /\ \A b \in Accounts \ {a} : AccountUnchanged(b)
          /\ UNCHANGED <<delegatedAccount, delegationRecord>>
          /\ IsInitialized(delegationMetadata'[a])
          /\ delegationMetadata'[a].data.lastUpdateSlot = delegationMetadata[a].data.lastUpdateSlot
          /\ IsInitialized(commitState'[a])
          /\ args.lamports - DelegatedLamports(a) <= commitState'[a].lamports
          /\ IsInitialized(commitRecord'[a])
          /\ commitRecord'[a].data.slot = args.slot
          /\ commitRecord'[a].data.lamports = args.lamports
      BY <2>2 DEF CommitIsWritten
    <2>4. /\ IsDelegated(a) /\ NoPendingCommit(a)
          /\ ~ args.slot < delegationMetadata[a].data.lastUpdateSlot
          /\ DelegatedLamports(a) <= delegatedAccount[a].lamports
      BY <2>1 DEF CommitStateInternal, CanCommit, IsOutdated, DelegatedLamports
    <2>5. Intact(Now)'
      <3>1. DelegatedLamports(a)' = DelegatedLamports(a)
        BY <2>3 DEF DelegatedLamports
      <3>2. delegationMetadata'[a].data.lastUpdateSlot <= commitRecord'[a].data.slot
        <4>1. args.slot \in Nat /\ delegationMetadata[a].data.lastUpdateSlot \in Nat
          BY <1>2, <2>4, LedgerAssumption DEF Typed, IsDelegated
        <4> QED
          BY <2>3, <2>4, <4>1
      <3>3. Sound(Now, a)'
        BY <2>3, <2>4, <3>1, <3>2 DEF Sound, Now, DelegatedLamports, IsDelegated
      <3> QED
        BY <1>2, <2>2, <2>3, <3>3, OneAccountIntact
    <2>6. ~ HasPendingCommit(a)
      BY <2>4, ProgramsDiffer DEF NoPendingCommit, HasPendingCommit, IsInitialized, IsUninitialized
    <2>7. IsAsked(<<v, a, args.slot>>)'
      BY <1>2, <2>3 DEF IsAsked, IsPending, HasPendingCommit
    <2>8. ASSUME NEW c, IsAsked(c) PROVE IsAsked(c)'
      <3>1. CASE c[2] = a
        BY <2>3, <2>6, <2>8, <3>1 DEF IsAsked, IsPending, IsApplied
      <3>2. CASE c[2] # a
        BY <2>3, <2>8, <3>2, CommitsElsewhere DEF IsAsked, IsPending, IsApplied
      <3> QED
        BY <3>1, <3>2
    <2>9. ASSUME NEW c, IsAnswered(c) PROVE IsAnswered(c)'
      <3>1. CASE c[2] = a
        BY <2>3, <2>9, <3>1 DEF IsAnswered, IsApplied
      <3>2. CASE c[2] # a
        BY <2>3, <2>9, <3>2, CommitsElsewhere DEF IsAnswered, IsApplied
      <3> QED
        BY <3>1, <3>2
    <2>10. \A c \in asked' : IsAsked(c)'
      BY <1>1, <2>7, <2>8 DEF TransactionsInv
    <2>11. \A c \in answered' : IsAnswered(c)'
      BY <1>1, <2>9 DEF TransactionsInv
    <2> QED
      BY <1>1, <2>5, <2>10, <2>11, InBundle
  <1> QED
    BY <1>3, <1>4

\* A commit is consumed: of the commits of the account that were brought, the
\* pending one is applied now and the others were before.
LEMMA ExecuteFinalizeKeepsInv ==
    ASSUME TransactionsInv, NEW a \in Accounts, NEW v \in Validators, ExecuteFinalize(v, a)
    PROVE  TransactionsInv'
  <1>1. /\ Execute
        /\ ProcessFinalize(v, a, SettledAccount(a)) \/ FinalizeNothing(v, a)
        /\ answered' = answered \cup {commit \in asked : commit[1] = v /\ commit[2] = a}
        /\ asked' = asked
    BY DEF ExecuteFinalize
  <1>2. Intact(Now) /\ TypeOK /\ Sound(Now, a) /\ Typed(a)
    BY IntactNow DEF TransactionsInv
  <1>3. CASE FinalizeNothing(v, a)
    <2>1. UNCHANGED vars /\ ~ HasPendingCommit(a)
      BY <1>3, ProgramsDiffer
      DEF FinalizeNothing, NoPendingCommit, HasPendingCommit, IsInitialized, IsUninitialized
    <2>2. UNCHANGED <<delegationMetadata, commitState, commitRecord>>
      BY <2>1 DEF vars, delegationPdas, commitPdas
    <2>3. \A c \in asked : c[2] = a => IsAnswered(c)
      BY <2>1 DEF TransactionsInv, IsAsked, IsPending, IsAnswered
    <2>4. \A c \in asked' : IsAsked(c)'
      BY <1>1, <2>2, CommitsUnchanged DEF TransactionsInv
    <2>5. \A c \in answered' : IsAnswered(c)'
      BY <1>1, <2>2, <2>3, CommitsUnchanged DEF TransactionsInv
    <2> QED
      BY <1>1, <1>2, <2>1, <2>4, <2>5, UnchangedStaysIntact, InBundle
  <1>4. CASE ProcessFinalize(v, a, SettledAccount(a))
    <2> DEFINE settled == SettledAccount(a)
    <2>1. /\ IsDelegated(a) /\ HasPendingCommit(a)
          /\ delegatedAccount[a].lamports
                >= Settlement(DelegatedLamports(a), commitRecord[a].data.lamports).toVault
      BY <1>4 DEF ProcessFinalize
    <2>2. settled \in DelegatableAccount /\ settled.owner = Dlp /\ settled.lamports \in Nat
      BY <1>2, <2>1, SettledAccountIsTyped
    <2>3. TypeOK' /\ FinalizeIsWritten(a, settled)
      BY <1>2, <1>4, <2>2, FinalizeWrites
    <2>4. /\ \A b \in Accounts \ {a} : AccountUnchanged(b)
          /\ delegatedAccount'[a] = settled
          /\ IsInitialized(delegationRecord'[a])
          /\ DelegatedLamports(a)' = settled.lamports
          /\ IsInitialized(delegationMetadata'[a])
          /\ delegationMetadata'[a].data.lastUpdateSlot = commitRecord[a].data.slot
          /\ ~ IsInitialized(commitState'[a]) /\ ~ IsInitialized(commitRecord'[a])
      BY <2>3, AbsentIsUninitialized DEF FinalizeIsWritten
    <2> HIDE DEF settled
    <2>5. Intact(Now)'
      <3>1. Sound(Now, a)'
        BY <2>2, <2>4 DEF Sound, Now, DelegatedLamports
      <3> QED
        BY <1>2, <2>3, <2>4, <3>1, OneAccountIntact
    <2>6. /\ delegationMetadata[a].data.lastUpdateSlot <= commitRecord[a].data.slot
          /\ delegationMetadata[a].data.lastUpdateSlot \in Nat
          /\ commitRecord[a].data.slot \in Nat
      BY <1>2, <2>1, SoundNow, LedgerAssumption DEF Typed, IsDelegated, HasPendingCommit
    <2>7. ASSUME NEW c, IsAsked(c), c[2] = a PROVE IsAnswered(c)'
      <3>1. c[3] \in Slots /\ c[3] \in Nat
        BY <2>7, LedgerAssumption DEF IsAsked, IsApplied, IsPending
      <3>2. c[3] <= commitRecord[a].data.slot
        BY <2>6, <2>7, <3>1 DEF IsAsked, IsApplied, IsPending
      <3> QED
        BY <2>4, <2>7, <3>1, <3>2 DEF IsAnswered, IsApplied
    <2>8. ASSUME NEW c, IsAsked(c) PROVE IsAsked(c)'
      <3>1. CASE c[2] = a
        BY <2>7, <2>8, <3>1 DEF IsAsked, IsAnswered
      <3>2. CASE c[2] # a
        BY <2>4, <2>8, <3>2, CommitsElsewhere DEF IsAsked, IsPending, IsApplied
      <3> QED
        BY <3>1, <3>2
    <2>9. ASSUME NEW c, IsAnswered(c) PROVE IsAnswered(c)'
      <3>1. CASE c[2] = a
        BY <2>7, <2>9, <3>1 DEF IsAsked, IsAnswered
      <3>2. CASE c[2] # a
        BY <2>4, <2>9, <3>2, CommitsElsewhere DEF IsAnswered, IsApplied
      <3> QED
        BY <3>1, <3>2
    <2>10. \A c \in asked' : IsAsked(c)'
      BY <1>1, <2>8 DEF TransactionsInv
    <2>11. \A c \in answered' : IsAnswered(c)'
      BY <1>1, <2>7, <2>9 DEF TransactionsInv
    <2> QED
      BY <1>1, <2>5, <2>10, <2>11, InBundle
  <1> QED
    BY <1>1, <1>3, <1>4

\* The account a bundle returns, whichever way.
UndelegateInBundle(v, a, program, reimbursed) ==
    \/ UndelegateEmpty(v, a, program, reimbursed)
    \/ /\ CallOwnerProgram(v, a, program, reimbursed)
       /\ \E cpi \in CpiOutcomes(a, program) :
             ResumeUndelegate(v, a, reimbursed, cpi, Reopened(delegatedAccount[a], cpi))

LEMMA UndelegateReturns ==
    ASSUME TypeOK, NEW a \in Accounts, NEW v \in Validators, NEW program \in Owners,
           NEW reimbursed \in Wallets,
           UndelegateInBundle(v, a, program, reimbursed)
    PROVE  /\ CanUndelegate(v, a, program, reimbursed)
           /\ UNCHANGED <<commitPdas, programConfig>>
           /\ \E returned \in DelegatableAccount, purse \in [Wallets -> Nat] :
                 /\ returned.owner = program
                 /\ delegatedAccount' = [delegatedAccount EXCEPT ![a] = returned]
                 /\ Cleanup(v, a, reimbursed, purse)
  <1> DEFINE was == delegatedAccount[a]
  <1>1. was \in DelegatableAccount /\ wallet \in [Wallets -> Nat]
    BY DEF TypeOK
  <1>2. CASE UndelegateEmpty(v, a, program, reimbursed)
    <2> DEFINE returned == [was EXCEPT !.owner = program]
    <2>1. returned \in DelegatableAccount /\ returned.owner = program
      BY <1>1 DEF DelegatableAccount
    <2>2. delegatedAccount' = [delegatedAccount EXCEPT ![a] = returned]
      BY <1>2 DEF UndelegateEmpty
    <2> HIDE DEF returned
    <2> QED
      BY <1>1, <1>2, <2>1, <2>2 DEF UndelegateEmpty
  <1>3. ASSUME NEW cpi \in CpiOutcomes(a, program),
               CallOwnerProgram(v, a, program, reimbursed),
               ResumeUndelegate(v, a, reimbursed, cpi, Reopened(was, cpi))
        PROVE  /\ CanUndelegate(v, a, program, reimbursed)
               /\ UNCHANGED <<commitPdas, programConfig>>
               /\ \E returned \in DelegatableAccount, purse \in [Wallets -> Nat] :
                     /\ returned.owner = program
                     /\ delegatedAccount' = [delegatedAccount EXCEPT ![a] = returned]
                     /\ Cleanup(v, a, reimbursed, purse)
    <2>1. CanUndelegate(v, a, program, reimbursed) /\ was.data # NoData
      BY <1>3 DEF CallOwnerProgram
    <2>2. CpiIsFaithful(was, cpi)
      BY <1>3 DEF ResumeUndelegate
    <2> DEFINE returned == Reopened(was, cpi)
               gained == was.lamports - cpi.charged - ExtraLamports(was, cpi) + cpi.diverted
               purse == [wallet EXCEPT ![v] = @ + gained]
    <2>3. /\ cpi.diverted \in Nat
          /\ gained = cpi.diverted
          /\ returned = [owner |-> program, lamports |-> was.lamports - cpi.diverted, data |-> was.data]
          /\ returned \in DelegatableAccount
      BY <2>1, <2>2, ReopenedAccount
    <2>4. returned.owner = program
      <3> HIDE DEF returned
      <3> QED
        BY <2>3
    <2>5. purse \in [Wallets -> Nat]
      <3> HIDE DEF gained
      <3> QED
        BY <1>1, <2>3, PurseIsTyped
    <2>6. /\ delegatedAccount' = [delegatedAccount EXCEPT ![a] = returned]
          /\ Cleanup(v, a, reimbursed, purse)
          /\ UNCHANGED <<commitPdas, programConfig>>
      BY <1>3 DEF ResumeUndelegate
    <2> HIDE DEF returned, purse
    <2> QED
      BY <2>1, <2>3, <2>4, <2>5, <2>6
  <1> QED
    BY <1>2, <1>3 DEF UndelegateInBundle

\* A session ends, and with it what was asked of it.
LEMMA ExecuteUndelegateKeepsInv ==
    ASSUME TransactionsInv, NEW a \in Accounts, NEW v \in Validators, ExecuteUndelegate(v, a)
    PROVE  TransactionsInv'
  <1>1. PICK program \in Owners, reimbursed \in Wallets :
           UndelegateInBundle(v, a, program, reimbursed)
    BY DEF ExecuteUndelegate, UndelegateInBundle
  <1>2. /\ Execute
        /\ asked' = {commit \in asked : commit[2] # a}
        /\ answered' = {commit \in answered : commit[2] # a}
    BY DEF ExecuteUndelegate
  <1>3. Intact(Now) /\ TypeOK
    BY IntactNow DEF TransactionsInv
  <1>4. /\ CanUndelegate(v, a, program, reimbursed)
        /\ UNCHANGED <<commitPdas, programConfig>>
    BY <1>1, <1>3, UndelegateReturns
  <1>5. PICK returned \in DelegatableAccount, purse \in [Wallets -> Nat] :
           /\ returned.owner = program
           /\ delegatedAccount' = [delegatedAccount EXCEPT ![a] = returned]
           /\ Cleanup(v, a, reimbursed, purse)
    BY <1>1, <1>3, UndelegateReturns
  <1>6. TypeOK' /\ SessionIsClosed(a, returned)
    BY <1>3, <1>4, <1>5, CleanupWrites
  <1>7. /\ \A b \in Accounts \ {a} : AccountUnchanged(b)
        /\ delegatedAccount'[a] = returned
        /\ ~ IsInitialized(returned)
        /\ ~ IsInitialized(delegationRecord'[a]) /\ ~ IsInitialized(delegationMetadata'[a])
        /\ ~ IsInitialized(commitState'[a]) /\ ~ IsInitialized(commitRecord'[a])
    <2>1. ~ IsInitialized(commitState[a]) /\ ~ IsInitialized(commitRecord[a])
      BY <1>4, ProgramsDiffer DEF CanUndelegate, NoPendingCommit, IsInitialized, IsUninitialized
    <2>2. ~ IsInitialized(returned)
      BY <1>5, LedgerAssumption DEF IsInitialized
    <2> QED
      BY <1>6, <2>1, <2>2, AbsentIsUninitialized DEF SessionIsClosed
  <1>8. Intact(Now)'
    <2>1. Sound(Now, a)'
      BY <1>7 DEF Sound, Now
    <2> QED
      BY <1>3, <1>6, <1>7, <2>1, OneAccountIntact
  <1>9. \A c \in asked' : IsAsked(c)'
    BY <1>2, <1>7, CommitsElsewhere DEF TransactionsInv, IsAsked, IsPending, IsApplied
  <1>10. \A c \in answered' : IsAnswered(c)'
    BY <1>2, <1>7, CommitsElsewhere DEF TransactionsInv, IsAnswered, IsApplied
  <1> QED
    BY <1>2, <1>8, <1>9, <1>10, InBundle

\* A transfer adds to an account what no record says.
LEMMA ExecuteTransferKeepsInv ==
    ASSUME TransactionsInv, NEW a \in Accounts, NEW payer \in Depositors, ExecuteTransfer(payer, a)
    PROVE  TransactionsInv'
  <1>1. PICK amount \in Deposits :
           /\ wallet[payer] >= amount
           /\ delegatedAccount' = [delegatedAccount EXCEPT ![a].lamports = @ + amount]
           /\ wallet' = [wallet EXCEPT ![payer] = @ - amount]
    BY DEF ExecuteTransfer
  <1>2. /\ Execute
        /\ UNCHANGED <<delegationRecord, delegationMetadata, commitState, commitRecord,
                       validatorFeesVault, feesVault, programConfig, asked, answered>>
    BY DEF ExecuteTransfer, delegationPdas, commitPdas, vaults
  <1>3. /\ Intact(Now) /\ TypeOK /\ Sound(Now, a) /\ Typed(a)
        /\ amount \in Nat /\ payer \in Wallets
    BY IntactNow, DepositsAssumption DEF TransactionsInv
  <1> DEFINE credited == [delegatedAccount[a] EXCEPT !.lamports = @ + amount]
  <1>4. /\ delegatedAccount[a] \in DelegatableAccount
        /\ delegatedAccount' = [delegatedAccount EXCEPT ![a] = credited]
    BY <1>1, <1>3 DEF TypeOK
  <1>5. /\ credited \in DelegatableAccount
        /\ credited.owner = delegatedAccount[a].owner
        /\ credited.lamports = delegatedAccount[a].lamports + amount
    BY <1>3, <1>4, Credit
  <1> HIDE DEF credited
  <1>6. TypeOK'
    <2>1. delegatedAccount' \in [Accounts -> DelegatableAccount]
      BY <1>3, <1>4, <1>5 DEF TypeOK
    <2>2. wallet' \in [Wallets -> Nat]
      BY <1>1, <1>3 DEF TypeOK
    <2> QED
      BY <1>2, <1>3, <2>1, <2>2 DEF TypeOK
  <1>7. Sound(Now, a)'
    <2>1. delegatedAccount'[a] = credited
      BY <1>3, <1>4 DEF TypeOK
    <2>2. IsInitialized(credited) <=> IsInitialized(delegatedAccount[a])
      BY <1>5 DEF IsInitialized
    <2>3. IsInitialized(delegatedAccount[a]) =>
             /\ IsInitialized(delegationRecord[a])
             /\ DelegatedLamports(a) <= credited.lamports
      <3>1. SUFFICES ASSUME IsInitialized(delegatedAccount[a])
                     PROVE  /\ IsInitialized(delegationRecord[a])
                            /\ DelegatedLamports(a) <= credited.lamports
        OBVIOUS
      <3>2. IsInitialized(delegationRecord[a]) /\ DelegatedLamports(a) <= delegatedAccount[a].lamports
        BY <1>3, <3>1, SoundNow
      <3>3. DelegatedLamports(a) \in Nat /\ delegatedAccount[a].lamports \in Nat
        BY <1>3, <3>2 DEF Typed
      <3> QED
        BY <1>3, <1>5, <3>2, <3>3
    <2> QED
      BY <1>2, <1>3, <2>1, <2>2, <2>3 DEF Sound, Now, DelegatedLamports
  <1>8. \A b \in Accounts \ {a} : AccountUnchanged(b)
    BY <1>2, <1>3, <1>4 DEF TypeOK, AccountUnchanged
  <1>9. Intact(Now)'
    BY <1>3, <1>6, <1>7, <1>8, OneAccountIntact
  <1>10. /\ \A c \in asked' : IsAsked(c)'
         /\ \A c \in answered' : IsAnswered(c)'
    BY <1>2, CommitsUnchanged DEF TransactionsInv
  <1> QED
    BY <1>2, <1>9, <1>10, InBundle

-----------------------------------------------------------------------------
(* The transaction. *)

\* The ledger to roll back to is the one the transaction begins with.
LEMMA BeginKeepsInv ==
    ASSUME TransactionsInv, Begin
    PROVE  TransactionsInv'
  <1>1. /\ ~ InTransaction
        /\ before' = <<Now>>
        /\ UNCHANGED <<vars, asked, answered>>
    BY DEF Begin
  <1>2. Intact(Now) /\ asked = {} /\ answered = {}
    BY <1>1 DEF TransactionsInv
  <1>3. Intact(Now)'
    BY <1>1, <1>2, UnchangedStaysIntact
  <1>4. InTransaction' /\ Intact(before'[1])
    BY <1>1, <1>2 DEF InTransaction
  <1> QED
    BY <1>1, <1>2, <1>3, <1>4 DEF TransactionsInv

\* What is not in a transaction only has to be intact.
LEMMA ClosedIsEnough ==
    ASSUME Closed, Intact(Now)'
    PROVE  TransactionsInv'
  BY DEF Closed, TransactionsInv, InTransaction

\* An account that is removed had nothing left in it, so its record said nothing.
LEMMA EndKeepsInv ==
    ASSUME TransactionsInv, End
    PROVE  TransactionsInv'
  <1>1. /\ delegatedAccount' = [a \in Accounts |-> Purged(delegatedAccount[a])]
        /\ Closed
        /\ UNCHANGED <<delegationRecord, delegationMetadata, commitState, commitRecord,
                       validatorFeesVault, feesVault, programConfig, wallet>>
    BY DEF End, delegationPdas, commitPdas, vaults
  <1>2. Intact(Now) /\ TypeOK
    BY IntactNow DEF TransactionsInv
  <1>3. ASSUME NEW a \in Accounts
        PROVE  /\ delegatedAccount'[a] \in DelegatableAccount
               /\ \/ delegatedAccount'[a] = delegatedAccount[a]
                  \/ delegatedAccount'[a] = Absent /\ delegatedAccount[a].lamports = 0
    BY <1>1, <1>2, PurgedAccountIsTyped DEF TypeOK
  <1>4. LedgerIsTyped(Now)'
    <2>1. delegatedAccount' \in [Accounts -> DelegatableAccount]
      BY <1>1, <1>3
    <2> QED
      BY <1>1, <1>2, <2>1 DEF TypeOK, LedgerIsTyped, Now
  <1>5. ASSUME NEW a \in Accounts PROVE Sound(Now, a)'
    <2>1. Sound(Now, a) /\ Typed(a)
      BY <1>2, IntactNow
    <2>2. CASE delegatedAccount'[a] = delegatedAccount[a]
      BY <1>1, <2>1, <2>2 DEF Sound, Now, IsInitialized
    <2>3. CASE delegatedAccount'[a] = Absent /\ delegatedAccount[a].lamports = 0
      <3>1. IsInitialized(delegatedAccount[a]) => DelegatedLamports(a) = 0
        BY <2>1, <2>3, SoundNow DEF Typed
      <3>2. ~ IsInitialized(delegatedAccount'[a])
        BY <2>3, AbsentIsUninitialized
      <3> QED
        BY <1>1, <2>1, <3>1, <3>2 DEF Sound, Now, DelegatedLamports
    <2> QED
      BY <1>3, <2>2, <2>3
  <1>6. Intact(Now)'
    BY <1>4, <1>5 DEF Intact
  <1> QED
    BY <1>1, <1>6, ClosedIsEnough

\* All is as it was when the transaction began.
LEMMA RollBackKeepsInv ==
    ASSUME TransactionsInv, RollBack
    PROVE  TransactionsInv'
  <1> DEFINE was == before[1]
  <1>1. Closed /\ Intact(was)
    BY DEF RollBack, TransactionsInv
  <1>2. /\ Now'.account = was.account /\ Now'.record = was.record
        /\ Now'.metadata = was.metadata /\ Now'.state = was.state
        /\ Now'.commit = was.commit /\ Now'.vault = was.vault
        /\ Now'.fees = was.fees /\ Now'.config = was.config
        /\ Now'.wallet = was.wallet
    BY DEF RollBack, Now
  <1>3. Intact(Now)'
    <2> DEFINE now == Now'
    <2> HIDE DEF now, was
    <2>1. Intact(now)
      BY <1>1, <1>2 DEF Intact, LedgerIsTyped, Sound, now, was
    <2> QED
      BY <2>1 DEF now
  <1> QED
    BY <1>1, <1>3, ClosedIsEnough

-----------------------------------------------------------------------------
(* Transactions of the owner program. *)

\* A new session starts with nothing pending.
LEMMA DelegateStaysIntact ==
    ASSUME Intact(Now), NEW a \in Accounts, NEW payer \in Wallets, NEW program \in Owners,
           Delegate(payer, a, program)
    PROVE  Intact(Now)'
  <1> DEFINE home == delegatedAccount[a]
             handed == [home EXCEPT !.owner = Dlp,
                                    !.data = IF home.data = NoData THEN NoData ELSE Zeroed]
             restored == Restored(handed, home.data)
  <1>1. ProcessDelegate(payer, a, program, handed, Purged(restored))
    BY DEF Delegate
  <1>2. TypeOK /\ Sound(Now, a) /\ Typed(a) /\ home \in DelegatableAccount
    BY IntactNow DEF TypeOK
  <1>3. /\ restored \in DelegatableAccount
        /\ restored.lamports = handed.lamports
        /\ handed.lamports \in Nat
    <2>1. CASE home.data = NoData
      BY <1>2, <2>1 DEF DelegatableAccount, Restored
    <2>2. CASE home.data # NoData
      BY <1>2, <2>2 DEF DelegatableAccount, Restored
    <2> QED
      BY <2>1, <2>2
  <1> HIDE DEF handed, restored
  <1>4. /\ Purged(restored) \in DelegatableAccount
        /\ \/ Purged(restored) = restored
           \/ Purged(restored) = Absent
    BY <1>3, PurgedAccountIsTyped
  <1>5. TypeOK' /\ SessionIsOpened(a, handed, Purged(restored))
    BY <1>1, <1>2, <1>3, <1>4, DelegateWrites
  <1>6. /\ \A b \in Accounts \ {a} : AccountUnchanged(b)
        /\ delegatedAccount'[a] = Purged(restored)
        /\ IsInitialized(delegationRecord'[a]) /\ IsInitialized(delegationMetadata'[a])
        /\ DelegatedLamports(a)' = handed.lamports
        /\ UNCHANGED <<commitState, commitRecord>>
    BY <1>5 DEF SessionIsOpened
  <1>7. ~ IsInitialized(commitState[a]) /\ ~ IsInitialized(commitRecord[a])
    <2>1. ~ IsInitialized(delegationRecord[a])
      BY <1>1, ProgramsDiffer DEF ProcessDelegate, IsInitialized, IsUninitialized
    <2> QED
      BY <1>2, <2>1, SoundNow
  <1>8. IsInitialized(delegatedAccount'[a]) => DelegatedLamports(a)' <= delegatedAccount'[a].lamports
    <2>1. CASE Purged(restored) = restored
      BY <1>3, <1>6, <2>1
    <2>2. CASE Purged(restored) = Absent
      BY <1>6, <2>2, AbsentIsUninitialized
    <2> QED
      BY <1>4, <2>1, <2>2
  <1>9. Sound(Now, a)'
    BY <1>6, <1>7, <1>8 DEF Sound, Now, DelegatedLamports
  <1> QED
    BY <1>5, <1>6, <1>9, OneAccountIntact

\* A program creates a PDA of its own, which is none of the program's.
LEMMA OwnerCreateStaysIntact ==
    ASSUME Intact(Now), NEW a \in Accounts, NEW payer \in Wallets, NEW data \in Data,
           OwnerCreate(payer, a, data)
    PROVE  Intact(Now)'
  <1> DEFINE rent == DataRent[data]
             cost == TopUpCost(delegatedAccount[a], rent)
             created == CreatedPda(delegatedAccount[a], OwnerProgram[a], rent, data)
  <1>1. /\ delegatedAccount[a].owner = SystemProgram
        /\ OwnerProgram[a] \in Programs
        /\ wallet[payer] >= cost
        /\ delegatedAccount' = [delegatedAccount EXCEPT ![a] = created]
        /\ wallet' = [wallet EXCEPT ![payer] = @ - cost]
        /\ UNCHANGED <<delegationRecord, delegationMetadata, commitState, commitRecord,
                       validatorFeesVault, feesVault, programConfig>>
    BY DEF OwnerCreate, delegationPdas, commitPdas, vaults
  <1>2. /\ TypeOK /\ Sound(Now, a)
        /\ delegatedAccount[a].lamports \in Nat
        /\ rent \in Nat
    BY IntactNow, LedgerAssumption DEF Typed
  <1>3. /\ cost \in Nat
        /\ created.owner = OwnerProgram[a]
        /\ created.lamports \in Nat
        /\ created = [owner |-> OwnerProgram[a], lamports |-> delegatedAccount[a].lamports + cost,
                      data |-> data]
    BY <1>2, CreatedPdaIsRentExempt
  <1>4. created \in DelegatableAccount
    BY <1>1, <1>2, <1>3 DEF DelegatableAccount, Owners
  <1> HIDE DEF created, cost
  <1>5. TypeOK'
    <2>1. delegatedAccount' \in [Accounts -> DelegatableAccount]
      BY <1>1, <1>2, <1>4 DEF TypeOK
    <2>2. wallet' \in [Wallets -> Nat]
      BY <1>1, <1>2, <1>3 DEF TypeOK
    <2> QED
      BY <1>1, <1>2, <2>1, <2>2 DEF TypeOK
  <1>6. delegatedAccount'[a] = created
    BY <1>1, <1>2 DEF TypeOK
  <1>7. ~ IsInitialized(delegatedAccount[a]) /\ ~ IsInitialized(created)
    BY <1>1, <1>3, LedgerAssumption, ProgramsDiffer DEF IsInitialized, Owners
  <1>8. Sound(Now, a)'
    BY <1>1, <1>2, <1>6, <1>7 DEF Sound, Now
  <1>9. \A b \in Accounts \ {a} : AccountUnchanged(b)
    BY <1>1, <1>2 DEF TypeOK, AccountUnchanged
  <1> QED
    BY <1>5, <1>8, <1>9, OneAccountIntact

\* Both are transactions of their own.
LEMMA OwnerTransactionKeepsInv ==
    ASSUME TransactionsInv, OwnerTransaction
    PROVE  TransactionsInv'
  <1>1. ~ InTransaction /\ UNCHANGED txVars
    BY DEF OwnerTransaction
  <1>2. Intact(Now) /\ asked = {} /\ answered = {}
    BY <1>1 DEF TransactionsInv
  <1>3. Intact(Now)'
    <2>1. PICK a \in Accounts, payer \in Wallets :
             \/ \E program \in Owners : Delegate(payer, a, program)
             \/ \E data \in Data : OwnerCreate(payer, a, data)
      BY DEF OwnerTransaction
    <2>2. CASE \E program \in Owners : Delegate(payer, a, program)
      BY <1>2, <2>2, DelegateStaysIntact
    <2>3. CASE \E data \in Data : OwnerCreate(payer, a, data)
      BY <1>2, <2>3, OwnerCreateStaysIntact
    <2> QED
      BY <2>1, <2>2, <2>3
  <1> QED
    BY <1>1, <1>2, <1>3 DEF txVars, TransactionsInv, InTransaction

-----------------------------------------------------------------------------
(* The theorems. *)

\* Sessions start with nothing delegated, pending or brought.
LEMMA TransactionsInitEstablishesInv == TransactionsInit => TransactionsInv
  <1> SUFFICES ASSUME TransactionsInit PROVE TransactionsInv
    OBVIOUS
  <1>1. /\ SessionInit
        /\ before = <<>> /\ asked = {} /\ answered = {}
    BY DEF TransactionsInit
  <1>2. Inv
    BY <1>1, SessionInitEstablishesInv
  <1>3. LedgerIsTyped(Now)
    BY <1>2, NowIsTyped DEF Inv
  <1>4. ASSUME NEW a \in Accounts PROVE Sound(Now, a)
    <2>1. Safe(a) /\ ~ IsInitialized(commitRecord[a])
      BY <1>1, <1>2, AbsentIsUninitialized DEF Inv, SessionInit, AccountsInit
    <2> QED
      BY <2>1, SoundNow DEF Safe, IsDelegated
  <1> QED
    BY <1>1, <1>3, <1>4 DEF TransactionsInv, Intact, InTransaction

\* One instruction of a bundle, the beginning or the end of one, or what the owner
\* programs do between them.
LEMMA TransactionsStepKeepsInv ==
    ASSUME TransactionsInv, [TransactionsNext]_allVars
    PROVE  TransactionsInv'
  <1>1. CASE Begin
    BY <1>1, BeginKeepsInv
  <1>2. CASE \E a \in Accounts, v \in Validators :
                ExecuteCommit(v, a) \/ ExecuteFinalize(v, a) \/ ExecuteUndelegate(v, a)
    BY <1>2, ExecuteCommitKeepsInv, ExecuteFinalizeKeepsInv, ExecuteUndelegateKeepsInv
  <1>3. CASE \E a \in Accounts, payer \in Depositors : ExecuteTransfer(payer, a)
    BY <1>3, ExecuteTransferKeepsInv
  <1>4. CASE End
    BY <1>4, EndKeepsInv
  <1>5. CASE RollBack
    BY <1>5, RollBackKeepsInv
  <1>6. CASE OwnerTransaction
    BY <1>6, OwnerTransactionKeepsInv
  <1>7. CASE UNCHANGED allVars
    <2>1. /\ UNCHANGED vars /\ UNCHANGED <<delegationMetadata, commitState, commitRecord>>
          /\ UNCHANGED <<before, asked, answered>>
      BY <1>7 DEF allVars, txVars, vars, delegationPdas, commitPdas
    <2>2. Intact(Now)'
      BY <2>1, UnchangedStaysIntact DEF TransactionsInv
    <2>3. /\ \A c \in asked' : IsAsked(c)'
          /\ \A c \in answered' : IsAnswered(c)'
      BY <2>1, CommitsUnchanged DEF TransactionsInv
    <2> QED
      BY <2>1, <2>2, <2>3 DEF TransactionsInv, InTransaction
  <1> QED
    BY <1>1, <1>2, <1>3, <1>4, <1>5, <1>6, <1>7 DEF TransactionsNext

\* The inductive invariant is strong enough for every invariant of the bundles.
LEMMA TransactionsInvImplies ==
    ASSUME TransactionsInv
    PROVE  /\ RecordIsCovered
           /\ CommitIsCollateralized
           /\ BundledCommitTakesEffect
           /\ CommitIsStrandedOnlyByEmptying
  <1>1. \A a \in Accounts : Sound(Now, a) /\ Typed(a)
    BY IntactNow DEF TransactionsInv
  <1>2. RecordIsCovered
    BY <1>1, SoundNow DEF RecordIsCovered, IsDelegated
  <1>3. CommitIsCollateralized
    <2> SUFFICES ASSUME NEW a \in Accounts, HasPendingCommit(a)
                 PROVE  /\ commitRecord[a].data.lamports - DelegatedLamports(a)
                              <= commitState[a].lamports
                        /\ DelegatedLamports(a) - commitRecord[a].data.lamports
                              <= delegatedAccount[a].lamports
      BY DEF CommitIsCollateralized
    <2>1. /\ commitRecord[a].data.lamports - DelegatedLamports(a) <= commitState[a].lamports
          /\ \/ DelegatedLamports(a) <= delegatedAccount[a].lamports
             \/ DelegatedLamports(a) = 0
      BY <1>1, SoundNow DEF HasPendingCommit
    <2>2. /\ commitRecord[a].data.lamports \in Nat /\ DelegatedLamports(a) \in Nat
          /\ delegatedAccount[a].lamports \in Nat
      BY <1>1, SoundNow DEF Typed, HasPendingCommit
    <2> QED
      BY <2>1, <2>2
  <1>4. BundledCommitTakesEffect
    BY DEF TransactionsInv, BundledCommitTakesEffect, IsAnswered, IsApplied
  <1>5. CommitIsStrandedOnlyByEmptying
    BY <1>1, SoundNow DEF CommitIsStrandedOnlyByEmptying, HasPendingCommit, IsDelegated, InSession
  <1> QED
    BY <1>2, <1>3, <1>4, <1>5

\* TransactionsInv is an invariant of the bundles.
THEOREM TransactionsKeepInv == TransactionsSpec => []TransactionsInv
  <1>1. TransactionsInv /\ [TransactionsNext]_allVars => TransactionsInv'
    BY TransactionsStepKeepsInv
  <1> QED
    BY TransactionsInitEstablishesInv, <1>1, PTL DEF TransactionsSpec

\* A validator that bundles Finalize with the commits of an account never gets an
\* older state than it brought, whether a commit was skipped as outdated or not, and
\* whatever else is in the bundle.
THEOREM BundledCommitAlwaysTakesEffect == TransactionsSpec => []BundledCommitTakesEffect
  <1>1. TransactionsInv => BundledCommitTakesEffect
    BY TransactionsInvImplies
  <1> QED
    BY <1>1, TransactionsKeepInv, PTL

\* A commit loses its account only when the account is settled to nothing and
\* committed again in the same bundle.
THEOREM CommitIsStrandedOnlyWhenEmptied == TransactionsSpec => []CommitIsStrandedOnlyByEmptying
  <1>1. TransactionsInv => CommitIsStrandedOnlyByEmptying
    BY TransactionsInvImplies
  <1> QED
    BY <1>1, TransactionsKeepInv, PTL

\* Inside a bundle, too, an account in custody holds what its record says, and a
\* pending commit has what finalizing it will move.
THEOREM BundlesAreCovered == TransactionsSpec => [](RecordIsCovered /\ CommitIsCollateralized)
  <1>1. TransactionsInv => RecordIsCovered /\ CommitIsCollateralized
    BY TransactionsInvImplies
  <1> QED
    BY <1>1, TransactionsKeepInv, PTL
=============================================================================
