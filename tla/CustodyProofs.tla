---------------------------- MODULE CustodyProofs ----------------------------
(***************************************************************************)
(* The whole program, and the sessions within it, implement Custody: every *)
(* instruction is one of the steps of Custody or none at all.              *)
(*                                                                         *)
(* A step concerns one account, so the terms and the proposal of all       *)
(* others stay what they were (OneAccountMaps); there is one lemma for     *)
(* each step of Custody, about the instructions that implement it.         *)
(***************************************************************************)
EXTENDS DelegationProgramProofs, CustodyRefinement

-----------------------------------------------------------------------------
(* The mapping. *)

\* An account is held while it is delegated, and only then.
LEMMA HeldIsDelegated ==
    ASSUME Inv, NEW a \in Accounts
    PROVE  C!IsHeld(a) <=> IsDelegated(a)
  <1>1. Safe(a)
    BY DEF Inv
  <1>2. custodyTerms[a] = TermsOf(a)
    BY DEF custodyTerms
  <1>3. custodyTerms[a] # {} <=> IsInitialized(delegationRecord[a])
    BY <1>2 DEF TermsOf
  <1> QED
    BY <1>1, <1>3 DEF C!IsHeld, Safe, IsDelegated, IsInitialized

\* A step that concerns one account changes the terms and the proposal of that
\* account only.
LEMMA OneAccountMaps ==
    ASSUME NEW a \in Accounts,
           \A b \in Accounts \ {a} : AccountUnchanged(b)
    PROVE  /\ custodyTerms' = [custodyTerms EXCEPT ![a] = TermsOf(a)']
           /\ custodyProposal' = [custodyProposal EXCEPT ![a] = ProposalOf(a)']
  <1>1. \A b \in Accounts \ {a} : TermsOf(b)' = TermsOf(b) /\ ProposalOf(b)' = ProposalOf(b)
    BY DEF AccountUnchanged, TermsOf, ProposalOf, HasPendingCommit, IsInitialized
  <1> QED
    BY <1>1 DEF custodyTerms, custodyProposal

\* A step that leaves the PDAs of all accounts alone is no step of Custody unless
\* it changes an account.
LEMMA SamePdasMap ==
    ASSUME UNCHANGED <<delegationPdas, commitPdas>>
    PROVE  UNCHANGED <<custodyTerms, custodyProposal>>
  BY DEF delegationPdas, commitPdas, custodyTerms, custodyProposal, TermsOf, ProposalOf,
         HasPendingCommit, IsInitialized

\* What the two mapped functions say of one account.
LEMMA MappedAccount ==
    ASSUME NEW a \in Accounts
    PROVE  custodyTerms[a] = TermsOf(a) /\ custodyProposal[a] = ProposalOf(a)
  BY DEF custodyTerms, custodyProposal

-----------------------------------------------------------------------------
(* The steps. *)

\* ProcessDelegate, whoever calls it, takes the account as it is.
LEMMA ProcessDelegateTakes ==
    ASSUME Inv, NEW a \in Accounts, NEW payer \in Wallets, NEW program \in Owners,
           NEW handed, NEW restored,
           restored = [delegatedAccount[a] EXCEPT !.owner = Dlp],
           handed.lamports = delegatedAccount[a].lamports,
           delegatedAccount[a].owner # Dlp,
           ProcessDelegate(payer, a, program, handed, Purged(restored))
    PROVE  C!Take(a, program)
  <1> DEFINE recordData == [owner |-> program, lamports |-> handed.lamports]
             metadataData == [lastUpdateSlot |-> 0, isUndelegatable |-> FALSE, rentPayer |-> payer]
  <1>1. /\ IsUninitialized(delegationRecord[a])
        /\ delegatedAccount' = [delegatedAccount EXCEPT ![a] = Purged(restored)]
        /\ delegationRecord' =
              [delegationRecord EXCEPT ![a] = CreatedPda(@, Dlp, RecordRent, recordData)]
        /\ delegationMetadata' =
              [delegationMetadata EXCEPT ![a] = CreatedPda(@, Dlp, MetadataRent, metadataData)]
        /\ UNCHANGED <<commitState, commitRecord>>
    BY DEF ProcessDelegate, commitPdas
  <1>2. \A b \in Accounts \ {a} : AccountUnchanged(b)
    BY <1>1 DEF Inv, TypeOK, AccountUnchanged
  <1>3. custodyTerms[a] = {}
    BY <1>1, ProgramsDiffer, MappedAccount DEF TermsOf, IsInitialized, IsUninitialized
  <1>4. Purged(restored) = C!Kept(delegatedAccount[a])
    <2>1. delegatedAccount[a] \in DelegatableAccount
      BY DEF Inv, TypeOK
    <2> QED
      BY <2>1 DEF Purged, C!Kept, DelegatableAccount
  <1>5. TermsOf(a)' = {[owner |-> program, balance |-> delegatedAccount[a].lamports,
                        slot |-> 0, released |-> FALSE]}
    <2>1. /\ delegationRecord'[a] = CreatedPda(delegationRecord[a], Dlp, RecordRent, recordData)
          /\ delegationMetadata'[a] = CreatedPda(delegationMetadata[a], Dlp, MetadataRent, metadataData)
      BY <1>1 DEF Inv, TypeOK
    <2>2. /\ IsInitialized(delegationRecord'[a])
          /\ delegationRecord'[a].data = recordData
          /\ delegationMetadata'[a].data = metadataData
      BY <2>1 DEF CreatedPda, Account, IsInitialized
    <2> QED
      BY <2>2 DEF TermsOf, IsInitialized
  <1>6. UNCHANGED custodyProposal
    BY <1>1 DEF custodyProposal, ProposalOf, HasPendingCommit, IsInitialized
  <1>7. custodyTerms' = [custodyTerms EXCEPT ![a] = TermsOf(a)']
    BY <1>2, OneAccountMaps
  <1> QED
    BY <1>1, <1>3, <1>4, <1>5, <1>6, <1>7 DEF C!Take

\* Delegate and DelegateEphemeralBalance take the account over.
LEMMA DelegateTakes ==
    ASSUME Inv, NEW a \in Accounts, NEW payer \in Wallets, NEW program \in Owners,
           Delegate(payer, a, program)
    PROVE  C!Take(a, program)
  <1> DEFINE home == delegatedAccount[a]
             handed == [home EXCEPT !.owner = Dlp,
                                    !.data = IF home.data = NoData THEN NoData ELSE Zeroed]
             restored == Restored(handed, home.data)
  <1>1. home \in DelegatableAccount
    BY DEF Inv, TypeOK
  <1>2. home.owner # Dlp
    BY ProgramsDiffer, LedgerAssumption DEF Delegate
  <1>3. ProcessDelegate(payer, a, program, handed, Purged(restored))
    BY DEF Delegate
  <1>4. handed.lamports = home.lamports /\ restored = [home EXCEPT !.owner = Dlp]
    <2>1. CASE home.data = NoData
      BY <1>1, <2>1 DEF DelegatableAccount, Restored
    <2>2. CASE home.data # NoData
      BY <1>1, <2>2 DEF DelegatableAccount, Restored
    <2> QED
      BY <2>1, <2>2
  <1> HIDE DEF handed, restored
  <1> QED
    BY <1>2, <1>3, <1>4, ProcessDelegateTakes

\* An escrow is taken for the system program.
LEMMA DelegateEphemeralBalanceTakes ==
    ASSUME Inv, NEW a \in Accounts, NEW payer \in Wallets, NEW pubkey \in Wallets,
           DelegateEphemeralBalance(payer, pubkey, a)
    PROVE  C!Take(a, SystemProgram)
  <1> DEFINE escrow == delegatedAccount[a]
             handed == [escrow EXCEPT !.owner = Dlp]
             restored == Restored(handed, NoData)
  <1>1. /\ escrow \in DelegatableAccount
        /\ SystemProgram \in Owners
        /\ escrow.owner # Dlp
        /\ ProcessDelegate(payer, a, SystemProgram, handed, Purged(restored))
    BY ProgramsDiffer DEF Inv, TypeOK, Owners, DelegateEphemeralBalance
  <1>2. handed.lamports = escrow.lamports /\ restored = [escrow EXCEPT !.owner = Dlp]
    BY <1>1 DEF DelegatableAccount, Restored
  <1> HIDE DEF handed, restored
  <1> QED
    BY <1>1, <1>2, ProcessDelegateTakes

\* A commit proposes a state; the collateral it advances is no part of it.
LEMMA CommitProposes ==
    ASSUME Inv, NEW a \in Accounts, NEW v \in Validators, NEW args \in CommitArgs(Data),
           CommitStateInternal(v, a, args)
    PROVE  C!Propose(a)
  <1> DEFINE p == [validator |-> v, slot |-> args.slot, lamports |-> args.lamports,
                   data |-> args.data]
             t == [owner    |-> delegationRecord[a].data.owner,
                   balance  |-> delegationRecord[a].data.lamports,
                   slot     |-> delegationMetadata[a].data.lastUpdateSlot,
                   released |-> delegationMetadata[a].data.isUndelegatable]
             commit == [identity |-> v, account |-> a, slot |-> args.slot, lamports |-> args.lamports]
             extra == Collateral(delegationRecord[a].data.lamports, args.lamports)
             funded == [commitState[a] EXCEPT !.lamports = @ + extra]
             allowed == [delegationMetadata[a].data EXCEPT !.isUndelegatable = args.allowUndelegation]
             metadata == [delegationMetadata[a] EXCEPT !.data = allowed]
             state == CreatedPda(funded, Dlp, DataRent[args.data], args.data)
             record == CreatedPda(commitRecord[a], Dlp, CommitRecordRent, commit)
  <1>1. /\ IsDelegated(a)
        /\ ~ args.slot < delegationMetadata[a].data.lastUpdateSlot
        /\ ~ delegationMetadata[a].data.isUndelegatable
        /\ NoPendingCommit(a)
        /\ delegationMetadata' = [delegationMetadata EXCEPT ![a] = metadata]
        /\ commitState' = [commitState EXCEPT ![a] = state]
        /\ commitRecord' = [commitRecord EXCEPT ![a] = record]
        /\ UNCHANGED <<delegatedAccount, delegationRecord>>
    BY DEF CommitStateInternal, CanCommit, IsOutdated
  <1>2. /\ args.data \in Data /\ args.lamports \in CommitLamports
        /\ args.slot \in Slots /\ args.slot \in Nat
        /\ args.allowUndelegation \in BOOLEAN
    BY LedgerAssumption DEF CommitArgs
  <1>3. \A b \in Accounts \ {a} : AccountUnchanged(b)
    BY <1>1 DEF Inv, TypeOK, AccountUnchanged
  <1>4. /\ delegationMetadata[a].data \in MetadataData
        /\ delegationMetadata[a].data.lastUpdateSlot \in Nat
        /\ delegationMetadata[a] \in Pda(MetadataData)
    BY <1>1, AccountsAreTyped DEF Inv, TypeOK, Typed, IsDelegated
  <1>5. C!IsHeld(a) /\ custodyProposal[a] = {} /\ t \in custodyTerms[a]
    <2>1. custodyProposal[a] = {}
      BY <1>1, ProgramsDiffer, MappedAccount
      DEF ProposalOf, NoPendingCommit, HasPendingCommit, IsInitialized, IsUninitialized
    <2> QED
      BY <1>1, <2>1, HeldIsDelegated, MappedAccount DEF TermsOf, IsDelegated
  <1>6. p \in CustodyProposals
    BY <1>2 DEF CustodyProposals
  <1>7. ProposalOf(a)' = {p}
    <2>1. commitState'[a] = state /\ commitRecord'[a] = record
      BY <1>1 DEF Inv, TypeOK
    <2>2. /\ IsInitialized(commitState'[a]) /\ commitState'[a].data = args.data
          /\ IsInitialized(commitRecord'[a]) /\ commitRecord'[a].data = commit
      BY <2>1 DEF CreatedPda, Account, IsInitialized
    <2> QED
      BY <2>2 DEF ProposalOf, HasPendingCommit, IsInitialized
  <1>8. TermsOf(a)' = {[t EXCEPT !.released = args.allowUndelegation]}
    <2>1. delegationMetadata'[a] = metadata /\ delegationRecord'[a] = delegationRecord[a]
      BY <1>1 DEF Inv, TypeOK
    <2>2. metadata.data = allowed
      BY <1>4 DEF Pda
    <2>3. /\ allowed.lastUpdateSlot = delegationMetadata[a].data.lastUpdateSlot
          /\ allowed.isUndelegatable = args.allowUndelegation
      BY <1>4 DEF MetadataData
    <2> HIDE DEF metadata, allowed
    <2> QED
      BY <1>1, <2>1, <2>2, <2>3 DEF TermsOf, IsDelegated, IsInitialized
  <1>9. /\ custodyTerms' = [custodyTerms EXCEPT ![a] = TermsOf(a)']
        /\ custodyProposal' = [custodyProposal EXCEPT ![a] = ProposalOf(a)']
    BY <1>3, OneAccountMaps
  <1>10. ~ t.released /\ p.slot >= t.slot
    BY <1>1, <1>2, <1>4
  <1> HIDE DEF p, t
  <1> QED
    BY <1>1, <1>2, <1>5, <1>6, <1>7, <1>8, <1>9, <1>10 DEF C!Propose

\* Both commit instructions are such a commit.
LEMMA CommitStateProposes ==
    ASSUME Inv, NEW a \in Accounts, NEW v \in Validators,
           CommitState(v, a) \/ CommitStateFromBuffer(v, a)
    PROVE  C!Propose(a)
  <1>1. PICK args \in CommitArgs(InlineData) \cup CommitArgs(BufferData) : CommitStateInternal(v, a, args)
    BY DEF CommitState, CommitStateFromBuffer
  <1>2. args \in CommitArgs(Data)
    BY <1>1, CommitAssumption DEF CommitArgs
  <1> QED
    BY <1>1, <1>2, CommitProposes

\* However the settlement moves lamports, the account ends up with the proposed
\* ones and those it received.
LEMMA FinalizeApplies ==
    ASSUME Inv, NEW a \in Accounts, NEW v \in Validators, Finalize(v, a)
    PROVE  C!Apply(a)
  <1> DEFINE commit == commitRecord[a].data
             p == [validator |-> commit.identity, slot |-> commit.slot,
                   lamports |-> commit.lamports, data |-> commitState[a].data]
             t == [owner    |-> delegationRecord[a].data.owner,
                   balance  |-> delegationRecord[a].data.lamports,
                   slot     |-> delegationMetadata[a].data.lastUpdateSlot,
                   released |-> delegationMetadata[a].data.isUndelegatable]
             settled == SettledAccount(a)
             applied == [delegatedAccount[a] EXCEPT !.lamports = p.lamports + (@ - t.balance),
                                                    !.data = p.data]
             recordData == [delegationRecord[a].data EXCEPT !.lamports = settled.lamports]
             metadataData == [delegationMetadata[a].data EXCEPT !.lastUpdateSlot = commit.slot]
             record == [delegationRecord[a] EXCEPT !.data = recordData]
             metadata == [delegationMetadata[a] EXCEPT !.data = metadataData]
  <1>1. /\ IsDelegated(a)
        /\ HasPendingCommit(a)
        /\ delegatedAccount' = [delegatedAccount EXCEPT ![a] = Purged(settled)]
        /\ delegationRecord' = [delegationRecord EXCEPT ![a] = record]
        /\ delegationMetadata' = [delegationMetadata EXCEPT ![a] = metadata]
        /\ commitState' = [commitState EXCEPT ![a] = Absent]
        /\ commitRecord' = [commitRecord EXCEPT ![a] = Absent]
    <2>1. ProcessFinalize(v, a, Purged(settled))
      BY DEF Finalize
    <2> HIDE DEF settled
    <2> QED
      BY <2>1 DEF ProcessFinalize, SettledRecord, settled
  <1>2. /\ Typed(a)
        /\ delegatedAccount[a] \in DelegatableAccount
        /\ delegationRecord[a] \in Pda(RecordData)
        /\ delegationMetadata[a] \in Pda(MetadataData)
    BY AccountsAreTyped DEF Inv, TypeOK
  <1>3. /\ delegationRecord[a].data \in RecordData
        /\ delegationMetadata[a].data \in MetadataData
        /\ commit.lamports \in Nat
        /\ DelegatedLamports(a) \in Nat
        /\ delegatedAccount[a].lamports \in Nat
        /\ delegatedAccount[a].owner = Dlp
    BY <1>1, <1>2 DEF Typed, IsDelegated, HasPendingCommit, IsInitialized
  <1>4. applied = settled
    <2>1. commit.lamports + (delegatedAccount[a].lamports - DelegatedLamports(a))
            = delegatedAccount[a].lamports
                - Settlement(DelegatedLamports(a), commit.lamports).toVault
                + Settlement(DelegatedLamports(a), commit.lamports).toAccount
      BY <1>3 DEF Settlement
    <2> QED
      BY <2>1 DEF SettledAccount, DelegatedLamports
  <1>5. applied.owner = Dlp /\ [applied EXCEPT !.owner = Dlp] = applied
    BY <1>2, <1>3 DEF DelegatableAccount
  <1> HIDE DEF settled, applied
  <1>6. Purged(settled) = C!Kept(applied)
    BY <1>4, <1>5 DEF Purged, C!Kept
  <1>7. C!IsHeld(a) /\ custodyProposal[a] = {p} /\ custodyTerms[a] = {t}
    BY <1>1, HeldIsDelegated, MappedAccount DEF ProposalOf, TermsOf, IsDelegated
  <1>8. \A b \in Accounts \ {a} : AccountUnchanged(b)
    BY <1>1 DEF Inv, TypeOK, AccountUnchanged
  <1>9. ProposalOf(a)' = {}
    <2>1. commitState'[a] = Absent
      BY <1>1 DEF Inv, TypeOK
    <2> QED
      BY <2>1, AbsentIsUninitialized DEF ProposalOf, HasPendingCommit, IsInitialized
  <1>10. TermsOf(a)' = {[t EXCEPT !.balance = applied.lamports, !.slot = p.slot]}
    <2>1. delegationRecord'[a] = record /\ delegationMetadata'[a] = metadata
      BY <1>1 DEF Inv, TypeOK
    <2>2. /\ record.owner = delegationRecord[a].owner /\ record.data = recordData
          /\ metadata.data = metadataData
      BY <1>2 DEF Pda
    <2>3. /\ recordData.owner = delegationRecord[a].data.owner
          /\ recordData.lamports = applied.lamports
          /\ metadataData.lastUpdateSlot = commit.slot
          /\ metadataData.isUndelegatable = delegationMetadata[a].data.isUndelegatable
      BY <1>3, <1>4 DEF RecordData, MetadataData
    <2>4. [t EXCEPT !.balance = applied.lamports, !.slot = p.slot]
             = [owner |-> t.owner, balance |-> applied.lamports, slot |-> commit.slot,
                released |-> t.released]
      <3> DEFINE u == [owner |-> t.owner, balance |-> applied.lamports, slot |-> t.slot,
                       released |-> t.released]
      <3>1. [t EXCEPT !.balance = applied.lamports] = u
        OBVIOUS
      <3>2. [u EXCEPT !.slot = commit.slot]
              = [owner |-> t.owner, balance |-> applied.lamports, slot |-> commit.slot,
                 released |-> t.released]
        OBVIOUS
      <3>3. p.slot = commit.slot
        OBVIOUS
      <3> HIDE DEF t, p, u, commit
      <3>4. [t EXCEPT !.balance = applied.lamports, !.slot = p.slot]
              = [[t EXCEPT !.balance = applied.lamports] EXCEPT !.slot = p.slot]
        OBVIOUS
      <3> QED
        BY <3>1, <3>2, <3>3, <3>4
    <2>5. IsInitialized(delegationRecord'[a])
      BY <1>1, <2>1, <2>2 DEF IsDelegated, IsInitialized
    <2>6. /\ delegationRecord'[a].data.owner = t.owner
          /\ delegationRecord'[a].data.lamports = applied.lamports
          /\ delegationMetadata'[a].data.lastUpdateSlot = commit.slot
          /\ delegationMetadata'[a].data.isUndelegatable = t.released
      BY <2>1, <2>2, <2>3
    <2> HIDE DEF record, metadata, recordData, metadataData, commit, t
    <2> QED
      BY <2>4, <2>5, <2>6 DEF TermsOf, IsInitialized
  <1>11. /\ custodyTerms' = [custodyTerms EXCEPT ![a] = TermsOf(a)']
         /\ custodyProposal' = [custodyProposal EXCEPT ![a] = ProposalOf(a)']
    BY <1>8, OneAccountMaps
  <1>12. /\ p \in custodyProposal[a] /\ t \in custodyTerms[a]
         /\ delegatedAccount' = [delegatedAccount EXCEPT ![a] = C!Kept(applied)]
    BY <1>1, <1>6, <1>7
  <1> HIDE DEF p, t
  <1> QED
    BY <1>7, <1>9, <1>10, <1>11, <1>12 DEF C!Apply, applied

\* Undelegating returns the account: as it is without the CPI, and less what its
\* owner program withholds with it.
LEMMA UndelegateReturns ==
    ASSUME Inv, NEW a \in Accounts, NEW v \in Validators, NEW program \in Owners,
           NEW reimbursed \in Wallets,
           UndelegateEmpty(v, a, program, reimbursed) \/ UndelegateViaCpi(v, a, program, reimbursed)
    PROVE  C!Return(a)
  <1> DEFINE before == delegatedAccount[a]
             t == [owner    |-> delegationRecord[a].data.owner,
                   balance  |-> delegationRecord[a].data.lamports,
                   slot     |-> delegationMetadata[a].data.lastUpdateSlot,
                   released |-> delegationMetadata[a].data.isUndelegatable]
  <1>1. PICK withheld \in Nat :
           /\ CanUndelegate(v, a, program, reimbursed)
           /\ UNCHANGED commitPdas
           /\ before.lamports - withheld \in Nat
           /\ delegatedAccount' =
                 [delegatedAccount EXCEPT ![a] =
                    Purged([owner |-> program, lamports |-> before.lamports - withheld,
                            data |-> before.data])]
           /\ Cleanup(v, a, reimbursed, [wallet EXCEPT ![v] = @ + withheld])
    BY UndelegateWrites
  <1>2. before \in DelegatableAccount /\ before.lamports \in Nat
    BY AccountsAreTyped DEF Inv, TypeOK, Typed
  <1>3. PICK left \in 0 .. before.lamports :
           delegatedAccount' =
              [delegatedAccount EXCEPT ![a] =
                 IF left = 0 THEN Absent ELSE [@ EXCEPT !.owner = program, !.lamports = left]]
    <2> DEFINE left == before.lamports - withheld
               given == [before EXCEPT !.owner = program]
    <2>1. [before EXCEPT !.owner = program, !.lamports = left]
            = [owner |-> program, lamports |-> left, data |-> before.data]
      <3>1. given = [owner |-> program, lamports |-> before.lamports, data |-> before.data]
        BY <1>2 DEF DelegatableAccount
      <3>2. [before EXCEPT !.owner = program, !.lamports = left] = [given EXCEPT !.lamports = left]
        OBVIOUS
      <3> HIDE DEF left, given
      <3> QED
        BY <3>1, <3>2
    <2>2. Purged([owner |-> program, lamports |-> left, data |-> before.data])
            = IF left = 0 THEN Absent ELSE [before EXCEPT !.owner = program, !.lamports = left]
      BY <2>1 DEF Purged
    <2>3. left \in 0 .. before.lamports
      BY <1>1, <1>2
    <2>4. delegatedAccount' =
            [delegatedAccount EXCEPT ![a] =
               IF left = 0 THEN Absent ELSE [before EXCEPT !.owner = program, !.lamports = left]]
      BY <1>1, <2>2
    <2> HIDE DEF left
    <2> QED
      BY <2>3, <2>4
  <1>4. /\ IsDelegated(a) /\ NoPendingCommit(a)
        /\ program = t.owner /\ t.released
        /\ delegationRecord' = [delegationRecord EXCEPT ![a] = Absent]
        /\ delegationMetadata' = [delegationMetadata EXCEPT ![a] = Absent]
    BY <1>1 DEF CanUndelegate, Cleanup
  <1>5. C!IsHeld(a) /\ custodyProposal[a] = {} /\ t \in custodyTerms[a]
    <2>1. custodyProposal[a] = {}
      BY <1>4, ProgramsDiffer, MappedAccount
      DEF ProposalOf, NoPendingCommit, HasPendingCommit, IsInitialized, IsUninitialized
    <2> QED
      BY <1>4, <2>1, HeldIsDelegated, MappedAccount DEF TermsOf, IsDelegated
  <1>6. \A b \in Accounts \ {a} : AccountUnchanged(b)
    BY <1>1, <1>3, <1>4 DEF Inv, TypeOK, AccountUnchanged, commitPdas
  <1>7. custodyTerms' = [custodyTerms EXCEPT ![a] = {}]
    <2>1. delegationRecord'[a] = Absent
      BY <1>4 DEF Inv, TypeOK
    <2>2. TermsOf(a)' = {}
      BY <2>1, AbsentIsUninitialized DEF TermsOf, IsInitialized
    <2> QED
      BY <1>6, <2>2, OneAccountMaps
  <1>8. UNCHANGED custodyProposal
    BY <1>1 DEF custodyProposal, ProposalOf, HasPendingCommit, IsInitialized, commitPdas
  <1> HIDE DEF t
  <1> QED
    BY <1>3, <1>4, <1>5, <1>7, <1>8 DEF C!Return

\* A deposit, and a top-up of an escrow wherever it is, is received by the account.
LEMMA PaymentIsReceived ==
    ASSUME Inv, NEW a \in Accounts, NEW amount \in Nat,
           delegatedAccount' = [delegatedAccount EXCEPT ![a].lamports = @ + amount],
           UNCHANGED <<delegationPdas, commitPdas>>
    PROVE  C!Receive(a)
  <1>1. /\ delegatedAccount[a] \in DelegatableAccount
        /\ delegatedAccount[a].lamports \in Nat
    BY AccountsAreTyped DEF Inv, TypeOK, Typed
  <1>2. delegatedAccount'[a].lamports = delegatedAccount[a].lamports + amount
    BY <1>1 DEF Inv, TypeOK, DelegatableAccount
  <1>3. delegatedAccount'[a].lamports >= delegatedAccount[a].lamports
    BY <1>1, <1>2
  <1>4. delegatedAccount' = [delegatedAccount EXCEPT ![a].lamports = delegatedAccount'[a].lamports]
    BY <1>2
  <1> QED
    BY <1>3, <1>4, SamePdasMap DEF C!Receive

\* A deposit is such a payment.
LEMMA DepositIsReceived ==
    ASSUME Inv, NEW a \in Accounts, NEW payer \in Depositors, NEW amount \in Deposits,
           Deposit(payer, a, amount)
    PROVE  C!Receive(a)
  BY DepositsAssumption, PaymentIsReceived DEF Deposit

\* So is a top-up, delegated or not.
LEMMA TopUpIsReceived ==
    ASSUME Inv, NEW a \in Accounts, NEW payer \in Wallets, NEW amount \in TopUpAmounts,
           TopUpEphemeralBalance(payer, a, amount)
    PROVE  C!Receive(a)
  <1> DEFINE escrow == delegatedAccount[a]
             cost == amount + (IF escrow.owner = SystemProgram
                               THEN TopUpCost(escrow, DataRent[NoData])
                               ELSE 0)
  <1>1. /\ amount \in Nat
        /\ escrow \in DelegatableAccount
        /\ escrow.lamports \in Nat
        /\ DataRent[NoData] \in Nat
    BY TopUpAssumption, LedgerAssumption, AccountsAreTyped DEF Inv, TypeOK, Typed
  <1>2. cost \in Nat
    BY <1>1 DEF TopUpCost
  <1>3. /\ delegatedAccount' = [delegatedAccount EXCEPT ![a].lamports = @ + cost]
        /\ UNCHANGED <<delegationPdas, commitPdas>>
    BY DEF TopUpEphemeralBalance
  <1> HIDE DEF cost
  <1> QED
    BY <1>2, <1>3, PaymentIsReceived

\* What an owner program does with its account, and closing an escrow, happens at
\* home.
LEMMA HomeActivityIsAtHome ==
    ASSUME Inv, NEW a \in Accounts, NEW account,
           delegatedAccount[a].owner # Dlp, account.owner # Dlp,
           delegatedAccount' = [delegatedAccount EXCEPT ![a] = account],
           UNCHANGED <<delegationPdas, commitPdas>>
    PROVE  C!AtHome(a)
  <1>1. delegatedAccount'[a] = account
    BY DEF Inv, TypeOK
  <1> QED
    BY <1>1, SamePdasMap DEF C!AtHome

\* A program writes only accounts of its own.
LEMMA OwnerWriteIsAtHome ==
    ASSUME Inv, NEW a \in Accounts, NEW data \in Data, OwnerWrite(a, data)
    PROVE  C!AtHome(a)
  <1> DEFINE account == [delegatedAccount[a] EXCEPT !.data = data]
  <1>1. /\ delegatedAccount[a].owner # Dlp
        /\ delegatedAccount' = [delegatedAccount EXCEPT ![a] = account]
        /\ UNCHANGED <<delegationPdas, commitPdas>>
    BY LedgerAssumption DEF OwnerWrite, Owners
  <1>2. account.owner = delegatedAccount[a].owner
    BY DEF Inv, TypeOK, DelegatableAccount
  <1> HIDE DEF account
  <1> QED
    BY <1>1, <1>2, HomeActivityIsAtHome

\* It creates only its PDA, while the system program has it.
LEMMA OwnerCreateIsAtHome ==
    ASSUME Inv, NEW a \in Accounts, NEW payer \in Wallets, NEW data \in Data,
           OwnerCreate(payer, a, data)
    PROVE  C!AtHome(a)
  <1> DEFINE account == CreatedPda(delegatedAccount[a], OwnerProgram[a], DataRent[data], data)
  <1>1. /\ delegatedAccount[a].owner # Dlp
        /\ OwnerProgram[a] # Dlp
        /\ delegatedAccount' = [delegatedAccount EXCEPT ![a] = account]
        /\ UNCHANGED <<delegationPdas, commitPdas>>
    BY ProgramsDiffer, LedgerAssumption DEF OwnerCreate, Owners
  <1>2. account.owner = OwnerProgram[a]
    BY DEF CreatedPda, Account
  <1> HIDE DEF account
  <1> QED
    BY <1>1, <1>2, HomeActivityIsAtHome

\* An escrow is closed only at home.
LEMMA CloseEphemeralBalanceIsAtHome ==
    ASSUME Inv, NEW a \in Accounts, NEW payer \in Wallets, CloseEphemeralBalance(payer, a)
    PROVE  C!AtHome(a)
  <1> DEFINE account == Purged([delegatedAccount[a] EXCEPT !.lamports = 0])
  <1>1. /\ delegatedAccount[a].owner = SystemProgram
        /\ delegatedAccount' = [delegatedAccount EXCEPT ![a] = account]
        /\ UNCHANGED <<delegationPdas, commitPdas>>
    BY DEF CloseEphemeralBalance
  <1>2. account.owner = SystemProgram
    BY <1>1 DEF Inv, TypeOK, DelegatableAccount, Purged, Absent, Account
  <1> HIDE DEF account
  <1> QED
    BY <1>1, <1>2, ProgramsDiffer, HomeActivityIsAtHome

\* A donation to the commit state PDA, and every instruction on vaults and
\* configurations, is no step of Custody.
LEMMA DepositToCommitStateMaps ==
    ASSUME Inv, NEW a \in Accounts, NEW payer \in Depositors, NEW amount \in Deposits,
           DepositToCommitState(payer, a, amount)
    PROVE  UNCHANGED C!custodyVars
  <1> DEFINE credited == [commitState[a] EXCEPT !.lamports = @ + amount]
  <1>1. /\ commitState' = [commitState EXCEPT ![a] = credited]
        /\ UNCHANGED <<delegatedAccount, delegationRecord, delegationMetadata, commitRecord>>
    BY DEF DepositToCommitState, delegationPdas
  <1>2. credited.owner = commitState[a].owner /\ credited.data = commitState[a].data
    BY DEF Inv, TypeOK, Pda
  <1> HIDE DEF credited
  <1>3. \A b \in Accounts :
           commitState'[b].owner = commitState[b].owner /\ commitState'[b].data = commitState[b].data
    BY <1>1, <1>2 DEF Inv, TypeOK
  <1> QED
    BY <1>1, <1>3 DEF C!custodyVars, custodyTerms, custodyProposal, TermsOf, ProposalOf,
                      HasPendingCommit, IsInitialized

\* An instruction about vaults, configurations or wallets is no step of Custody.
LEMMA OtherAccountsMap ==
    ASSUME UNCHANGED <<delegatedAccount, delegationPdas, commitPdas>>
    PROVE  UNCHANGED C!custodyVars
  BY SamePdasMap DEF C!custodyVars

-----------------------------------------------------------------------------
(* The theorems. *)

\* One step of a session.
LEMMA SessionStepMaps ==
    ASSUME Inv, SessionNext
    PROVE  C!Next \/ UNCHANGED C!custodyVars
  <1>1. CASE DelegationNext
    BY <1>1, DelegateTakes, UndelegateReturns DEF DelegationNext, C!Next
  <1>2. CASE CommitNext
    <2> PICK v \in Validators, a \in Accounts :
          \/ CommitState(v, a)
          \/ CommitStateFromBuffer(v, a)
          \/ CommitOutdated(v, a)
          \/ Finalize(v, a)
          \/ FinalizeNothing(v, a)
      BY <1>2 DEF CommitNext
    <2>1. CASE CommitState(v, a) \/ CommitStateFromBuffer(v, a)
      BY <2>1, CommitStateProposes DEF C!Next
    <2>2. CASE Finalize(v, a)
      BY <2>2, FinalizeApplies DEF C!Next
    <2>3. CASE CommitOutdated(v, a) \/ FinalizeNothing(v, a)
      <3>1. UNCHANGED <<delegatedAccount, delegationPdas, commitPdas>>
        BY <2>3 DEF CommitOutdated, FinalizeNothing, vars
      <3> QED
        BY <3>1, OtherAccountsMap
    <2> QED
      BY <2>1, <2>2, <2>3
  <1>3. CASE EnvironmentNext
    <2> PICK a \in Accounts :
          \/ \E payer \in Depositors, amount \in Deposits :
                \/ Deposit(payer, a, amount)
                \/ DepositToCommitState(payer, a, amount)
          \/ \E data \in Data :
                \/ OwnerWrite(a, data)
                \/ \E payer \in Wallets : OwnerCreate(payer, a, data)
      BY <1>3 DEF EnvironmentNext
    <2>1. ASSUME NEW payer \in Depositors, NEW amount \in Deposits, Deposit(payer, a, amount)
          PROVE  C!Next
      BY <2>1, DepositIsReceived DEF C!Next
    <2>2. ASSUME NEW payer \in Depositors, NEW amount \in Deposits,
                 DepositToCommitState(payer, a, amount)
          PROVE  UNCHANGED C!custodyVars
      BY <2>2, DepositToCommitStateMaps
    <2>3. ASSUME NEW data \in Data, OwnerWrite(a, data)
          PROVE  C!Next
      BY <2>3, OwnerWriteIsAtHome DEF C!Next
    <2>4. ASSUME NEW data \in Data, NEW payer \in Wallets, OwnerCreate(payer, a, data)
          PROVE  C!Next
      BY <2>4, OwnerCreateIsAtHome DEF C!Next
    <2> QED
      BY <2>1, <2>2, <2>3, <2>4
  <1> QED
    BY <1>1, <1>2, <1>3 DEF SessionNext

\* What is done about fees and configurations leaves delegations alone.
LEMMA FeesLeaveDelegations ==
    ASSUME FeesVaultsNext \/ ProgramConfigNext
    PROVE  UNCHANGED <<delegatedAccount, delegationPdas, commitPdas>>
  <1>1. ASSUME NEW payer, InitProtocolFeesVault(payer)
        PROVE  UNCHANGED <<delegatedAccount, delegationPdas, commitPdas>>
    BY <1>1 DEF InitProtocolFeesVault
  <1>2. ASSUME NEW payer, NEW admin, NEW v, InitValidatorFeesVault(payer, admin, v)
        PROVE  UNCHANGED <<delegatedAccount, delegationPdas, commitPdas>>
    BY <1>2 DEF InitValidatorFeesVault
  <1>3. ASSUME NEW admin, NEW v, CloseValidatorFeesVault(admin, v)
        PROVE  UNCHANGED <<delegatedAccount, delegationPdas, commitPdas>>
    BY <1>3 DEF CloseValidatorFeesVault
  <1>4. ASSUME NEW v, ValidatorClaimFees(v)
        PROVE  UNCHANGED <<delegatedAccount, delegationPdas, commitPdas>>
    BY <1>4 DEF ValidatorClaimFees
  <1>5. ASSUME NEW admin, ProtocolClaimFees(admin)
        PROVE  UNCHANGED <<delegatedAccount, delegationPdas, commitPdas>>
    BY <1>5 DEF ProtocolClaimFees
  <1>6. ASSUME NEW authority, NEW v, NEW program, NEW insert,
               WhitelistValidatorForProgram(authority, v, program, insert)
        PROVE  UNCHANGED <<delegatedAccount, delegationPdas, commitPdas>>
    BY <1>6 DEF WhitelistValidatorForProgram
  <1>7. CASE FeesVaultsNext
    BY <1>1, <1>2, <1>3, <1>4, <1>5, <1>7 DEF FeesVaultsNext
  <1>8. CASE ProgramConfigNext
    BY <1>6, <1>8 DEF ProgramConfigNext
  <1> QED
    BY <1>7, <1>8

\* One step of the whole program.
LEMMA NextMaps ==
    ASSUME Inv, Next
    PROVE  C!Next \/ UNCHANGED C!custodyVars
  <1>1. CASE SessionNext
    BY <1>1, SessionStepMaps
  <1>2. CASE FeesVaultsNext \/ ProgramConfigNext
    <2>1. UNCHANGED <<delegatedAccount, delegationPdas, commitPdas>>
      BY <1>2, FeesLeaveDelegations
    <2> QED
      BY <2>1, OtherAccountsMap
  <1>3. CASE EphemeralBalanceNext
    <2>1. SystemProgram \in Owners
      BY DEF Owners
    <2> QED
      BY <1>3, <2>1, TopUpIsReceived, DelegateEphemeralBalanceTakes, CloseEphemeralBalanceIsAtHome
      DEF EphemeralBalanceNext, C!Next
  <1> QED
    BY <1>1, <1>2, <1>3 DEF Next

\* Nobody holds anything in the beginning.
LEMMA AccountsInitMaps ==
    ASSUME AccountsInit
    PROVE  C!Init
  <1>1. \A a \in Accounts : delegatedAccount[a].owner # Dlp
    BY InitialAssumption, LedgerAssumption DEF AccountsInit
  <1>2. \A a \in Accounts : TermsOf(a) = {} /\ ProposalOf(a) = {}
    BY AbsentIsUninitialized DEF AccountsInit, TermsOf, ProposalOf, HasPendingCommit
  <1> QED
    BY <1>1, <1>2 DEF C!Init, custodyTerms, custodyProposal

\* Neither is a step that changes nothing.
LEMMA StutterMaps ==
    ASSUME UNCHANGED vars
    PROVE  UNCHANGED C!custodyVars
  BY OtherAccountsMap DEF vars

\* The whole program, from an empty ledger and for any constants, implements
\* Custody: no instruction, in any order and whoever sends it, does to an account
\* anything but one of the steps of Custody.
THEOREM ProgramImplementsCustody == Spec => ImplementsCustody
  <1>1. Init => C!Init
    BY AccountsInitMaps DEF Init
  <1>2. Inv /\ [Next]_vars => [C!Next]_(C!custodyVars)
    BY NextMaps, StutterMaps
  <1> QED
    BY <1>1, <1>2, ProgramKeepsInv, PTL DEF Spec, ImplementsCustody, C!Spec

\* So do the sessions among validators that are set up.
THEOREM SessionsImplementCustody == SessionSpec => ImplementsCustody
  <1>1. SessionInit => C!Init
    BY AccountsInitMaps DEF SessionInit
  <1>2. Inv /\ [SessionNext]_vars => [C!Next]_(C!custodyVars)
    BY SessionStepMaps, StutterMaps
  <1> QED
    BY <1>1, <1>2, SessionsKeepInv, PTL DEF SessionSpec, ImplementsCustody, C!Spec
=============================================================================
