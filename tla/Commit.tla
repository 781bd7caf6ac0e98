------------------------------- MODULE Commit -------------------------------
(***************************************************************************)
(* CommitState, CommitStateFromBuffer and Finalize: a validator proposes a *)
(* new state of a delegated account together with the lamports to settle   *)
(* it, and later applies it.                                               *)
(*                                                                         *)
(* The two commit instructions differ in where the new contents come from: *)
(* the instruction itself, or a buffer account too large for one.          *)
(***************************************************************************)
EXTENDS Ledger

CONSTANTS
    CommitLamports,  \* balances a validator may commit
    InlineData,      \* contents that fit in an instruction
    BufferData       \* contents staged in a buffer account

ASSUME CommitAssumption ==
    /\ CommitLamports \subseteq Nat
    /\ InlineData \cup BufferData \subseteq Data

CommitArgs(D) == [data : D, lamports : CommitLamports, slot : Slots, allowUndelegation : BOOLEAN]

-----------------------------------------------------------------------------
(* Commit. *)

CanCommit(v, a) == IsDelegated(a) /\ IsInitialized(validatorFeesVault[v])

\* Mutant: slots are not compared.
IsNeverOutdated(a, args) == FALSE

\* Mutant: off by one.
IsLongOutdated(a, args) == args.slot + 1 < delegationMetadata[a].data.lastUpdateSlot

\* An outdated commit is skipped without an error, for the sake of the other
\* instructions of its transaction.
IsOutdated(a, args) == args.slot < delegationMetadata[a].data.lastUpdateSlot

\* Mutant: contents of any size can be proposed.
AnythingFits(data) == TRUE

\* The commit state PDA is created at its full size.
CommitFits(data) == CanCreate(data)

\* A program without a configuration accepts every validator.
IsApproved(v, program) ==
    programConfig[program].owner # SystemProgram => v \in programConfig[program].data

\* Mutant: nothing is advanced.
NoCollateral(recorded, committed) == 0

\* What the validator advances for a commit above the recorded lamports.
Collateral(recorded, committed) == IF committed > recorded THEN committed - recorded ELSE 0

\* process_commit_state_internal.  The collateral for a commit above the
\* recorded lamports is sent to the commit state PDA before it is created, so
\* it counts towards that PDA's rent.
CommitStateInternal(v, a, args) ==
    LET record == delegationRecord[a].data
        extra == Collateral(record.lamports, args.lamports)
        funded == [commitState[a] EXCEPT !.lamports = @ + extra]
        rent == DataRent[args.data]
        cost == extra + TopUpCost(funded, rent) + TopUpCost(commitRecord[a], CommitRecordRent)
        commit == [identity |-> v, account |-> a, slot |-> args.slot, lamports |-> args.lamports]
    IN  /\ CanCommit(v, a)
        /\ ~ IsOutdated(a, args)
        /\ ~ delegationMetadata[a].data.isUndelegatable
        /\ delegatedAccount[a].lamports >= record.lamports
        /\ IsApproved(v, record.owner)
        /\ NoPendingCommit(a)
        /\ CommitFits(args.data)
        /\ wallet[v] >= cost
        /\ delegationMetadata' =
              [delegationMetadata EXCEPT ![a].data.isUndelegatable = args.allowUndelegation]
        /\ commitState' = [commitState EXCEPT ![a] = CreatedPda(funded, Dlp, rent, args.data)]
        /\ commitRecord' =
              [commitRecord EXCEPT ![a] = CreatedPda(@, Dlp, CommitRecordRent, commit)]
        /\ wallet' = [wallet EXCEPT ![v] = @ - cost]
        /\ UNCHANGED <<delegatedAccount, delegationRecord, vaults, programConfig>>

CommitState(v, a) == \E args \in CommitArgs(InlineData) : CommitStateInternal(v, a, args)

CommitStateFromBuffer(v, a) == \E args \in CommitArgs(BufferData) : CommitStateInternal(v, a, args)

CommitOutdated(v, a) ==
    /\ CanCommit(v, a)
    /\ \E args \in CommitArgs(InlineData) : IsOutdated(a, args)
    /\ UNCHANGED vars

-----------------------------------------------------------------------------
(* Finalize. *)

\* Mutant: a surplus stays in the commit state PDA.
SettlementOfDeficit(recorded, committed) ==
    [toVault   |-> IF recorded > committed THEN recorded - committed ELSE 0,
     toAccount |-> 0]

\* settle_lamports_balance: what moves between the delegated account, the
\* validator's vault and the collateral in the commit state PDA.
Settlement(recorded, committed) ==
    [toVault   |-> IF recorded > committed THEN recorded - committed ELSE 0,
     toAccount |-> IF recorded < committed THEN committed - recorded ELSE 0]

\* Mutant: the record stays as it was.
RecordNotSettled(record, lamports) == record

\* The record follows the account.
SettledRecord(record, lamports) == [record EXCEPT !.data.lamports = lamports]

\* Mutant: the contents stay.
SettledLamportsOnly(a) ==
    LET settlement == Settlement(DelegatedLamports(a), commitRecord[a].data.lamports)
    IN  [delegatedAccount[a] EXCEPT !.lamports = @ - settlement.toVault + settlement.toAccount]

\* The account with the committed contents, and the committed lamports plus
\* whatever others sent to it since the last update.
SettledAccount(a) ==
    LET settlement == Settlement(DelegatedLamports(a), commitRecord[a].data.lamports)
        lamports == delegatedAccount[a].lamports - settlement.toVault + settlement.toAccount
    IN  [delegatedAccount[a] EXCEPT !.lamports = lamports, !.data = commitState[a].data]

\* The handler, on the account as the transaction leaves it.  The validator gets
\* back whatever the settlement leaves in the two commit PDAs.
ProcessFinalize(v, a, left) ==
    LET commit == commitRecord[a].data
        settlement == Settlement(DelegatedLamports(a), commit.lamports)
        leftover == commitState[a].lamports - settlement.toAccount + commitRecord[a].lamports
    IN  /\ IsDelegated(a)
        /\ IsInitialized(validatorFeesVault[v])
        /\ HasPendingCommit(a)
        /\ commit.account = a
        /\ commit.identity = v
        /\ delegatedAccount[a].lamports >= settlement.toVault
        /\ commitState[a].lamports >= settlement.toAccount
        /\ delegatedAccount' = [delegatedAccount EXCEPT ![a] = left]
        /\ delegationRecord' =
              [delegationRecord EXCEPT ![a] = SettledRecord(@, SettledAccount(a).lamports)]
        /\ delegationMetadata' = [delegationMetadata EXCEPT ![a].data.lastUpdateSlot = commit.slot]
        /\ commitState' = [commitState EXCEPT ![a] = Absent]
        /\ commitRecord' = [commitRecord EXCEPT ![a] = Absent]
        /\ validatorFeesVault' =
              [validatorFeesVault EXCEPT ![v].lamports = @ + settlement.toVault]
        /\ wallet' = [wallet EXCEPT ![v] = @ + leftover]
        /\ UNCHANGED <<feesVault, programConfig>>

Finalize(v, a) ==
    LET settled == SettledAccount(a)
    IN  /\ ProcessFinalize(v, a, Purged(settled))
        /\ IsRentExempt(settled, DataRent[settled.data])

\* Nothing to finalize: skipped without an error, like an outdated commit.
FinalizeNothing(v, a) ==
    /\ IsDelegated(a)
    /\ IsInitialized(validatorFeesVault[v])
    /\ NoPendingCommit(a)
    /\ UNCHANGED vars

-----------------------------------------------------------------------------
CommitNext ==
    \E v \in Validators, a \in Accounts :
        \/ CommitState(v, a)
        \/ CommitStateFromBuffer(v, a)
        \/ CommitOutdated(v, a)
        \/ Finalize(v, a)
        \/ FinalizeNothing(v, a)
=============================================================================
