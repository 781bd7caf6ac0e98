----------------------------- MODULE Delegation -----------------------------
(***************************************************************************)
(* Delegate and Undelegate: an account enters and leaves the custody of    *)
(* the delegation program.                                                 *)
(*                                                                         *)
(*   owner program --Delegate--> Dlp --(commits, Commit.tla)--> Dlp        *)
(*        ^                                                      |         *)
(*        +---------------------- Undelegate --------------------+         *)
(*                                                                         *)
(* The undelegation buffer is created and closed inside Undelegate, so it  *)
(* is never part of a state: the validator advances its rent and gets it   *)
(* back.  What the code stores and never reads (authority, delegation      *)
(* slot, commit frequency, seeds) is left out.                             *)
(***************************************************************************)
EXTENDS Ledger

CONSTANT CpiPayments  \* lamports an owner program may move in the undelegate CPI

ASSUME CpiPaymentsAssumption == CpiPayments \subseteq Nat

\* The contents of delegated accounts are not blank.  (Those that are could be
\* given by their program to any owner during the undelegate CPI: undelegate.rs
\* compares the contents and not the owner.)
ASSUME ContentsAssumption == Zeroed \notin Data

-----------------------------------------------------------------------------
(* Delegate. *)

\* Mutant: the contents stay in the buffer.
NotRestored(handed, buffer) == handed

\* The contents of a delegated account go through a buffer, unless it has none.
Restored(handed, buffer) ==
    IF buffer = NoData THEN handed ELSE [handed EXCEPT !.data = buffer]

\* The handler, on the account as the caller hands it over (owned by Dlp, its
\* contents in the delegation buffer) and as the transaction leaves it.  Dlp
\* checks that the key of a PDA is derived from `program`; for a key pair it
\* believes the caller.
ProcessDelegate(payer, a, program, handed, taken) ==
    LET cost == TopUpCost(delegationRecord[a], RecordRent)
                  + TopUpCost(delegationMetadata[a], MetadataRent)
        record == [owner |-> program, lamports |-> handed.lamports]
        metadata == [lastUpdateSlot |-> 0, isUndelegatable |-> FALSE, rentPayer |-> payer]
    IN  /\ IsInitialized(handed)
        /\ a \in OnCurve \/ program = OwnerProgram[a]
        /\ IsUninitialized(delegationRecord[a])
        /\ IsUninitialized(delegationMetadata[a])
        /\ wallet[payer] >= cost
        /\ delegationRecord' =
              [delegationRecord EXCEPT ![a] = CreatedPda(@, Dlp, RecordRent, record)]
        /\ delegationMetadata' =
              [delegationMetadata EXCEPT ![a] = CreatedPda(@, Dlp, MetadataRent, metadata)]
        /\ delegatedAccount' = [delegatedAccount EXCEPT ![a] = taken]
        /\ wallet' = [wallet EXCEPT ![payer] = @ - cost]
        /\ UNCHANGED <<commitPdas, vaults, programConfig>>

\* The owner program (or the holder of the key pair) moves the contents into
\* the buffer, assigns the zeroed account to Dlp and calls Delegate, signing
\* for the account.  It can do so with an account of its own, or with one of
\* its PDAs that is still owned by the system program.
Delegate(payer, a, program) ==
    LET home == delegatedAccount[a]
        handed == [home EXCEPT !.owner = Dlp,
                               !.data = IF home.data = NoData THEN NoData ELSE Zeroed]
    IN  /\ a \notin Escrows
        /\ home.owner \in {SystemProgram, OwnerProgram[a]}
        /\ ProcessDelegate(payer, a, program, handed, Purged(Restored(handed, home.data)))

-----------------------------------------------------------------------------
(* Undelegate. *)

\* Mutant: a pending commit is no obstacle.
CanUndelegateEarly(v, a, program, reimbursed) ==
    /\ IsDelegated(a)
    /\ IsInitialized(feesVault)
    /\ IsInitialized(validatorFeesVault[v])
    /\ program = delegationRecord[a].data.owner
    /\ delegationMetadata[a].data.isUndelegatable
    /\ reimbursed = delegationMetadata[a].data.rentPayer

\* Mutant: nobody need have allowed it.
CanUndelegateUnasked(v, a, program, reimbursed) ==
    /\ IsDelegated(a)
    /\ IsInitialized(feesVault)
    /\ IsInitialized(validatorFeesVault[v])
    /\ NoPendingCommit(a)
    /\ program = delegationRecord[a].data.owner
    /\ reimbursed = delegationMetadata[a].data.rentPayer

\* What process_undelegate tests of the accounts it is given: validator v,
\* owner program `program` and rent reimbursement account `reimbursed`.
CanUndelegate(v, a, program, reimbursed) ==
    /\ IsDelegated(a)
    /\ IsInitialized(feesVault)
    /\ IsInitialized(validatorFeesVault[v])
    /\ NoPendingCommit(a)
    /\ program = delegationRecord[a].data.owner
    /\ delegationMetadata[a].data.isUndelegatable
    /\ reimbursed = delegationMetadata[a].data.rentPayer

\* Close both delegation PDAs: 10% of their lamports in fees, the rest to the
\* wallet that paid for them.  `purse` is what the wallets hold by then.
Cleanup(v, a, reimbursed, purse) ==
    LET record == FeeSplit(delegationRecord[a].lamports)
        metadata == FeeSplit(delegationMetadata[a].lamports)
    IN  /\ delegationRecord' = [delegationRecord EXCEPT ![a] = Absent]
        /\ delegationMetadata' = [delegationMetadata EXCEPT ![a] = Absent]
        /\ validatorFeesVault' =
              [validatorFeesVault EXCEPT ![v].lamports = @ + record.validator + metadata.validator]
        /\ feesVault' = [feesVault EXCEPT !.lamports = @ + record.protocol + metadata.protocol]
        /\ wallet' = [purse EXCEPT ![reimbursed] = @ + record.refund + metadata.refund]

\* Mutant: so is an account with data.
UndelegateAnything(v, a, program, reimbursed) ==
    /\ CanUndelegate(v, a, program, reimbursed)
    /\ delegatedAccount' = [delegatedAccount EXCEPT ![a].owner = program]
    /\ Cleanup(v, a, reimbursed, wallet)
    /\ UNCHANGED <<commitPdas, programConfig>>

\* An account without data is just assigned back, lamports and all.
UndelegateEmpty(v, a, program, reimbursed) ==
    /\ CanUndelegate(v, a, program, reimbursed)
    /\ delegatedAccount[a].data = NoData
    /\ delegatedAccount' = [delegatedAccount EXCEPT ![a].owner = program]
    /\ Cleanup(v, a, reimbursed, wallet)
    /\ UNCHANGED <<commitPdas, programConfig>>

\* External: what the undelegate CPI leaves behind.  The owner program is given
\* the emptied account, the undelegation buffer and the validator, all writable,
\* the latter two as signers: it reopens the account with some contents, charges
\* the validator some lamports, and diverts some of those to the buffer, which
\* Dlp owns, so that they can only be added there.  The system program has no
\* such instruction and a key pair cannot be reopened without its signature, so
\* for those the CPI fails.  The runtime lets an account be written by its owner
\* alone, and change hands only when it is blank.
CpiOutcomes(a, program) ==
    IF program = SystemProgram \/ a \in OnCurve
    THEN {}
    ELSE {cpi \in [owner : Owners \cup {Dlp}, data : Data,
                   charged : CpiPayments, diverted : CpiPayments] :
             /\ cpi.diverted <= cpi.charged
             /\ cpi.owner = program \/ cpi.data \in {NoData, Zeroed}}

\* Mutant: what the validator was charged is not compared.
CpiCopiedOnly(before, cpi) ==
    cpi.data = before.data /\ before.lamports >= DataRent[cpi.data]

\* The validator must have been charged the rent, the contents must be those of
\* the account, and the account must be able to afford the rent.  Nothing is
\* asked of the lamports and the owner that the account has now.
CpiIsFaithful(before, cpi) ==
    /\ cpi.charged = DataRent[cpi.data]
    /\ cpi.data = before.data
    /\ before.lamports >= DataRent[cpi.data]

\* What the account had above its rent is sent back to it.
ExtraLamports(before, cpi) == before.lamports - DataRent[cpi.data]

Reopened(before, cpi) ==
    Account(cpi.owner, cpi.charged - cpi.diverted + ExtraLamports(before, cpi), cpi.data)

\* An account with data is closed to the validator for its owner program to
\* reopen it in a CPI.
CallOwnerProgram(v, a, program, reimbursed) ==
    /\ CanUndelegate(v, a, program, reimbursed)
    /\ delegatedAccount[a].data # NoData
    /\ CanCreate(delegatedAccount[a].data)                 \* the undelegation buffer,
    /\ wallet[v] >= DataRent[delegatedAccount[a].data]     \* and its rent

\* After the CPI the account is topped up, and the buffer closed to the validator
\* with all it holds.  `left` is the account as the transaction leaves it.
ResumeUndelegate(v, a, reimbursed, cpi, left) ==
    LET before == delegatedAccount[a]
        gained == before.lamports - cpi.charged - ExtraLamports(before, cpi) + cpi.diverted
    IN  /\ CpiIsFaithful(before, cpi)
        /\ delegatedAccount' = [delegatedAccount EXCEPT ![a] = left]
        /\ Cleanup(v, a, reimbursed, [wallet EXCEPT ![v] = @ + gained])
        /\ UNCHANGED <<commitPdas, programConfig>>

UndelegateViaCpi(v, a, program, reimbursed) ==
    /\ CallOwnerProgram(v, a, program, reimbursed)
    /\ \E cpi \in CpiOutcomes(a, program) :
          LET reopened == Reopened(delegatedAccount[a], cpi)
          IN  /\ ResumeUndelegate(v, a, reimbursed, cpi, Purged(reopened))
              /\ IsRentExempt(reopened, DataRent[reopened.data])

-----------------------------------------------------------------------------
DelegationNext ==
    \E a \in Accounts :
        \/ \E payer \in Wallets, program \in Owners : Delegate(payer, a, program)
        \/ \E v \in Validators, program \in Owners, reimbursed \in Wallets :
              \/ UndelegateEmpty(v, a, program, reimbursed)
              \/ UndelegateViaCpi(v, a, program, reimbursed)
=============================================================================
