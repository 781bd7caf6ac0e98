------------------------------- MODULE Loaders -------------------------------
(***************************************************************************)
(* What the handlers test of the accounts they are given, apart from the   *)
(* state of those accounts (Ledger.tla): keys, signatures, privileges.     *)
(*                                                                         *)
(* `i` is the list of accounts of an instruction, each with its key and    *)
(* the privileges it has in the transaction.                               *)
(***************************************************************************)
EXTENDS InstructionBuilder

CONSTANTS
    Admin,             \* key of the upgrade authority of Dlp
    UpgradeAuthority,  \* by key of a program
    OnCurve,           \* keys that are no PDAs
    DerivedFrom,       \* by key of a PDA that may be delegated: the program it is derived from
    Recorded,          \* by key of a delegated account: owner and rentPayer as recorded
    Empty              \* keys of the delegated accounts without data

LoadSigner(i) == i.signer

LoadProgram(i, program) == i.key = program

\* Mutant: any PDA of the kind will do.
LoadAnyPda(i, key, writable) == i.key[1] = key[1] /\ (writable => i.writable)

\* load_initialized_pda, load_uninitialized_pda: the address, and at least the
\* privilege that is asked for.
LoadDlpPda(i, key, writable) == i.key = key /\ (writable => i.writable)

\* load_pda: the address, and exactly that privilege.
LoadPda(i, key, writable) == i.key = key /\ i.writable = writable

\* load_program_upgrade_authority, and the comparison that follows it.
IsAdmin(authority, data) ==
    data.key = ProgramData(DelegationProgram) /\ authority.key = Admin

-----------------------------------------------------------------------------
(* The handlers. *)

AcceptsDelegate(i) ==
    /\ Len(i) = 7
    /\ LoadProgram(i[7], System)
    /\ i[2].key \notin OnCurve =>
          DerivedFrom[i[2].key] = IF i[3].key = System THEN DelegationProgram ELSE i[3].key
    /\ LoadPda(i[4], DelegateBuffer(i[2].key, i[3].key), TRUE)
    /\ LoadDlpPda(i[5], DelegationRecord(i[2].key), TRUE)
    /\ LoadDlpPda(i[6], DelegationMetadata(i[2].key), TRUE)
    /\ LoadSigner(i[1]) /\ LoadSigner(i[2])

\* process_commit_state_internal.
AcceptsCommitInternal(v, a, state, commit, record, metadata, vault, config, system) ==
    /\ a.key \in DOMAIN Recorded
    /\ LoadSigner(v)
    /\ LoadDlpPda(record, DelegationRecord(a.key), FALSE)
    /\ LoadDlpPda(metadata, DelegationMetadata(a.key), TRUE)
    /\ LoadDlpPda(vault, ValidatorFeesVault(v.key), FALSE)
    /\ LoadProgram(system, System)
    /\ LoadPda(config, Config(Recorded[a.key].owner), FALSE)
    /\ LoadDlpPda(state, CommitStatePda(a.key), TRUE)
    /\ LoadDlpPda(commit, CommitRecordPda(a.key), TRUE)

AcceptsCommitState(i) ==
    /\ Len(i) = 9
    /\ AcceptsCommitInternal(i[1], i[2], i[3], i[4], i[5], i[6], i[7], i[8], i[9])

AcceptsCommitStateFromBuffer(i) ==
    /\ Len(i) = 10
    /\ AcceptsCommitInternal(i[1], i[2], i[3], i[4], i[5], i[6], i[8], i[9], i[10])

AcceptsFinalize(i) ==
    /\ Len(i) = 8
    /\ LoadSigner(i[1])
    /\ i[2].key \in DOMAIN Recorded
    /\ LoadDlpPda(i[5], DelegationRecord(i[2].key), TRUE)
    /\ LoadDlpPda(i[6], DelegationMetadata(i[2].key), TRUE)
    /\ LoadDlpPda(i[7], ValidatorFeesVault(i[1].key), TRUE)
    /\ LoadProgram(i[8], System)
    /\ LoadDlpPda(i[3], CommitStatePda(i[2].key), TRUE)
    /\ LoadDlpPda(i[4], CommitRecordPda(i[2].key), TRUE)

\* The buffer is looked at only if the account has data.
AcceptsUndelegate(i) ==
    /\ Len(i) = 12
    /\ LoadSigner(i[1])
    /\ i[2].key \in DOMAIN Recorded
    /\ LoadDlpPda(i[7], DelegationRecord(i[2].key), TRUE)
    /\ LoadDlpPda(i[8], DelegationMetadata(i[2].key), TRUE)
    /\ LoadDlpPda(i[10], FeesVault, TRUE)
    /\ LoadDlpPda(i[11], ValidatorFeesVault(i[1].key), TRUE)
    /\ LoadProgram(i[12], System)
    /\ LoadDlpPda(i[5], CommitStatePda(i[2].key), FALSE)
    /\ LoadDlpPda(i[6], CommitRecordPda(i[2].key), FALSE)
    /\ i[3].key = Recorded[i[2].key].owner
    /\ i[9].key = Recorded[i[2].key].rentPayer
    /\ i[2].key \notin Empty => LoadDlpPda(i[4], UndelegateBuffer(i[2].key), TRUE)

AcceptsInitProtocolFeesVault(i) ==
    /\ Len(i) = 3
    /\ LoadSigner(i[1]) /\ LoadProgram(i[3], System)
    /\ LoadDlpPda(i[2], FeesVault, TRUE)

AcceptsInitValidatorFeesVault(i) ==
    /\ Len(i) = 6
    /\ LoadSigner(i[1]) /\ LoadSigner(i[2]) /\ LoadProgram(i[6], System)
    /\ IsAdmin(i[2], i[3])
    /\ LoadDlpPda(i[5], ValidatorFeesVault(i[4].key), TRUE)

AcceptsCloseValidatorFeesVault(i) ==
    /\ Len(i) = 5
    /\ LoadSigner(i[1]) /\ LoadSigner(i[2])
    /\ IsAdmin(i[2], i[3])
    /\ LoadDlpPda(i[5], ValidatorFeesVault(i[4].key), TRUE)

AcceptsValidatorClaimFees(i) ==
    /\ Len(i) = 3
    /\ LoadSigner(i[1])
    /\ LoadDlpPda(i[2], FeesVault, TRUE)
    /\ LoadDlpPda(i[3], ValidatorFeesVault(i[1].key), TRUE)

AcceptsProtocolClaimFees(i) ==
    /\ Len(i) = 3
    /\ LoadSigner(i[1])
    /\ LoadDlpPda(i[2], FeesVault, TRUE)
    /\ IsAdmin(i[1], i[3])

\* validate_authority: the data of the program are looked at only if the authority
\* is not the admin.
AcceptsWhitelist(i) ==
    /\ Len(i) = 7
    /\ LoadSigner(i[1])
    /\ i[5].key = ProgramData(DelegationProgram)
    /\ \/ i[1].key = Admin
       \/ /\ i[4].key = ProgramData(i[3].key)
          /\ i[3].key \in DOMAIN UpgradeAuthority /\ i[1].key = UpgradeAuthority[i[3].key]
    /\ LoadProgram(i[7], System)
    /\ LoadPda(i[6], Config(i[3].key), TRUE)

AcceptsTopUpEphemeralBalance(i) ==
    /\ Len(i) = 4
    /\ LoadSigner(i[1]) /\ LoadProgram(i[4], System)
    /\ LoadPda(i[3], EphemeralBalance(i[2].key), TRUE)

\* An inner instruction has no privilege that the instruction around it lacks,
\* except the signature of a PDA (external: the Solana runtime).
MayInvoke(inner, i, pda) ==
    \A n \in DOMAIN inner : \E k \in DOMAIN i :
        /\ i[k].key = inner[n].key
        /\ inner[n].signer => i[k].signer \/ inner[n].key = pda
        /\ inner[n].writable => i[k].writable

\* Its inner Delegate is built by the client's builder.
AcceptsDelegateEphemeralBalance(i) ==
    /\ Len(i) = 8
    /\ LoadSigner(i[1]) /\ LoadSigner(i[2])
    /\ LoadProgram(i[7], System) /\ LoadProgram(i[8], DelegationProgram)
    /\ i[3].key = EphemeralBalance(i[2].key)
    /\ LET inner == BuildDelegate(i[1].key, i[3].key, System).accounts
       IN  MayInvoke(inner, i, i[3].key) /\ AcceptsDelegate(inner)

AcceptsCloseEphemeralBalance(i) ==
    /\ Len(i) = 3
    /\ LoadSigner(i[1])
    /\ LoadPda(i[2], EphemeralBalance(i[1].key), TRUE)

-----------------------------------------------------------------------------
(* process_instruction: the handler of a discriminator. *)
Accepts(tag, i) ==
    CASE tag = 0  -> AcceptsDelegate(i)
      [] tag = 1  -> AcceptsCommitState(i)
      [] tag = 2  -> AcceptsFinalize(i)
      [] tag = 3  -> AcceptsUndelegate(i)
      [] tag = 5  -> AcceptsInitProtocolFeesVault(i)
      [] tag = 6  -> AcceptsInitValidatorFeesVault(i)
      [] tag = 7  -> AcceptsValidatorClaimFees(i)
      [] tag = 8  -> AcceptsWhitelist(i)
      [] tag = 9  -> AcceptsTopUpEphemeralBalance(i)
      [] tag = 10 -> AcceptsDelegateEphemeralBalance(i)
      [] tag = 11 -> AcceptsCloseEphemeralBalance(i)
      [] tag = 12 -> AcceptsProtocolClaimFees(i)
      [] tag = 13 -> AcceptsCommitStateFromBuffer(i)
      [] tag = 14 -> AcceptsCloseValidatorFeesVault(i)
      [] OTHER    -> FALSE

\* The accounts a handler debits, credits or writes, by position.
Changes(tag, i) ==
    CASE tag = 0        -> {1, 2, 5, 6}
      [] tag = 1        -> {1, 3, 4, 6}
      [] tag = 2        -> {1, 2, 3, 4, 5, 6, 7}
      [] tag = 3        -> {2, 7, 8, 9, 10, 11} \cup (IF i[2].key \in Empty THEN {} ELSE {1, 4})
      [] tag = 5        -> {1, 2}
      [] tag = 6        -> {1, 5}
      [] tag = 7        -> {1, 2, 3}
      [] tag = 8        -> {1, 6}
      [] tag = 9        -> {1, 3}
      [] tag = 10       -> {1, 3, 5, 6}
      [] tag = 11       -> {1, 2}
      [] tag = 12       -> {1, 2}
      [] tag = 13       -> {1, 3, 4, 6}
      [] tag = 14       -> {4, 5}
      [] OTHER          -> {}
=============================================================================
