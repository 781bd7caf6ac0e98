------------------------------- MODULE Ledger -------------------------------
(***************************************************************************)
(* The accounts the delegation program works on.  The PDA seeds of src/    *)
(* become state: one variable per seed prefix ("delegation", "state-diff", *)
(* "v-fees-vault", ...), a function of the key in the seed.  Deriving a    *)
(* PDA and checking its address is applying that function.                 *)
(*                                                                         *)
(* Every instruction is atomic: a step of the model is a transaction of    *)
(* one instruction, which either happens as a whole or (an error path in   *)
(* the code) not at all.                                                   *)
(***************************************************************************)
EXTENDS DlpAccounts, FiniteSets

CONSTANTS
    Accounts,          \* keys of accounts that can be delegated
    OnCurve,           \* those that are key pairs rather than PDAs
    Escrows,           \* those that are ephemeral balance PDAs of Dlp
    EscrowOf,          \* the wallet an escrow is derived from
    OwnerProgram,      \* the program a delegated account's key is derived from
    Wallets,           \* system accounts that sign and pay
    Validators,        \* the wallets that are validator identities
    Admin,             \* upgrade authority of Dlp
    Programs,          \* programs that own accounts, other than the system program
    UpgradeAuthority,  \* the wallet that can upgrade a program
    Data,              \* contents of delegated accounts
    Zeroed,            \* content left behind by a program that moved the real one
    TooLarge,          \* contents longer than an inner instruction can create (10 KiB)
    Slots              \* ephemeral slots

CONSTANTS               \* minimum balances
    DataRent,           \* by content of the account
    RecordRent, MetadataRent, CommitRecordRent, VaultRent,
    ConfigRent(_)       \* by set of approved validators

Owners == Programs \cup {SystemProgram}

\* Nothing is delegated on behalf of Dlp itself.  Delegate would accept a key pair
\* whose holder names Dlp as its owner program, since it derives PDAs only; such
\* an account is left out.
ASSUME LedgerAssumption ==
    /\ Dlp \notin Owners /\ SystemProgram \notin Programs
    /\ NoData \in Data /\ NoData \notin TooLarge
    /\ OnCurve \subseteq Accounts
    /\ Escrows \subseteq Accounts \ OnCurve
    /\ EscrowOf \in [Escrows -> Wallets]
    /\ OwnerProgram \in [Accounts -> Owners]
    /\ \A a \in Escrows : OwnerProgram[a] = SystemProgram
    /\ Validators \subseteq Wallets
    /\ Admin \in Wallets
    /\ UpgradeAuthority \in [Programs -> Wallets]
    /\ Slots \subseteq Nat
    /\ DataRent \in [Data -> Nat \ {0}]
    /\ {RecordRent, MetadataRent, CommitRecordRent, VaultRent} \subseteq Nat \ {0}
    /\ \A S \in SUBSET Validators : ConfigRent(S) \in Nat \ {0}

VARIABLES
    delegatedAccount,     \* [Accounts -> account]
    delegationRecord,     \* ["delegation", account]
    delegationMetadata,   \* ["delegation-metadata", account]
    commitState,          \* ["state-diff", account]
    commitRecord,         \* ["commit-state-record", account]
    validatorFeesVault,   \* ["v-fees-vault", validator]
    feesVault,            \* ["fees-vault"]
    programConfig,        \* ["p-conf", program]
    wallet                \* spendable lamports of a wallet (above its own reserve)

delegationPdas == <<delegationRecord, delegationMetadata>>
commitPdas == <<commitState, commitRecord>>
vaults == <<validatorFeesVault, feesVault>>
vars == <<delegatedAccount, delegationPdas, commitPdas, vaults, programConfig, wallet>>

-----------------------------------------------------------------------------
(* Contents of the PDAs, and the type invariant. *)

DelegatableAccount == [owner : Owners \cup {Dlp}, lamports : Nat, data : Data]

RecordData == [owner : Owners, lamports : Nat]

MetadataData == [lastUpdateSlot : Slots \cup {0}, isUndelegatable : BOOLEAN, rentPayer : Wallets]

CommitRecordData ==
    [identity : Validators, account : Accounts, slot : Slots, lamports : Nat]

\* A PDA of Dlp: uninitialized, or created by Dlp with contents in D.
Pda(D) ==
    [owner : {SystemProgram}, lamports : Nat, data : {NoData}]
        \cup [owner : {Dlp}, lamports : Nat, data : D]

\* The vaults hold lamports and 8 bytes nobody reads.
VaultData == {Zeroed}

TypeOK ==
    /\ delegatedAccount \in [Accounts -> DelegatableAccount]
    /\ delegationRecord \in [Accounts -> Pda(RecordData)]
    /\ delegationMetadata \in [Accounts -> Pda(MetadataData)]
    /\ commitState \in [Accounts -> Pda(Data)]
    /\ commitRecord \in [Accounts -> Pda(CommitRecordData)]
    /\ validatorFeesVault \in [Validators -> Pda(VaultData)]
    /\ feesVault \in Pda(VaultData)
    /\ programConfig \in [Owners -> Pda(SUBSET Validators)]
    /\ wallet \in [Wallets -> Nat]

-----------------------------------------------------------------------------
(* What the instructions test. *)

\* Owned by Dlp, with both of its delegation PDAs: what commit, finalize and
\* undelegate require of their accounts before anything else.
IsDelegated(a) ==
    /\ IsInitialized(delegatedAccount[a])
    /\ IsInitialized(delegationRecord[a])
    /\ IsInitialized(delegationMetadata[a])

HasPendingCommit(a) == IsInitialized(commitState[a]) /\ IsInitialized(commitRecord[a])

\* create_pda works through an inner instruction, and those create at most
\* MAX_PERMITTED_DATA_INCREASE bytes.
CanCreate(data) == data \notin TooLarge

\* Mutant: the commit PDAs are not looked at.
NoPendingCommitUnchecked(a) == TRUE

NoPendingCommit(a) == IsUninitialized(commitState[a]) /\ IsUninitialized(commitRecord[a])

DelegatedLamports(a) == delegationRecord[a].data.lamports
=============================================================================
