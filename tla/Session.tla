------------------------------- MODULE Session -------------------------------
(***************************************************************************)
(* The life of delegated accounts among validators that are all set up:    *)
(* delegation, commits, finalization, undelegation and what the rest of    *)
(* the world does to the accounts meanwhile.  The vaults stay open and the *)
(* configurations stay as they are (DelegationProgram.tla adds the         *)
(* instructions that change them).                                         *)
(***************************************************************************)
EXTENDS Delegation, Commit, Environment

CONSTANTS
    InitialAccounts,  \* the accounts before any is delegated
    InitialWallet,    \* the lamports of each wallet
    InitialConfigs    \* the configurations the programs may have

\* Accounts at home: owned by their program, or by nobody yet.
ASSUME InitialAssumption ==
    /\ InitialWallet \in [Wallets -> Nat]
    /\ InitialAccounts \in [Accounts -> [owner : Owners, lamports : Nat, data : Data]]
    /\ \A a \in Accounts :
          LET account == InitialAccounts[a]
          IN  /\ account.owner \in {SystemProgram, OwnerProgram[a]}
              /\ account.owner = SystemProgram => account.data = NoData
              /\ IsRentExempt(account, DataRent[account.data])
              /\ account.lamports = 0 => account = Absent

\* A configuration restricts its program to some of the validators.
ASSUME InitialConfigsAssumption ==
    InitialConfigs \subseteq
        [Owners -> {Absent} \cup {Account(Dlp, ConfigRent(S), S) : S \in SUBSET Validators}]

AccountsInit ==
    /\ delegatedAccount = InitialAccounts
    /\ delegationRecord = [a \in Accounts |-> Absent]
    /\ delegationMetadata = [a \in Accounts |-> Absent]
    /\ commitState = [a \in Accounts |-> Absent]
    /\ commitRecord = [a \in Accounts |-> Absent]
    /\ wallet = InitialWallet

SessionInit ==
    /\ AccountsInit
    /\ validatorFeesVault = [v \in Validators |-> Account(Dlp, VaultRent, Zeroed)]
    /\ feesVault = Account(Dlp, VaultRent, Zeroed)
    /\ programConfig \in InitialConfigs

SessionNext == DelegationNext \/ CommitNext \/ EnvironmentNext

SessionSpec == SessionInit /\ [][SessionNext]_vars
=============================================================================
