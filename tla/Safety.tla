------------------------------- MODULE Safety -------------------------------
(***************************************************************************)
(* What the delegation program owes the owners of delegated accounts, the  *)
(* validators that commit them and the wallets that pay.  Everything here  *)
(* is about the ledger, whichever instructions run.                        *)
(***************************************************************************)
EXTENDS Ledger

-----------------------------------------------------------------------------
(* Invariants. *)

\* A delegated account never holds less than its delegation record says: the
\* commit instruction tests it and calls the contrary impossible
\* (commit_state.rs, "this should never happen").
RecordIsCovered ==
    \A a \in Accounts :
        IsDelegated(a) => DelegatedLamports(a) <= delegatedAccount[a].lamports

\* From the commit on, whatever else happens to the accounts involved, the
\* lamports that finalizing will move are there: the surplus in the commit
\* state PDA, the deficit in the delegated account (commit_state.rs, "proof of
\* collateral").
CommitIsCollateralized ==
    \A a \in Accounts :
        HasPendingCommit(a) =>
            LET committed == commitRecord[a].data.lamports
            IN  /\ committed - DelegatedLamports(a) <= commitState[a].lamports
                /\ DelegatedLamports(a) - committed <= delegatedAccount[a].lamports

\* The PDAs of an account come and go together, and a pending commit always
\* belongs to a delegation that is still in force, is about that account and is
\* no older than its last update: undelegating never strands a commit, and a
\* new delegation never inherits one.
PdasAreConsistent ==
    \A a \in Accounts :
        /\ IsInitialized(delegationRecord[a]) <=> IsInitialized(delegationMetadata[a])
        /\ IsInitialized(commitState[a]) <=> IsInitialized(commitRecord[a])
        /\ IsInitialized(delegatedAccount[a]) => IsInitialized(delegationRecord[a])
        /\ HasPendingCommit(a) =>
              /\ IsDelegated(a)
              /\ commitRecord[a].data.account = a
              /\ commitRecord[a].data.slot >= delegationMetadata[a].data.lastUpdateSlot

\* Every PDA the program created keeps its minimum balance: in particular the
\* vaults, whose claims subtract it unchecked, and the configurations, which
\* are created with no space and grow.
Funded(acc, rent) == IsInitialized(acc) => acc.lamports >= rent

PdasAreRentExempt ==
    /\ \A a \in Accounts :
          /\ Funded(delegationRecord[a], RecordRent)
          /\ Funded(delegationMetadata[a], MetadataRent)
          /\ IsInitialized(commitState[a]) =>
                commitState[a].lamports >= DataRent[commitState[a].data]
          /\ Funded(commitRecord[a], CommitRecordRent)
    /\ \A v \in Validators : Funded(validatorFeesVault[v], VaultRent)
    /\ Funded(feesVault, VaultRent)
    /\ \A p \in Owners :
          IsInitialized(programConfig[p]) =>
              programConfig[p].lamports >= ConfigRent(programConfig[p].data)

\* So do the accounts themselves, at home and in custody; no program is left
\* owning an account that the runtime has removed; and the system program never
\* ends up owning data it could not give back.
AccountsAreRentExempt ==
    \A a \in Accounts :
        /\ IsRentExempt(delegatedAccount[a], DataRent[delegatedAccount[a].data])
        /\ delegatedAccount[a].lamports = 0 => delegatedAccount[a].owner = SystemProgram
        /\ delegatedAccount[a].owner = SystemProgram => delegatedAccount[a].data = NoData

\* What may be undelegated can be: undelegating copies the contents through a
\* buffer created by create_pda, at most 10 KiB, and although an account of any
\* size can be delegated, by the time it is undelegatable with nothing pending
\* its contents have come through a commit state PDA, created the same way.
UndelegatableFits ==
    \A a \in Accounts :
        IsDelegated(a) /\ delegationMetadata[a].data.isUndelegatable /\ ~ HasPendingCommit(a)
            => delegatedAccount[a].data \notin TooLarge

-----------------------------------------------------------------------------
(* Action properties. *)

InSession(a) == IsInitialized(delegationRecord[a])
SessionEnds(a) == InSession(a) /\ ~ InSession(a)'
CommitIsConsumed(a) == HasPendingCommit(a) /\ ~ HasPendingCommit(a)'

\* While an account is delegated its contents change, and its lamports shrink,
\* in one way only: the pending commit is consumed and its contents become the
\* account's.  Deposits only ever add.  (For the end of the session, see
\* AccountIsReturnedIntact.)
CustodyIsFaithful ==
    [][\A a \in Accounts :
          IsDelegated(a) /\ ~ SessionEnds(a)
             /\ (delegatedAccount'[a].data # delegatedAccount[a].data
                    \/ delegatedAccount'[a].lamports < delegatedAccount[a].lamports)
          => /\ CommitIsConsumed(a)
             /\ \/ delegatedAccount'[a].data = commitState[a].data
                \/ delegatedAccount'[a] = Absent]_vars

\* Consuming a commit leaves the account with the committed lamports plus all
\* that was deposited since the last update, gives the validator's vault the
\* deficit, and gives the validator that committed all it advanced but the
\* surplus.  It is then the last update, for commits to come.
SettlementIsExact ==
    [][\A a \in Accounts :
          CommitIsConsumed(a) =>
            LET commit == commitRecord[a].data
                recorded == DelegatedLamports(a)
                deposited == delegatedAccount[a].lamports - recorded
                advanced == commitState[a].lamports + commitRecord[a].lamports
                v == commit.identity
            IN  /\ delegatedAccount'[a].lamports = commit.lamports + deposited
                /\ DelegatedLamports(a)' = commit.lamports + deposited
                /\ (wallet'[v] - wallet[v])
                     + (validatorFeesVault'[v].lamports - validatorFeesVault[v].lamports)
                      = advanced + recorded - commit.lamports
                /\ wallet'[v] <= wallet[v] + advanced
                /\ delegationMetadata'[a].data.lastUpdateSlot = commit.slot]_vars

\* A pending commit is immutable until it is consumed: no later commit, deposit
\* or closed vault touches what was proposed.
PendingCommitIsImmutable ==
    [][\A a \in Accounts :
          HasPendingCommit(a) /\ ~ CommitIsConsumed(a) =>
            /\ commitRecord'[a] = commitRecord[a]
            /\ commitState'[a].data = commitState[a].data
            /\ commitState'[a].lamports >= commitState[a].lamports]_vars

\* Within a session the last update never goes back to an earlier slot, and
\* once a commit allowed undelegation no other commit is accepted and the
\* permission is not withdrawn.
SessionMovesForward ==
    [][\A a \in Accounts :
          InSession(a) /\ InSession(a)' =>
            LET old == delegationMetadata[a].data
                new == delegationMetadata'[a].data
            IN  /\ new.lastUpdateSlot >= old.lastUpdateSlot
                /\ new.rentPayer = old.rentPayer
                /\ old.isUndelegatable =>
                      /\ new.isUndelegatable
                      /\ HasPendingCommit(a)' => HasPendingCommit(a)]_vars

\* A session ends by returning the account to the program it was delegated for
\* with the very data it had, once a commit allowed it and nothing is pending.
\* An account without data comes back with all its lamports.  One with data is
\* reopened by that program, whose code can withhold no more than the account's
\* rent: only a validator gains what is withheld, lamport for lamport, and if
\* nothing else is left the account is gone.  But for that nobody, validators
\* included, gains more than the fee on the delegation PDAs, and the wallet that
\* paid their rent recovers the rest.
AccountIsReturnedIntact ==
    [][\A a \in Accounts :
          SessionEnds(a) =>
            LET before == delegatedAccount[a]
                withheld == before.lamports - delegatedAccount'[a].lamports
                payer == delegationMetadata[a].data.rentPayer
                rent == delegationRecord[a].lamports + delegationMetadata[a].lamports
            IN  /\ \/ delegatedAccount'[a] =
                         [before EXCEPT !.owner = delegationRecord[a].data.owner,
                                        !.lamports = @ - withheld]
                   \/ delegatedAccount'[a] = Absent
                /\ 0 <= withheld
                /\ withheld <= IF before.data = NoData THEN 0 ELSE DataRent[before.data]
                /\ delegationMetadata[a].data.isUndelegatable
                /\ NoPendingCommit(a) /\ NoPendingCommit(a)'
                /\ delegationRecord'[a] = Absent /\ delegationMetadata'[a] = Absent
                /\ \E v \in Validators :
                      LET purse == [wallet EXCEPT ![v] = @ + withheld]
                      IN  /\ 100 * (wallet'[payer] - purse[payer]) >= 90 * rent
                          /\ \A w \in Wallets \ {payer} : wallet'[w] = purse[w]]_vars

\* A session begins by taking the account over unchanged: the contents the
\* owner program parked in the buffer are restored, the record starts at the
\* account's balance, and no commit is pending.
AccountIsTakenIntact ==
    [][\A a \in Accounts :
          ~ InSession(a) /\ InSession(a)' =>
            /\ delegatedAccount'[a].lamports = delegatedAccount[a].lamports
            /\ delegatedAccount'[a].data = delegatedAccount[a].data
            /\ DelegatedLamports(a)' = delegatedAccount[a].lamports
            /\ ~ HasPendingCommit(a)']_vars

\* The set of validators of a program is only ever changed one validator at a
\* time, also when that takes recreating or resizing the configuration, at the
\* expense of someone with authority over the program; and a program that once
\* restricted its validators stays restricted.
ConfigurationIsPermanent ==
    [][\A p \in Owners :
          programConfig'[p] # programConfig[p] =>
            LET before == IF IsInitialized(programConfig[p]) THEN programConfig[p].data ELSE {}
                after == programConfig'[p].data
            IN  /\ IsInitialized(programConfig'[p])
                /\ programConfig'[p].lamports >= programConfig[p].lamports
                /\ Cardinality((after \ before) \cup (before \ after)) <= 1
                /\ \A w \in Wallets : wallet'[w] # wallet[w] =>
                      w = Admin \/ (p \in Programs /\ w = UpgradeAuthority[p])]_vars

\* What leaves a validator's vault goes to that validator and nobody else, but
\* for the protocol's tenth (none of it when the vault is closed); what leaves
\* the protocol's vault goes to the admin.
VaultsPayTheirOwners ==
    [][/\ \A v \in Validators :
             LET paid == validatorFeesVault[v].lamports - validatorFeesVault'[v].lamports
                 share == feesVault'.lamports - feesVault.lamports
             IN  paid > 0 =>
                   /\ wallet' = [wallet EXCEPT ![v] = @ + (paid - share)]
                   /\ 0 <= 10 * share /\ 10 * share <= paid
                   /\ IsInitialized(validatorFeesVault'[v]) => paid < 10 * share + 10
       /\ LET paid == feesVault.lamports - feesVault'.lamports
          IN  paid > 0 => wallet' = [wallet EXCEPT ![Admin] = @ + paid]]_vars

\* What leaves an escrow goes to the wallet it is derived from, unless it is
\* delegated: then only a settlement takes lamports from it.
EscrowPaysItsOwner ==
    [][\A a \in Escrows :
          LET paid == delegatedAccount[a].lamports - delegatedAccount'[a].lamports
          IN  paid > 0 =>
                IF IsDelegated(a)
                THEN CommitIsConsumed(a)
                ELSE wallet' = [wallet EXCEPT ![EscrowOf[a]] = @ + paid]]_vars
=============================================================================
