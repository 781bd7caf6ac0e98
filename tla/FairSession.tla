----------------------------- MODULE FairSession -----------------------------
(***************************************************************************)
(* Sessions whose validators go on, while the admin opens and closes their *)
(* vaults.                                                                 *)
(*                                                                         *)
(* The program has no timer and no scheduler: everything that must happen  *)
(* is an instruction a validator has to send.  A validator that goes on    *)
(* sends Finalize for what it committed, and Undelegate for an account     *)
(* that may be undelegated, again and again until they go through.  This   *)
(* is weak fairness.  Nobody has to commit, to deposit, or to open a       *)
(* vault.                                                                  *)
(***************************************************************************)
EXTENDS Session, FeesVaults, Safety

Undelegate(a) ==
    \E v \in Validators, program \in Owners, reimbursed \in Wallets :
        \/ UndelegateEmpty(v, a, program, reimbursed)
        \/ UndelegateViaCpi(v, a, program, reimbursed)

FairSessionNext ==
    \/ SessionNext
    \/ \E payer \in Wallets, v \in Validators :
          \/ InitValidatorFeesVault(payer, Admin, v)
          \/ CloseValidatorFeesVault(Admin, v)

KeepsFinalizing(v, a) == WF_vars(Finalize(v, a))
KeepsUndelegating(a) == WF_vars(Undelegate(a))

Fairness ==
    \A a \in Accounts :
        /\ \A v \in Validators : KeepsFinalizing(v, a)
        /\ KeepsUndelegating(a)

FairSessionSpec == SessionInit /\ [][FairSessionNext]_vars /\ Fairness

-----------------------------------------------------------------------------
VaultIsOpen(v) == IsInitialized(validatorFeesVault[v])

\* v committed a, with lamports that cover the rent of the committed contents.
IsSettleable(v, a) ==
    /\ HasPendingCommit(a)
    /\ commitRecord[a].data.identity = v
    /\ commitRecord[a].data.lamports >= DataRent[commitState[a].data]

\* In custody, released, with nothing left to finalize; and its owner program
\* can reopen it.
IsReturnable(a) ==
    /\ IsDelegated(a)
    /\ NoPendingCommit(a)
    /\ delegationMetadata[a].data.isUndelegatable
    /\ \/ delegatedAccount[a].data = NoData
       \/ a \notin OnCurve /\ delegationRecord[a].data.owner # SystemProgram

\* v can advance the rent of the undelegation buffer.
CanAdvance(v, a) == VaultIsOpen(v) /\ wallet[v] >= DataRent[delegatedAccount[a].data]

\* Nobody ever waits for anybody else: whenever a commit covers the rent of its
\* contents its validator can finalize it at once, and whenever an account is
\* released a validator that can advance the rent of the buffer can return it at
\* once, whatever was deposited, committed and settled before.
NobodyIsStuck ==
    \A a \in Accounts :
        /\ \A v \in Validators :
              IsSettleable(v, a) /\ VaultIsOpen(v) => ENABLED <<Finalize(v, a)>>_vars
        /\ IsReturnable(a) /\ (\E v \in Validators : CanAdvance(v, a)) =>
              ENABLED <<Undelegate(a)>>_vars

\* A commit that covers the rent of its contents does not pend for ever,
\* whatever is deposited or committed for other accounts meanwhile: it is
\* finalized, unless the vault of its validator is closed first.
PendingCommitIsSettled ==
    \A a \in Accounts, v \in Validators :
        IsSettleable(v, a) ~> ~ HasPendingCommit(a) \/ ~ VaultIsOpen(v)

\* An account that was released goes home in the end, whatever its size when it
\* was delegated and whoever sends lamports to it, unless every validator is
\* unable to advance the rent of the buffer at some moment.
ReleasedAccountIsReturned ==
    \A a \in Accounts :
        IsReturnable(a) ~> ~ InSession(a) \/ \A v \in Validators : ~ CanAdvance(v, a)
=============================================================================
