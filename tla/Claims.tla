------------------------------- MODULE Claims -------------------------------
(***************************************************************************)
(* Statements of the repository's docs, comments and tests that the        *)
(* program does not satisfy.  Each is checked by a run of its own, in      *)
(* which TLC finds the behavior that breaks it.                            *)
(***************************************************************************)
EXTENDS Safety

\* finalize_new_state, in tests/test_lamports_settlement.rs:423, asserts that
\* the owner of a delegated account is still the delegation program after any
\* finalize.
FinalizeKeepsCustody ==
    [][\A a \in Accounts :
          CommitIsConsumed(a) => IsInitialized(delegatedAccount'[a])]_vars

\* tests/test_commit_state.rs:60 checks "that the commit has enough collateral to
\* finalize the proposed state diff", which commit_state.rs:171 gives as the
\* reason for the collateral.  So what a pending commit settles to must be a
\* balance the account can end up with.
PendingCommitCanBeSettled ==
    \A a \in Accounts :
        HasPendingCommit(a) =>
            LET deposited == delegatedAccount[a].lamports - DelegatedLamports(a)
                settled == Account(Dlp, commitRecord[a].data.lamports + deposited, commitState[a].data)
            IN  IsRentExempt(settled, DataRent[settled.data])

\* delegate_ephemeral_balance.rs:32 promises that the escrow is delegated "so
\* it can act as an escrow", and tests/test_top_up.rs:109 asserts that it is
\* owned by the delegation program afterwards.
DelegatedEscrowIsInCustody ==
    [][\A a \in Escrows :
          ~ InSession(a) /\ InSession(a)' => IsInitialized(delegatedAccount'[a])]_vars
=============================================================================
