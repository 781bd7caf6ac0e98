------------------------------- MODULE History -------------------------------
(***************************************************************************)
(* Sessions with a memory: which commit is pending for an account, and     *)
(* which one it was last updated by.  A validator that does not learn      *)
(* whether its commit got through sends it again, and a commit may arrive  *)
(* when the session it was meant for is over; the program itself only      *)
(* remembers the slot of the last update in the session (CommitState and   *)
(* Finalize may happen with any arguments at any time, so the late and the *)
(* repeated ones are among the steps of SessionNext).                      *)
(***************************************************************************)
EXTENDS Session, Safety

VARIABLES
    proposed,  \* the pending commit of an account, as it was accepted: a set of at most one
    applied    \* the commit of the last update in this session, likewise

historyVars == <<proposed, applied>>

CommitIsAccepted(a) == ~ HasPendingCommit(a) /\ HasPendingCommit(a)'
SessionBegins(a) == ~ InSession(a) /\ InSession(a)'

\* `deposits` is what others had sent to the account, since its last update, when
\* the commit was finalized.
Deposited(a) == delegatedAccount[a].lamports - DelegatedLamports(a)

AcceptedCommit(a) ==
    [slot |-> commitRecord'[a].data.slot, lamports |-> commitRecord'[a].data.lamports,
     data |-> commitState'[a].data, release |-> delegationMetadata'[a].data.isUndelegatable,
     deposits |-> 0]

HistoryInit ==
    /\ SessionInit
    /\ proposed = [a \in Accounts |-> {}]
    /\ applied = [a \in Accounts |-> {}]

Remember ==
    /\ proposed' = [a \in Accounts |->
          IF CommitIsAccepted(a) THEN {AcceptedCommit(a)}
          ELSE IF CommitIsConsumed(a) THEN {}
          ELSE proposed[a]]
    /\ applied' = [a \in Accounts |->
          IF CommitIsConsumed(a) THEN {[c EXCEPT !.deposits = Deposited(a)] : c \in proposed[a]}
          ELSE IF SessionBegins(a) THEN {}
          ELSE applied[a]]

HistoryNext == SessionNext /\ Remember

HistorySpec == HistoryInit /\ [][HistoryNext]_<<vars, historyVars>>

-----------------------------------------------------------------------------
\* A commit that is sent again after it was finalized, and finalized again, is no
\* longer outdated than the first time.  It changes nothing but this: deposits that
\* had reached the account before the first time, which the validator could not
\* have known of, go to the validator's vault; those that came after it stay.
RetryTakesOnlyDeposits ==
    [][\A a \in Accounts : CommitIsConsumed(a) =>
          \A again \in proposed[a], first \in applied[a] :
              [again EXCEPT !.release = first.release, !.deposits = first.deposits] = first =>
                 LET v == commitRecord[a].data.identity
                 IN  /\ delegatedAccount'[a] \in
                            {[delegatedAccount[a] EXCEPT !.lamports = @ - first.deposits], Absent}
                     /\ delegatedAccount'[a].lamports = delegatedAccount[a].lamports - first.deposits
                     /\ validatorFeesVault'[v].lamports =
                            validatorFeesVault[v].lamports + first.deposits]_<<vars, historyVars>>

\* What goes home is what was proposed by the commit that allowed it to, in the same
\* session, as it was accepted then, with what others had sent to the account, less
\* what its own program withholds of the rent: a permission given in an earlier
\* session, or given with a commit that was not the last to be finalized, returns
\* nothing.
ReturnedAsReleased ==
    [][\A a \in Accounts : SessionEnds(a) =>
          \E c \in applied[a] :
             LET withholdable == IF c.data = NoData THEN 0 ELSE DataRent[c.data]
             IN  /\ c.release
                 /\ delegatedAccount'[a].data = c.data \/ delegatedAccount'[a] = Absent
                 /\ delegatedAccount'[a].lamports + withholdable >= c.lamports + c.deposits]_<<vars, historyVars>>
=============================================================================
