---------------------------- MODULE Transactions ----------------------------
(***************************************************************************)
(* Several instructions in one transaction.  The instructions of a bundle  *)
(* see each other's effects; if one of them fails, all of them are undone; *)
(* and only what the last one leaves behind must be rent exempt, and loses *)
(* its empty accounts.  (Elsewhere a step is a transaction of one          *)
(* instruction.)                                                           *)
(*                                                                         *)
(* External, but for the handlers themselves: how the Solana runtime runs  *)
(* a transaction.                                                          *)
(***************************************************************************)
EXTENDS Session, Safety, Sequences

CONSTANT MaxInstructions  \* bound: instructions in a bundle

ASSUME MaxInstructionsAssumption == MaxInstructions \in Nat \ {0}

VARIABLES
    before,    \* <<the ledger when the transaction began>>, <<>> between transactions
    executed,  \* instructions of the transaction that succeeded
    asked,     \* commits they brought, written or skipped: <<validator, account, slot>>
    answered   \* those that a Finalize of the same bundle followed

txVars == <<before, executed, asked, answered>>
allVars == <<vars, txVars>>

InTransaction == before # <<>>

Now ==
    [account |-> delegatedAccount, record |-> delegationRecord, metadata |-> delegationMetadata,
     state |-> commitState, commit |-> commitRecord, vault |-> validatorFeesVault,
     fees |-> feesVault, config |-> programConfig, wallet |-> wallet]

TransactionsInit ==
    /\ SessionInit
    /\ before = <<>> /\ executed = 0 /\ asked = {} /\ answered = {}

Begin ==
    /\ ~ InTransaction
    /\ before' = <<Now>>
    /\ UNCHANGED <<vars, executed, asked, answered>>

-----------------------------------------------------------------------------
(* The instructions of a bundle. *)

Execute ==
    /\ InTransaction
    /\ executed < MaxInstructions
    /\ executed' = executed + 1
    /\ UNCHANGED before

\* Mutant: a commit that finds another pending is skipped, too.
SkipsTaken(v, a, args) ==
    /\ CanCommit(v, a)
    /\ IF IsOutdated(a, args) \/ HasPendingCommit(a)
       THEN UNCHANGED vars
       ELSE CommitStateInternal(v, a, args)

\* process_commit_state_internal with its early return.
CommitOrSkip(v, a, args) ==
    /\ CanCommit(v, a)
    /\ IF IsOutdated(a, args)
       THEN UNCHANGED vars
       ELSE CommitStateInternal(v, a, args)

ExecuteCommit(v, a) ==
    \E args \in CommitArgs(InlineData) :
        /\ Execute
        /\ CommitOrSkip(v, a, args)
        /\ asked' = asked \cup {<<v, a, args.slot>>}
        /\ UNCHANGED answered

\* The account is left as it is, even if it is empty.
ExecuteFinalize(v, a) ==
    /\ Execute
    /\ ProcessFinalize(v, a, SettledAccount(a)) \/ FinalizeNothing(v, a)
    /\ answered' = answered \cup {commit \in asked : commit[1] = v /\ commit[2] = a}
    /\ UNCHANGED asked

\* What was asked of a session is settled when it ends.  Again the account is
\* left as it is.
ExecuteUndelegate(v, a) ==
    /\ Execute
    /\ \E program \in Owners, reimbursed \in Wallets :
          \/ UndelegateEmpty(v, a, program, reimbursed)
          \/ /\ CallOwnerProgram(v, a, program, reimbursed)
             /\ \E cpi \in CpiOutcomes(a, program) :
                   ResumeUndelegate(v, a, reimbursed, cpi, Reopened(delegatedAccount[a], cpi))
    /\ asked' = {commit \in asked : commit[2] # a}
    /\ answered' = {commit \in answered : commit[2] # a}

\* A system transfer within the bundle.
ExecuteTransfer(payer, a) ==
    /\ Execute
    /\ \E amount \in Deposits :
          /\ wallet[payer] >= amount
          /\ delegatedAccount[a].lamports < DepositsBelow
          /\ delegatedAccount' = [delegatedAccount EXCEPT ![a].lamports = @ + amount]
          /\ wallet' = [wallet EXCEPT ![payer] = @ - amount]
    /\ UNCHANGED <<delegationPdas, commitPdas, vaults, programConfig, asked, answered>>

-----------------------------------------------------------------------------
(* The end of the transaction. *)

Closed == before' = <<>> /\ executed' = 0 /\ asked' = {} /\ answered' = {}

End ==
    /\ InTransaction
    /\ \A a \in Accounts : IsRentExempt(delegatedAccount[a], DataRent[delegatedAccount[a].data])
    /\ delegatedAccount' = [a \in Accounts |-> Purged(delegatedAccount[a])]
    /\ Closed
    /\ UNCHANGED <<delegationPdas, commitPdas, vaults, programConfig, wallet>>

\* An instruction failed, the rent check did, or the budget ran out.
RollBack ==
    /\ InTransaction
    /\ LET was == before[1]
       IN  /\ delegatedAccount' = was.account
           /\ delegationRecord' = was.record
           /\ delegationMetadata' = was.metadata
           /\ commitState' = was.state
           /\ commitRecord' = was.commit
           /\ validatorFeesVault' = was.vault
           /\ feesVault' = was.fees
           /\ programConfig' = was.config
           /\ wallet' = was.wallet
    /\ Closed

\* Transactions of the owner program, of one instruction each.
OwnerTransaction ==
    /\ ~ InTransaction
    /\ \E a \in Accounts, payer \in Wallets :
          \/ \E program \in Owners : Delegate(payer, a, program)
          \/ \E data \in Data : OwnerCreate(payer, a, data)
    /\ UNCHANGED txVars

TransactionsNext ==
    \/ Begin
    \/ \E a \in Accounts :
          \/ \E v \in Validators :
                \/ ExecuteCommit(v, a)
                \/ ExecuteFinalize(v, a)
                \/ ExecuteUndelegate(v, a)
          \/ \E payer \in Depositors : ExecuteTransfer(payer, a)
    \/ End
    \/ RollBack
    \/ OwnerTransaction

TransactionsSpec == TransactionsInit /\ [][TransactionsNext]_allVars

-----------------------------------------------------------------------------
\* A bundle that commits an account at some slot and finalizes it, and succeeds so
\* far, has brought the account at least to that slot, also when the commit was
\* skipped without an error, when the bundle finalized a commit of an earlier
\* transaction instead, or when it holds other commits of the same account.
BundledCommitTakesEffect ==
    \A commit \in answered :
        /\ IsInitialized(delegationMetadata[commit[2]])
        /\ commit[3] <= delegationMetadata[commit[2]].data.lastUpdateSlot

\* The only way for a pending commit to lose its account is a bundle that settles
\* the account to no lamports at all and commits it again before the empty account
\* is removed: whatever else is bundled, the validator's collateral stays in reach.
CommitIsStrandedOnlyByEmptying ==
    \A a \in Accounts :
        HasPendingCommit(a) => IsDelegated(a) \/ (InSession(a) /\ DelegatedLamports(a) = 0)
=============================================================================
