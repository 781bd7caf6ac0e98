-------------------------- MODULE CustodyRefinement --------------------------
(***************************************************************************)
(* How the ledger implements Custody: the delegation PDAs are the terms,   *)
(* the commit PDAs the proposal.  Everything else on the ledger is how it  *)
(* is paid for.                                                            *)
(***************************************************************************)
EXTENDS Commit

\* The delegation record and metadata.
TermsOf(a) ==
    IF IsInitialized(delegationRecord[a])
    THEN {[owner    |-> delegationRecord[a].data.owner,
           balance  |-> delegationRecord[a].data.lamports,
           slot     |-> delegationMetadata[a].data.lastUpdateSlot,
           released |-> delegationMetadata[a].data.isUndelegatable]}
    ELSE {}

\* The commit record and the commit state.
ProposalOf(a) ==
    IF HasPendingCommit(a)
    THEN {[validator |-> commitRecord[a].data.identity,
           slot      |-> commitRecord[a].data.slot,
           lamports  |-> commitRecord[a].data.lamports,
           data      |-> commitState[a].data]}
    ELSE {}

custodyTerms == [a \in Accounts |-> TermsOf(a)]
custodyProposal == [a \in Accounts |-> ProposalOf(a)]

CustodyProposals ==
    [validator : Validators, slot : Slots, lamports : CommitLamports, data : Data]

C == INSTANCE Custody WITH
        account <- delegatedAccount, terms <- custodyTerms, proposal <- custodyProposal,
        Custodian <- Dlp, Gone <- Absent, Proposals <- CustodyProposals

\* The instructions implement Custody: whatever happens to PDAs, collateral, fees
\* and wallets, an account is taken over as it is, changes only by proposals that
\* are applied whole and in the order of their slots, keeps what others send to
\* it, and is returned to the owner it was taken for, once released, with its
\* contents and no more lamports than it had.
ImplementsCustody == C!Spec
=============================================================================
