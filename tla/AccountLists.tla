----------------------------- MODULE AccountLists -----------------------------
(***************************************************************************)
(* From the client to the handlers: instructions are built, put together   *)
(* in a transaction, signed for by whoever they name and paid for by some  *)
(* wallet; the runtime merges the privileges of an account over the whole  *)
(* transaction; the handlers test what they get; and the runtime stops a   *)
(* handler that changes an account it may only read.                       *)
(*                                                                         *)
(* A client may also get one account of one instruction wrong.             *)
(***************************************************************************)
EXTENDS Loaders, FiniteSets

CONSTANTS
    Wallets, Programs,
    Buffer,              \* key of the buffer of a CommitStateFromBuffer
    MaxInstructions      \* bound: instructions in a transaction

VARIABLES
    transaction,  \* the instructions, in order
    mistaken,     \* an account of it was replaced by another
    feePayer,     \* who pays for it, a set of at most one wallet
    next,         \* the instruction to be processed
    result        \* "building", "running", "done", "rejected", "stopped"

listVars == <<transaction, mistaken, feePayer, next, result>>

Delegated == DOMAIN Recorded

\* A wallet is not derived from anything.  What can be delegated is an account of a
\* program, a key pair or the escrow of a wallet, and a PDA only for the program it
\* is derived from (Dlp stands in for the system program).
ASSUME KeysAssumption ==
    /\ Admin \in Wallets
    /\ \A w \in Wallets : Len(w) = 1
    /\ DOMAIN UpgradeAuthority \subseteq Programs
    /\ \A p \in DOMAIN UpgradeAuthority : UpgradeAuthority[p] \in Wallets
    /\ \A a \in Delegated :
          /\ Len(a) = 1 \/ \E w \in Wallets : a = EphemeralBalance(w)
          /\ Recorded[a].rentPayer \in Wallets
          /\ a \notin OnCurve =>
                DerivedFrom[a] = IF Recorded[a].owner = System THEN DelegationProgram ELSE Recorded[a].owner
    /\ \A w \in Wallets : DerivedFrom[EphemeralBalance(w)] = DelegationProgram

\* The instructions that agree with what is on the chain.
ProperInstructions ==
    UNION {
      {BuildDelegate(w, a, Recorded[a].owner) : w \in Wallets, a \in Delegated},
      {BuildCommitState(v, a, Recorded[a].owner) : v \in Wallets, a \in Delegated},
      {BuildCommitStateFromBuffer(v, a, Recorded[a].owner, Buffer) : v \in Wallets, a \in Delegated},
      {BuildFinalize(v, a) : v \in Wallets, a \in Delegated},
      {BuildUndelegate(v, a, Recorded[a].owner, Recorded[a].rentPayer) : v \in Wallets, a \in Delegated},
      {BuildInitProtocolFeesVault(w) : w \in Wallets},
      {BuildInitValidatorFeesVault(w, Admin, v) : w \in Wallets, v \in Wallets},
      {BuildCloseValidatorFeesVault(w, Admin, v) : w \in Wallets, v \in Wallets},
      {BuildValidatorClaimFees(v) : v \in Wallets},
      {BuildProtocolClaimFees(Admin)},
      {BuildWhitelist(Admin, v, p) : v \in Wallets, p \in Programs},
      {BuildWhitelist(UpgradeAuthority[p], v, p) : v \in Wallets, p \in DOMAIN UpgradeAuthority},
      {BuildTopUpEphemeralBalance(w, u) : w \in Wallets, u \in Wallets},
      {BuildDelegateEphemeralBalance(w, u) : w \in Wallets, u \in Wallets},
      {BuildCloseEphemeralBalance(w) : w \in Wallets} }

KeysOf(ix) == {ix.accounts[k].key : k \in DOMAIN ix.accounts}
Keys == UNION {KeysOf(ix) : ix \in ProperInstructions}

-----------------------------------------------------------------------------
Init ==
    /\ transaction = <<>> /\ mistaken = FALSE /\ feePayer = {}
    /\ next = 1 /\ result = "building"

Add(ix) ==
    /\ result = "building" /\ ~ mistaken
    /\ Len(transaction) < MaxInstructions
    /\ transaction' = Append(transaction, ix)
    /\ UNCHANGED <<mistaken, feePayer, next, result>>

\* Where a signature is asked for, only a wallet can be there by mistake.
Mistake(k, key) ==
    /\ result = "building" /\ ~ mistaken
    /\ Len(transaction) = 1 /\ k \in DOMAIN transaction[1].accounts
    /\ key # transaction[1].accounts[k].key
    /\ transaction[1].accounts[k].signer => key \in Wallets
    /\ transaction' = [transaction EXCEPT ![1].accounts[k].key = key]
    /\ mistaken' = TRUE
    /\ UNCHANGED <<feePayer, next, result>>

Send(w) ==
    /\ result = "building" /\ transaction # <<>>
    /\ feePayer' = {w} /\ result' = "running"
    /\ UNCHANGED <<transaction, mistaken, next>>

\* An account may be written, or has signed, if any instruction of the transaction
\* says so, or if it pays the fee.  Delegate comes through a call of the owner
\* program, which passes on the privileges asked for and no others.
AccountInfos(n) ==
    LET metas == UNION {{ix.accounts[k] : k \in DOMAIN ix.accounts} :
                            ix \in {transaction[m] : m \in DOMAIN transaction}}
        asked == transaction[n].accounts
        Merged(m) ==
            [key |-> m.key,
             signer |-> m.key \in feePayer \/ \E o \in metas : o.key = m.key /\ o.signer,
             writable |-> m.key \in feePayer \/ \E o \in metas : o.key = m.key /\ o.writable]
    IN  IF transaction[n].tag = DlpDiscriminator["Delegate"]
        THEN asked
        ELSE [k \in DOMAIN asked |-> Merged(asked[k])]

Running == result = "running" /\ next \in DOMAIN transaction
Loaded == Accepts(transaction[next].tag, AccountInfos(next))
MayChange ==
    LET i == AccountInfos(next)
    IN  \A k \in Changes(transaction[next].tag, i) : i[k].writable

\* A handler runs to its end.
Process ==
    /\ Running /\ Loaded /\ MayChange
    /\ next' = next + 1
    /\ result' = IF next = Len(transaction) THEN "done" ELSE "running"
    /\ UNCHANGED <<transaction, mistaken, feePayer>>

\* A handler returns an error, and the transaction has no effect.
Reject ==
    /\ Running /\ ~ Loaded
    /\ result' = "rejected"
    /\ UNCHANGED <<transaction, mistaken, feePayer, next>>

\* The runtime stops a handler, and the transaction has no effect.
Stop ==
    /\ Running /\ Loaded /\ ~ MayChange
    /\ result' = "stopped"
    /\ UNCHANGED <<transaction, mistaken, feePayer, next>>

Next ==
    \/ \E ix \in ProperInstructions : Add(ix)
    \/ \E k \in 1..12, key \in Keys : Mistake(k, key)
    \/ \E w \in Wallets : Send(w)
    \/ Process
    \/ Reject
    \/ Stop

Spec == Init /\ [][Next]_listVars

-----------------------------------------------------------------------------
Writes(ix, key) == \E k \in DOMAIN ix.accounts : ix.accounts[k].key = key /\ ix.accounts[k].writable

IsCommit(ix) == ix.tag \in {DlpDiscriminator["CommitState"], DlpDiscriminator["CommitStateFromBuffer"]}
IsFinalize(ix) == ix.tag = DlpDiscriminator["Finalize"]

\* A transaction of properly built instructions fails its tests of keys and
\* privileges in two cases only: a commit shares it with a change of the
\* configuration of its program, or the validator of a commit or finalize, whose
\* builders name it read-only although it pays or is paid, is made writable neither
\* by another instruction nor by paying the fee.
BuiltInstructionsAreAccepted ==
    ~ mistaken =>
        /\ result = "rejected" =>
              /\ IsCommit(transaction[next])
              /\ \E n \in DOMAIN transaction :
                    /\ transaction[n].tag = DlpDiscriminator["WhitelistValidatorForProgram"]
                    /\ \E p \in Programs :
                          /\ Config(p) \in KeysOf(transaction[next])
                          /\ Writes(transaction[n], Config(p))
        /\ result = "stopped" =>
              /\ IsCommit(transaction[next]) \/ IsFinalize(transaction[next])
              /\ LET v == transaction[next].accounts[1].key
                 IN  /\ v \notin feePayer
                     /\ \A n \in DOMAIN transaction : ~ Writes(transaction[n], v)

\* Whatever account is wrong: an instruction that goes through changes exactly the
\* accounts that some proper instruction of its kind names in their places.  This is
\* what lets the other modules apply an instruction to an account and its PDAs.
ChangedAccountsAreTheRightOnes ==
    result = "done" =>
        \A n \in DOMAIN transaction :
            LET ix == transaction[n]
            IN  \E proper \in ProperInstructions :
                    /\ proper.tag = ix.tag
                    /\ \A k \in Changes(ix.tag, ix.accounts) :
                          proper.accounts[k].key = ix.accounts[k].key

=============================================================================
