-------------------------- MODULE EphemeralBalance --------------------------
(***************************************************************************)
(* Ephemeral balances: escrow accounts derived from a wallet, owned by the *)
(* system program while at home and delegated like any other account.      *)
(***************************************************************************)
EXTENDS Delegation

CONSTANTS
    TopUpAmounts,  \* amounts a top-up transfers
    TopUpsBelow    \* bound: no top-up of an escrow that holds this much

ASSUME TopUpAssumption == TopUpAmounts \subseteq Nat

\* Only an escrow at home is (re)created; one that is delegated just receives
\* the transfer.  Creating it gives it the rent of an empty account.
TopUpEphemeralBalance(payer, a, amount) ==
    LET escrow == delegatedAccount[a]
        cost == amount + (IF escrow.owner = SystemProgram
                          THEN TopUpCost(escrow, DataRent[NoData])
                          ELSE 0)
        toppedUp == [escrow EXCEPT !.lamports = @ + cost]
    IN  /\ a \in Escrows
        /\ wallet[payer] >= cost
        /\ escrow.lamports < TopUpsBelow
        /\ IsRentExempt(toppedUp, DataRent[escrow.data])
        /\ delegatedAccount' = [delegatedAccount EXCEPT ![a] = toppedUp]
        /\ wallet' = [wallet EXCEPT ![payer] = @ - cost]
        /\ UNCHANGED <<delegationPdas, commitPdas, vaults, programConfig>>

\* Assigns the escrow to Dlp, which only works at home, and calls Delegate with
\* the system program as owner.  The buffer of an escrow is always empty.
DelegateEphemeralBalance(payer, pubkey, a) ==
    LET escrow == delegatedAccount[a]
        handed == [escrow EXCEPT !.owner = Dlp]
    IN  /\ a \in Escrows
        /\ pubkey = EscrowOf[a]
        /\ escrow.owner = SystemProgram
        /\ ProcessDelegate(payer, a, SystemProgram, handed, Purged(Restored(handed, NoData)))

\* Mutant: any wallet can have it.
CloseEphemeralBalanceToAnyone(payer, a) ==
    LET escrow == delegatedAccount[a]
    IN  /\ a \in Escrows
        /\ escrow.owner = SystemProgram
        /\ delegatedAccount' = [delegatedAccount EXCEPT ![a] = Purged([escrow EXCEPT !.lamports = 0])]
        /\ wallet' = [wallet EXCEPT ![payer] = @ + escrow.lamports]
        /\ UNCHANGED <<delegationPdas, commitPdas, vaults, programConfig>>

\* Mutant: the escrow keeps its lamports.
CloseEphemeralBalanceTwice(payer, a) ==
    LET escrow == delegatedAccount[a]
    IN  /\ a \in Escrows
        /\ payer = EscrowOf[a]
        /\ escrow.owner = SystemProgram
        /\ wallet' = [wallet EXCEPT ![payer] = @ + escrow.lamports]
        /\ UNCHANGED <<delegatedAccount, delegationPdas, commitPdas, vaults, programConfig>>

\* Empties the escrow into the wallet it is derived from.
CloseEphemeralBalance(payer, a) ==
    LET escrow == delegatedAccount[a]
    IN  /\ a \in Escrows
        /\ payer = EscrowOf[a]
        /\ escrow.owner = SystemProgram
        /\ delegatedAccount' = [delegatedAccount EXCEPT ![a] = Purged([escrow EXCEPT !.lamports = 0])]
        /\ wallet' = [wallet EXCEPT ![payer] = @ + escrow.lamports]
        /\ UNCHANGED <<delegationPdas, commitPdas, vaults, programConfig>>

EphemeralBalanceNext ==
    \E payer \in Wallets, a \in Accounts :
        \/ \E amount \in TopUpAmounts : TopUpEphemeralBalance(payer, a, amount)
        \/ \E pubkey \in Wallets : DelegateEphemeralBalance(payer, pubkey, a)
        \/ CloseEphemeralBalance(payer, a)
=============================================================================
