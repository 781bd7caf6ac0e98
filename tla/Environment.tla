----------------------------- MODULE Environment -----------------------------
(***************************************************************************)
(* External: what happens to the ledger outside the delegation program.    *)
(* Nobody but Dlp can take lamports from, or write, an account it owns;    *)
(* anybody can send lamports to any account.                               *)
(***************************************************************************)
EXTENDS Ledger

CONSTANTS
    Depositors,     \* wallets that send lamports to the accounts
    Deposits,       \* amounts they send
    DepositsBelow   \* bound: no deposit to an account that holds this much

ASSUME DepositsAssumption == Depositors \subseteq Wallets /\ Deposits \subseteq Nat

\* A system transfer to a delegatable account, delegated or not.
Deposit(payer, a, amount) ==
    LET credited == [delegatedAccount[a] EXCEPT !.lamports = @ + amount]
    IN  /\ wallet[payer] >= amount
        /\ delegatedAccount[a].lamports < DepositsBelow
        /\ IsRentExempt(credited, DataRent[credited.data])
        /\ delegatedAccount' = [delegatedAccount EXCEPT ![a] = credited]
        /\ wallet' = [wallet EXCEPT ![payer] = @ - amount]
        /\ UNCHANGED <<delegationPdas, commitPdas, vaults, programConfig>>

\* A system transfer to the commit state PDA, before or after it is created.
DepositToCommitState(payer, a, amount) ==
    LET credited == [commitState[a] EXCEPT !.lamports = @ + amount]
    IN  /\ wallet[payer] >= amount
        /\ commitState[a].lamports < DepositsBelow
        /\ IsRentExempt(credited, DataRent[credited.data])
        /\ commitState' = [commitState EXCEPT ![a] = credited]
        /\ wallet' = [wallet EXCEPT ![payer] = @ - amount]
        /\ UNCHANGED <<delegatedAccount, delegationPdas, commitRecord, vaults, programConfig>>

\* A program writes an account of its own.
OwnerWrite(a, data) ==
    LET account == delegatedAccount[a]
    IN  /\ account.owner \in Programs
        /\ data # NoData
        /\ IsRentExempt(account, DataRent[data])
        /\ delegatedAccount' = [delegatedAccount EXCEPT ![a].data = data]
        /\ UNCHANGED <<delegationPdas, commitPdas, vaults, programConfig, wallet>>

\* A program creates its PDA (again) at a payer's expense.
OwnerCreate(payer, a, data) ==
    LET account == delegatedAccount[a]
        cost == TopUpCost(account, DataRent[data])
    IN  /\ account.owner = SystemProgram
        /\ OwnerProgram[a] \in Programs
        /\ a \notin OnCurve
        /\ data # NoData /\ CanCreate(data)
        /\ wallet[payer] >= cost
        /\ delegatedAccount' =
              [delegatedAccount EXCEPT ![a] = CreatedPda(@, OwnerProgram[a], DataRent[data], data)]
        /\ wallet' = [wallet EXCEPT ![payer] = @ - cost]
        /\ UNCHANGED <<delegationPdas, commitPdas, vaults, programConfig>>

EnvironmentNext ==
    \E a \in Accounts :
        \/ \E payer \in Depositors, amount \in Deposits :
              \/ Deposit(payer, a, amount)
              \/ DepositToCommitState(payer, a, amount)
        \/ \E data \in Data :
              \/ OwnerWrite(a, data)
              \/ \E payer \in Wallets : OwnerCreate(payer, a, data)
=============================================================================
