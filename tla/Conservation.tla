---------------------------- MODULE Conservation ----------------------------
(***************************************************************************)
(* The sum of all lamports on the ledger.                                  *)
(***************************************************************************)
EXTENDS Ledger, Functions

\* There is an end to the accounts of a ledger.
ASSUME FiniteAssumption == IsFiniteSet(Accounts) /\ IsFiniteSet(Wallets) /\ IsFiniteSet(Programs)

LamportsOf(accounts) == [k \in DOMAIN accounts |-> accounts[k].lamports]

TotalOf(accounts) == SumFunction(LamportsOf(accounts))

TotalLamports ==
    TotalOf(delegatedAccount) + TotalOf(delegationRecord) + TotalOf(delegationMetadata)
      + TotalOf(commitState) + TotalOf(commitRecord)
      + TotalOf(validatorFeesVault) + feesVault.lamports + TotalOf(programConfig)
      + SumFunction(wallet)

\* No instruction creates or destroys a lamport: every rounding of a fee, every
\* closed PDA and every settlement is paid to the last lamport, also when the
\* validator, the rent payer and the admin are the same wallet.
LamportsAreConserved == [][TotalLamports' = TotalLamports]_vars
=============================================================================
