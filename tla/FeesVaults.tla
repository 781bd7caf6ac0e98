----------------------------- MODULE FeesVaults -----------------------------
(***************************************************************************)
(* The protocol fees vault and the fees vault of each validator.  An       *)
(* initialized validator vault is also the mark of a validator the admin   *)
(* accepts: commit, finalize and undelegate all require it.                *)
(***************************************************************************)
EXTENDS Ledger

CONSTANT ClaimAmounts  \* amounts a validator asks for, besides everything it has

ASSUME ClaimAssumption == ClaimAmounts \subseteq Nat

CreatedVault(acc) == CreatedPda(acc, Dlp, VaultRent, Zeroed)

\* Anyone may create the protocol fees vault.
InitProtocolFeesVault(payer) ==
    LET cost == TopUpCost(feesVault, VaultRent)
    IN  /\ IsUninitialized(feesVault)
        /\ wallet[payer] >= cost
        /\ feesVault' = CreatedVault(feesVault)
        /\ wallet' = [wallet EXCEPT ![payer] = @ - cost]
        /\ UNCHANGED <<delegatedAccount, delegationPdas, commitPdas, validatorFeesVault, programConfig>>

\* Only the admin creates a validator's vault; anyone may pay for it.
InitValidatorFeesVault(payer, admin, v) ==
    LET cost == TopUpCost(validatorFeesVault[v], VaultRent)
    IN  /\ admin = Admin
        /\ IsUninitialized(validatorFeesVault[v])
        /\ wallet[payer] >= cost
        /\ validatorFeesVault' = [validatorFeesVault EXCEPT ![v] = CreatedVault(@)]
        /\ wallet' = [wallet EXCEPT ![payer] = @ - cost]
        /\ UNCHANGED <<delegatedAccount, delegationPdas, commitPdas, feesVault, programConfig>>

\* Mutant: the rent of the vault is lost.
CloseValidatorFeesVaultForFees(admin, v) ==
    /\ admin = Admin
    /\ IsInitialized(validatorFeesVault[v])
    /\ wallet' = [wallet EXCEPT ![v] = @ + validatorFeesVault[v].lamports - VaultRent]
    /\ validatorFeesVault' = [validatorFeesVault EXCEPT ![v] = Absent]
    /\ UNCHANGED <<delegatedAccount, delegationPdas, commitPdas, feesVault, programConfig>>

\* Closing pays everything to the validator, the protocol's share included,
\* and asks nothing about commits the validator has pending.
CloseValidatorFeesVault(admin, v) ==
    /\ admin = Admin
    /\ IsInitialized(validatorFeesVault[v])
    /\ wallet' = [wallet EXCEPT ![v] = @ + validatorFeesVault[v].lamports]
    /\ validatorFeesVault' = [validatorFeesVault EXCEPT ![v] = Absent]
    /\ UNCHANGED <<delegatedAccount, delegationPdas, commitPdas, feesVault, programConfig>>

\* Mutant: the rent can be claimed.
ClaimableWithRent(vault) == vault.lamports

\* What a vault holds above its rent.  The validator's claim subtracts without
\* a check, so it relies on a vault never holding less.
Claimable(vault) == vault.lamports - VaultRent

\* Mutant: any amount is granted.
AnyClaims(vault) == ClaimAmounts \cup {Claimable(vault)}

\* The validator asks for an amount, or (the default) for all there is.
Claims(vault) == {amount \in ClaimAmounts \cup {Claimable(vault)} : amount <= Claimable(vault)}

ValidatorClaimFees(v) ==
    /\ IsInitialized(feesVault)
    /\ IsInitialized(validatorFeesVault[v])
    /\ \E amount \in Claims(validatorFeesVault[v]) :
          LET share == Percent(amount, ProtocolFeesPercentage)
          IN  /\ feesVault' = [feesVault EXCEPT !.lamports = @ + share]
              /\ validatorFeesVault' = [validatorFeesVault EXCEPT ![v].lamports = @ - amount]
              /\ wallet' = [wallet EXCEPT ![v] = @ + (amount - share)]
    /\ UNCHANGED <<delegatedAccount, delegationPdas, commitPdas, programConfig>>

ProtocolClaimFees(admin) ==
    /\ admin = Admin
    /\ IsInitialized(feesVault)
    /\ feesVault.lamports >= VaultRent
    /\ feesVault' = [feesVault EXCEPT !.lamports = @ - Claimable(feesVault)]
    /\ wallet' = [wallet EXCEPT ![admin] = @ + Claimable(feesVault)]
    /\ UNCHANGED <<delegatedAccount, delegationPdas, commitPdas, validatorFeesVault, programConfig>>

FeesVaultsNext ==
    \/ \E payer \in Wallets : InitProtocolFeesVault(payer)
    \/ \E payer, admin \in Wallets, v \in Validators : InitValidatorFeesVault(payer, admin, v)
    \/ \E admin \in Wallets, v \in Validators : CloseValidatorFeesVault(admin, v)
    \/ \E v \in Validators : ValidatorClaimFees(v)
    \/ \E admin \in Wallets : ProtocolClaimFees(admin)
=============================================================================
