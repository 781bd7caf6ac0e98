-------------------------- MODULE DelegationProgram --------------------------
(***************************************************************************)
(* The whole program: every instruction, from an empty ledger.             *)
(***************************************************************************)
EXTENDS Session, FeesVaults, ProgramConfig, EphemeralBalance

Init ==
    /\ AccountsInit
    /\ validatorFeesVault = [v \in Validators |-> Absent]
    /\ feesVault = Absent
    /\ programConfig = [p \in Owners |-> Absent]

Next ==
    \/ SessionNext
    \/ FeesVaultsNext
    \/ ProgramConfigNext
    \/ EphemeralBalanceNext

Spec == Init /\ [][Next]_vars
=============================================================================
