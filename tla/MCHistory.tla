------------------------------ MODULE MCHistory ------------------------------
(***************************************************************************)
(* Successive sessions of one PDA of a program, with their history.        *)
(***************************************************************************)
EXTENDS History, TLC

CONSTANTS key, prog, user, v1, v2, d1

MCData == {NoData, d1}
MCDataRent == NoData :> 3 @@ d1 :> 4
MCConfigRent(S) == 3 + 4 * Cardinality(S)

MCUpgradeAuthority == prog :> user
MCEscrowOf == <<>>
PdaOwner == key :> prog
PdaAccount == key :> Account(prog, 6, d1)
Unrestricted == {SystemProgram :> Absent @@ prog :> Absent}

\* The user can pay for one session at a time, a few of them in succession.
MCWallet == user :> 36 @@ v1 :> 12 @@ v2 :> 9
=============================================================================
