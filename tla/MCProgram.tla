------------------------------ MODULE MCProgram ------------------------------
(***************************************************************************)
(* Every instruction, from an empty ledger, on a PDA of a program, on an   *)
(* escrow account, or on vaults and configurations alone.                  *)
(***************************************************************************)
EXTENDS DelegationProgram, CustodyRefinement, Claims, Conservation, TLC

CONSTANTS key, prog, user, admin, v1, v2, d1

MCData == {NoData, d1}
MCDataRent == NoData :> 3 @@ d1 :> 4
MCConfigRent(S) == 3 + 4 * Cardinality(S)
MCUpgradeAuthority == prog :> user
MCInitialConfigs == {}
None == <<>>

\* One validator.  The user, who is also the admin, can pay for one session at
\* a time.
PdaOwner == key :> prog
PdaAccount == key :> Account(prog, 10, d1)

EscrowOwner == key :> SystemProgram
EscrowAccount == key :> Absent
EscrowWallet == key :> user

OneValidator == user :> 121 @@ v1 :> 9

\* Two validators and no account: the admin or the user can pay for a full
\* configuration, not for one of each program.
Authorities == user :> 14 @@ admin :> 14 @@ v1 :> 2 @@ v2 :> 0
=============================================================================
