--------------------------- MODULE MCTransactions ---------------------------
(***************************************************************************)
(* Bundles on one PDA of a program.                                        *)
(***************************************************************************)
EXTENDS Transactions, TLC

CONSTANTS key, prog, user, v1, v2, d1

MCData == {NoData, d1}
MCDataRent == NoData :> 3 @@ d1 :> 4
MCConfigRent(S) == 3 + 4 * Cardinality(S)

MCUpgradeAuthority == prog :> user
MCEscrowOf == <<>>
PdaOwner == key :> prog
PdaAccount == key :> Account(prog, 6, d1)
Unrestricted == {SystemProgram :> Absent @@ prog :> Absent}

\* The user can pay for one session at a time, a validator for one or two
\* commits above the balance.
MCWallet == user :> 33 @@ v1 :> 12 @@ v2 :> 9
=============================================================================
