---------------------------- MODULE MCFairSession ----------------------------
(***************************************************************************)
(* Fair sessions of an account that is too large to be created by an inner *)
(* instruction when it is first delegated.                                 *)
(***************************************************************************)
EXTENDS FairSession, TLC

CONSTANTS key, prog, user, v1, v2, d1, big

\* All rents are a few units, so that sums of lamports coincide and the state space
\* stays small (fees on the delegation PDAs round to nothing): 1 covers no contents
\* but the empty ones.  The validators can stage `big` in a buffer account.
MCData == {NoData, d1, big}
MCInlineData == {NoData, d1}
MCBufferData == {big}
MCDataRent == NoData :> 1 @@ d1 :> 2 @@ big :> 3
MCConfigRent(S) == 3 + 4 * Cardinality(S)

MCUpgradeAuthority == prog :> user
MCEscrowOf == <<>>
MCOwner == key :> prog
MCAccount == key :> Account(prog, 3, big)
Unrestricted == {SystemProgram :> Absent @@ prog :> Absent}

\* The user can pay for one session at a time and a deposit; the first validator
\* can afford one commit above the balance, and then no buffer; the second one
\* nothing, until its vault is closed or it gains from what is withheld.
MCWallet == user :> 3 @@ v1 :> 3 @@ v2 :> 0
=============================================================================
