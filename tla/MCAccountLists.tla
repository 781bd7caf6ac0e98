---------------------------- MODULE MCAccountLists ----------------------------
(***************************************************************************)
(* Two programs, a PDA of the first and the escrow of a wallet, both       *)
(* delegated; an admin, who also delegates and commits.                    *)
(***************************************************************************)
EXTENDS AccountLists, TLC

CONSTANTS key, prog, other, user, admin, buffer

MCWallets == {<<user>>, <<admin>>}
MCPrograms == {<<prog>>, <<other>>}
MCAdmin == <<admin>>
MCUpgradeAuthority == <<prog>> :> <<user>> @@ <<other>> :> <<user>>
MCOnCurve == MCWallets

Escrow == EphemeralBalance(<<user>>)
MCDerivedFrom == <<key>> :> <<prog>> @@ [w \in {EphemeralBalance(x) : x \in MCWallets} |-> DelegationProgram]
MCRecorded ==
    <<key>> :> [owner |-> <<prog>>, rentPayer |-> <<user>>]
      @@ Escrow :> [owner |-> System, rentPayer |-> <<admin>>]
MCEmpty == {Escrow}
MCBuffer == <<buffer>>
=============================================================================
