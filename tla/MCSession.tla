------------------------------ MODULE MCSession ------------------------------
(***************************************************************************)
(* Sessions of one PDA of a program, or of one key pair, committed,        *)
(* finalized and undelegated by two validators.                            *)
(***************************************************************************)
EXTENDS Session, CustodyRefinement, Claims, Conservation, TLC

CONSTANTS key, prog, user, v1, v2, d1, d2

\* Small numbers in the proportions that matter: the rent of the delegation
\* PDAs is large enough for every fee, the protocol's tenth of a tenth
\* included, to be a whole number of lamports that is not zero.
MCData == {NoData, d1, d2}
MCInlineData == {NoData, d1}
MCBufferData == {d2}
MCDataRent == NoData :> 3 @@ d1 :> 4 @@ d2 :> 6
MCConfigRent(S) == 3 + 4 * Cardinality(S)

MCUpgradeAuthority == prog :> user
MCEscrowOf == <<>>

PdaOwner == key :> prog
PdaAccount == key :> Account(prog, 10, d1)

KeyPairOwner == key :> SystemProgram
KeyPairAccount == key :> Account(SystemProgram, 10, NoData)

Unrestricted == SystemProgram :> Absent @@ prog :> Absent
OnlyV1 == SystemProgram :> Absent @@ prog :> Account(Dlp, 7, {v1})
RestrictedOrNot == {Unrestricted, OnlyV1}

\* Two validators; v2 can afford a commit above the balance once, v1 twice.
TwoValidators == user :> 308 @@ v1 :> 15 @@ v2 :> 10
=============================================================================
