---------------------------- MODULE ProgramConfig ----------------------------
(***************************************************************************)
(* WhitelistValidatorForProgram: the set of validators a program accepts   *)
(* commits from.  The first call creates the configuration, and no         *)
(* instruction ever closes it: from then on an empty set accepts nobody.   *)
(***************************************************************************)
EXTENDS Ledger

\* validate_authority: the admin, or whoever can upgrade the program.  The
\* system program has no upgrade authority.
IsAuthority(authority, program) ==
    \/ authority = Admin
    \/ program \in Programs /\ authority = UpgradeAuthority[program]

\* Mutant: the new validator replaces the others.
Replaced(approved, v, insert) == IF insert THEN {v} ELSE approved \ {v}

Updated(approved, v, insert) == IF insert THEN approved \cup {v} ELSE approved \ {v}

\* A configuration is created with no space at all, then resized to hold the
\* updated set.
WhitelistValidatorForProgram(authority, v, program, insert) ==
    LET stored == programConfig[program]
        isNew == stored.owner = SystemProgram
        config == IF isNew THEN CreatedPda(stored, Dlp, DataRent[NoData], {}) ELSE stored
        approved == Updated(config.data, v, insert)
        resized == ResizedPda(config, ConfigRent(approved), approved)
        cost == resized.lamports - stored.lamports
    IN  /\ IsAuthority(authority, program)
        /\ wallet[authority] >= cost
        /\ programConfig' = [programConfig EXCEPT ![program] = resized]
        /\ wallet' = [wallet EXCEPT ![authority] = @ - cost]
        /\ UNCHANGED <<delegatedAccount, delegationPdas, commitPdas, vaults>>

ProgramConfigNext ==
    \E authority \in Wallets, v \in Validators, program \in Owners, insert \in BOOLEAN :
        WhitelistValidatorForProgram(authority, v, program, insert)
=============================================================================
