-------------------------- MODULE InstructionBuilder --------------------------
(***************************************************************************)
(* What clients build: for each instruction, its discriminator and the     *)
(* list of accounts it names, in order, each with the privileges it asks   *)
(* for (src/src/instruction_builder).  The other modules apply an          *)
(* instruction to the right accounts; this one and Loaders.tla show what   *)
(* makes them the right ones.  Arguments other than keys are left out.     *)
(*                                                                         *)
(* A key is a tuple: <<name>> for a wallet, a program or an account of a   *)
(* program, <<seed, key>> for what is derived from it.                     *)
(***************************************************************************)
EXTENDS Naturals, Sequences

CONSTANTS SystemProgram, Dlp

\* find_program_address: the seed prefixes of src/src/pda.rs.
Derived(seed, key) == <<seed, key>>

DelegationRecord(a) == Derived("delegation", a)
DelegationMetadata(a) == Derived("delegation-metadata", a)
CommitStatePda(a) == Derived("state-diff", a)
CommitRecordPda(a) == Derived("commit-state-record", a)
DelegateBuffer(a, owner) == Derived("buffer", <<a, owner>>)
UndelegateBuffer(a) == Derived("undelegate-buffer", a)
FeesVault == <<"fees-vault">>
ValidatorFeesVault(v) == Derived("v-fees-vault", v)
Config(program) == Derived("p-conf", program)
EphemeralBalance(w) == Derived("balance", w)
ProgramData(program) == Derived("program-data", program)
System == <<SystemProgram>>
DelegationProgram == <<Dlp>>

\* AccountMeta::new and AccountMeta::new_readonly.
New(key, signer) == [key |-> key, signer |-> signer, writable |-> TRUE]
NewReadonly(key, signer) == [key |-> key, signer |-> signer, writable |-> FALSE]

\* The enum, and the bytes its to_vec writes first.
DlpDiscriminator ==
    [Delegate |-> 0, CommitState |-> 1, Finalize |-> 2, Undelegate |-> 3,
     InitProtocolFeesVault |-> 5, InitValidatorFeesVault |-> 6, ValidatorClaimFees |-> 7,
     WhitelistValidatorForProgram |-> 8, TopUpEphemeralBalance |-> 9,
     DelegateEphemeralBalance |-> 10, CloseEphemeralBalance |-> 11, ProtocolClaimFees |-> 12,
     CommitStateFromBuffer |-> 13, CloseValidatorFeesVault |-> 14]

Instruction(name, accounts) == [tag |-> DlpDiscriminator[name], accounts |-> accounts]

-----------------------------------------------------------------------------
BuildDelegate(payer, a, owner) == Instruction("Delegate",
    <<New(payer, TRUE), New(a, TRUE), NewReadonly(owner, FALSE), New(DelegateBuffer(a, owner), FALSE),
      New(DelegationRecord(a), FALSE), New(DelegationMetadata(a), FALSE), NewReadonly(System, FALSE)>>)

BuildCommitState(v, a, owner) == Instruction("CommitState",
    <<NewReadonly(v, TRUE), NewReadonly(a, FALSE), New(CommitStatePda(a), FALSE),
      New(CommitRecordPda(a), FALSE), NewReadonly(DelegationRecord(a), FALSE),
      New(DelegationMetadata(a), FALSE), NewReadonly(ValidatorFeesVault(v), FALSE),
      NewReadonly(Config(owner), FALSE), NewReadonly(System, FALSE)>>)

BuildCommitStateFromBuffer(v, a, owner, buffer) == Instruction("CommitStateFromBuffer",
    <<NewReadonly(v, TRUE), NewReadonly(a, FALSE), New(CommitStatePda(a), FALSE),
      New(CommitRecordPda(a), FALSE), NewReadonly(DelegationRecord(a), FALSE),
      New(DelegationMetadata(a), FALSE), NewReadonly(buffer, FALSE),
      NewReadonly(ValidatorFeesVault(v), FALSE), NewReadonly(Config(owner), FALSE),
      NewReadonly(System, FALSE)>>)

\* Mutant: the record and the metadata change places.
BuildFinalizeSwapped(v, a) == Instruction("Finalize",
    <<NewReadonly(v, TRUE), New(a, FALSE), New(CommitStatePda(a), FALSE),
      New(CommitRecordPda(a), FALSE), New(DelegationMetadata(a), FALSE),
      New(DelegationRecord(a), FALSE), New(ValidatorFeesVault(v), FALSE), NewReadonly(System, FALSE)>>)

BuildFinalize(v, a) == Instruction("Finalize",
    <<NewReadonly(v, TRUE), New(a, FALSE), New(CommitStatePda(a), FALSE),
      New(CommitRecordPda(a), FALSE), New(DelegationRecord(a), FALSE),
      New(DelegationMetadata(a), FALSE), New(ValidatorFeesVault(v), FALSE), NewReadonly(System, FALSE)>>)

BuildUndelegate(v, a, owner, reimbursed) == Instruction("Undelegate",
    <<New(v, TRUE), New(a, FALSE), NewReadonly(owner, FALSE), New(UndelegateBuffer(a), FALSE),
      NewReadonly(CommitStatePda(a), FALSE), NewReadonly(CommitRecordPda(a), FALSE),
      New(DelegationRecord(a), FALSE), New(DelegationMetadata(a), FALSE), New(reimbursed, FALSE),
      New(FeesVault, FALSE), New(ValidatorFeesVault(v), FALSE), NewReadonly(System, FALSE)>>)

BuildInitProtocolFeesVault(payer) == Instruction("InitProtocolFeesVault",
    <<New(payer, TRUE), New(FeesVault, FALSE), NewReadonly(System, FALSE)>>)

BuildInitValidatorFeesVault(payer, admin, v) == Instruction("InitValidatorFeesVault",
    <<New(payer, TRUE), New(admin, TRUE), NewReadonly(ProgramData(DelegationProgram), FALSE),
      New(v, FALSE), New(ValidatorFeesVault(v), FALSE), NewReadonly(System, FALSE)>>)

BuildCloseValidatorFeesVault(payer, admin, v) == Instruction("CloseValidatorFeesVault",
    <<New(payer, TRUE), New(admin, TRUE), NewReadonly(ProgramData(DelegationProgram), FALSE),
      New(v, FALSE), New(ValidatorFeesVault(v), FALSE)>>)

BuildValidatorClaimFees(v) == Instruction("ValidatorClaimFees",
    <<New(v, TRUE), New(FeesVault, FALSE), New(ValidatorFeesVault(v), FALSE)>>)

BuildProtocolClaimFees(admin) == Instruction("ProtocolClaimFees",
    <<New(admin, TRUE), New(FeesVault, FALSE), NewReadonly(ProgramData(DelegationProgram), FALSE)>>)

BuildWhitelist(authority, v, program) == Instruction("WhitelistValidatorForProgram",
    <<New(authority, TRUE), NewReadonly(v, FALSE), NewReadonly(program, FALSE),
      NewReadonly(ProgramData(program), FALSE), NewReadonly(ProgramData(DelegationProgram), FALSE),
      New(Config(program), FALSE), NewReadonly(System, FALSE)>>)

BuildTopUpEphemeralBalance(payer, w) == Instruction("TopUpEphemeralBalance",
    <<New(payer, TRUE), NewReadonly(w, FALSE), New(EphemeralBalance(w), FALSE),
      NewReadonly(System, FALSE)>>)

BuildDelegateEphemeralBalance(payer, w) ==
    LET a == EphemeralBalance(w)
    IN  Instruction("DelegateEphemeralBalance",
            <<New(payer, TRUE), NewReadonly(w, TRUE), New(a, FALSE),
              New(DelegateBuffer(a, System), FALSE), New(DelegationRecord(a), FALSE),
              New(DelegationMetadata(a), FALSE), NewReadonly(System, FALSE),
              NewReadonly(DelegationProgram, FALSE)>>)

BuildCloseEphemeralBalance(w) == Instruction("CloseEphemeralBalance",
    <<New(w, TRUE), New(EphemeralBalance(w), FALSE), NewReadonly(System, FALSE)>>)
=============================================================================
