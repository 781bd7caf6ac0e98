------------------------- MODULE AccountListsProofs -------------------------
(***************************************************************************)
(* What AccountLists.tla says of account lists holds for any wallets and   *)
(* programs, any delegated accounts and transactions of any length.        *)
(*                                                                         *)
(* The tests of a handler only get easier when privileges are added, but   *)
(* for those that ask for an exact privilege.  So the proof is about what  *)
(* merging does to a list (Merges), then about each builder and handler,   *)
(* and only at the end about transactions.                                 *)
(***************************************************************************)
EXTENDS AccountLists, SequenceTheorems, TLAPS

-----------------------------------------------------------------------------
(* The instructions. *)

\* Who can change the configuration of a program.
CanWhitelist(w, p) ==
    w = Admin \/ (p \in DOMAIN UpgradeAuthority /\ w = UpgradeAuthority[p])

\* A statement about properly built instructions is proved builder by builder.
LEMMA ProperCases ==
    ASSUME NEW ix \in ProperInstructions
    PROVE  \/ \E w \in Wallets, a \in Delegated :
                \/ ix = BuildDelegate(w, a, Recorded[a].owner)
                \/ ix = BuildCommitState(w, a, Recorded[a].owner)
                \/ ix = BuildCommitStateFromBuffer(w, a, Recorded[a].owner, Buffer)
                \/ ix = BuildFinalize(w, a)
                \/ ix = BuildUndelegate(w, a, Recorded[a].owner, Recorded[a].rentPayer)
           \/ \E w \in Wallets :
                \/ ix = BuildInitProtocolFeesVault(w)
                \/ ix = BuildValidatorClaimFees(w)
                \/ ix = BuildCloseEphemeralBalance(w)
           \/ \E w \in Wallets, v \in Wallets :
                \/ ix = BuildInitValidatorFeesVault(w, Admin, v)
                \/ ix = BuildCloseValidatorFeesVault(w, Admin, v)
           \/ \E w \in Wallets, u \in Wallets :
                \/ ix = BuildTopUpEphemeralBalance(w, u)
                \/ ix = BuildDelegateEphemeralBalance(w, u)
           \/ ix = BuildProtocolClaimFees(Admin)
           \/ \E w, v \in Wallets, p \in Programs : CanWhitelist(w, p) /\ ix = BuildWhitelist(w, v, p)
  BY KeysAssumption DEF ProperInstructions, CanWhitelist

\* The discriminators.
LEMMA Discriminators ==
    /\ DlpDiscriminator["Delegate"] = 0
    /\ DlpDiscriminator["CommitState"] = 1
    /\ DlpDiscriminator["CommitStateFromBuffer"] = 13
    /\ DlpDiscriminator["Finalize"] = 2
    /\ DlpDiscriminator["Undelegate"] = 3
    /\ DlpDiscriminator["InitProtocolFeesVault"] = 5
    /\ DlpDiscriminator["InitValidatorFeesVault"] = 6
    /\ DlpDiscriminator["CloseValidatorFeesVault"] = 14
    /\ DlpDiscriminator["ValidatorClaimFees"] = 7
    /\ DlpDiscriminator["ProtocolClaimFees"] = 12
    /\ DlpDiscriminator["WhitelistValidatorForProgram"] = 8
    /\ DlpDiscriminator["TopUpEphemeralBalance"] = 9
    /\ DlpDiscriminator["DelegateEphemeralBalance"] = 10
    /\ DlpDiscriminator["CloseEphemeralBalance"] = 11
  BY DEF DlpDiscriminator

-----------------------------------------------------------------------------
(* Privileges. *)

\* What a transaction is made of.
Metas == [key : Keys, signer : BOOLEAN, writable : BOOLEAN]
Instructions == [tag : Nat, accounts : Seq(Metas)]
Lists(keys) == Seq([key : keys, signer : BOOLEAN, writable : BOOLEAN])

\* A builder sets the discriminator and the accounts, with two privileges each.
IsBuilt(ix) ==
    /\ ix = [tag |-> ix.tag, accounts |-> ix.accounts]
    /\ ix.tag \in Nat
    /\ ix.accounts \in Lists(KeysOf(ix))

\* The list i of accounts, with the privileges they have, for the list that was
\* asked for.
Merges(i, asked) ==
    /\ Len(i) = Len(asked) /\ DOMAIN i = 1..Len(i)
    /\ \A k \in 1..Len(asked) :
          /\ i[k].key = asked[k].key
          /\ i[k].signer \in BOOLEAN /\ i[k].writable \in BOOLEAN
          /\ asked[k].signer => i[k].signer
          /\ asked[k].writable => i[k].writable

\* Every builder makes a list.
LEMMA BuildersMakeLists ==
    ASSUME NEW ix \in ProperInstructions
    PROVE  IsBuilt(ix)
  <1>1. ASSUME NEW w \in Wallets, NEW a \in Delegated,
               ix = BuildDelegate(w, a, Recorded[a].owner)
        PROVE  IsBuilt(ix)
    BY <1>1, SMTT(60)
    DEF IsBuilt, Lists, KeysOf, DlpDiscriminator, BuildDelegate, Instruction, New, NewReadonly
  <1>2. ASSUME NEW w \in Wallets, NEW a \in Delegated,
               ix = BuildCommitState(w, a, Recorded[a].owner)
        PROVE  IsBuilt(ix)
    BY <1>2
    DEF IsBuilt, Lists, KeysOf, DlpDiscriminator, BuildCommitState, Instruction, New, NewReadonly
  <1>3. ASSUME NEW w \in Wallets, NEW a \in Delegated,
               ix = BuildCommitStateFromBuffer(w, a, Recorded[a].owner, Buffer)
        PROVE  IsBuilt(ix)
    BY <1>3, SMTT(60)
    DEF IsBuilt, Lists, KeysOf, DlpDiscriminator, BuildCommitStateFromBuffer, Instruction, New,
        NewReadonly
  <1>4. ASSUME NEW w \in Wallets, NEW a \in Delegated,
               ix = BuildFinalize(w, a)
        PROVE  IsBuilt(ix)
    BY <1>4
    DEF IsBuilt, Lists, KeysOf, DlpDiscriminator, BuildFinalize, Instruction, New, NewReadonly
  <1>5. ASSUME NEW w \in Wallets, NEW a \in Delegated,
               ix = BuildUndelegate(w, a, Recorded[a].owner, Recorded[a].rentPayer)
        PROVE  IsBuilt(ix)
    <2>1. ix.tag = 3
      BY <1>5, Discriminators DEF BuildUndelegate, Instruction
    <2> DEFINE keys == KeysOf(ix)
               metas == [key : keys, signer : BOOLEAN, writable : BOOLEAN]
    <2>2. /\ DOMAIN ix.accounts = 1..12
          /\ ix.accounts[1].key = w /\ ix.accounts[2].key = a
          /\ ix.accounts[3].key = Recorded[a].owner /\ ix.accounts[4].key = UndelegateBuffer(a)
          /\ ix.accounts[5].key = CommitStatePda(a) /\ ix.accounts[6].key = CommitRecordPda(a)
          /\ ix.accounts[7].key = DelegationRecord(a)
          /\ ix.accounts[8].key = DelegationMetadata(a)
          /\ ix.accounts[9].key = Recorded[a].rentPayer /\ ix.accounts[10].key = FeesVault
          /\ ix.accounts[11].key = ValidatorFeesVault(w) /\ ix.accounts[12].key = System
      BY <1>5 DEF BuildUndelegate, Instruction, New, NewReadonly
    <2>3. \A k \in 1..12 : ix.accounts[k].key \in keys
      BY <2>2 DEF KeysOf
    <2> HIDE DEF keys
    <2>4. /\ w \in keys /\ a \in keys /\ Recorded[a].owner \in keys
          /\ UndelegateBuffer(a) \in keys /\ CommitStatePda(a) \in keys
          /\ CommitRecordPda(a) \in keys /\ DelegationRecord(a) \in keys
          /\ DelegationMetadata(a) \in keys /\ Recorded[a].rentPayer \in keys
          /\ FeesVault \in keys /\ ValidatorFeesVault(w) \in keys /\ System \in keys
      BY <2>2, <2>3
    <2>5. /\ New(w, TRUE) \in metas /\ New(a, FALSE) \in metas
          /\ NewReadonly(Recorded[a].owner, FALSE) \in metas
          /\ New(UndelegateBuffer(a), FALSE) \in metas
          /\ NewReadonly(CommitStatePda(a), FALSE) \in metas
          /\ NewReadonly(CommitRecordPda(a), FALSE) \in metas
          /\ New(DelegationRecord(a), FALSE) \in metas
          /\ New(DelegationMetadata(a), FALSE) \in metas
          /\ New(Recorded[a].rentPayer, FALSE) \in metas /\ New(FeesVault, FALSE) \in metas
          /\ New(ValidatorFeesVault(w), FALSE) \in metas /\ NewReadonly(System, FALSE) \in metas
      BY <2>4 DEF New, NewReadonly
    <2> HIDE DEF metas
    <2>6. ix.accounts \in Seq(metas)
      BY <1>5, <2>5 DEF BuildUndelegate, Instruction, New, NewReadonly
    <2>7. ix = [tag |-> ix.tag, accounts |-> ix.accounts]
      BY <1>5 DEF BuildUndelegate, Instruction
    <2> QED
      BY <2>1, <2>6, <2>7 DEF IsBuilt, Lists, metas, keys
  <1>6. ASSUME NEW w \in Wallets,
               ix = BuildInitProtocolFeesVault(w)
        PROVE  IsBuilt(ix)
    BY <1>6
    DEF IsBuilt, Lists, KeysOf, DlpDiscriminator, BuildInitProtocolFeesVault, Instruction, New,
        NewReadonly
  <1>7. ASSUME NEW w \in Wallets, NEW v \in Wallets,
               ix = BuildInitValidatorFeesVault(w, Admin, v)
        PROVE  IsBuilt(ix)
    BY <1>7
    DEF IsBuilt, Lists, KeysOf, DlpDiscriminator, BuildInitValidatorFeesVault, Instruction, New,
        NewReadonly
  <1>8. ASSUME NEW w \in Wallets, NEW v \in Wallets,
               ix = BuildCloseValidatorFeesVault(w, Admin, v)
        PROVE  IsBuilt(ix)
    BY <1>8
    DEF IsBuilt, Lists, KeysOf, DlpDiscriminator, BuildCloseValidatorFeesVault, Instruction, New,
        NewReadonly
  <1>9. ASSUME NEW w \in Wallets,
               ix = BuildValidatorClaimFees(w)
        PROVE  IsBuilt(ix)
    BY <1>9
    DEF IsBuilt, Lists, KeysOf, DlpDiscriminator, BuildValidatorClaimFees, Instruction, New,
        NewReadonly
  <1>10. ASSUME ix = BuildProtocolClaimFees(Admin)
        PROVE  IsBuilt(ix)
    BY <1>10
    DEF IsBuilt, Lists, KeysOf, DlpDiscriminator, BuildProtocolClaimFees, Instruction, New,
        NewReadonly
  <1>11. ASSUME NEW w, NEW v \in Wallets, NEW p \in Programs, CanWhitelist(w, p),
               ix = BuildWhitelist(w, v, p)
        PROVE  IsBuilt(ix)
    BY <1>11
    DEF IsBuilt, Lists, KeysOf, DlpDiscriminator, BuildWhitelist, Instruction, New, NewReadonly
  <1>12. ASSUME NEW w \in Wallets, NEW u \in Wallets,
               ix = BuildTopUpEphemeralBalance(w, u)
        PROVE  IsBuilt(ix)
    BY <1>12
    DEF IsBuilt, Lists, KeysOf, DlpDiscriminator, BuildTopUpEphemeralBalance, Instruction, New,
        NewReadonly
  <1>13. ASSUME NEW w \in Wallets, NEW u \in Wallets,
               ix = BuildDelegateEphemeralBalance(w, u)
        PROVE  IsBuilt(ix)
    BY <1>13
    DEF IsBuilt, Lists, KeysOf, DlpDiscriminator, BuildDelegateEphemeralBalance, Instruction,
        New, NewReadonly
  <1>14. ASSUME NEW w \in Wallets,
               ix = BuildCloseEphemeralBalance(w)
        PROVE  IsBuilt(ix)
    BY <1>14
    DEF IsBuilt, Lists, KeysOf, DlpDiscriminator, BuildCloseEphemeralBalance, Instruction, New,
        NewReadonly
  <1> QED
    BY <1>1, <1>2, <1>3, <1>4, <1>5, <1>6, <1>7, <1>8, <1>9, <1>10, <1>11, <1>12, <1>13, <1>14,
       ProperCases

\* What can be added to a transaction.
LEMMA ProperAreInstructions == ProperInstructions \subseteq Instructions
  <1> SUFFICES ASSUME NEW ix \in ProperInstructions
               PROVE  ix \in Instructions
    OBVIOUS
  <1>1. KeysOf(ix) \subseteq Keys
    BY DEF Keys
  <1>2. [key : KeysOf(ix), signer : BOOLEAN, writable : BOOLEAN] \subseteq Metas
    BY <1>1 DEF Metas
  <1>3. ix.accounts \in Seq(Metas)
    BY <1>2, SeqMonotonic, BuildersMakeLists DEF IsBuilt, Lists
  <1> QED
    BY <1>3, BuildersMakeLists DEF IsBuilt, Instructions

-----------------------------------------------------------------------------
(* What is built is accepted. *)

\* An account asked for with an exact privilege gets no other.
KeepsConfigs(i, ix) ==
    IsCommit(ix) =>
        \A k \in 1..Len(ix.accounts), a \in Delegated :
            ix.accounts[k].key = Config(Recorded[a].owner) /\ ~ ix.accounts[k].writable =>
                ~ i[k].writable

\* A handler accepts what its builder makes, with the privileges asked for and more.
LEMMA BuiltIsAccepted ==
    ASSUME NEW ix \in ProperInstructions, NEW i, Merges(i, ix.accounts), KeepsConfigs(i, ix),
           ix.tag = DlpDiscriminator["Delegate"] => i = ix.accounts
    PROVE  Accepts(ix.tag, i)
  <1>1. ASSUME NEW w \in Wallets, NEW a \in Delegated,
               ix = BuildDelegate(w, a, Recorded[a].owner)
        PROVE  Accepts(ix.tag, i)
    <2>1. ix.tag = 0
      BY <1>1, Discriminators DEF BuildDelegate, Instruction
    <2>2. AcceptsDelegate(i)
      BY <1>1, <2>1, KeysAssumption, Discriminators
      DEF BuildDelegate, Instruction, New, NewReadonly, Merges,
          AcceptsDelegate, LoadSigner, LoadDlpPda, LoadProgram, Delegated, LoadPda
    <2> QED
      BY <2>1, <2>2 DEF Accepts
  <1>2. ASSUME NEW w \in Wallets, NEW a \in Delegated,
               ix = BuildCommitState(w, a, Recorded[a].owner)
        PROVE  Accepts(ix.tag, i)
    <2>1. ix.tag = 1
      BY <1>2, Discriminators DEF BuildCommitState, Instruction
    <2>2. AcceptsCommitState(i)
      BY <1>2, <2>1, Discriminators
      DEF BuildCommitState, Instruction, New, NewReadonly, Merges,
          AcceptsCommitState, LoadSigner, LoadDlpPda, LoadProgram, AcceptsCommitInternal,
          LoadPda, Delegated, KeepsConfigs, IsCommit
    <2> QED
      BY <2>1, <2>2 DEF Accepts
  <1>3. ASSUME NEW w \in Wallets, NEW a \in Delegated,
               ix = BuildCommitStateFromBuffer(w, a, Recorded[a].owner, Buffer)
        PROVE  Accepts(ix.tag, i)
    <2>1. ix.tag = 13
      BY <1>3, Discriminators DEF BuildCommitStateFromBuffer, Instruction
    <2>2. AcceptsCommitStateFromBuffer(i)
      BY <1>3, <2>1, Discriminators
      DEF BuildCommitStateFromBuffer, Instruction, New, NewReadonly, Merges,
          AcceptsCommitStateFromBuffer, LoadSigner, LoadDlpPda, LoadProgram,
          AcceptsCommitInternal, LoadPda, Delegated, KeepsConfigs, IsCommit
    <2> QED
      BY <2>1, <2>2 DEF Accepts
  <1>4. ASSUME NEW w \in Wallets, NEW a \in Delegated,
               ix = BuildFinalize(w, a)
        PROVE  Accepts(ix.tag, i)
    <2>1. ix.tag = 2
      BY <1>4, Discriminators DEF BuildFinalize, Instruction
    <2>2. AcceptsFinalize(i)
      BY <1>4, <2>1, Discriminators, SMTT(60)
      DEF BuildFinalize, Instruction, New, NewReadonly, Merges,
          AcceptsFinalize, LoadSigner, LoadDlpPda, LoadProgram, Delegated
    <2> QED
      BY <2>1, <2>2 DEF Accepts
  <1>5. ASSUME NEW w \in Wallets, NEW a \in Delegated,
               ix = BuildUndelegate(w, a, Recorded[a].owner, Recorded[a].rentPayer)
        PROVE  Accepts(ix.tag, i)
    <2>1. ix.tag = 3
      BY <1>5, Discriminators DEF BuildUndelegate, Instruction
    <2>2. AcceptsUndelegate(i)
      BY <1>5, <2>1, Discriminators, SMTT(60)
      DEF BuildUndelegate, Instruction, New, NewReadonly, Merges,
          AcceptsUndelegate, LoadSigner, LoadDlpPda, LoadProgram, Delegated
    <2> QED
      BY <2>1, <2>2 DEF Accepts
  <1>6. ASSUME NEW w \in Wallets,
               ix = BuildInitProtocolFeesVault(w)
        PROVE  Accepts(ix.tag, i)
    <2>1. ix.tag = 5
      BY <1>6, Discriminators DEF BuildInitProtocolFeesVault, Instruction
    <2>2. AcceptsInitProtocolFeesVault(i)
      BY <1>6, <2>1, Discriminators
      DEF BuildInitProtocolFeesVault, Instruction, New, NewReadonly, Merges,
          AcceptsInitProtocolFeesVault, LoadSigner, LoadDlpPda, LoadProgram
    <2> QED
      BY <2>1, <2>2 DEF Accepts
  <1>7. ASSUME NEW w \in Wallets, NEW v \in Wallets,
               ix = BuildInitValidatorFeesVault(w, Admin, v)
        PROVE  Accepts(ix.tag, i)
    <2>1. ix.tag = 6
      BY <1>7, Discriminators DEF BuildInitValidatorFeesVault, Instruction
    <2>2. AcceptsInitValidatorFeesVault(i)
      BY <1>7, <2>1, Discriminators
      DEF BuildInitValidatorFeesVault, Instruction, New, NewReadonly, Merges,
          AcceptsInitValidatorFeesVault, LoadSigner, LoadDlpPda, LoadProgram, IsAdmin
    <2> QED
      BY <2>1, <2>2 DEF Accepts
  <1>8. ASSUME NEW w \in Wallets, NEW v \in Wallets,
               ix = BuildCloseValidatorFeesVault(w, Admin, v)
        PROVE  Accepts(ix.tag, i)
    <2>1. ix.tag = 14
      BY <1>8, Discriminators DEF BuildCloseValidatorFeesVault, Instruction
    <2>2. AcceptsCloseValidatorFeesVault(i)
      BY <1>8, <2>1, Discriminators
      DEF BuildCloseValidatorFeesVault, Instruction, New, NewReadonly, Merges,
          AcceptsCloseValidatorFeesVault, LoadSigner, LoadDlpPda, IsAdmin
    <2> QED
      BY <2>1, <2>2 DEF Accepts
  <1>9. ASSUME NEW w \in Wallets,
               ix = BuildValidatorClaimFees(w)
        PROVE  Accepts(ix.tag, i)
    <2>1. ix.tag = 7
      BY <1>9, Discriminators DEF BuildValidatorClaimFees, Instruction
    <2>2. AcceptsValidatorClaimFees(i)
      BY <1>9, <2>1, Discriminators
      DEF BuildValidatorClaimFees, Instruction, New, NewReadonly, Merges,
          AcceptsValidatorClaimFees, LoadSigner, LoadDlpPda
    <2> QED
      BY <2>1, <2>2 DEF Accepts
  <1>10. ASSUME ix = BuildProtocolClaimFees(Admin)
        PROVE  Accepts(ix.tag, i)
    <2>1. ix.tag = 12
      BY <1>10, Discriminators DEF BuildProtocolClaimFees, Instruction
    <2>2. AcceptsProtocolClaimFees(i)
      BY <1>10, <2>1, Discriminators
      DEF BuildProtocolClaimFees, Instruction, New, NewReadonly, Merges,
          AcceptsProtocolClaimFees, LoadSigner, LoadDlpPda, IsAdmin
    <2> QED
      BY <2>1, <2>2 DEF Accepts
  <1>11. ASSUME NEW w, NEW v \in Wallets, NEW p \in Programs, CanWhitelist(w, p),
               ix = BuildWhitelist(w, v, p)
        PROVE  Accepts(ix.tag, i)
    <2>1. ix.tag = 8
      BY <1>11, Discriminators DEF BuildWhitelist, Instruction
    <2>2. AcceptsWhitelist(i)
      BY <1>11, <2>1, Discriminators
      DEF BuildWhitelist, Instruction, New, NewReadonly, Merges,
          AcceptsWhitelist, LoadSigner, LoadProgram, LoadPda, CanWhitelist
    <2> QED
      BY <2>1, <2>2 DEF Accepts
  <1>12. ASSUME NEW w \in Wallets, NEW u \in Wallets,
               ix = BuildTopUpEphemeralBalance(w, u)
        PROVE  Accepts(ix.tag, i)
    <2>1. ix.tag = 9
      BY <1>12, Discriminators DEF BuildTopUpEphemeralBalance, Instruction
    <2>2. AcceptsTopUpEphemeralBalance(i)
      BY <1>12, <2>1, Discriminators
      DEF BuildTopUpEphemeralBalance, Instruction, New, NewReadonly, Merges,
          AcceptsTopUpEphemeralBalance, LoadSigner, LoadProgram, LoadPda
    <2> QED
      BY <2>1, <2>2 DEF Accepts
  <1>13. ASSUME NEW w \in Wallets, NEW u \in Wallets,
               ix = BuildDelegateEphemeralBalance(w, u)
        PROVE  Accepts(ix.tag, i)
    <2> DEFINE e == EphemeralBalance(u)
               inner == BuildDelegate(w, e, System).accounts
    <2>1. ix.tag = 10
      BY <1>13, Discriminators DEF BuildDelegateEphemeralBalance, Instruction
    <2>2. /\ Len(i) = 8
          /\ LoadSigner(i[1]) /\ LoadSigner(i[2])
          /\ LoadProgram(i[7], System) /\ LoadProgram(i[8], DelegationProgram)
          /\ i[1].key = w /\ i[2].key = u /\ i[3].key = e
          /\ i[4].key = DelegateBuffer(e, System) /\ i[4].writable
          /\ i[5].key = DelegationRecord(e) /\ i[5].writable
          /\ i[6].key = DelegationMetadata(e) /\ i[6].writable
          /\ i[7].key = System
          /\ i[1].signer /\ i[1].writable /\ i[3].writable
      BY <1>13, SMTT(60)
      DEF BuildDelegateEphemeralBalance, Instruction, New, NewReadonly, Merges, LoadSigner,
          LoadProgram
    <2>3. DOMAIN i = 1..8 => MayInvoke(inner, i, e)
      BY <2>2 DEF MayInvoke, BuildDelegate, Instruction, New, NewReadonly
    <2>4. AcceptsDelegate(inner)
      BY KeysAssumption DEF AcceptsDelegate, BuildDelegate, Instruction, New, NewReadonly,
         LoadSigner, LoadProgram, LoadPda, LoadDlpPda
    <2>5. AcceptsDelegateEphemeralBalance(i)
      BY <2>2, <2>3, <2>4 DEF AcceptsDelegateEphemeralBalance
    <2> QED
      BY <2>1, <2>5 DEF Accepts
  <1>14. ASSUME NEW w \in Wallets,
               ix = BuildCloseEphemeralBalance(w)
        PROVE  Accepts(ix.tag, i)
    <2>1. ix.tag = 11
      BY <1>14, Discriminators DEF BuildCloseEphemeralBalance, Instruction
    <2>2. AcceptsCloseEphemeralBalance(i)
      BY <1>14, <2>1, Discriminators
      DEF BuildCloseEphemeralBalance, Instruction, New, NewReadonly, Merges,
          AcceptsCloseEphemeralBalance, LoadSigner, LoadPda
    <2> QED
      BY <2>1, <2>2 DEF Accepts
  <1> QED
    BY <1>1, <1>2, <1>3, <1>4, <1>5, <1>6, <1>7, <1>8, <1>9, <1>10, <1>11, <1>12, <1>13, <1>14,
       ProperCases

-----------------------------------------------------------------------------
(* What is built may change what it changes. *)

\* Only a commit or a finalize asks for less than its handler needs, and only for its
\* validator.
LEMMA BuiltMayChange ==
    ASSUME NEW ix \in ProperInstructions, NEW i, Merges(i, ix.accounts),
           NEW k \in Changes(ix.tag, i), ~ i[k].writable
    PROVE  k = 1 /\ (IsCommit(ix) \/ IsFinalize(ix))
  <1> DEFINE Goal == k = 1 /\ (IsCommit(ix) \/ IsFinalize(ix))
  <1>1. ASSUME NEW w \in Wallets, NEW a \in Delegated,
               ix = BuildDelegate(w, a, Recorded[a].owner)
        PROVE  Goal
    BY <1>1, Discriminators
    DEF BuildDelegate, Instruction, New, NewReadonly, Merges, Changes, IsCommit, IsFinalize
  <1>2. ASSUME NEW w \in Wallets, NEW a \in Delegated,
               ix = BuildCommitState(w, a, Recorded[a].owner)
        PROVE  Goal
    BY <1>2, Discriminators, SMTT(60)
    DEF BuildCommitState, Instruction, New, NewReadonly, Merges, Changes, IsCommit, IsFinalize
  <1>3. ASSUME NEW w \in Wallets, NEW a \in Delegated,
               ix = BuildCommitStateFromBuffer(w, a, Recorded[a].owner, Buffer)
        PROVE  Goal
    BY <1>3, Discriminators, SMTT(60)
    DEF BuildCommitStateFromBuffer, Instruction, New, NewReadonly, Merges, Changes, IsCommit,
        IsFinalize
  <1>4. ASSUME NEW w \in Wallets, NEW a \in Delegated,
               ix = BuildFinalize(w, a)
        PROVE  Goal
    BY <1>4, Discriminators, SMTT(60)
    DEF BuildFinalize, Instruction, New, NewReadonly, Merges, Changes, IsCommit, IsFinalize
  <1>5. ASSUME NEW w \in Wallets, NEW a \in Delegated,
               ix = BuildUndelegate(w, a, Recorded[a].owner, Recorded[a].rentPayer)
        PROVE  Goal
    <2>1. ix.tag = 3 /\ Len(ix.accounts) = 12
      BY <1>5 DEF BuildUndelegate, Instruction, DlpDiscriminator
    <2>2. \A n \in {1, 2, 4, 7, 8, 9, 10, 11} : ix.accounts[n].writable
      BY <1>5 DEF BuildUndelegate, Instruction, New, NewReadonly
    <2>3. k \in {1, 2, 4, 7, 8, 9, 10, 11}
      BY <2>1 DEF Changes
    <2> QED
      BY <2>1, <2>2, <2>3 DEF Merges
  <1>6. ASSUME NEW w \in Wallets,
               ix = BuildInitProtocolFeesVault(w)
        PROVE  Goal
    BY <1>6, Discriminators
    DEF BuildInitProtocolFeesVault, Instruction, New, NewReadonly, Merges, Changes, IsCommit,
        IsFinalize
  <1>7. ASSUME NEW w \in Wallets, NEW v \in Wallets,
               ix = BuildInitValidatorFeesVault(w, Admin, v)
        PROVE  Goal
    BY <1>7, Discriminators
    DEF BuildInitValidatorFeesVault, Instruction, New, NewReadonly, Merges, Changes, IsCommit,
        IsFinalize
  <1>8. ASSUME NEW w \in Wallets, NEW v \in Wallets,
               ix = BuildCloseValidatorFeesVault(w, Admin, v)
        PROVE  Goal
    BY <1>8, Discriminators
    DEF BuildCloseValidatorFeesVault, Instruction, New, NewReadonly, Merges, Changes, IsCommit,
        IsFinalize
  <1>9. ASSUME NEW w \in Wallets,
               ix = BuildValidatorClaimFees(w)
        PROVE  Goal
    BY <1>9, Discriminators
    DEF BuildValidatorClaimFees, Instruction, New, NewReadonly, Merges, Changes, IsCommit,
        IsFinalize
  <1>10. ASSUME ix = BuildProtocolClaimFees(Admin)
        PROVE  Goal
    BY <1>10, Discriminators
    DEF BuildProtocolClaimFees, Instruction, New, NewReadonly, Merges, Changes, IsCommit,
        IsFinalize
  <1>11. ASSUME NEW w, NEW v \in Wallets, NEW p \in Programs, CanWhitelist(w, p),
               ix = BuildWhitelist(w, v, p)
        PROVE  Goal
    BY <1>11, Discriminators
    DEF BuildWhitelist, Instruction, New, NewReadonly, Merges, Changes, IsCommit, IsFinalize
  <1>12. ASSUME NEW w \in Wallets, NEW u \in Wallets,
               ix = BuildTopUpEphemeralBalance(w, u)
        PROVE  Goal
    BY <1>12, Discriminators
    DEF BuildTopUpEphemeralBalance, Instruction, New, NewReadonly, Merges, Changes, IsCommit,
        IsFinalize
  <1>13. ASSUME NEW w \in Wallets, NEW u \in Wallets,
               ix = BuildDelegateEphemeralBalance(w, u)
        PROVE  Goal
    BY <1>13, Discriminators, SMTT(60)
    DEF BuildDelegateEphemeralBalance, Instruction, New, NewReadonly, Merges, Changes, IsCommit,
        IsFinalize
  <1>14. ASSUME NEW w \in Wallets,
               ix = BuildCloseEphemeralBalance(w)
        PROVE  Goal
    BY <1>14, Discriminators
    DEF BuildCloseEphemeralBalance, Instruction, New, NewReadonly, Merges, Changes, IsCommit,
        IsFinalize
  <1> QED
    BY <1>1, <1>2, <1>3, <1>4, <1>5, <1>6, <1>7, <1>8, <1>9, <1>10, <1>11, <1>12, <1>13, <1>14,
       ProperCases

\* The configuration of a program is no other account.
LEMMA ConfigsDiffer ==
    ASSUME NEW p, NEW x, NEW y
    PROVE  /\ Config(p) # DelegateBuffer(x, y)
           /\ Config(p) \notin {DelegationRecord(x), DelegationMetadata(x), CommitStatePda(x),
                               CommitRecordPda(x), UndelegateBuffer(x), FeesVault,
                               ValidatorFeesVault(x), EphemeralBalance(x)}
           /\ Config(p) = Config(x) => p = x
           /\ x \in Wallets \cup Delegated => Config(p) # x
  <1> USE DEF Derived, Config, EphemeralBalance
  <1>1. Config(p) # DelegateBuffer(x, y)
    BY DEF DelegateBuffer
  <1>2. Config(p) \notin {DelegationRecord(x), DelegationMetadata(x), CommitStatePda(x),
                         CommitRecordPda(x), UndelegateBuffer(x), FeesVault,
                         ValidatorFeesVault(x), EphemeralBalance(x)}
    BY DEF DelegationRecord, DelegationMetadata, CommitStatePda, CommitRecordPda,
           UndelegateBuffer, FeesVault, ValidatorFeesVault
  <1>3. Config(p) = Config(x) => p = x
    OBVIOUS
  <1>4. x \in Wallets \cup Delegated => Config(p) # x
    BY KeysAssumption
  <1> QED
    BY <1>1, <1>2, <1>3, <1>4

\* Only an instruction that whitelists may write the configuration of a program.
LEMMA OnlyWhitelistWritesConfigs ==
    ASSUME NEW ix \in ProperInstructions, NEW c, Writes(ix, Config(c))
    PROVE  ix.tag = DlpDiscriminator["WhitelistValidatorForProgram"] /\ c \in Programs
  <1> DEFINE Goal == ix.tag = DlpDiscriminator["WhitelistValidatorForProgram"] /\ c \in Programs
  <1> HIDE DEF Goal
  <1>1. ASSUME NEW w \in Wallets, NEW a \in Delegated,
               ix = BuildDelegate(w, a, Recorded[a].owner)
        PROVE  Goal
    <2>1. Len(ix.accounts) = 7 /\ DOMAIN ix.accounts = 1..7
      BY <1>1 DEF BuildDelegate, Instruction
    <2>2. \A k \in 1..7 : ix.accounts[k].writable => ix.accounts[k].key \in
             {w, a, DelegateBuffer(a, Recorded[a].owner), DelegationRecord(a), DelegationMetadata(a)}
      BY <1>1 DEF BuildDelegate, Instruction, New, NewReadonly
    <2>3. Config(c) \notin
             {w, a, DelegateBuffer(a, Recorded[a].owner), DelegationRecord(a), DelegationMetadata(a)}
      BY KeysAssumption, ConfigsDiffer DEF Config, Derived, DelegateBuffer
    <2> QED
      BY <2>1, <2>2, <2>3 DEF Writes
  <1>2. ASSUME NEW w \in Wallets, NEW a \in Delegated,
               ix = BuildCommitState(w, a, Recorded[a].owner)
        PROVE  Goal
    <2>1. Len(ix.accounts) = 9 /\ DOMAIN ix.accounts = 1..9
      BY <1>2 DEF BuildCommitState, Instruction
    <2>2. \A k \in 1..9 : ix.accounts[k].writable => ix.accounts[k].key \in
             {CommitStatePda(a), CommitRecordPda(a), DelegationMetadata(a)}
      BY <1>2 DEF BuildCommitState, Instruction, New, NewReadonly
    <2>3. Config(c) \notin
             {CommitStatePda(a), CommitRecordPda(a), DelegationMetadata(a)}
      BY KeysAssumption, ConfigsDiffer
    <2> QED
      BY <2>1, <2>2, <2>3 DEF Writes
  <1>3. ASSUME NEW w \in Wallets, NEW a \in Delegated,
               ix = BuildCommitStateFromBuffer(w, a, Recorded[a].owner, Buffer)
        PROVE  Goal
    <2>1. Len(ix.accounts) = 10 /\ DOMAIN ix.accounts = 1..10
      BY <1>3 DEF BuildCommitStateFromBuffer, Instruction
    <2>2. \A k \in 1..10 : ix.accounts[k].writable => ix.accounts[k].key \in
             {CommitStatePda(a), CommitRecordPda(a), DelegationMetadata(a)}
      BY <1>3 DEF BuildCommitStateFromBuffer, Instruction, New, NewReadonly
    <2>3. Config(c) \notin
             {CommitStatePda(a), CommitRecordPda(a), DelegationMetadata(a)}
      BY KeysAssumption, ConfigsDiffer
    <2> QED
      BY <2>1, <2>2, <2>3 DEF Writes
  <1>4. ASSUME NEW w \in Wallets, NEW a \in Delegated,
               ix = BuildFinalize(w, a)
        PROVE  Goal
    <2>1. Len(ix.accounts) = 8 /\ DOMAIN ix.accounts = 1..8
      BY <1>4 DEF BuildFinalize, Instruction
    <2>2. \A k \in 1..8 : ix.accounts[k].writable => ix.accounts[k].key \in
             {a, CommitStatePda(a), CommitRecordPda(a), DelegationRecord(a), DelegationMetadata(a),
              ValidatorFeesVault(w)}
      BY <1>4 DEF BuildFinalize, Instruction, New, NewReadonly
    <2>3. Config(c) \notin
             {a, CommitStatePda(a), CommitRecordPda(a), DelegationRecord(a), DelegationMetadata(a),
              ValidatorFeesVault(w)}
      BY KeysAssumption, ConfigsDiffer
    <2> QED
      BY <2>1, <2>2, <2>3 DEF Writes
  <1>5. ASSUME NEW w \in Wallets, NEW a \in Delegated,
               ix = BuildUndelegate(w, a, Recorded[a].owner, Recorded[a].rentPayer)
        PROVE  Goal
    <2>1. Len(ix.accounts) = 12 /\ DOMAIN ix.accounts = 1..12
      BY <1>5 DEF BuildUndelegate, Instruction
    <2>2. \A k \in 1..12 : ix.accounts[k].writable => ix.accounts[k].key \in
             {w, a, UndelegateBuffer(a), DelegationRecord(a), DelegationMetadata(a),
              Recorded[a].rentPayer, FeesVault, ValidatorFeesVault(w)}
      BY <1>5 DEF BuildUndelegate, Instruction, New, NewReadonly
    <2>3. Config(c) \notin
             {w, a, UndelegateBuffer(a), DelegationRecord(a), DelegationMetadata(a),
              Recorded[a].rentPayer, FeesVault, ValidatorFeesVault(w)}
      BY KeysAssumption, ConfigsDiffer
    <2> QED
      BY <2>1, <2>2, <2>3 DEF Writes
  <1>6. ASSUME NEW w \in Wallets,
               ix = BuildInitProtocolFeesVault(w)
        PROVE  Goal
    <2>1. Len(ix.accounts) = 3 /\ DOMAIN ix.accounts = 1..3
      BY <1>6 DEF BuildInitProtocolFeesVault, Instruction
    <2>2. \A k \in 1..3 : ix.accounts[k].writable => ix.accounts[k].key \in
             {w, FeesVault}
      BY <1>6 DEF BuildInitProtocolFeesVault, Instruction, New, NewReadonly
    <2>3. Config(c) \notin
             {w, FeesVault}
      BY KeysAssumption, ConfigsDiffer
    <2> QED
      BY <2>1, <2>2, <2>3 DEF Writes
  <1>7. ASSUME NEW w \in Wallets, NEW v \in Wallets,
               ix = BuildInitValidatorFeesVault(w, Admin, v)
        PROVE  Goal
    <2>1. Len(ix.accounts) = 6 /\ DOMAIN ix.accounts = 1..6
      BY <1>7 DEF BuildInitValidatorFeesVault, Instruction
    <2>2. \A k \in 1..6 : ix.accounts[k].writable => ix.accounts[k].key \in
             {w, Admin, v, ValidatorFeesVault(v)}
      BY <1>7 DEF BuildInitValidatorFeesVault, Instruction, New, NewReadonly
    <2>3. Config(c) \notin
             {w, Admin, v, ValidatorFeesVault(v)}
      BY KeysAssumption, ConfigsDiffer
    <2> QED
      BY <2>1, <2>2, <2>3 DEF Writes
  <1>8. ASSUME NEW w \in Wallets, NEW v \in Wallets,
               ix = BuildCloseValidatorFeesVault(w, Admin, v)
        PROVE  Goal
    <2>1. Len(ix.accounts) = 5 /\ DOMAIN ix.accounts = 1..5
      BY <1>8 DEF BuildCloseValidatorFeesVault, Instruction
    <2>2. \A k \in 1..5 : ix.accounts[k].writable => ix.accounts[k].key \in
             {w, Admin, v, ValidatorFeesVault(v)}
      BY <1>8 DEF BuildCloseValidatorFeesVault, Instruction, New, NewReadonly
    <2>3. Config(c) \notin
             {w, Admin, v, ValidatorFeesVault(v)}
      BY KeysAssumption, ConfigsDiffer
    <2> QED
      BY <2>1, <2>2, <2>3 DEF Writes
  <1>9. ASSUME NEW w \in Wallets,
               ix = BuildValidatorClaimFees(w)
        PROVE  Goal
    <2>1. Len(ix.accounts) = 3 /\ DOMAIN ix.accounts = 1..3
      BY <1>9 DEF BuildValidatorClaimFees, Instruction
    <2>2. \A k \in 1..3 : ix.accounts[k].writable => ix.accounts[k].key \in
             {w, FeesVault, ValidatorFeesVault(w)}
      BY <1>9 DEF BuildValidatorClaimFees, Instruction, New, NewReadonly
    <2>3. Config(c) \notin
             {w, FeesVault, ValidatorFeesVault(w)}
      BY KeysAssumption, ConfigsDiffer
    <2> QED
      BY <2>1, <2>2, <2>3 DEF Writes
  <1>10. ASSUME ix = BuildProtocolClaimFees(Admin)
        PROVE  Goal
    <2>1. Len(ix.accounts) = 3 /\ DOMAIN ix.accounts = 1..3
      BY <1>10 DEF BuildProtocolClaimFees, Instruction
    <2>2. \A k \in 1..3 : ix.accounts[k].writable => ix.accounts[k].key \in
             {Admin, FeesVault}
      BY <1>10 DEF BuildProtocolClaimFees, Instruction, New, NewReadonly
    <2>3. Config(c) \notin
             {Admin, FeesVault}
      BY KeysAssumption, ConfigsDiffer
    <2> QED
      BY <2>1, <2>2, <2>3 DEF Writes
  <1>11. ASSUME NEW w, NEW v \in Wallets, NEW p \in Programs, CanWhitelist(w, p),
               ix = BuildWhitelist(w, v, p)
        PROVE  Goal
    <2>1. ix.tag = 8 /\ Len(ix.accounts) = 7 /\ DOMAIN ix.accounts = 1..7
      BY <1>11 DEF BuildWhitelist, Instruction, DlpDiscriminator
    <2>2. \A k \in 1..7 : ix.accounts[k].writable => ix.accounts[k].key \in {w, Config(p)}
      BY <1>11 DEF BuildWhitelist, Instruction, New, NewReadonly
    <2>3. w \in Wallets
      BY <1>11, KeysAssumption DEF CanWhitelist
    <2>4. Config(c) = Config(p)
      BY <2>1, <2>2, <2>3, ConfigsDiffer DEF Writes
    <2> QED
      BY <2>1, <2>4, ConfigsDiffer, Discriminators DEF Goal
  <1>12. ASSUME NEW w \in Wallets, NEW u \in Wallets,
               ix = BuildTopUpEphemeralBalance(w, u)
        PROVE  Goal
    <2>1. Len(ix.accounts) = 4 /\ DOMAIN ix.accounts = 1..4
      BY <1>12 DEF BuildTopUpEphemeralBalance, Instruction
    <2>2. \A k \in 1..4 : ix.accounts[k].writable => ix.accounts[k].key \in
             {w, EphemeralBalance(u)}
      BY <1>12 DEF BuildTopUpEphemeralBalance, Instruction, New, NewReadonly
    <2>3. Config(c) \notin
             {w, EphemeralBalance(u)}
      BY KeysAssumption, ConfigsDiffer
    <2> QED
      BY <2>1, <2>2, <2>3 DEF Writes
  <1>13. ASSUME NEW w \in Wallets, NEW u \in Wallets,
               ix = BuildDelegateEphemeralBalance(w, u)
        PROVE  Goal
    <2>1. Len(ix.accounts) = 8 /\ DOMAIN ix.accounts = 1..8
      BY <1>13 DEF BuildDelegateEphemeralBalance, Instruction
    <2>2. \A k \in 1..8 : ix.accounts[k].writable => ix.accounts[k].key \in
             {w, EphemeralBalance(u), DelegateBuffer(EphemeralBalance(u), System),
              DelegationRecord(EphemeralBalance(u)), DelegationMetadata(EphemeralBalance(u))}
      BY <1>13 DEF BuildDelegateEphemeralBalance, Instruction, New, NewReadonly
    <2>3. Config(c) \notin
             {w, EphemeralBalance(u), DelegateBuffer(EphemeralBalance(u), System),
              DelegationRecord(EphemeralBalance(u)), DelegationMetadata(EphemeralBalance(u))}
      BY KeysAssumption, ConfigsDiffer DEF Config, Derived, DelegateBuffer
    <2> QED
      BY <2>1, <2>2, <2>3 DEF Writes
  <1>14. ASSUME NEW w \in Wallets,
               ix = BuildCloseEphemeralBalance(w)
        PROVE  Goal
    <2>1. Len(ix.accounts) = 3 /\ DOMAIN ix.accounts = 1..3
      BY <1>14 DEF BuildCloseEphemeralBalance, Instruction
    <2>2. \A k \in 1..3 : ix.accounts[k].writable => ix.accounts[k].key \in
             {w, EphemeralBalance(w)}
      BY <1>14 DEF BuildCloseEphemeralBalance, Instruction, New, NewReadonly
    <2>3. Config(c) \notin
             {w, EphemeralBalance(w)}
      BY KeysAssumption, ConfigsDiffer
    <2> QED
      BY <2>1, <2>2, <2>3 DEF Writes
  <1> QED
    BY <1>1, <1>2, <1>3, <1>4, <1>5, <1>6, <1>7, <1>8, <1>9, <1>10, <1>11, <1>12, <1>13, <1>14, ProperCases
    DEF Goal

-----------------------------------------------------------------------------
(* One account wrong. *)

\* The instructions that are properly built, builder by builder.
LEMMA BuildersAreProper ==
    /\ \A w \in Wallets, a \in Delegated :
          /\ BuildDelegate(w, a, Recorded[a].owner) \in ProperInstructions
          /\ BuildCommitState(w, a, Recorded[a].owner) \in ProperInstructions
          /\ BuildCommitStateFromBuffer(w, a, Recorded[a].owner, Buffer) \in ProperInstructions
          /\ BuildFinalize(w, a) \in ProperInstructions
          /\ BuildUndelegate(w, a, Recorded[a].owner, Recorded[a].rentPayer) \in ProperInstructions
    /\ \A w \in Wallets :
          /\ BuildInitProtocolFeesVault(w) \in ProperInstructions
          /\ BuildValidatorClaimFees(w) \in ProperInstructions
          /\ BuildCloseEphemeralBalance(w) \in ProperInstructions
    /\ \A w, v \in Wallets :
          /\ BuildInitValidatorFeesVault(w, Admin, v) \in ProperInstructions
          /\ BuildCloseValidatorFeesVault(w, Admin, v) \in ProperInstructions
          /\ BuildTopUpEphemeralBalance(w, v) \in ProperInstructions
          /\ BuildDelegateEphemeralBalance(w, v) \in ProperInstructions
    /\ BuildProtocolClaimFees(Admin) \in ProperInstructions
    /\ \A w, v, p : v \in Wallets /\ p \in Programs /\ CanWhitelist(w, p) =>
          BuildWhitelist(w, v, p) \in ProperInstructions
  BY SMTT(60) DEF ProperInstructions, CanWhitelist

\* What is derived from different keys differs.
LEMMA DerivedDiffer ==
    ASSUME NEW x, NEW y
    PROVE  /\ DelegationRecord(x) = DelegationRecord(y) => x = y
           /\ ValidatorFeesVault(x) = ValidatorFeesVault(y) => x = y
           /\ Config(x) = Config(y) => x = y
           /\ EphemeralBalance(x) = EphemeralBalance(y) => x = y
  BY DEF Derived, DelegationRecord, ValidatorFeesVault, Config, EphemeralBalance

\* The accounts of an instruction, one of them possibly replaced; where a signature
\* is asked for there is a wallet.
IsAlmost(wrong, asked) ==
    /\ Len(wrong) = Len(asked)
    /\ \E k \in 1..Len(asked) :
          /\ \A j \in 1..Len(asked) : j # k => wrong[j].key = asked[j].key
          /\ asked[k].signer => wrong[k].key \in Wallets

\* A proper instruction of that kind names the same accounts in the places of those
\* that change.
IsRight(tag, accounts) ==
    \E proper \in ProperInstructions :
        /\ proper.tag = tag
        /\ \A k \in Changes(tag, accounts) : proper.accounts[k].key = accounts[k].key

\* What passes its tests with one account wrong changes the accounts it should.
LEMMA AcceptedAreRight ==
    ASSUME NEW ix \in ProperInstructions, NEW wrong, IsAlmost(wrong, ix.accounts),
           NEW i, Merges(i, wrong), Accepts(ix.tag, i)
    PROVE  IsRight(ix.tag, wrong)
  <1>1. ASSUME NEW w \in Wallets, NEW a \in Delegated,
               ix = BuildDelegate(w, a, Recorded[a].owner)
        PROVE  IsRight(ix.tag, wrong)
    <2> DEFINE proper == BuildDelegate(wrong[1].key, a, Recorded[a].owner)
    <2>1. ix.tag = 0 /\ Len(wrong) = 7
      BY <1>1, Discriminators DEF BuildDelegate, Instruction, IsAlmost
    <2>2. AcceptsDelegate(i)
      BY <2>1 DEF Accepts
    <2>3. wrong[1].key \in Wallets /\ wrong[2].key = a
      BY <1>1, <2>1, <2>2, DerivedDiffer, SMTT(60)
      DEF BuildDelegate, Instruction, New, NewReadonly, IsAlmost, Merges, Delegated,
          AcceptsDelegate, LoadSigner, LoadDlpPda, LoadProgram, LoadPda
    <2>4. proper \in ProperInstructions /\ proper.tag = 0
      BY <1>1, <2>3, BuildersAreProper, KeysAssumption, Discriminators
      DEF BuildDelegate, Instruction
    <2>5. \A k \in Changes(0, wrong) : proper.accounts[k].key = wrong[k].key
      BY <1>1, <2>1, <2>2, <2>3
      DEF Changes, BuildDelegate, Instruction, New, NewReadonly, Merges, IsAlmost,
          AcceptsDelegate, LoadSigner, LoadDlpPda, LoadProgram, LoadPda
    <2> QED
      BY <2>1, <2>4, <2>5 DEF IsRight
  <1>2. ASSUME NEW w \in Wallets, NEW a \in Delegated,
               ix = BuildCommitState(w, a, Recorded[a].owner)
        PROVE  IsRight(ix.tag, wrong)
    <2> DEFINE proper == BuildCommitState(wrong[1].key, wrong[2].key,
                                             Recorded[wrong[2].key].owner)
    <2>1. ix.tag = 1 /\ Len(wrong) = 9
      BY <1>2, Discriminators DEF BuildCommitState, Instruction, IsAlmost
    <2>2. AcceptsCommitState(i)
      BY <2>1 DEF Accepts
    <2>3. wrong[1].key \in Wallets /\ wrong[2].key \in Delegated
      BY <1>2, <2>1, <2>2, DerivedDiffer, SMTT(60)
      DEF BuildCommitState, Instruction, New, NewReadonly, IsAlmost, Merges, Delegated,
          AcceptsCommitState, LoadSigner, LoadDlpPda, LoadProgram, LoadPda, AcceptsCommitInternal
    <2>4. proper \in ProperInstructions /\ proper.tag = 1
      BY <1>2, <2>3, BuildersAreProper, KeysAssumption, Discriminators
      DEF BuildCommitState, Instruction
    <2>5. \A k \in Changes(1, wrong) : proper.accounts[k].key = wrong[k].key
      BY <1>2, <2>1, <2>2, <2>3
      DEF Changes, BuildCommitState, Instruction, New, NewReadonly, Merges, IsAlmost,
          AcceptsCommitState, LoadSigner, LoadDlpPda, LoadProgram, LoadPda, AcceptsCommitInternal
    <2> QED
      BY <2>1, <2>4, <2>5 DEF IsRight
  <1>3. ASSUME NEW w \in Wallets, NEW a \in Delegated,
               ix = BuildCommitStateFromBuffer(w, a, Recorded[a].owner, Buffer)
        PROVE  IsRight(ix.tag, wrong)
    <2> DEFINE proper == BuildCommitStateFromBuffer(wrong[1].key, wrong[2].key,
                                             Recorded[wrong[2].key].owner, Buffer)
    <2>1. ix.tag = 13 /\ Len(wrong) = 10
      BY <1>3, Discriminators DEF BuildCommitStateFromBuffer, Instruction, IsAlmost
    <2>2. AcceptsCommitStateFromBuffer(i)
      BY <2>1 DEF Accepts
    <2>3. wrong[1].key \in Wallets /\ wrong[2].key \in Delegated
      BY <1>3, <2>1, <2>2, DerivedDiffer
      DEF BuildCommitStateFromBuffer, Instruction, New, NewReadonly, IsAlmost, Merges, Delegated,
          AcceptsCommitStateFromBuffer, LoadSigner, LoadDlpPda, LoadProgram, LoadPda,
          AcceptsCommitInternal
    <2>4. proper \in ProperInstructions /\ proper.tag = 13
      BY <1>3, <2>3, BuildersAreProper, KeysAssumption, Discriminators
      DEF BuildCommitStateFromBuffer, Instruction
    <2>5. \A k \in Changes(13, wrong) : proper.accounts[k].key = wrong[k].key
      BY <1>3, <2>1, <2>2, <2>3
      DEF Changes, BuildCommitStateFromBuffer, Instruction, New, NewReadonly, Merges, IsAlmost,
          AcceptsCommitStateFromBuffer, LoadSigner, LoadDlpPda, LoadProgram, LoadPda,
          AcceptsCommitInternal
    <2> QED
      BY <2>1, <2>4, <2>5 DEF IsRight
  <1>4. ASSUME NEW w \in Wallets, NEW a \in Delegated,
               ix = BuildFinalize(w, a)
        PROVE  IsRight(ix.tag, wrong)
    <2> DEFINE proper == BuildFinalize(wrong[1].key, wrong[2].key)
    <2>1. ix.tag = 2 /\ Len(wrong) = 8
      BY <1>4, Discriminators DEF BuildFinalize, Instruction, IsAlmost
    <2>2. AcceptsFinalize(i)
      BY <2>1 DEF Accepts
    <2>3. wrong[1].key \in Wallets /\ wrong[2].key \in Delegated
      BY <1>4, <2>1, <2>2, DerivedDiffer
      DEF BuildFinalize, Instruction, New, NewReadonly, IsAlmost, Merges, Delegated,
          AcceptsFinalize, LoadSigner, LoadDlpPda, LoadProgram, LoadPda
    <2>4. proper \in ProperInstructions /\ proper.tag = 2
      BY <1>4, <2>3, BuildersAreProper, KeysAssumption, Discriminators
      DEF BuildFinalize, Instruction
    <2>5. \A k \in Changes(2, wrong) : proper.accounts[k].key = wrong[k].key
      BY <1>4, <2>1, <2>2, <2>3
      DEF Changes, BuildFinalize, Instruction, New, NewReadonly, Merges, IsAlmost,
          AcceptsFinalize, LoadSigner, LoadDlpPda, LoadProgram, LoadPda
    <2> QED
      BY <2>1, <2>4, <2>5 DEF IsRight
  <1>5. ASSUME NEW w \in Wallets, NEW a \in Delegated,
               ix = BuildUndelegate(w, a, Recorded[a].owner, Recorded[a].rentPayer)
        PROVE  IsRight(ix.tag, wrong)
    <2> DEFINE proper == BuildUndelegate(wrong[1].key, wrong[2].key, Recorded[wrong[2].key].owner,
                                 Recorded[wrong[2].key].rentPayer)
    <2>1. ix.tag = 3 /\ Len(wrong) = 12
      BY <1>5, Discriminators DEF BuildUndelegate, Instruction, IsAlmost
    <2>2. AcceptsUndelegate(i)
      BY <2>1 DEF Accepts
    <2>3. wrong[1].key \in Wallets /\ wrong[2].key \in Delegated
      BY <1>5, <2>1, <2>2, DerivedDiffer
      DEF BuildUndelegate, Instruction, New, NewReadonly, IsAlmost, Merges, Delegated,
          AcceptsUndelegate, LoadSigner, LoadDlpPda, LoadProgram, LoadPda
    <2>4. proper \in ProperInstructions /\ proper.tag = 3
      BY <1>5, <2>3, BuildersAreProper, KeysAssumption, Discriminators
      DEF BuildUndelegate, Instruction
    <2>5. \A k \in Changes(3, wrong) : proper.accounts[k].key = wrong[k].key
      BY <1>5, <2>1, <2>2, <2>3
      DEF Changes, BuildUndelegate, Instruction, New, NewReadonly, Merges, IsAlmost,
          AcceptsUndelegate, LoadSigner, LoadDlpPda, LoadProgram, LoadPda
    <2> QED
      BY <2>1, <2>4, <2>5 DEF IsRight
  <1>6. ASSUME NEW w \in Wallets,
               ix = BuildInitProtocolFeesVault(w)
        PROVE  IsRight(ix.tag, wrong)
    <2> DEFINE proper == BuildInitProtocolFeesVault(wrong[1].key)
    <2>1. ix.tag = 5 /\ Len(wrong) = 3
      BY <1>6, Discriminators DEF BuildInitProtocolFeesVault, Instruction, IsAlmost
    <2>2. AcceptsInitProtocolFeesVault(i)
      BY <2>1 DEF Accepts
    <2>3. wrong[1].key \in Wallets
      BY <1>6, <2>1, <2>2, DerivedDiffer
      DEF BuildInitProtocolFeesVault, Instruction, New, NewReadonly, IsAlmost, Merges, Delegated,
          AcceptsInitProtocolFeesVault, LoadSigner, LoadDlpPda, LoadProgram, LoadPda
    <2>4. proper \in ProperInstructions /\ proper.tag = 5
      BY <1>6, <2>3, BuildersAreProper, KeysAssumption, Discriminators
      DEF BuildInitProtocolFeesVault, Instruction
    <2>5. \A k \in Changes(5, wrong) : proper.accounts[k].key = wrong[k].key
      BY <1>6, <2>1, <2>2, <2>3
      DEF Changes, BuildInitProtocolFeesVault, Instruction, New, NewReadonly, Merges, IsAlmost,
          AcceptsInitProtocolFeesVault, LoadSigner, LoadDlpPda, LoadProgram, LoadPda
    <2> QED
      BY <2>1, <2>4, <2>5 DEF IsRight
  <1>7. ASSUME NEW w \in Wallets, NEW v \in Wallets,
               ix = BuildInitValidatorFeesVault(w, Admin, v)
        PROVE  IsRight(ix.tag, wrong)
    <2> DEFINE proper == BuildInitValidatorFeesVault(wrong[1].key, Admin, v)
    <2>1. ix.tag = 6 /\ Len(wrong) = 6
      BY <1>7, Discriminators DEF BuildInitValidatorFeesVault, Instruction, IsAlmost
    <2>2. AcceptsInitValidatorFeesVault(i)
      BY <2>1 DEF Accepts
    <2>3. wrong[1].key \in Wallets /\ wrong[4].key = v
      BY <1>7, <2>1, <2>2, DerivedDiffer, SMTT(60)
      DEF BuildInitValidatorFeesVault, Instruction, New, NewReadonly, IsAlmost, Merges, Delegated,
          AcceptsInitValidatorFeesVault, LoadSigner, LoadDlpPda, LoadProgram, LoadPda, IsAdmin
    <2>4. proper \in ProperInstructions /\ proper.tag = 6
      BY <1>7, <2>3, BuildersAreProper, KeysAssumption, Discriminators
      DEF BuildInitValidatorFeesVault, Instruction
    <2>5. \A k \in Changes(6, wrong) : proper.accounts[k].key = wrong[k].key
      BY <1>7, <2>1, <2>2, <2>3
      DEF Changes, BuildInitValidatorFeesVault, Instruction, New, NewReadonly, Merges, IsAlmost,
          AcceptsInitValidatorFeesVault, LoadSigner, LoadDlpPda, LoadProgram, LoadPda, IsAdmin
    <2> QED
      BY <2>1, <2>4, <2>5 DEF IsRight
  <1>8. ASSUME NEW w \in Wallets, NEW v \in Wallets,
               ix = BuildCloseValidatorFeesVault(w, Admin, v)
        PROVE  IsRight(ix.tag, wrong)
    <2> DEFINE proper == BuildCloseValidatorFeesVault(w, Admin, v)
    <2>1. ix.tag = 14 /\ Len(wrong) = 5
      BY <1>8, Discriminators DEF BuildCloseValidatorFeesVault, Instruction, IsAlmost
    <2>2. AcceptsCloseValidatorFeesVault(i)
      BY <2>1 DEF Accepts
    <2>3. wrong[4].key = v
      BY <1>8, <2>1, <2>2, DerivedDiffer
      DEF BuildCloseValidatorFeesVault, Instruction, New, NewReadonly, IsAlmost, Merges,
          Delegated,
          AcceptsCloseValidatorFeesVault, LoadSigner, LoadDlpPda, LoadProgram, LoadPda, IsAdmin
    <2>4. proper \in ProperInstructions /\ proper.tag = 14
      BY <1>8, <2>3, BuildersAreProper, KeysAssumption, Discriminators
      DEF BuildCloseValidatorFeesVault, Instruction
    <2>5. \A k \in Changes(14, wrong) : proper.accounts[k].key = wrong[k].key
      BY <1>8, <2>1, <2>2, <2>3
      DEF Changes, BuildCloseValidatorFeesVault, Instruction, New, NewReadonly, Merges, IsAlmost,
          AcceptsCloseValidatorFeesVault, LoadSigner, LoadDlpPda, LoadProgram, LoadPda, IsAdmin
    <2> QED
      BY <2>1, <2>4, <2>5 DEF IsRight
  <1>9. ASSUME NEW w \in Wallets,
               ix = BuildValidatorClaimFees(w)
        PROVE  IsRight(ix.tag, wrong)
    <2> DEFINE proper == BuildValidatorClaimFees(wrong[1].key)
    <2>1. ix.tag = 7 /\ Len(wrong) = 3
      BY <1>9, Discriminators DEF BuildValidatorClaimFees, Instruction, IsAlmost
    <2>2. AcceptsValidatorClaimFees(i)
      BY <2>1 DEF Accepts
    <2>3. wrong[1].key \in Wallets
      BY <1>9, <2>1, <2>2, DerivedDiffer
      DEF BuildValidatorClaimFees, Instruction, New, NewReadonly, IsAlmost, Merges, Delegated,
          AcceptsValidatorClaimFees, LoadSigner, LoadDlpPda, LoadProgram, LoadPda
    <2>4. proper \in ProperInstructions /\ proper.tag = 7
      BY <1>9, <2>3, BuildersAreProper, KeysAssumption, Discriminators
      DEF BuildValidatorClaimFees, Instruction
    <2>5. \A k \in Changes(7, wrong) : proper.accounts[k].key = wrong[k].key
      BY <1>9, <2>1, <2>2, <2>3
      DEF Changes, BuildValidatorClaimFees, Instruction, New, NewReadonly, Merges, IsAlmost,
          AcceptsValidatorClaimFees, LoadSigner, LoadDlpPda, LoadProgram, LoadPda
    <2> QED
      BY <2>1, <2>4, <2>5 DEF IsRight
  <1>10. ASSUME ix = BuildProtocolClaimFees(Admin)
        PROVE  IsRight(ix.tag, wrong)
    <2> DEFINE proper == BuildProtocolClaimFees(Admin)
    <2>1. ix.tag = 12 /\ Len(wrong) = 3
      BY <1>10, Discriminators DEF BuildProtocolClaimFees, Instruction, IsAlmost
    <2>2. AcceptsProtocolClaimFees(i)
      BY <2>1 DEF Accepts
    <2>3. wrong[1].key = Admin
      BY <1>10, <2>1, <2>2, DerivedDiffer
      DEF BuildProtocolClaimFees, Instruction, New, NewReadonly, IsAlmost, Merges, Delegated,
          AcceptsProtocolClaimFees, LoadSigner, LoadDlpPda, LoadProgram, LoadPda, IsAdmin
    <2>4. proper \in ProperInstructions /\ proper.tag = 12
      BY <1>10, <2>3, BuildersAreProper, KeysAssumption, Discriminators
      DEF BuildProtocolClaimFees, Instruction
    <2>5. \A k \in Changes(12, wrong) : proper.accounts[k].key = wrong[k].key
      BY <1>10, <2>1, <2>2, <2>3
      DEF Changes, BuildProtocolClaimFees, Instruction, New, NewReadonly, Merges, IsAlmost,
          AcceptsProtocolClaimFees, LoadSigner, LoadDlpPda, LoadProgram, LoadPda, IsAdmin
    <2> QED
      BY <2>1, <2>4, <2>5 DEF IsRight
  <1>11. ASSUME NEW w, NEW v \in Wallets, NEW p \in Programs, CanWhitelist(w, p),
               ix = BuildWhitelist(w, v, p)
        PROVE  IsRight(ix.tag, wrong)
    <2> DEFINE proper == BuildWhitelist(wrong[1].key, v, p)
    <2>1. ix.tag = 8 /\ Len(wrong) = 7
      BY <1>11, Discriminators DEF BuildWhitelist, Instruction, IsAlmost
    <2>2. AcceptsWhitelist(i)
      BY <2>1 DEF Accepts
    <2>3. wrong[3].key = p /\ CanWhitelist(wrong[1].key, p)
      BY <1>11, <2>1, <2>2, DerivedDiffer, SMTT(60)
      DEF BuildWhitelist, Instruction, New, NewReadonly, IsAlmost, Merges, Delegated,
          CanWhitelist,
          AcceptsWhitelist, LoadSigner, LoadDlpPda, LoadProgram, LoadPda
    <2>4. proper \in ProperInstructions /\ proper.tag = 8
      BY <1>11, <2>3, BuildersAreProper, KeysAssumption, Discriminators
      DEF BuildWhitelist, Instruction
    <2>5. \A k \in Changes(8, wrong) : proper.accounts[k].key = wrong[k].key
      BY <1>11, <2>1, <2>2, <2>3
      DEF Changes, BuildWhitelist, Instruction, New, NewReadonly, Merges, IsAlmost,
          AcceptsWhitelist, LoadSigner, LoadDlpPda, LoadProgram, LoadPda
    <2> QED
      BY <2>1, <2>4, <2>5 DEF IsRight
  <1>12. ASSUME NEW w \in Wallets, NEW u \in Wallets,
               ix = BuildTopUpEphemeralBalance(w, u)
        PROVE  IsRight(ix.tag, wrong)
    <2> DEFINE proper == BuildTopUpEphemeralBalance(wrong[1].key, u)
    <2>1. ix.tag = 9 /\ Len(wrong) = 4
      BY <1>12, Discriminators DEF BuildTopUpEphemeralBalance, Instruction, IsAlmost
    <2>2. AcceptsTopUpEphemeralBalance(i)
      BY <2>1 DEF Accepts
    <2>3. wrong[1].key \in Wallets /\ wrong[2].key = u
      BY <1>12, <2>1, <2>2, DerivedDiffer
      DEF BuildTopUpEphemeralBalance, Instruction, New, NewReadonly, IsAlmost, Merges, Delegated,
          AcceptsTopUpEphemeralBalance, LoadSigner, LoadDlpPda, LoadProgram, LoadPda
    <2>4. proper \in ProperInstructions /\ proper.tag = 9
      BY <1>12, <2>3, BuildersAreProper, KeysAssumption, Discriminators
      DEF BuildTopUpEphemeralBalance, Instruction
    <2>5. \A k \in Changes(9, wrong) : proper.accounts[k].key = wrong[k].key
      BY <1>12, <2>1, <2>2, <2>3
      DEF Changes, BuildTopUpEphemeralBalance, Instruction, New, NewReadonly, Merges, IsAlmost,
          AcceptsTopUpEphemeralBalance, LoadSigner, LoadDlpPda, LoadProgram, LoadPda
    <2> QED
      BY <2>1, <2>4, <2>5 DEF IsRight
  <1>13. ASSUME NEW w \in Wallets, NEW u \in Wallets,
               ix = BuildDelegateEphemeralBalance(w, u)
        PROVE  IsRight(ix.tag, wrong)
    <2> DEFINE proper == BuildDelegateEphemeralBalance(wrong[1].key, u)
    <2>1. ix.tag = 10 /\ Len(wrong) = 8
      BY <1>13, Discriminators DEF BuildDelegateEphemeralBalance, Instruction, IsAlmost
    <2>2. AcceptsDelegateEphemeralBalance(i)
      BY <2>1 DEF Accepts
    <2>3. wrong[1].key \in Wallets /\ wrong[2].key = u
      BY <1>13, <2>1, <2>2, DerivedDiffer
      DEF BuildDelegateEphemeralBalance, Instruction, New, NewReadonly, IsAlmost, Merges,
          Delegated,
          AcceptsDelegateEphemeralBalance, LoadSigner, LoadDlpPda, LoadProgram, LoadPda
    <2>4. proper \in ProperInstructions /\ proper.tag = 10
      BY <1>13, <2>3, BuildersAreProper, KeysAssumption, Discriminators
      DEF BuildDelegateEphemeralBalance, Instruction
    <2> DEFINE e == EphemeralBalance(u)
               Is(k, key) == wrong[k].key = key
    <2>5. wrong[3].key = e
      BY <2>1, <2>2, <2>3 DEF AcceptsDelegateEphemeralBalance, Merges
    <2>6. MayInvoke(BuildDelegate(i[1].key, e, System).accounts, i, e)
      BY <2>1, <2>2, <2>5 DEF AcceptsDelegateEphemeralBalance, Merges
    <2>7. /\ \E k \in 1..8 : Is(k, DelegationRecord(e))
          /\ \E k \in 1..8 : Is(k, DelegationMetadata(e))
      <3> DEFINE inner == BuildDelegate(i[1].key, e, System).accounts
      <3>1. /\ DOMAIN inner = 1..7
            /\ inner[5].key = DelegationRecord(e) /\ inner[6].key = DelegationMetadata(e)
        BY DEF BuildDelegate, Instruction, New, NewReadonly
      <3>2. DOMAIN i = 1..8 /\ \A k \in 1..8 : i[k].key = wrong[k].key
        BY <2>1 DEF Merges
      <3>3. MayInvoke(inner, i, e)
        BY <2>6
      <3> HIDE DEF inner, e
      <3>4. \A n \in 1..7 : \E k \in 1..8 : i[k].key = inner[n].key
        BY <3>1, <3>2, <3>3 DEF MayInvoke
      <3> QED
        BY <3>1, <3>2, <3>4
    <2>8. /\ ix.accounts[1].key = w /\ ix.accounts[2].key = u /\ ix.accounts[3].key = e
          /\ ix.accounts[4].key = DelegateBuffer(e, System)
          /\ ix.accounts[5].key = DelegationRecord(e) /\ ix.accounts[6].key = DelegationMetadata(e)
          /\ ix.accounts[7].key = System /\ ix.accounts[8].key = DelegationProgram
          /\ Len(ix.accounts) = 8
      BY <1>13 DEF BuildDelegateEphemeralBalance, Instruction, New, NewReadonly
    <2>9. \A k \in 1..8 :
             /\ ix.accounts[k].key = DelegationRecord(e) => k = 5
             /\ ix.accounts[k].key = DelegationMetadata(e) => k = 6
      <3>1. /\ Len(w) = 1 /\ Len(u) = 1 /\ Len(System) = 1 /\ Len(DelegationProgram) = 1
            /\ Len(DelegationRecord(e)) = 2 /\ Len(DelegationMetadata(e)) = 2
        BY KeysAssumption
        DEF System, DelegationProgram, DelegationRecord, DelegationMetadata, Derived
      <3>2. /\ e[1] = "balance" /\ DelegateBuffer(e, System)[1] = "buffer"
            /\ DelegationRecord(e)[1] = "delegation"
            /\ DelegationMetadata(e)[1] = "delegation-metadata"
        BY DEF EphemeralBalance, DelegateBuffer, DelegationRecord, DelegationMetadata, Derived
      <3> HIDE DEF e
      <3>3. DelegationRecord(e) \notin {w, u, e, DelegateBuffer(e, System),
                                       DelegationMetadata(e), System, DelegationProgram}
        BY <3>1, <3>2
      <3>4. DelegationMetadata(e) \notin {w, u, e, DelegateBuffer(e, System),
                                         DelegationRecord(e), System, DelegationProgram}
        BY <3>1, <3>2
      <3> QED
        BY <2>8, <3>3, <3>4
    <2> HIDE DEF e
    <2>10. PICK other \in 1..8 : \A j \in 1..8 : j # other => wrong[j].key = ix.accounts[j].key
      BY <2>8 DEF IsAlmost
    <2>11. wrong[5].key = DelegationRecord(e)
      BY <2>7, <2>8, <2>9, <2>10
    <2>12. wrong[6].key = DelegationMetadata(e)
      BY <2>7, <2>8, <2>9, <2>10
    <2>13. \A k \in Changes(10, wrong) : proper.accounts[k].key = wrong[k].key
      BY <2>5, <2>11, <2>12
      DEF Changes, BuildDelegateEphemeralBalance, Instruction, New, NewReadonly, e
    <2> QED
      BY <2>1, <2>4, <2>13 DEF IsRight
  <1>14. ASSUME NEW w \in Wallets,
               ix = BuildCloseEphemeralBalance(w)
        PROVE  IsRight(ix.tag, wrong)
    <2> DEFINE proper == BuildCloseEphemeralBalance(wrong[1].key)
    <2>1. ix.tag = 11 /\ Len(wrong) = 3
      BY <1>14, Discriminators DEF BuildCloseEphemeralBalance, Instruction, IsAlmost
    <2>2. AcceptsCloseEphemeralBalance(i)
      BY <2>1 DEF Accepts
    <2>3. wrong[1].key \in Wallets
      BY <1>14, <2>1, <2>2, DerivedDiffer
      DEF BuildCloseEphemeralBalance, Instruction, New, NewReadonly, IsAlmost, Merges, Delegated,
          AcceptsCloseEphemeralBalance, LoadSigner, LoadDlpPda, LoadProgram, LoadPda
    <2>4. proper \in ProperInstructions /\ proper.tag = 11
      BY <1>14, <2>3, BuildersAreProper, KeysAssumption, Discriminators
      DEF BuildCloseEphemeralBalance, Instruction
    <2>5. \A k \in Changes(11, wrong) : proper.accounts[k].key = wrong[k].key
      BY <1>14, <2>1, <2>2, <2>3
      DEF Changes, BuildCloseEphemeralBalance, Instruction, New, NewReadonly, Merges, IsAlmost,
          AcceptsCloseEphemeralBalance, LoadSigner, LoadDlpPda, LoadProgram, LoadPda
    <2> QED
      BY <2>1, <2>4, <2>5 DEF IsRight
  <1> QED
    BY <1>1, <1>2, <1>3, <1>4, <1>5, <1>6, <1>7, <1>8, <1>9, <1>10, <1>11, <1>12, <1>13, <1>14,
       ProperCases

-----------------------------------------------------------------------------
(* Transactions. *)

\* What the runtime makes of the accounts of an instruction.
LEMMA InfosMerge ==
    ASSUME transaction \in Seq(Instructions), NEW n \in 1..Len(transaction)
    PROVE  /\ Merges(AccountInfos(n), transaction[n].accounts)
           /\ transaction[n].tag = 0 => AccountInfos(n) = transaction[n].accounts
           /\ transaction[n].tag # 0 =>
                 \A k \in 1..Len(transaction[n].accounts) :
                     AccountInfos(n)[k].writable <=>
                         \/ transaction[n].accounts[k].key \in feePayer
                         \/ \E m \in 1..Len(transaction) :
                               Writes(transaction[m], transaction[n].accounts[k].key)
  <1> DEFINE metas == UNION {{ix.accounts[k] : k \in DOMAIN ix.accounts} :
                                ix \in {transaction[m] : m \in DOMAIN transaction}}
             asked == transaction[n].accounts
             Merged(m) ==
                [key |-> m.key,
                 signer |-> m.key \in feePayer \/ \E o \in metas : o.key = m.key /\ o.signer,
                 writable |-> m.key \in feePayer \/ \E o \in metas : o.key = m.key /\ o.writable]
             merged == [k \in DOMAIN asked |-> Merged(asked[k])]
  <1>1. transaction[n] \in Instructions /\ DOMAIN transaction = 1..Len(transaction)
    OBVIOUS
  <1>2. asked \in Seq(Metas) /\ Len(asked) \in Nat /\ DOMAIN asked = 1..Len(asked)
    BY <1>1 DEF Instructions
  <1>3. \A k \in 1..Len(asked) : asked[k] \in Metas /\ asked[k] \in metas
    BY <1>1, <1>2
  <1>4. \A key : (\E o \in metas : o.key = key /\ o.writable) <=>
                 \E m \in 1..Len(transaction) : Writes(transaction[m], key)
    BY <1>1 DEF Writes
  <1>5. AccountInfos(n) = IF transaction[n].tag = 0 THEN asked ELSE merged
    BY Discriminators DEF AccountInfos
  <1> HIDE DEF metas
  <1>6. merged \in Seq([key : Keys, signer : BOOLEAN, writable : BOOLEAN]) /\ Len(merged) = Len(asked)
    BY <1>2, <1>3 DEF Metas
  <1>7. Merges(merged, asked)
    BY <1>2, <1>3, <1>6 DEF Merges, Metas
  <1>8. Merges(asked, asked)
    BY <1>2, <1>3 DEF Merges, Metas
  <1>9. \A k \in 1..Len(asked) :
            merged[k].writable <=>
                asked[k].key \in feePayer \/ \E m \in 1..Len(transaction) : Writes(transaction[m], asked[k].key)
    BY <1>2, <1>4
  <1> QED
    BY <1>5, <1>7, <1>8, <1>9

\* The instruction at m passed its tests.
Went(m) == Accepts(transaction[m].tag, AccountInfos(m))

\* What holds all along: how far a transaction got and why, and where its instructions
\* come from.
ListsInv ==
    /\ transaction \in Seq(Instructions) /\ mistaken \in BOOLEAN
    /\ feePayer \subseteq Wallets /\ next \in Nat
    /\ result = "building" => next = 1
    /\ result = "done" => next = Len(transaction) + 1
    /\ \A m \in 1..Len(transaction) : m < next => Went(m)
    /\ result = "rejected" => next \in 1..Len(transaction) /\ ~ Went(next)
    /\ result = "stopped" => next \in 1..Len(transaction) /\ Went(next) /\ ~ MayChange
    /\ ~ mistaken => \A m \in 1..Len(transaction) : transaction[m] \in ProperInstructions
    /\ mistaken =>
          /\ Len(transaction) = 1
          /\ \E ix \in ProperInstructions :
                /\ transaction[1].tag = ix.tag
                /\ IsAlmost(transaction[1].accounts, ix.accounts)

\* It depends on the transaction and on who pays for it.
LEMMA InfosStay ==
    ASSUME UNCHANGED <<transaction, feePayer>>, NEW n
    PROVE  AccountInfos(n)' = AccountInfos(n)
  <1> DEFINE Infos(t, payer) ==
                LET metas == UNION {{ix.accounts[k] : k \in DOMAIN ix.accounts} : ix \in {t[m] : m \in DOMAIN t}}
                    asked == t[n].accounts
                    Merged(m) ==
                        [key |-> m.key,
                         signer |-> m.key \in payer \/ \E o \in metas : o.key = m.key /\ o.signer,
                         writable |-> m.key \in payer \/ \E o \in metas : o.key = m.key /\ o.writable]
                IN  IF t[n].tag = DlpDiscriminator["Delegate"]
                    THEN asked
                    ELSE [k \in DOMAIN asked |-> Merged(asked[k])]
  <1>1. AccountInfos(n) = Infos(transaction, feePayer)
    BY DEF AccountInfos
  <1>2. AccountInfos(n)' = Infos(transaction', feePayer')
    BY DEF AccountInfos
  <1> HIDE DEF Infos
  <1> QED
    BY <1>1, <1>2

\* It holds before anything is built.
LEMMA ListsInvStart == Init => ListsInv
  <1>1. <<>> \in Seq(Instructions) /\ Len(<<>>) = 0
    BY EmptySeq
  <1>2. ASSUME Init
        PROVE  /\ transaction \in Seq(Instructions) /\ Len(transaction) = 0
               /\ ~ mistaken /\ feePayer = {} /\ next = 1 /\ result = "building"
    BY <1>1, <1>2 DEF Init
  <1>3. 1 \in Nat /\ 1..0 = {}
    OBVIOUS
  <1> QED
    BY <1>2, <1>3 DEF ListsInv, Init

\* Each step.
LEMMA AddKeepsListsInv ==
    ASSUME ListsInv, NEW ix \in ProperInstructions, Add(ix)
    PROVE  ListsInv'
  <1>1. ix \in Instructions
    BY ProperAreInstructions
  <1>2. /\ transaction' \in Seq(Instructions) /\ Len(transaction') = Len(transaction) + 1
        /\ \A m \in 1..Len(transaction) : transaction'[m] = transaction[m]
        /\ transaction'[Len(transaction) + 1] = ix
    BY <1>1 DEF ListsInv, Add
  <1>3. Len(transaction) \in Nat
    BY DEF ListsInv
  <1> QED
    BY <1>2, <1>3 DEF ListsInv, Add

LEMMA MistakeKeepsListsInv ==
    ASSUME ListsInv, NEW k, NEW key \in Keys, Mistake(k, key)
    PROVE  ListsInv'
  <1> DEFINE ix == transaction[1]
             wrong == [ix.accounts EXCEPT ![k].key = key]
  <1>1. ix \in ProperInstructions /\ ix \in Instructions /\ Len(transaction) = 1
    BY SMTT(60) DEF ListsInv, Mistake
  <1>2. ix.accounts \in Seq(Metas) /\ k \in 1..Len(ix.accounts) /\ Len(ix.accounts) \in Nat
    BY <1>1 DEF Mistake, Instructions
  <1>3. ix.accounts[k] \in Metas
    BY <1>2
  <1>4. [ix.accounts[k] EXCEPT !.key = key] \in Metas
    BY <1>3 DEF Metas
  <1>5. /\ wrong \in Seq(Metas) /\ Len(wrong) = Len(ix.accounts)
        /\ \A j \in 1..Len(ix.accounts) : j # k => wrong[j] = ix.accounts[j]
        /\ wrong[k] = [ix.accounts[k] EXCEPT !.key = key]
    BY <1>2, <1>4, ExceptSeq
  <1>6. wrong[k].key = key
    BY <1>3, <1>5 DEF Metas
  <1>7. IsAlmost(wrong, ix.accounts)
    BY <1>2, <1>5, <1>6 DEF IsAlmost, Mistake
  <1>8. /\ transaction' \in Seq(Instructions) /\ Len(transaction') = 1
        /\ transaction'[1].tag = ix.tag /\ transaction'[1].accounts = wrong
    <2> DEFINE new == [ix EXCEPT !.accounts = wrong]
    <2>1. new \in Instructions /\ new.tag = ix.tag /\ new.accounts = wrong
      BY <1>1, <1>5 DEF Instructions
    <2>2. transaction' = [transaction EXCEPT ![1] = new]
      BY DEF Mistake
    <2> HIDE DEF new, wrong
    <2> QED
      BY <1>1, <2>1, <2>2, ExceptSeq, SMTT(60) DEF ListsInv
  <1> QED
    BY <1>1, <1>7, <1>8 DEF ListsInv, Mistake

LEMMA SendKeepsListsInv ==
    ASSUME ListsInv, NEW w \in Wallets, Send(w)
    PROVE  ListsInv'
  BY DEF ListsInv, Send

LEMMA OutcomeKeepsListsInv ==
    ASSUME ListsInv, Process \/ Reject \/ Stop
    PROVE  ListsInv'
  <1>1. /\ transaction' = transaction /\ feePayer' = feePayer /\ mistaken' = mistaken
        /\ \A m : Went(m)' <=> Went(m)
    <2>1. transaction' = transaction /\ feePayer' = feePayer /\ mistaken' = mistaken
      BY DEF Process, Reject, Stop
    <2> QED
      BY <2>1, InfosStay DEF Went
  <1>2. next \in 1..Len(transaction) /\ Len(transaction) \in Nat
    BY DEF ListsInv, Process, Reject, Stop, Running
  <1>3. CASE Process
    BY <1>1, <1>2, <1>3 DEF ListsInv, Process, Loaded, Went
  <1>4. CASE Reject
    BY <1>1, <1>2, <1>4 DEF ListsInv, Reject, Loaded, Went
  <1>5. CASE Stop
    <2>1. MayChange' <=> MayChange
      BY <1>1, <1>5, InfosStay DEF Stop, MayChange
    <2> QED
      BY <1>1, <1>2, <1>5, <2>1 DEF ListsInv, Stop, Loaded, Went
  <1> QED
    BY <1>3, <1>4, <1>5

\* The invariant of transactions.
THEOREM AccountListsKeepInv == Spec => []ListsInv
  <1>1. ASSUME ListsInv, [Next]_listVars
        PROVE  ListsInv'
    <2>1. CASE UNCHANGED listVars
      <3>1. UNCHANGED <<transaction, feePayer, next>> /\ \A m : AccountInfos(m)' = AccountInfos(m)
        BY <2>1, InfosStay DEF listVars
      <3>2. (MayChange' <=> MayChange) /\ \A m : Went(m)' <=> Went(m)
        BY <3>1 DEF MayChange, Went
      <3> QED
        BY <1>1, <2>1, <3>2 DEF listVars, ListsInv
    <2>2. CASE Next
      BY <1>1, <2>2, AddKeepsListsInv, MistakeKeepsListsInv, SendKeepsListsInv,
         OutcomeKeepsListsInv
      DEF Next
    <2> QED
      BY <1>1, <2>1, <2>2
  <1> QED
    BY <1>1, ListsInvStart, PTL DEF Spec

-----------------------------------------------------------------------------
(* The properties. *)

\* A proper instruction that is refused is a commit, and someone writes the
\* configuration of its program.
LEMMA OnlyCommitsAreRefused ==
    ASSUME ListsInv, ~ mistaken, NEW n \in 1..Len(transaction), ~ Went(n)
    PROVE  /\ IsCommit(transaction[n])
           /\ \E m \in 1..Len(transaction) : \E p :
                 /\ Config(p) \in KeysOf(transaction[n])
                 /\ Writes(transaction[m], Config(p))
  <1> DEFINE ix == transaction[n]
             i == AccountInfos(n)
  <1>1. ix \in ProperInstructions /\ transaction \in Seq(Instructions)
    BY DEF ListsInv
  <1>2. Merges(i, ix.accounts) /\ (ix.tag = 0 => i = ix.accounts)
    BY <1>1, InfosMerge
  <1>3. ~ KeepsConfigs(i, ix)
    BY <1>1, <1>2, BuiltIsAccepted, Discriminators DEF Went
  <1>4. IsCommit(ix) /\ ix.tag # 0
    BY <1>3, Discriminators DEF KeepsConfigs, IsCommit
  <1>5. PICK k \in 1..Len(ix.accounts), a \in Delegated :
            /\ ix.accounts[k].key = Config(Recorded[a].owner)
            /\ i[k].writable
    BY <1>3 DEF KeepsConfigs
  <1> DEFINE p == Recorded[a].owner
  <1>6. Config(p) \notin feePayer
    BY ConfigsDiffer DEF ListsInv
  <1>7. \E m \in 1..Len(transaction) : Writes(transaction[m], Config(p))
    BY <1>1, <1>4, <1>5, <1>6, InfosMerge
  <1>8. Config(p) \in KeysOf(ix)
    <2>1. ix \in Instructions
      BY <1>1, ProperAreInstructions
    <2>2. DOMAIN ix.accounts = 1..Len(ix.accounts)
      BY <2>1 DEF Instructions
    <2> QED
      BY <1>5, <2>2 DEF KeysOf
  <1> QED
    BY <1>4, <1>7, <1>8

\* BuiltInstructionsAreAccepted, for transactions of any length.
THEOREM BuiltInstructionsAreAlwaysAccepted == Spec => []BuiltInstructionsAreAccepted
  <1>1. ASSUME ListsInv, ~ mistaken, result = "rejected"
        PROVE  /\ IsCommit(transaction[next])
               /\ \E n \in DOMAIN transaction :
                     /\ transaction[n].tag = DlpDiscriminator["WhitelistValidatorForProgram"]
                     /\ \E p \in Programs :
                           /\ Config(p) \in KeysOf(transaction[next])
                           /\ Writes(transaction[n], Config(p))
    <2>1. next \in 1..Len(transaction) /\ ~ Went(next) /\ DOMAIN transaction = 1..Len(transaction)
      BY <1>1 DEF ListsInv
    <2>2. IsCommit(transaction[next])
      BY <1>1, <2>1, OnlyCommitsAreRefused
    <2>3. PICK m \in 1..Len(transaction) :
             \E p : Config(p) \in KeysOf(transaction[next]) /\ Writes(transaction[m], Config(p))
      BY <1>1, <2>1, OnlyCommitsAreRefused
    <2> PICK p : Config(p) \in KeysOf(transaction[next]) /\ Writes(transaction[m], Config(p))
      BY <2>3
    <2>4. transaction[m] \in ProperInstructions
      BY <1>1 DEF ListsInv
    <2>5. transaction[m].tag = DlpDiscriminator["WhitelistValidatorForProgram"] /\ p \in Programs
      BY <2>3, <2>4, OnlyWhitelistWritesConfigs
    <2> QED
      BY <2>1, <2>2, <2>3, <2>5
  <1>2. ASSUME ListsInv, ~ mistaken, result = "stopped"
        PROVE  /\ IsCommit(transaction[next]) \/ IsFinalize(transaction[next])
               /\ LET v == transaction[next].accounts[1].key
                  IN  /\ v \notin feePayer
                      /\ \A n \in DOMAIN transaction : ~ Writes(transaction[n], v)
    <2> DEFINE ix == transaction[next]
               i == AccountInfos(next)
    <2>1. /\ next \in 1..Len(transaction) /\ ~ MayChange /\ DOMAIN transaction = 1..Len(transaction)
          /\ ix \in ProperInstructions /\ transaction \in Seq(Instructions) /\ Went(next)
      BY <1>2 DEF ListsInv
    <2>2. Merges(i, ix.accounts)
      BY <2>1, InfosMerge
    <2>3. PICK k \in Changes(ix.tag, i) : ~ i[k].writable
      BY <2>1 DEF MayChange
    <2>4. k = 1 /\ (IsCommit(ix) \/ IsFinalize(ix))
      BY <2>1, <2>2, <2>3, BuiltMayChange
    <2>5. ix.tag \in {1, 2, 13}
      BY <2>4, Discriminators DEF IsCommit, IsFinalize
    <2>6. Len(ix.accounts) \in {8, 9, 10}
      <3>1. Len(i) = Len(ix.accounts)
        BY <2>2 DEF Merges
      <3>2. AcceptsCommitState(i) \/ AcceptsCommitStateFromBuffer(i) \/ AcceptsFinalize(i)
        BY <2>1, <2>5, SMTT(60) DEF Went, Accepts
      <3> QED
        BY <3>1, <3>2 DEF AcceptsCommitState, AcceptsCommitStateFromBuffer, AcceptsFinalize
    <2>7. ~ i[1].writable
      BY <2>3, <2>4
    <2>8. 1 \in 1..Len(ix.accounts)
      <3>1. \A n \in {8, 9, 10} : 1 \in 1..n
        OBVIOUS
      <3> QED
        BY <2>6, <3>1, Zenon
    <2>9. /\ ix.accounts[1].key \notin feePayer
          /\ \A m \in 1..Len(transaction) : ~ Writes(transaction[m], ix.accounts[1].key)
      BY <2>1, <2>5, <2>7, <2>8, InfosMerge
    <2> QED
      BY <2>1, <2>4, <2>9
  <1>3. ListsInv => BuiltInstructionsAreAccepted
    BY <1>1, <1>2 DEF BuiltInstructionsAreAccepted
  <1> QED
    BY <1>3, AccountListsKeepInv, PTL

\* ChangedAccountsAreTheRightOnes, whatever account is wrong.
THEOREM ChangedAccountsAreAlwaysTheRightOnes == Spec => []ChangedAccountsAreTheRightOnes
  <1>1. ASSUME ListsInv, result = "done", NEW n \in DOMAIN transaction
        PROVE  IsRight(transaction[n].tag, transaction[n].accounts)
    <2> DEFINE ix == transaction[n]
    <2>1. /\ n \in 1..Len(transaction) /\ Len(transaction) \in Nat /\ n < next /\ Went(n)
          /\ transaction \in Seq(Instructions)
      BY <1>1 DEF ListsInv
    <2>2. CASE ~ mistaken
      BY <1>1, <2>1, <2>2 DEF ListsInv, IsRight
    <2>3. CASE mistaken
      <3>1. PICK built \in ProperInstructions :
                ix.tag = built.tag /\ IsAlmost(ix.accounts, built.accounts)
        BY <1>1, <2>1, <2>3 DEF ListsInv
      <3>2. Merges(AccountInfos(n), ix.accounts) /\ Accepts(built.tag, AccountInfos(n))
        BY <2>1, <3>1, InfosMerge DEF Went
      <3> QED
        BY <3>1, <3>2, AcceptedAreRight
    <2> QED
      BY <1>1, <2>2, <2>3 DEF ListsInv
  <1>2. ListsInv => ChangedAccountsAreTheRightOnes
    BY <1>1 DEF ChangedAccountsAreTheRightOnes, IsRight
  <1> QED
    BY <1>2, AccountListsKeepInv, PTL
=============================================================================
