----------------------- MODULE DelegationProgramProofs -----------------------
(***************************************************************************)
(* The safety invariants of the whole program hold in every reachable      *)
(* state, for any sets of accounts, validators, wallets and programs, any  *)
(* committed balances and any minimum balances.                            *)
(*                                                                         *)
(* Inv, the conjunction of the type invariant and the invariants of        *)
(* Safety.tla, is inductive: there is one lemma per instruction, which     *)
(* shows first the types, then each invariant the instruction can disturb. *)
(***************************************************************************)
EXTENDS DelegationProgram, Safety, TLAPS

\* The invariants of Safety.tla, one account at a time.
Safe(a) ==
    /\ IsDelegated(a) => DelegatedLamports(a) <= delegatedAccount[a].lamports
    /\ HasPendingCommit(a) =>
          /\ IsDelegated(a)
          /\ commitRecord[a].data.account = a
          /\ commitRecord[a].data.slot >= delegationMetadata[a].data.lastUpdateSlot
          /\ commitRecord[a].data.lamports - DelegatedLamports(a) <= commitState[a].lamports
          /\ CanCreate(commitState[a].data)
    /\ IsDelegated(a) /\ delegationMetadata[a].data.isUndelegatable /\ ~ HasPendingCommit(a) =>
          CanCreate(delegatedAccount[a].data)
    /\ IsInitialized(delegationRecord[a]) <=> IsInitialized(delegationMetadata[a])
    /\ IsInitialized(commitState[a]) <=> IsInitialized(commitRecord[a])
    /\ IsInitialized(delegatedAccount[a]) =>
          IsInitialized(delegationRecord[a]) /\ delegatedAccount[a].lamports > 0
    /\ Funded(delegationRecord[a], RecordRent)
    /\ Funded(delegationMetadata[a], MetadataRent)
    /\ Funded(commitState[a], DataRent[commitState[a].data])
    /\ Funded(commitRecord[a], CommitRecordRent)
    /\ IsRentExempt(delegatedAccount[a], DataRent[delegatedAccount[a].data])
    /\ delegatedAccount[a].owner = SystemProgram => delegatedAccount[a].data = NoData
    /\ delegatedAccount[a].lamports = 0 => delegatedAccount[a].owner = SystemProgram

VaultsAreSafe ==
    /\ \A v \in Validators : Funded(validatorFeesVault[v], VaultRent)
    /\ Funded(feesVault, VaultRent)

ConfigsAreSafe ==
    \A p \in Owners : Funded(programConfig[p], ConfigRent(programConfig[p].data))

\* The inductive invariant.
Inv ==
    /\ TypeOK
    /\ \A a \in Accounts : Safe(a)
    /\ VaultsAreSafe
    /\ ConfigsAreSafe

-----------------------------------------------------------------------------
(* The arithmetic of accounts. *)

\* A percentage (up to 100) of an amount is a natural number no larger than it.
LEMMA PercentIsPart ==
    ASSUME NEW amount \in Nat
    PROVE  /\ Percent(amount, RentFeesPercentage) \in Nat
           /\ Percent(amount, RentFeesPercentage) <= amount
           /\ Percent(amount, ProtocolFeesPercentage) \in Nat
           /\ Percent(amount, ProtocolFeesPercentage) <= amount
  BY DEF Percent, RentFeesPercentage, ProtocolFeesPercentage

\* Closing a PDA with fees gives away all of its lamports and no more.
LEMMA FeeSplitIsExact ==
    ASSUME NEW lamports \in Nat
    PROVE  /\ FeeSplit(lamports).protocol \in Nat
           /\ FeeSplit(lamports).validator \in Nat
           /\ FeeSplit(lamports).refund \in Nat
           /\ FeeSplit(lamports).protocol + FeeSplit(lamports).validator
                + FeeSplit(lamports).refund = lamports
  <1> DEFINE total == Percent(lamports, RentFeesPercentage)
             protocol == Percent(total, RentFeesPercentage)
  <1>1. total \in Nat /\ total <= lamports
    BY PercentIsPart
  <1>2. protocol \in Nat /\ protocol <= total
    BY <1>1, PercentIsPart
  <1>3. FeeSplit(lamports) = [protocol |-> protocol, validator |-> total - protocol,
                              refund |-> lamports - total]
    BY DEF FeeSplit
  <1> QED
    BY <1>1, <1>2, <1>3

\* A created PDA holds its rent and whatever was in it, paid by the top-up.
LEMMA CreatedPdaIsRentExempt ==
    ASSUME NEW acc, acc.lamports \in Nat, NEW rent \in Nat, NEW owner, NEW data
    PROVE  /\ TopUpCost(acc, rent) \in Nat
           /\ CreatedPda(acc, owner, rent, data).lamports \in Nat
           /\ CreatedPda(acc, owner, rent, data).lamports >= rent
           /\ CreatedPda(acc, owner, rent, data).lamports >= acc.lamports
           /\ CreatedPda(acc, owner, rent, data).owner = owner
           /\ CreatedPda(acc, owner, rent, data).data = data
           /\ CreatedPda(acc, owner, rent, data)
                = [owner |-> owner, lamports |-> acc.lamports + TopUpCost(acc, rent), data |-> data]
  BY DEF CreatedPda, TopUpCost, Account

-----------------------------------------------------------------------------
(* Types. *)

\* A PDA is uninitialized or holds the contents it was created with.
LEMMA PdaContents ==
    ASSUME NEW D, NEW acc \in Pda(D)
    PROVE  /\ acc.lamports \in Nat
           /\ IsInitialized(acc) => acc.data \in D
           /\ ~ IsInitialized(acc) <=> IsUninitialized(acc)
  BY ProgramsDiffer DEF Pda, IsInitialized, IsUninitialized

\* The types of the accounts and PDAs of one key.
Typed(a) ==
    /\ delegatedAccount[a] \in DelegatableAccount
    /\ delegatedAccount[a].lamports \in Nat
    /\ delegatedAccount[a].data \in Data
    /\ delegationRecord[a].lamports \in Nat
    /\ delegationMetadata[a].lamports \in Nat
    /\ commitState[a].lamports \in Nat
    /\ commitRecord[a].lamports \in Nat
    /\ IsInitialized(delegationRecord[a]) =>
          /\ delegationRecord[a].data \in RecordData
          /\ DelegatedLamports(a) \in Nat
    /\ IsInitialized(delegationMetadata[a]) =>
          /\ delegationMetadata[a].data \in MetadataData
          /\ delegationMetadata[a].data.lastUpdateSlot \in Nat
    /\ IsInitialized(commitState[a]) => commitState[a].data \in Data
    /\ IsInitialized(commitRecord[a]) =>
          /\ commitRecord[a].data \in CommitRecordData
          /\ commitRecord[a].data.lamports \in Nat
          /\ commitRecord[a].data.slot \in Slots
          /\ commitRecord[a].data.identity \in Validators

\* What the type invariant says of the accounts and PDAs of one key.
LEMMA AccountsAreTyped ==
    ASSUME TypeOK, NEW a \in Accounts
    PROVE  Typed(a)
  <1>1. /\ delegatedAccount[a] \in DelegatableAccount
        /\ delegationRecord[a] \in Pda(RecordData)
        /\ delegationMetadata[a] \in Pda(MetadataData)
        /\ commitState[a] \in Pda(Data)
        /\ commitRecord[a] \in Pda(CommitRecordData)
    BY DEF TypeOK
  <1>2. delegatedAccount[a].lamports \in Nat /\ delegatedAccount[a].data \in Data
    BY <1>1 DEF DelegatableAccount
  <1>3. ASSUME IsInitialized(delegationRecord[a])
        PROVE  delegationRecord[a].data \in RecordData /\ DelegatedLamports(a) \in Nat
    BY <1>1, <1>3, PdaContents DEF RecordData, DelegatedLamports
  <1>4. ASSUME IsInitialized(delegationMetadata[a])
        PROVE  /\ delegationMetadata[a].data \in MetadataData
               /\ delegationMetadata[a].data.lastUpdateSlot \in Nat
    <2>1. delegationMetadata[a].data \in MetadataData
      BY <1>1, <1>4, PdaContents
    <2>2. delegationMetadata[a].data.lastUpdateSlot \in Slots \cup {0}
      BY <2>1 DEF MetadataData
    <2>3. \A s \in Slots : s \in Nat
      BY LedgerAssumption
    <2> QED
      BY <2>1, <2>2, <2>3
  <1>5. ASSUME IsInitialized(commitRecord[a])
        PROVE  /\ commitRecord[a].data \in CommitRecordData
               /\ commitRecord[a].data.lamports \in Nat
               /\ commitRecord[a].data.slot \in Slots
               /\ commitRecord[a].data.identity \in Validators
    <2>1. commitRecord[a].data \in CommitRecordData
      BY <1>1, <1>5, PdaContents
    <2> QED
      BY <2>1 DEF CommitRecordData
  <1>6. IsInitialized(commitState[a]) => commitState[a].data \in Data
    BY <1>1, PdaContents
  <1>7. delegationRecord[a].lamports \in Nat
    BY <1>1, PdaContents
  <1>8. delegationMetadata[a].lamports \in Nat
    BY <1>1, PdaContents
  <1>9. commitState[a].lamports \in Nat
    BY <1>1, PdaContents
  <1>10. commitRecord[a].lamports \in Nat
    BY <1>1, PdaContents
  <1> QED
    BY <1>1, <1>2, <1>3, <1>4, <1>5, <1>6, <1>7, <1>8, <1>9, <1>10 DEF Typed

\* The inductive invariant is strong enough for every invariant of Safety.tla.
LEMMA InvImpliesSafety ==
    Inv => /\ RecordIsCovered
           /\ CommitIsCollateralized
           /\ PdasAreConsistent
           /\ PdasAreRentExempt
           /\ AccountsAreRentExempt
           /\ UndelegatableFits
  <1> SUFFICES ASSUME Inv
               PROVE  /\ RecordIsCovered
                      /\ CommitIsCollateralized
                      /\ PdasAreConsistent
                      /\ PdasAreRentExempt
                      /\ AccountsAreRentExempt
                      /\ UndelegatableFits
    OBVIOUS
  <1>1. RecordIsCovered
    BY DEF Inv, Safe, RecordIsCovered
  <1>2. CommitIsCollateralized
    <2> SUFFICES ASSUME NEW a \in Accounts, HasPendingCommit(a)
                 PROVE  /\ commitRecord[a].data.lamports - DelegatedLamports(a)
                              <= commitState[a].lamports
                        /\ DelegatedLamports(a) - commitRecord[a].data.lamports
                              <= delegatedAccount[a].lamports
      BY DEF CommitIsCollateralized
    <2>1. DelegatedLamports(a) <= delegatedAccount[a].lamports
      BY DEF Inv, Safe
    <2>2. commitRecord[a].data.lamports \in Nat /\ DelegatedLamports(a) \in Nat
             /\ delegatedAccount[a].lamports \in Nat
      BY AccountsAreTyped DEF Inv, Safe, Typed, HasPendingCommit, IsDelegated
    <2> QED
      BY <2>1, <2>2 DEF Inv, Safe
  <1>3. PdasAreConsistent
    BY DEF Inv, Safe, PdasAreConsistent
  <1>4. PdasAreRentExempt
    BY DEF Inv, Safe, VaultsAreSafe, ConfigsAreSafe, PdasAreRentExempt, Funded
  <1>5. AccountsAreRentExempt
    BY DEF Inv, Safe, AccountsAreRentExempt
  <1>6. UndelegatableFits
    BY DEF Inv, Safe, UndelegatableFits, CanCreate
  <1> QED
    BY <1>1, <1>2, <1>3, <1>4, <1>5, <1>6

AccountUnchanged(a) ==
    /\ delegatedAccount'[a] = delegatedAccount[a]
    /\ delegationRecord'[a] = delegationRecord[a]
    /\ delegationMetadata'[a] = delegationMetadata[a]
    /\ commitState'[a] = commitState[a]
    /\ commitRecord'[a] = commitRecord[a]

\* An account none of whose PDAs change stays safe.
LEMMA UnchangedStaysSafe ==
    ASSUME NEW a \in Accounts, Safe(a), AccountUnchanged(a)
    PROVE  Safe(a)'
  BY DEF Safe, AccountUnchanged, IsDelegated, HasPendingCommit, DelegatedLamports, IsInitialized,
         Funded, IsRentExempt

\* So do vaults that do not change.
LEMMA VaultsUnchanged ==
    ASSUME VaultsAreSafe, UNCHANGED vaults
    PROVE  VaultsAreSafe'
  BY DEF VaultsAreSafe, vaults, Funded, IsInitialized

\* So do configurations that do not change.
LEMMA ConfigsUnchanged ==
    ASSUME ConfigsAreSafe, UNCHANGED programConfig
    PROVE  ConfigsAreSafe'
  BY DEF ConfigsAreSafe, Funded, IsInitialized

\* Vaults are paid, not opened or closed.
VaultsOnlyGrow ==
    /\ \A v \in Validators :
          /\ IsInitialized(validatorFeesVault'[v]) <=> IsInitialized(validatorFeesVault[v])
          /\ validatorFeesVault'[v].lamports >= validatorFeesVault[v].lamports
    /\ IsInitialized(feesVault') <=> IsInitialized(feesVault)
    /\ feesVault'.lamports >= feesVault.lamports

\* A vault that is paid stays safe.
LEMMA GrownVaultsStaySafe ==
    ASSUME TypeOK, TypeOK', VaultsAreSafe, VaultsOnlyGrow
    PROVE  VaultsAreSafe'
  <1>1. VaultRent \in Nat
    BY LedgerAssumption
  <1>2. ASSUME NEW acc \in Pda(VaultData), NEW grown \in Pda(VaultData), Funded(acc, VaultRent),
               IsInitialized(grown) <=> IsInitialized(acc), grown.lamports >= acc.lamports
        PROVE  Funded(grown, VaultRent)
    BY <1>1, <1>2, PdaContents DEF Funded
  <1>3. ASSUME NEW v \in Validators PROVE Funded(validatorFeesVault'[v], VaultRent)
    <2>1. validatorFeesVault[v] \in Pda(VaultData) /\ validatorFeesVault'[v] \in Pda(VaultData)
      BY DEF TypeOK
    <2> QED
      BY <1>2, <2>1 DEF VaultsAreSafe, VaultsOnlyGrow
  <1>4. Funded(feesVault', VaultRent)
    BY <1>2 DEF TypeOK, VaultsAreSafe, VaultsOnlyGrow
  <1> QED
    BY <1>3, <1>4 DEF VaultsAreSafe

IsNewPda(pda, D, rent, data) ==
    /\ pda \in Pda(D)
    /\ IsInitialized(pda)
    /\ pda.lamports >= rent
    /\ pda.data = data

\* What creating a PDA, on lamports someone may have sent to it, leaves behind.
LEMMA CreatedPdaIsTyped ==
    ASSUME NEW D, NEW acc \in Pda(D), NEW rent \in Nat, NEW data \in D
    PROVE  /\ IsNewPda(CreatedPda(acc, Dlp, rent, data), D, rent, data)
           /\ TopUpCost(acc, rent) \in Nat
  <1>1. acc.lamports \in Nat
    BY PdaContents
  <1>2. TopUpCost(acc, rent) \in Nat /\ acc.lamports + TopUpCost(acc, rent) \in Nat
    BY <1>1, CreatedPdaIsRentExempt
  <1>3. CreatedPda(acc, Dlp, rent, data)
          = [owner |-> Dlp, lamports |-> acc.lamports + TopUpCost(acc, rent), data |-> data]
    BY DEF CreatedPda, Account
  <1>4. acc.lamports + TopUpCost(acc, rent) >= rent
    BY <1>1, CreatedPdaIsRentExempt DEF TopUpCost
  <1> QED
    BY <1>2, <1>3, <1>4 DEF IsNewPda, Pda, IsInitialized

\* An account that does not exist is a PDA not yet created.
LEMMA AbsentIsUninitialized ==
    ASSUME NEW D
    PROVE  Absent \in Pda(D) /\ ~ IsInitialized(Absent) /\ IsUninitialized(Absent)
  BY ProgramsDiffer DEF Absent, Account, Pda, IsInitialized, IsUninitialized

\* Writing a PDA keeps its lamports.
LEMMA WrittenPdaIsTyped ==
    ASSUME NEW D, NEW acc \in Pda(D), IsInitialized(acc), NEW data \in D
    PROVE  /\ [acc EXCEPT !.data = data] \in Pda(D)
           /\ IsInitialized([acc EXCEPT !.data = data])
           /\ [acc EXCEPT !.data = data].lamports = acc.lamports
           /\ [acc EXCEPT !.data = data].data = data
  BY ProgramsDiffer DEF Pda, IsInitialized

\* Paying a PDA, or taking lamports from it, keeps its contents.
LEMMA PaidPdaIsTyped ==
    ASSUME NEW D, NEW acc \in Pda(D), NEW lamports \in Nat
    PROVE  /\ [acc EXCEPT !.lamports = lamports] \in Pda(D)
           /\ IsInitialized([acc EXCEPT !.lamports = lamports]) <=> IsInitialized(acc)
           /\ [acc EXCEPT !.lamports = lamports].lamports = lamports
           /\ [acc EXCEPT !.lamports = lamports].data = acc.data
  BY ProgramsDiffer DEF Pda, IsInitialized

\* Paying an account changes nothing but its lamports.
LEMMA Credit ==
    ASSUME NEW acc \in DelegatableAccount, NEW amount \in Nat
    PROVE  /\ [acc EXCEPT !.lamports = @ + amount] \in DelegatableAccount
           /\ [acc EXCEPT !.lamports = @ + amount].owner = acc.owner
           /\ [acc EXCEPT !.lamports = @ + amount].lamports = acc.lamports + amount
           /\ [acc EXCEPT !.lamports = @ + amount].data = acc.data
  BY DEF DelegatableAccount

\* An account that is removed when it is left empty.
LEMMA PurgedAccountIsTyped ==
    ASSUME NEW acc \in DelegatableAccount
    PROVE  /\ Purged(acc) \in DelegatableAccount
           /\ \/ Purged(acc) = acc /\ acc.lamports > 0
              \/ Purged(acc) = Absent /\ acc.lamports = 0
  <1>1. Absent \in DelegatableAccount
    BY LedgerAssumption DEF Absent, Account, DelegatableAccount, Owners
  <1>2. acc.lamports \in Nat
    BY DEF DelegatableAccount
  <1> QED
    BY <1>1, <1>2 DEF Purged

\* A step that concerns one account keeps Inv if it keeps that account safe.
LEMMA OneAccountStep ==
    ASSUME Inv, NEW a \in Accounts, TypeOK', Safe(a)', VaultsAreSafe', ConfigsAreSafe',
           \A b \in Accounts \ {a} : AccountUnchanged(b)
    PROVE  Inv'
  <1>1. ASSUME NEW b \in Accounts \ {a} PROVE Safe(b)'
    BY UnchangedStaysSafe DEF Inv
  <1> QED
    BY <1>1 DEF Inv

-----------------------------------------------------------------------------
(* The world outside the program. *)

\* A deposit adds to an account what no record says, in custody or not.
LEMMA DepositKeepsInv ==
    ASSUME Inv, NEW a \in Accounts, NEW payer \in Depositors, NEW amount \in Deposits,
           Deposit(payer, a, amount)
    PROVE  Inv'
  <1> DEFINE credited == [delegatedAccount[a] EXCEPT !.lamports = @ + amount]
  <1>0. amount \in Nat /\ payer \in Wallets
    BY DepositsAssumption
  <1>1. /\ delegatedAccount[a] \in DelegatableAccount
        /\ delegatedAccount' = [delegatedAccount EXCEPT ![a] = credited]
        /\ wallet' = [wallet EXCEPT ![payer] = @ - amount]
        /\ wallet[payer] >= amount
        /\ IsRentExempt(credited, DataRent[credited.data])
        /\ UNCHANGED <<delegationRecord, delegationMetadata, commitState, commitRecord,
                       validatorFeesVault, feesVault, programConfig>>
    BY DEF Inv, TypeOK, Deposit, delegationPdas, commitPdas, vaults
  <1>2. /\ credited \in DelegatableAccount
        /\ credited.owner = delegatedAccount[a].owner
        /\ credited.lamports = delegatedAccount[a].lamports + amount
        /\ credited.data = delegatedAccount[a].data
    BY <1>0, <1>1, Credit
  <1> HIDE DEF credited
  <1>3. TypeOK'
    <2>1. delegatedAccount' \in [Accounts -> DelegatableAccount]
      BY <1>1, <1>2 DEF Inv, TypeOK
    <2>2. wallet' \in [Wallets -> Nat]
      BY <1>0, <1>1 DEF Inv, TypeOK
    <2> QED
      BY <1>1, <2>1, <2>2 DEF Inv, TypeOK
  <1>4. Safe(a)'
    <2>1. delegatedAccount'[a] = credited
      BY <1>1 DEF Inv, TypeOK
    <2>2. Safe(a) /\ Typed(a)
      BY AccountsAreTyped DEF Inv
    <2> QED
      BY <1>0, <1>1, <1>2, <2>1, <2>2
      DEF Safe, Typed, IsDelegated, HasPendingCommit, DelegatedLamports, IsInitialized, Funded
  <1>5. VaultsAreSafe' /\ ConfigsAreSafe'
    BY <1>1, VaultsUnchanged, ConfigsUnchanged DEF Inv, vaults
  <1>6. \A b \in Accounts \ {a} : AccountUnchanged(b)
    BY <1>1 DEF Inv, TypeOK, AccountUnchanged
  <1> QED
    BY <1>3, <1>4, <1>5, <1>6, OneAccountStep

\* A deposit to a commit state PDA only adds to the collateral.
LEMMA DepositToCommitStateKeepsInv ==
    ASSUME Inv, NEW a \in Accounts, NEW payer \in Depositors, NEW amount \in Deposits,
           DepositToCommitState(payer, a, amount)
    PROVE  Inv'
  <1> DEFINE credited == [commitState[a] EXCEPT !.lamports = @ + amount]
  <1>0. amount \in Nat /\ payer \in Wallets
    BY DepositsAssumption
  <1>1. /\ commitState[a] \in Pda(Data) /\ commitState[a].lamports \in Nat
        /\ commitState' = [commitState EXCEPT ![a] = credited]
        /\ wallet' = [wallet EXCEPT ![payer] = @ - amount]
        /\ wallet[payer] >= amount
        /\ UNCHANGED <<delegatedAccount, delegationRecord, delegationMetadata, commitRecord,
                       validatorFeesVault, feesVault, programConfig>>
    BY AccountsAreTyped DEF Inv, TypeOK, Typed, DepositToCommitState, delegationPdas, commitPdas, vaults
  <1>2. /\ credited \in Pda(Data)
        /\ IsInitialized(credited) <=> IsInitialized(commitState[a])
        /\ credited.lamports = commitState[a].lamports + amount
        /\ credited.data = commitState[a].data
    <2>1. commitState[a].lamports + amount \in Nat
      BY <1>0, <1>1
    <2> QED
      BY <1>1, <2>1, PaidPdaIsTyped
  <1> HIDE DEF credited
  <1>3. TypeOK'
    <2>1. commitState' \in [Accounts -> Pda(Data)]
      BY <1>1, <1>2 DEF Inv, TypeOK
    <2>2. wallet' \in [Wallets -> Nat]
      BY <1>0, <1>1 DEF Inv, TypeOK
    <2> QED
      BY <1>1, <2>1, <2>2 DEF Inv, TypeOK
  <1>4. Safe(a)'
    <2>1. commitState'[a] = credited
      BY <1>1 DEF Inv, TypeOK
    <2>2. Safe(a) /\ Typed(a)
      BY AccountsAreTyped DEF Inv
    <2>3. IsInitialized(commitState[a]) => DataRent[commitState[a].data] \in Nat
      BY <2>2, LedgerAssumption DEF Typed
    <2> QED
      BY <1>0, <1>1, <1>2, <2>1, <2>2, <2>3
      DEF Safe, Typed, IsDelegated, HasPendingCommit, DelegatedLamports, Funded
  <1>5. VaultsAreSafe' /\ ConfigsAreSafe'
    BY <1>1, VaultsUnchanged, ConfigsUnchanged DEF Inv, vaults
  <1>6. \A b \in Accounts \ {a} : AccountUnchanged(b)
    BY <1>1 DEF Inv, TypeOK, AccountUnchanged
  <1> QED
    BY <1>3, <1>4, <1>5, <1>6, OneAccountStep

\* An account that is not delegated, before and after a step that leaves its
\* PDAs alone, stays safe if it is rent exempt.
LEMMA HomeStaysSafe ==
    ASSUME NEW a \in Accounts, Safe(a),
           ~ IsInitialized(delegatedAccount[a]), ~ IsInitialized(delegatedAccount'[a]),
           IsRentExempt(delegatedAccount'[a], DataRent[delegatedAccount'[a].data]),
           delegatedAccount'[a].owner = SystemProgram => delegatedAccount'[a].data = NoData,
           delegatedAccount'[a].lamports = 0 => delegatedAccount'[a].owner = SystemProgram,
           delegationRecord'[a] = delegationRecord[a],
           delegationMetadata'[a] = delegationMetadata[a],
           commitState'[a] = commitState[a],
           commitRecord'[a] = commitRecord[a]
    PROVE  Safe(a)'
  BY DEF Safe, IsDelegated, HasPendingCommit, Funded

\* A program writes accounts of its own, which are none of the program's.
LEMMA OwnerWriteKeepsInv ==
    ASSUME Inv, NEW a \in Accounts, NEW data \in Data, OwnerWrite(a, data)
    PROVE  Inv'
  <1> DEFINE written == [delegatedAccount[a] EXCEPT !.data = data]
  <1>1. /\ delegatedAccount[a] \in DelegatableAccount
        /\ delegatedAccount[a].owner \in Programs
        /\ delegatedAccount' = [delegatedAccount EXCEPT ![a] = written]
        /\ data # NoData
        /\ IsRentExempt(delegatedAccount[a], DataRent[data])
        /\ UNCHANGED <<delegationRecord, delegationMetadata, commitState, commitRecord,
                       validatorFeesVault, feesVault, programConfig, wallet>>
    BY DEF Inv, TypeOK, OwnerWrite, delegationPdas, commitPdas, vaults
  <1>2. /\ written \in DelegatableAccount
        /\ written.owner = delegatedAccount[a].owner
        /\ written.lamports = delegatedAccount[a].lamports
        /\ written.data = data
    BY <1>1 DEF DelegatableAccount
  <1> HIDE DEF written
  <1>3. TypeOK'
    <2>1. delegatedAccount' \in [Accounts -> DelegatableAccount]
      BY <1>1, <1>2 DEF Inv, TypeOK
    <2> QED
      BY <1>1, <2>1 DEF Inv, TypeOK
  <1>4. Safe(a)'
    <2>1. delegatedAccount'[a] = written
      BY <1>1 DEF Inv, TypeOK
    <2>2. ~ IsInitialized(delegatedAccount[a]) /\ ~ IsInitialized(written)
      BY <1>1, <1>2, LedgerAssumption DEF IsInitialized, Owners
    <2>3. IsRentExempt(written, DataRent[written.data])
      BY <1>1, <1>2 DEF IsRentExempt
    <2>4. written.owner # SystemProgram /\ written.lamports # 0
      BY <1>1, <1>2, LedgerAssumption DEF Inv, Safe
    <2> QED
      BY <1>1, <2>1, <2>2, <2>3, <2>4, HomeStaysSafe DEF Inv
  <1>5. VaultsAreSafe' /\ ConfigsAreSafe'
    BY <1>1, VaultsUnchanged, ConfigsUnchanged DEF Inv, vaults
  <1>6. \A b \in Accounts \ {a} : AccountUnchanged(b)
    BY <1>1 DEF Inv, TypeOK, AccountUnchanged
  <1> QED
    BY <1>3, <1>4, <1>5, <1>6, OneAccountStep

\* A program creates its PDA with the rent of its contents.
LEMMA OwnerCreateKeepsInv ==
    ASSUME Inv, NEW a \in Accounts, NEW payer \in Wallets, NEW data \in Data,
           OwnerCreate(payer, a, data)
    PROVE  Inv'
  <1> DEFINE rent == DataRent[data]
             cost == TopUpCost(delegatedAccount[a], rent)
             created == CreatedPda(delegatedAccount[a], OwnerProgram[a], rent, data)
  <1>1. /\ delegatedAccount[a] \in DelegatableAccount
        /\ delegatedAccount[a].lamports \in Nat
        /\ delegatedAccount[a].owner = SystemProgram
        /\ OwnerProgram[a] \in Programs
        /\ wallet[payer] >= cost
        /\ delegatedAccount' = [delegatedAccount EXCEPT ![a] = created]
        /\ wallet' = [wallet EXCEPT ![payer] = @ - cost]
        /\ UNCHANGED <<delegationRecord, delegationMetadata, commitState, commitRecord,
                       validatorFeesVault, feesVault, programConfig>>
    BY DEF Inv, TypeOK, DelegatableAccount, OwnerCreate, delegationPdas, commitPdas, vaults
  <1>2. rent \in Nat
    BY LedgerAssumption
  <1>3. /\ cost \in Nat
        /\ created.lamports \in Nat
        /\ created.lamports >= rent
        /\ created.owner = OwnerProgram[a]
        /\ created.data = data
        /\ created = [owner |-> OwnerProgram[a], lamports |-> delegatedAccount[a].lamports + cost,
                      data |-> data]
    BY <1>1, <1>2, CreatedPdaIsRentExempt
  <1>4. created \in DelegatableAccount
    BY <1>1, <1>3 DEF DelegatableAccount, Owners
  <1> HIDE DEF created, cost
  <1>5. TypeOK'
    <2>1. delegatedAccount' \in [Accounts -> DelegatableAccount]
      BY <1>1, <1>4 DEF Inv, TypeOK
    <2>2. wallet' \in [Wallets -> Nat]
      BY <1>1, <1>3 DEF Inv, TypeOK
    <2> QED
      BY <1>1, <2>1, <2>2 DEF Inv, TypeOK
  <1>6. Safe(a)'
    <2>1. delegatedAccount'[a] = created
      BY <1>1 DEF Inv, TypeOK
    <2>2. ~ IsInitialized(delegatedAccount[a]) /\ ~ IsInitialized(created)
      BY <1>1, <1>3, LedgerAssumption, ProgramsDiffer DEF IsInitialized, Owners
    <2>3. IsRentExempt(created, DataRent[created.data])
      BY <1>3 DEF IsRentExempt
    <2>4. created.owner # SystemProgram /\ created.lamports # 0
      BY <1>1, <1>2, <1>3, LedgerAssumption
    <2> QED
      BY <1>1, <2>1, <2>2, <2>3, <2>4, HomeStaysSafe DEF Inv
  <1>7. VaultsAreSafe' /\ ConfigsAreSafe'
    BY <1>1, VaultsUnchanged, ConfigsUnchanged DEF Inv, vaults
  <1>8. \A b \in Accounts \ {a} : AccountUnchanged(b)
    BY <1>1 DEF Inv, TypeOK, AccountUnchanged
  <1> QED
    BY <1>5, <1>6, <1>7, <1>8, OneAccountStep

-----------------------------------------------------------------------------
(* Delegate. *)

\* What Delegate writes: both delegation PDAs, the record with the lamports of the
\* account that is handed over.
SessionIsOpened(a, handed, taken) ==
    /\ \A b \in Accounts \ {a} : AccountUnchanged(b)
    /\ UNCHANGED <<commitState, commitRecord, vaults, programConfig>>
    /\ delegatedAccount'[a] = taken
    /\ IsInitialized(delegationRecord'[a])
    /\ delegationRecord'[a].lamports >= RecordRent
    /\ DelegatedLamports(a)' = handed.lamports
    /\ IsInitialized(delegationMetadata'[a])
    /\ delegationMetadata'[a].lamports >= MetadataRent
    /\ delegationMetadata'[a].data.isUndelegatable = FALSE

\* A session is opened as said, whether or not the rest of the ledger is safe.
LEMMA DelegateWrites ==
    ASSUME TypeOK, NEW a \in Accounts, NEW payer \in Wallets, NEW program \in Owners,
           NEW handed, handed.lamports \in Nat, NEW taken \in DelegatableAccount,
           ProcessDelegate(payer, a, program, handed, taken)
    PROVE  TypeOK' /\ SessionIsOpened(a, handed, taken)
  <1> DEFINE recordData == [owner |-> program, lamports |-> handed.lamports]
             metadataData == [lastUpdateSlot |-> 0, isUndelegatable |-> FALSE, rentPayer |-> payer]
             record == CreatedPda(delegationRecord[a], Dlp, RecordRent, recordData)
             metadata == CreatedPda(delegationMetadata[a], Dlp, MetadataRent, metadataData)
             recordCost == TopUpCost(delegationRecord[a], RecordRent)
             metadataCost == TopUpCost(delegationMetadata[a], MetadataRent)
  <1>1. /\ wallet[payer] >= recordCost + metadataCost
        /\ delegatedAccount' = [delegatedAccount EXCEPT ![a] = taken]
        /\ delegationRecord' = [delegationRecord EXCEPT ![a] = record]
        /\ delegationMetadata' = [delegationMetadata EXCEPT ![a] = metadata]
        /\ wallet' = [wallet EXCEPT ![payer] = @ - (recordCost + metadataCost)]
        /\ UNCHANGED <<commitState, commitRecord, validatorFeesVault, feesVault, programConfig>>
    BY DEF ProcessDelegate, commitPdas, vaults
  <1>2. /\ delegationRecord[a] \in Pda(RecordData)
        /\ delegationMetadata[a] \in Pda(MetadataData)
        /\ RecordRent \in Nat /\ MetadataRent \in Nat
    BY LedgerAssumption DEF TypeOK
  <1>3. recordData \in RecordData /\ metadataData \in MetadataData
    BY DEF RecordData, MetadataData
  <1> HIDE DEF recordData, metadataData
  <1>4. /\ record \in Pda(RecordData) /\ IsInitialized(record)
        /\ record.lamports >= RecordRent
        /\ record.data = recordData
        /\ recordCost \in Nat
    <2>1. IsNewPda(record, RecordData, RecordRent, recordData) /\ recordCost \in Nat
      BY <1>2, <1>3, CreatedPdaIsTyped
    <2> QED
      BY <2>1 DEF IsNewPda
  <1>5. /\ metadata \in Pda(MetadataData) /\ IsInitialized(metadata)
        /\ metadata.lamports >= MetadataRent
        /\ metadata.data = metadataData
        /\ metadataCost \in Nat
    <2>1. IsNewPda(metadata, MetadataData, MetadataRent, metadataData) /\ metadataCost \in Nat
      BY <1>2, <1>3, CreatedPdaIsTyped
    <2> QED
      BY <2>1 DEF IsNewPda
  <1> HIDE DEF record, metadata, recordCost, metadataCost
  <1>6. TypeOK'
    <2>1. delegatedAccount' \in [Accounts -> DelegatableAccount]
      BY <1>1 DEF TypeOK
    <2>2. delegationRecord' \in [Accounts -> Pda(RecordData)]
      BY <1>1, <1>4 DEF TypeOK
    <2>3. delegationMetadata' \in [Accounts -> Pda(MetadataData)]
      BY <1>1, <1>5 DEF TypeOK
    <2>4. wallet' \in [Wallets -> Nat]
      BY <1>1, <1>4, <1>5 DEF TypeOK
    <2> QED
      BY <1>1, <2>1, <2>2, <2>3, <2>4 DEF TypeOK
  <1>7. /\ delegatedAccount'[a] = taken
        /\ delegationRecord'[a] = record
        /\ delegationMetadata'[a] = metadata
    BY <1>1 DEF TypeOK
  <1>8. /\ DelegatedLamports(a)' = handed.lamports
        /\ delegationMetadata'[a].data.isUndelegatable = FALSE
    BY <1>4, <1>5, <1>7 DEF DelegatedLamports, recordData, metadataData
  <1>9. \A b \in Accounts \ {a} : AccountUnchanged(b)
    BY <1>1 DEF TypeOK, AccountUnchanged
  <1> QED
    BY <1>1, <1>4, <1>5, <1>6, <1>7, <1>8, <1>9 DEF SessionIsOpened, vaults

\* The handler, whoever hands the account over: with its own lamports, and its
\* own contents either still in it or in the buffer.
LEMMA ProcessDelegateKeepsInv ==
    ASSUME Inv, NEW a \in Accounts, NEW payer \in Wallets, NEW program \in Owners,
           NEW handed, NEW restored \in DelegatableAccount,
           restored.owner = handed.owner,
           restored.lamports = handed.lamports,
           handed.lamports = delegatedAccount[a].lamports,
           restored.data = delegatedAccount[a].data,
           ProcessDelegate(payer, a, program, handed, Purged(restored))
    PROVE  Inv'
  <1>1. /\ restored.owner = Dlp
        /\ IsUninitialized(delegationRecord[a])
    BY DEF ProcessDelegate, IsInitialized
  <1>2. /\ TypeOK /\ Safe(a) /\ Typed(a)
        /\ handed.lamports \in Nat
        /\ delegationRecord[a] \in Pda(RecordData)
        /\ RecordRent \in Nat /\ MetadataRent \in Nat
    BY AccountsAreTyped, LedgerAssumption DEF Inv, TypeOK, Typed
  <1>3. /\ Purged(restored) \in DelegatableAccount
        /\ \/ Purged(restored) = restored /\ restored.lamports > 0
           \/ Purged(restored) = Absent
    BY PurgedAccountIsTyped
  <1>4. TypeOK' /\ SessionIsOpened(a, handed, Purged(restored))
    BY <1>2, <1>3, DelegateWrites
  <1>5. Safe(a)'
    <2>1. /\ delegatedAccount'[a] = Purged(restored)
          /\ IsInitialized(delegationRecord'[a])
          /\ delegationRecord'[a].lamports >= RecordRent
          /\ DelegatedLamports(a)' = delegatedAccount[a].lamports
          /\ IsInitialized(delegationMetadata'[a])
          /\ delegationMetadata'[a].lamports >= MetadataRent
          /\ delegationMetadata'[a].data.isUndelegatable = FALSE
          /\ commitState'[a] = commitState[a]
          /\ commitRecord'[a] = commitRecord[a]
      BY <1>4 DEF SessionIsOpened
    <2>2. ~ IsInitialized(commitState[a]) /\ ~ IsInitialized(commitRecord[a])
      BY <1>1, <1>2, PdaContents DEF Safe, HasPendingCommit, IsDelegated
    <2>3. /\ IsRentExempt(delegatedAccount'[a], DataRent[delegatedAccount'[a].data])
          /\ IsInitialized(delegatedAccount'[a]) =>
                /\ delegatedAccount'[a].lamports = delegatedAccount[a].lamports
                /\ delegatedAccount'[a].lamports > 0
          /\ delegatedAccount'[a].owner = SystemProgram => delegatedAccount'[a].data = NoData
          /\ delegatedAccount'[a].lamports = 0 => delegatedAccount'[a].owner = SystemProgram
      <3>1. CASE Purged(restored) = restored /\ restored.lamports > 0
        <4>1. IsRentExempt(delegatedAccount[a], DataRent[delegatedAccount[a].data])
          BY <1>2 DEF Safe
        <4>2. IsRentExempt(restored, DataRent[restored.data])
          BY <4>1 DEF IsRentExempt
        <4> QED
          BY <1>1, <1>2, <2>1, <3>1, <4>2, ProgramsDiffer
      <3>2. CASE Purged(restored) = Absent
        BY <2>1, <3>2, ProgramsDiffer DEF IsRentExempt, IsInitialized, Absent, Account
      <3> QED
        BY <1>3, <3>1, <3>2
    <2> QED
      BY <1>2, <2>1, <2>2, <2>3 DEF Safe, Typed, HasPendingCommit, IsDelegated, Funded
  <1>6. VaultsAreSafe' /\ ConfigsAreSafe'
    BY <1>4, VaultsUnchanged, ConfigsUnchanged DEF Inv, SessionIsOpened
  <1> QED
    BY <1>4, <1>5, <1>6, OneAccountStep DEF SessionIsOpened

\* Delegate hands over an account with its contents in the buffer.
LEMMA DelegateKeepsInv ==
    ASSUME Inv, NEW a \in Accounts, NEW payer \in Wallets, NEW program \in Owners,
           Delegate(payer, a, program)
    PROVE  Inv'
  <1> DEFINE home == delegatedAccount[a]
             handed == [home EXCEPT !.owner = Dlp,
                                    !.data = IF home.data = NoData THEN NoData ELSE Zeroed]
  <1>1. home \in DelegatableAccount
    BY DEF Inv, TypeOK
  <1> DEFINE restored == Restored(handed, home.data)
  <1>2. ProcessDelegate(payer, a, program, handed, Purged(restored))
    BY DEF Delegate
  <1>3. /\ restored \in DelegatableAccount
        /\ restored.owner = handed.owner
        /\ restored.lamports = handed.lamports
        /\ handed.lamports = home.lamports
        /\ restored.data = home.data
    <2>1. CASE home.data = NoData
      BY <1>1, <2>1 DEF DelegatableAccount, Restored
    <2>2. CASE home.data # NoData
      BY <1>1, <2>2 DEF DelegatableAccount, Restored
    <2> QED
      BY <2>1, <2>2
  <1> HIDE DEF handed, restored
  <1> QED
    BY <1>2, <1>3, ProcessDelegateKeepsInv

\* An escrow is handed over with no contents, by the system program.
LEMMA DelegateEphemeralBalanceKeepsInv ==
    ASSUME Inv, NEW a \in Accounts, NEW payer \in Wallets, NEW pubkey \in Wallets,
           DelegateEphemeralBalance(payer, pubkey, a)
    PROVE  Inv'
  <1> DEFINE escrow == delegatedAccount[a]
             handed == [escrow EXCEPT !.owner = Dlp]
  <1>1. /\ escrow \in DelegatableAccount
        /\ SystemProgram \in Owners
        /\ ProcessDelegate(payer, a, SystemProgram, handed, Purged(Restored(handed, NoData)))
    BY DEF Inv, TypeOK, Owners, DelegateEphemeralBalance
  <1>2. /\ handed \in DelegatableAccount
        /\ handed.lamports = escrow.lamports
        /\ handed.data = escrow.data
    BY <1>1 DEF DelegatableAccount
  <1>3. Restored(handed, NoData) = handed
    BY DEF Restored
  <1> HIDE DEF handed
  <1> QED
    BY <1>1, <1>2, <1>3, ProcessDelegateKeepsInv

-----------------------------------------------------------------------------
(* Undelegate. *)

\* What ending a session writes: the delegation PDAs are gone, their lamports paid
\* out in fees and refunds.
SessionIsClosed(a, returned) ==
    /\ \A b \in Accounts \ {a} : AccountUnchanged(b)
    /\ UNCHANGED <<commitState, commitRecord, programConfig>>
    /\ delegatedAccount'[a] = returned
    /\ delegationRecord'[a] = Absent
    /\ delegationMetadata'[a] = Absent
    /\ VaultsOnlyGrow

\* A session is closed as said, whether or not the rest of the ledger is safe.
LEMMA CleanupWrites ==
    ASSUME TypeOK, NEW a \in Accounts, NEW v \in Validators, NEW reimbursed \in Wallets,
           NEW returned \in DelegatableAccount, NEW purse \in [Wallets -> Nat],
           delegatedAccount' = [delegatedAccount EXCEPT ![a] = returned],
           Cleanup(v, a, reimbursed, purse),
           UNCHANGED <<commitPdas, programConfig>>
    PROVE  TypeOK' /\ SessionIsClosed(a, returned)
  <1> DEFINE record == FeeSplit(delegationRecord[a].lamports)
             metadata == FeeSplit(delegationMetadata[a].lamports)
  <1>1. /\ delegationRecord' = [delegationRecord EXCEPT ![a] = Absent]
        /\ delegationMetadata' = [delegationMetadata EXCEPT ![a] = Absent]
        /\ validatorFeesVault' =
              [validatorFeesVault EXCEPT ![v].lamports = @ + record.validator + metadata.validator]
        /\ feesVault' = [feesVault EXCEPT !.lamports = @ + record.protocol + metadata.protocol]
        /\ wallet' = [purse EXCEPT ![reimbursed] = @ + record.refund + metadata.refund]
        /\ UNCHANGED <<commitState, commitRecord, programConfig>>
    BY DEF Cleanup, commitPdas
  <1>2. Typed(a)
    BY AccountsAreTyped
  <1>3. /\ record.validator \in Nat /\ record.protocol \in Nat /\ record.refund \in Nat
        /\ metadata.validator \in Nat /\ metadata.protocol \in Nat /\ metadata.refund \in Nat
    BY <1>2, FeeSplitIsExact DEF Typed
  <1>4. validatorFeesVault[v] \in Pda(VaultData) /\ feesVault \in Pda(VaultData)
    BY DEF TypeOK
  <1> DEFINE fees == validatorFeesVault[v].lamports + record.validator + metadata.validator
             protocolFees == feesVault.lamports + record.protocol + metadata.protocol
             paid == [validatorFeesVault[v] EXCEPT !.lamports = fees]
             protocolPaid == [feesVault EXCEPT !.lamports = protocolFees]
  <1>5. /\ fees \in Nat /\ fees >= validatorFeesVault[v].lamports
        /\ protocolFees \in Nat /\ protocolFees >= feesVault.lamports
    <2>1. validatorFeesVault[v].lamports \in Nat /\ feesVault.lamports \in Nat
      BY <1>4, PdaContents
    <2> HIDE DEF record, metadata
    <2> QED
      BY <1>3, <2>1
  <1> HIDE DEF record, metadata
  <1>6. validatorFeesVault' = [validatorFeesVault EXCEPT ![v] = paid] /\ feesVault' = protocolPaid
    BY <1>1
  <1> HIDE DEF fees, protocolFees
  <1>7. /\ paid \in Pda(VaultData)
        /\ IsInitialized(paid) <=> IsInitialized(validatorFeesVault[v])
        /\ paid.lamports = fees
    BY <1>4, <1>5, PaidPdaIsTyped
  <1>8. /\ protocolPaid \in Pda(VaultData)
        /\ IsInitialized(protocolPaid) <=> IsInitialized(feesVault)
        /\ protocolPaid.lamports = protocolFees
    BY <1>4, <1>5, PaidPdaIsTyped
  <1> HIDE DEF paid, protocolPaid
  <1>9. TypeOK'
    <2>1. delegatedAccount' \in [Accounts -> DelegatableAccount]
      BY DEF TypeOK
    <2>2. delegationRecord' \in [Accounts -> Pda(RecordData)]
      BY <1>1, AbsentIsUninitialized DEF TypeOK
    <2>3. delegationMetadata' \in [Accounts -> Pda(MetadataData)]
      BY <1>1, AbsentIsUninitialized DEF TypeOK
    <2>4. wallet' \in [Wallets -> Nat]
      BY <1>1, <1>3 DEF TypeOK
    <2>5. validatorFeesVault' \in [Validators -> Pda(VaultData)]
      BY <1>6, <1>7 DEF TypeOK
    <2>6. feesVault' \in Pda(VaultData)
      BY <1>6, <1>8
    <2> QED
      BY <1>1, <2>1, <2>2, <2>3, <2>4, <2>5, <2>6 DEF TypeOK
  <1>10. VaultsOnlyGrow
    <2>1. ASSUME NEW u \in Validators
          PROVE  /\ IsInitialized(validatorFeesVault'[u]) <=> IsInitialized(validatorFeesVault[u])
                 /\ validatorFeesVault'[u].lamports >= validatorFeesVault[u].lamports
      <3>1. CASE u = v
        BY <1>5, <1>6, <1>7, <3>1 DEF TypeOK
      <3>2. CASE u # v
        <4>1. validatorFeesVault'[u] = validatorFeesVault[u]
          BY <1>6, <3>2 DEF TypeOK
        <4>2. validatorFeesVault[u].lamports \in Nat
          BY PdaContents DEF TypeOK
        <4> QED
          BY <4>1, <4>2
      <3> QED
        BY <3>1, <3>2
    <2> QED
      BY <1>5, <1>6, <1>8, <2>1 DEF VaultsOnlyGrow
  <1>11. /\ delegatedAccount'[a] = returned
         /\ delegationRecord'[a] = Absent
         /\ delegationMetadata'[a] = Absent
    BY <1>1 DEF TypeOK
  <1>12. \A b \in Accounts \ {a} : AccountUnchanged(b)
    BY <1>1 DEF TypeOK, AccountUnchanged
  <1> QED
    BY <1>1, <1>9, <1>10, <1>11, <1>12 DEF SessionIsClosed

\* Closing the delegation PDAs, once the account is no longer in custody.
LEMMA CleanupKeepsInv ==
    ASSUME Inv, NEW a \in Accounts, NEW v \in Validators, NEW program \in Owners,
           NEW reimbursed \in Wallets, NEW returned \in DelegatableAccount,
           NEW purse \in [Wallets -> Nat],
           CanUndelegate(v, a, program, reimbursed),
           returned.owner # Dlp,
           IsRentExempt(returned, DataRent[returned.data]),
           returned.owner = SystemProgram => returned.data = NoData,
           returned.lamports = 0 => returned.owner = SystemProgram,
           delegatedAccount' = [delegatedAccount EXCEPT ![a] = returned],
           Cleanup(v, a, reimbursed, purse),
           UNCHANGED <<commitPdas, programConfig>>
    PROVE  Inv'
  <1>1. TypeOK /\ Safe(a) /\ Typed(a)
    BY AccountsAreTyped DEF Inv
  <1>2. TypeOK' /\ SessionIsClosed(a, returned)
    BY <1>1, CleanupWrites
  <1>3. Safe(a)'
    <2>1. /\ delegatedAccount'[a] = returned
          /\ delegationRecord'[a] = Absent
          /\ delegationMetadata'[a] = Absent
          /\ commitState'[a] = commitState[a]
          /\ commitRecord'[a] = commitRecord[a]
      BY <1>2 DEF SessionIsClosed
    <2>2. ~ IsInitialized(commitState[a]) /\ ~ IsInitialized(commitRecord[a])
      BY ProgramsDiffer DEF CanUndelegate, NoPendingCommit, IsInitialized, IsUninitialized
    <2>3. ~ IsInitialized(returned)
      BY DEF IsInitialized
    <2>4. ~ IsInitialized(Absent)
      BY AbsentIsUninitialized
    <2> QED
      BY <1>1, <2>1, <2>2, <2>3, <2>4 DEF Safe, HasPendingCommit, IsDelegated, Funded
  <1>4. VaultsAreSafe' /\ ConfigsAreSafe'
    BY <1>1, <1>2, GrownVaultsStaySafe, ConfigsUnchanged DEF Inv, SessionIsClosed
  <1> QED
    BY <1>2, <1>3, <1>4, OneAccountStep DEF SessionIsClosed

\* The account is handed back with the data and the lamports it had.
LEMMA UndelegateEmptyKeepsInv ==
    ASSUME Inv, NEW a \in Accounts, NEW v \in Validators, NEW program \in Owners,
           NEW reimbursed \in Wallets, UndelegateEmpty(v, a, program, reimbursed)
    PROVE  Inv'
  <1> DEFINE before == delegatedAccount[a]
             returned == [before EXCEPT !.owner = program]
  <1>1. /\ CanUndelegate(v, a, program, reimbursed)
        /\ before.data = NoData
        /\ delegatedAccount' = [delegatedAccount EXCEPT ![a] = returned]
        /\ Cleanup(v, a, reimbursed, wallet)
        /\ UNCHANGED <<commitPdas, programConfig>>
    BY DEF UndelegateEmpty
  <1>2. /\ before \in DelegatableAccount
        /\ IsRentExempt(before, DataRent[before.data])
        /\ before.lamports = 0 => before.owner = SystemProgram
        /\ wallet \in [Wallets -> Nat]
    BY DEF Inv, TypeOK, Safe
  <1>3. /\ returned \in DelegatableAccount
        /\ returned.owner = program
        /\ returned.lamports = before.lamports
        /\ returned.data = before.data
    BY <1>2 DEF DelegatableAccount
  <1> HIDE DEF returned
  <1>4. returned.owner # Dlp
    BY <1>3, LedgerAssumption
  <1>5. IsRentExempt(returned, DataRent[returned.data])
    BY <1>2, <1>3 DEF IsRentExempt
  <1>6. returned.lamports # 0
    BY <1>1, <1>2, <1>3, ProgramsDiffer DEF CanUndelegate, IsDelegated, IsInitialized
  <1> QED
    BY <1>1, <1>2, <1>3, <1>4, <1>5, <1>6, CleanupKeepsInv

\* What passes the checks after the CPI: the account has its contents, which only its
\* owner program can have written, and its lamports less those diverted to the buffer,
\* which are part of its rent and all that the validator gains.
LEMMA ReopenedAccount ==
    ASSUME TypeOK, NEW a \in Accounts, NEW program \in Owners, NEW cpi \in CpiOutcomes(a, program),
           delegatedAccount[a].data # NoData, CpiIsFaithful(delegatedAccount[a], cpi)
    PROVE  LET before == delegatedAccount[a]
               lamports == before.lamports - cpi.diverted
           IN  /\ program # SystemProgram
               /\ cpi.diverted \in Nat
               /\ DataRent[before.data] \in Nat
               /\ cpi.diverted <= DataRent[before.data]
               /\ DataRent[before.data] <= before.lamports
               /\ lamports \in Nat
               /\ Reopened(before, cpi) = [owner |-> program, lamports |-> lamports, data |-> before.data]
               /\ Reopened(before, cpi) \in DelegatableAccount
               /\ before.lamports - cpi.charged - ExtraLamports(before, cpi) + cpi.diverted = cpi.diverted
  <1> DEFINE before == delegatedAccount[a]
  <1>1. /\ before.data \in Data
        /\ before.lamports \in Nat
        /\ DataRent[before.data] \in Nat
    BY AccountsAreTyped, LedgerAssumption DEF Typed
  <1>2. /\ program # SystemProgram
        /\ cpi.charged \in CpiPayments /\ cpi.diverted \in CpiPayments
        /\ cpi.diverted <= cpi.charged
        /\ cpi.owner = program \/ cpi.data \in {NoData, Zeroed}
    BY DEF CpiOutcomes
  <1>3. cpi.charged \in Nat /\ cpi.diverted \in Nat
    BY <1>2, CpiPaymentsAssumption
  <1>4. /\ cpi.charged = DataRent[before.data]
        /\ cpi.data = before.data
        /\ before.lamports >= DataRent[before.data]
    BY DEF CpiIsFaithful
  <1>5. cpi.owner = program
    BY <1>1, <1>2, <1>4, ContentsAssumption
  <1>6. /\ ExtraLamports(before, cpi) = before.lamports - DataRent[before.data]
        /\ Reopened(before, cpi) =
              [owner |-> program, data |-> before.data,
               lamports |-> cpi.charged - cpi.diverted + ExtraLamports(before, cpi)]
    BY <1>4, <1>5 DEF Reopened, ExtraLamports, Account
  <1> HIDE DEF before
  <1>7. /\ cpi.charged - cpi.diverted + ExtraLamports(before, cpi) = before.lamports - cpi.diverted
        /\ before.lamports - cpi.charged - ExtraLamports(before, cpi) + cpi.diverted = cpi.diverted
        /\ before.lamports - cpi.diverted \in Nat
        /\ cpi.diverted <= DataRent[before.data]
    BY <1>1, <1>2, <1>3, <1>4, <1>6
  <1>8. Reopened(before, cpi) =
            [owner |-> program, lamports |-> before.lamports - cpi.diverted, data |-> before.data]
    BY <1>6, <1>7
  <1>9. Reopened(before, cpi) \in DelegatableAccount
    BY <1>1, <1>7, <1>8 DEF DelegatableAccount
  <1> QED
    BY <1>1, <1>2, <1>3, <1>4, <1>7, <1>8, <1>9 DEF before

\* What an undelegation with a CPI writes: `withheld` lamports stay with the validator.
LEMMA UndelegateViaCpiWrites ==
    ASSUME TypeOK, NEW a \in Accounts, NEW v \in Validators, NEW program \in Owners,
           NEW reimbursed \in Wallets, UndelegateViaCpi(v, a, program, reimbursed)
    PROVE  LET before == delegatedAccount[a]
           IN  /\ CanUndelegate(v, a, program, reimbursed)
               /\ before.data # NoData
               /\ program # SystemProgram
               /\ \E withheld \in Nat :
                     LET reopened ==
                           [owner |-> program, lamports |-> before.lamports - withheld, data |-> before.data]
                     IN  /\ DataRent[before.data] \in Nat
                         /\ withheld <= DataRent[before.data]
                         /\ DataRent[before.data] <= before.lamports
                         /\ before.lamports - withheld \in Nat
                         /\ reopened \in DelegatableAccount
                         /\ IsRentExempt(reopened, DataRent[before.data])
                         /\ delegatedAccount' = [delegatedAccount EXCEPT ![a] = Purged(reopened)]
                         /\ Cleanup(v, a, reimbursed, [wallet EXCEPT ![v] = @ + withheld])
                         /\ UNCHANGED <<commitPdas, programConfig>>
  <1> DEFINE before == delegatedAccount[a]
  <1>1. CanUndelegate(v, a, program, reimbursed) /\ before.data # NoData
    BY DEF UndelegateViaCpi, CallOwnerProgram
  <1>2. PICK cpi \in CpiOutcomes(a, program) :
           /\ ResumeUndelegate(v, a, reimbursed, cpi, Purged(Reopened(before, cpi)))
           /\ IsRentExempt(Reopened(before, cpi), DataRent[Reopened(before, cpi).data])
    BY DEF UndelegateViaCpi
  <1>3. CpiIsFaithful(before, cpi)
    BY <1>2 DEF ResumeUndelegate
  <1> DEFINE gained == before.lamports - cpi.charged - ExtraLamports(before, cpi) + cpi.diverted
             reopened == [owner |-> program, lamports |-> before.lamports - cpi.diverted,
                          data |-> before.data]
  <1>4. /\ program # SystemProgram
        /\ cpi.diverted \in Nat
        /\ DataRent[before.data] \in Nat
        /\ cpi.diverted <= DataRent[before.data]
        /\ DataRent[before.data] <= before.lamports
        /\ before.lamports - cpi.diverted \in Nat
        /\ Reopened(before, cpi) = reopened
        /\ reopened \in DelegatableAccount
        /\ gained = cpi.diverted
    BY <1>1, <1>3, ReopenedAccount
  <1>5. /\ delegatedAccount' = [delegatedAccount EXCEPT ![a] = Purged(reopened)]
        /\ Cleanup(v, a, reimbursed, [wallet EXCEPT ![v] = @ + gained])
        /\ UNCHANGED <<commitPdas, programConfig>>
    BY <1>2, <1>4 DEF ResumeUndelegate
  <1>6. IsRentExempt(reopened, DataRent[before.data])
    BY <1>2, <1>4
  <1> HIDE DEF gained
  <1>7. Cleanup(v, a, reimbursed, [wallet EXCEPT ![v] = @ + cpi.diverted])
    BY <1>4, <1>5
  <1> QED
    BY <1>1, <1>4, <1>5, <1>6, <1>7

\* The validator's wallet once it kept what was withheld.
LEMMA PurseIsTyped ==
    ASSUME wallet \in [Wallets -> Nat], NEW v \in Validators, NEW withheld \in Nat
    PROVE  [wallet EXCEPT ![v] = @ + withheld] \in [Wallets -> Nat]
  BY LedgerAssumption

\* The owner program pays the rent from the validator's advance, and the top-up
\* restores what the account had above it; an account left with nothing is gone.
LEMMA UndelegateViaCpiKeepsInv ==
    ASSUME Inv, NEW a \in Accounts, NEW v \in Validators, NEW program \in Owners,
           NEW reimbursed \in Wallets, UndelegateViaCpi(v, a, program, reimbursed)
    PROVE  Inv'
  <1> DEFINE before == delegatedAccount[a]
  <1>1. CanUndelegate(v, a, program, reimbursed) /\ program # SystemProgram
    BY UndelegateViaCpiWrites DEF Inv
  <1>2. PICK withheld \in Nat :
          LET reopened ==
                [owner |-> program, lamports |-> before.lamports - withheld, data |-> before.data]
          IN  /\ reopened \in DelegatableAccount
              /\ IsRentExempt(reopened, DataRent[before.data])
              /\ delegatedAccount' = [delegatedAccount EXCEPT ![a] = Purged(reopened)]
              /\ Cleanup(v, a, reimbursed, [wallet EXCEPT ![v] = @ + withheld])
              /\ UNCHANGED <<commitPdas, programConfig>>
    BY UndelegateViaCpiWrites DEF Inv
  <1> DEFINE reopened == [owner |-> program, lamports |-> before.lamports - withheld,
                          data |-> before.data]
             returned == Purged(reopened)
             purse == [wallet EXCEPT ![v] = @ + withheld]
  <1>3. purse \in [Wallets -> Nat]
    BY PurseIsTyped DEF Inv, TypeOK
  <1>4. /\ returned \in DelegatableAccount
        /\ returned.owner # Dlp
        /\ IsRentExempt(returned, DataRent[returned.data])
        /\ returned.owner = SystemProgram => returned.data = NoData
        /\ returned.lamports = 0 => returned.owner = SystemProgram
    <2>1. CASE reopened.lamports = 0
      <3>1. returned = [owner |-> SystemProgram, lamports |-> 0, data |-> NoData]
        BY <2>1 DEF Purged, Absent, Account
      <3> HIDE DEF returned
      <3> QED
        BY <3>1, LedgerAssumption DEF DelegatableAccount, Owners, IsRentExempt
    <2>2. CASE reopened.lamports # 0
      <3>1. returned = reopened
        BY <2>2 DEF Purged
      <3> QED
        BY <1>1, <1>2, <2>2, <3>1, LedgerAssumption
    <2> QED
      BY <2>1, <2>2
  <1>5. /\ delegatedAccount' = [delegatedAccount EXCEPT ![a] = returned]
        /\ Cleanup(v, a, reimbursed, purse)
        /\ UNCHANGED <<commitPdas, programConfig>>
    BY <1>2
  <1> HIDE DEF returned, purse
  <1> QED
    BY <1>1, <1>3, <1>4, <1>5, CleanupKeepsInv

\* What both ways to undelegate write: the account goes back with its contents, less
\* what its owner program withholds with the CPI, which the validator gains.
LEMMA UndelegateWrites ==
    ASSUME Inv, NEW a \in Accounts, NEW v \in Validators, NEW program \in Owners,
           NEW reimbursed \in Wallets,
           UndelegateEmpty(v, a, program, reimbursed) \/ UndelegateViaCpi(v, a, program, reimbursed)
    PROVE  LET before == delegatedAccount[a]
           IN  /\ CanUndelegate(v, a, program, reimbursed)
               /\ UNCHANGED <<commitPdas, programConfig>>
               /\ \E withheld \in Nat :
                     LET left == [owner |-> program, lamports |-> before.lamports - withheld,
                                  data |-> before.data]
                     IN  /\ withheld <= IF before.data = NoData THEN 0 ELSE DataRent[before.data]
                         /\ before.lamports - withheld \in Nat
                         /\ delegatedAccount' = [delegatedAccount EXCEPT ![a] = Purged(left)]
                         /\ Cleanup(v, a, reimbursed, [wallet EXCEPT ![v] = @ + withheld])
  <1> DEFINE before == delegatedAccount[a]
  <1>1. CASE UndelegateEmpty(v, a, program, reimbursed)
    <2> DEFINE left == [owner |-> program, lamports |-> before.lamports - 0, data |-> before.data]
    <2>1. /\ CanUndelegate(v, a, program, reimbursed)
          /\ before.data = NoData
          /\ delegatedAccount' = [delegatedAccount EXCEPT ![a] = [before EXCEPT !.owner = program]]
          /\ Cleanup(v, a, reimbursed, wallet)
          /\ UNCHANGED <<commitPdas, programConfig>>
      BY <1>1 DEF UndelegateEmpty
    <2>2. before \in DelegatableAccount /\ before.lamports \in Nat /\ before.lamports # 0
      BY <2>1, ProgramsDiffer, AccountsAreTyped
      DEF Inv, TypeOK, Typed, Safe, CanUndelegate, IsDelegated, IsInitialized
    <2>3. before.lamports - 0 = before.lamports
      BY <2>2
    <2>4. [before EXCEPT !.owner = program] = left
      BY <2>2, <2>3 DEF DelegatableAccount
    <2>5. Purged(left) = left
      BY <2>2, <2>3 DEF Purged
    <2>6. wallet = [wallet EXCEPT ![v] = @ + 0]
      <3>1. wallet \in [Wallets -> Nat] /\ v \in Wallets
        BY LedgerAssumption DEF Inv, TypeOK
      <3> QED
        BY <3>1
    <2>7. /\ 0 <= IF before.data = NoData THEN 0 ELSE DataRent[before.data]
          /\ before.lamports - 0 \in Nat
          /\ delegatedAccount' = [delegatedAccount EXCEPT ![a] = Purged(left)]
          /\ Cleanup(v, a, reimbursed, [wallet EXCEPT ![v] = @ + 0])
      <3>1. Cleanup(v, a, reimbursed, [wallet EXCEPT ![v] = @ + 0])
        BY <2>1, <2>6
      <3>2. 0 <= IF before.data = NoData THEN 0 ELSE DataRent[before.data]
        BY <2>1
      <3>3. delegatedAccount' = [delegatedAccount EXCEPT ![a] = Purged(left)]
        BY <2>1, <2>4, <2>5
      <3> QED
        BY <2>2, <2>3, <3>1, <3>2, <3>3
    <2>8. 0 \in Nat
      OBVIOUS
    <2> QED
      BY <2>1, <2>7, <2>8
  <1>2. CASE UndelegateViaCpi(v, a, program, reimbursed)
    BY <1>2, UndelegateViaCpiWrites DEF Inv
  <1> QED
    BY <1>1, <1>2

-----------------------------------------------------------------------------
(* Commit. *)

\* What a commit writes: both commit PDAs, with at least the collateral and the rent
\* in them, and the permission in the metadata.
CommitIsWritten(v, a, args) ==
    /\ \A b \in Accounts \ {a} : AccountUnchanged(b)
    /\ UNCHANGED <<delegatedAccount, delegationRecord, vaults, programConfig>>
    /\ IsInitialized(delegationMetadata'[a])
    /\ delegationMetadata'[a].lamports = delegationMetadata[a].lamports
    /\ delegationMetadata'[a].data.lastUpdateSlot = delegationMetadata[a].data.lastUpdateSlot
    /\ IsInitialized(commitState'[a])
    /\ commitState'[a].data = args.data
    /\ commitState'[a].lamports >= DataRent[args.data]
    /\ args.lamports - DelegatedLamports(a) <= commitState'[a].lamports
    /\ IsInitialized(commitRecord'[a])
    /\ commitRecord'[a].lamports >= CommitRecordRent
    /\ commitRecord'[a].data.identity = v
    /\ commitRecord'[a].data.account = a
    /\ commitRecord'[a].data.slot = args.slot
    /\ commitRecord'[a].data.lamports = args.lamports

\* A commit is written as said, whether or not the rest of the ledger is safe.
LEMMA CommitWrites ==
    ASSUME TypeOK, NEW a \in Accounts, NEW v \in Validators, NEW args \in CommitArgs(Data),
           CommitStateInternal(v, a, args)
    PROVE  TypeOK' /\ CommitIsWritten(v, a, args)
  <1> DEFINE recorded == DelegatedLamports(a)
             extra == Collateral(recorded, args.lamports)
             funded == [commitState[a] EXCEPT !.lamports = @ + extra]
             rent == DataRent[args.data]
             cost == extra + TopUpCost(funded, rent) + TopUpCost(commitRecord[a], CommitRecordRent)
             commit == [identity |-> v, account |-> a, slot |-> args.slot, lamports |-> args.lamports]
             allowed == [delegationMetadata[a].data EXCEPT !.isUndelegatable = args.allowUndelegation]
             metadata == [delegationMetadata[a] EXCEPT !.data = allowed]
             state == CreatedPda(funded, Dlp, rent, args.data)
             record == CreatedPda(commitRecord[a], Dlp, CommitRecordRent, commit)
  <1>1. /\ IsDelegated(a)
        /\ wallet[v] >= cost
        /\ delegationMetadata' = [delegationMetadata EXCEPT ![a] = metadata]
        /\ commitState' = [commitState EXCEPT ![a] = state]
        /\ commitRecord' = [commitRecord EXCEPT ![a] = record]
        /\ wallet' = [wallet EXCEPT ![v] = @ - cost]
        /\ UNCHANGED <<delegatedAccount, delegationRecord, validatorFeesVault, feesVault, programConfig>>
    BY DEF CommitStateInternal, CanCommit, DelegatedLamports, vaults
  <1>2. /\ args.data \in Data /\ args.lamports \in Nat /\ args.slot \in Slots
        /\ args.allowUndelegation \in BOOLEAN
        /\ v \in Wallets
    BY CommitAssumption, LedgerAssumption DEF CommitArgs
  <1>3. /\ Typed(a)
        /\ delegationMetadata[a] \in Pda(MetadataData)
        /\ commitState[a] \in Pda(Data)
        /\ commitRecord[a] \in Pda(CommitRecordData)
        /\ CommitRecordRent \in Nat
        /\ DataRent[args.data] \in Nat
    BY <1>2, AccountsAreTyped, LedgerAssumption DEF TypeOK
  <1>4. /\ recorded \in Nat
        /\ delegationMetadata[a].data \in MetadataData
        /\ commitState[a].lamports \in Nat
        /\ IsInitialized(delegationMetadata[a])
    BY <1>1, <1>3 DEF Typed, IsDelegated
  <1>5. extra \in Nat /\ args.lamports - recorded <= extra
    BY <1>2, <1>4 DEF Collateral
  <1> HIDE DEF recorded, extra
  <1>6. allowed \in MetadataData /\ allowed.lastUpdateSlot = delegationMetadata[a].data.lastUpdateSlot
    BY <1>2, <1>4 DEF MetadataData
  <1> HIDE DEF allowed
  <1>7. /\ metadata \in Pda(MetadataData) /\ IsInitialized(metadata)
        /\ metadata.lamports = delegationMetadata[a].lamports
        /\ metadata.data = allowed
    BY <1>3, <1>4, <1>6, WrittenPdaIsTyped
  <1> HIDE DEF metadata
  <1>8. funded \in Pda(Data) /\ funded.lamports = commitState[a].lamports + extra
    <2>1. commitState[a].lamports + extra \in Nat
      BY <1>4, <1>5
    <2> QED
      BY <1>3, <2>1, PaidPdaIsTyped
  <1> HIDE DEF funded
  <1>9. /\ state \in Pda(Data) /\ IsInitialized(state)
        /\ state.lamports >= rent
        /\ state.lamports >= funded.lamports
        /\ state.data = args.data
        /\ TopUpCost(funded, rent) \in Nat
        /\ state.lamports \in Nat
    <2>1. funded.lamports \in Nat
      BY <1>8, PdaContents
    <2>2. rent \in Nat
      BY <1>3
    <2> HIDE DEF rent
    <2>3. IsNewPda(state, Data, rent, args.data) /\ TopUpCost(funded, rent) \in Nat
      BY <1>2, <1>8, <2>2, CreatedPdaIsTyped
    <2>4. state.lamports >= funded.lamports /\ state.lamports \in Nat
      BY <2>1, <2>2, CreatedPdaIsRentExempt
    <2> QED
      BY <2>3, <2>4 DEF IsNewPda
  <1>10. commit \in CommitRecordData
    BY <1>2 DEF CommitRecordData
  <1> HIDE DEF state
  <1>11. /\ record \in Pda(CommitRecordData) /\ IsInitialized(record)
         /\ record.lamports >= CommitRecordRent
         /\ record.data = commit
         /\ TopUpCost(commitRecord[a], CommitRecordRent) \in Nat
    <2> HIDE DEF commit
    <2>1. commitRecord[a] \in Pda(CommitRecordData) /\ CommitRecordRent \in Nat
      BY <1>3
    <2>2. /\ IsNewPda(record, CommitRecordData, CommitRecordRent, commit)
          /\ TopUpCost(commitRecord[a], CommitRecordRent) \in Nat
      BY <1>10, <2>1, CreatedPdaIsTyped
    <2> QED
      BY <2>2 DEF IsNewPda
  <1> HIDE DEF record
  <1>12. cost \in Nat
    BY <1>5, <1>9, <1>11
  <1> HIDE DEF cost
  <1>13. TypeOK'
    <2>1. delegationMetadata' \in [Accounts -> Pda(MetadataData)]
      BY <1>1, <1>7 DEF TypeOK
    <2>2. commitState' \in [Accounts -> Pda(Data)]
      BY <1>1, <1>9 DEF TypeOK
    <2>3. commitRecord' \in [Accounts -> Pda(CommitRecordData)]
      BY <1>1, <1>11 DEF TypeOK
    <2>4. wallet' \in [Wallets -> Nat]
      BY <1>1, <1>2, <1>12 DEF TypeOK
    <2> QED
      BY <1>1, <2>1, <2>2, <2>3, <2>4 DEF TypeOK
  <1>14. /\ delegationMetadata'[a] = metadata
         /\ commitState'[a] = state
         /\ commitRecord'[a] = record
    BY <1>1 DEF TypeOK
  <1>15. args.lamports - DelegatedLamports(a) <= state.lamports
    <2>1. args.lamports - recorded <= state.lamports
      BY <1>2, <1>4, <1>5, <1>8, <1>9
    <2> QED
      BY <2>1 DEF recorded
  <1>16. \A b \in Accounts \ {a} : AccountUnchanged(b)
    BY <1>1 DEF TypeOK, AccountUnchanged
  <1>17. UNCHANGED <<delegatedAccount, delegationRecord, vaults, programConfig>>
    BY <1>1 DEF vaults
  <1> HIDE DEF commit
  <1>18. commitRecord'[a].data = commit
    BY <1>11, <1>14
  <1>19. /\ commitRecord'[a].data.identity = v
         /\ commitRecord'[a].data.account = a
         /\ commitRecord'[a].data.slot = args.slot
         /\ commitRecord'[a].data.lamports = args.lamports
    BY <1>18 DEF commit
  <1> QED
    BY <1>6, <1>7, <1>9, <1>11, <1>13, <1>14, <1>15, <1>16, <1>17, <1>19 DEF CommitIsWritten

\* The commit state PDA ends up with at least the collateral, and the record of
\* the commit with a slot no older than the last update.
LEMMA CommitKeepsInv ==
    ASSUME Inv, NEW a \in Accounts, NEW v \in Validators, NEW args \in CommitArgs(Data),
           CommitStateInternal(v, a, args)
    PROVE  Inv'
  <1>1. /\ IsDelegated(a)
        /\ ~ args.slot < delegationMetadata[a].data.lastUpdateSlot
        /\ CanCreate(args.data)
    BY DEF CommitStateInternal, CanCommit, CommitFits, IsOutdated
  <1>2. TypeOK /\ Safe(a) /\ Typed(a) /\ args.slot \in Nat
    BY AccountsAreTyped, LedgerAssumption DEF Inv, CommitArgs
  <1>3. TypeOK' /\ CommitIsWritten(v, a, args)
    BY <1>2, CommitWrites
  <1>4. /\ IsInitialized(delegationMetadata'[a])
        /\ delegationMetadata'[a].lamports = delegationMetadata[a].lamports
        /\ delegationMetadata'[a].data.lastUpdateSlot = delegationMetadata[a].data.lastUpdateSlot
        /\ IsInitialized(commitState'[a])
        /\ commitState'[a].data = args.data
        /\ commitState'[a].lamports >= DataRent[args.data]
        /\ args.lamports - DelegatedLamports(a) <= commitState'[a].lamports
        /\ IsInitialized(commitRecord'[a])
        /\ commitRecord'[a].lamports >= CommitRecordRent
        /\ commitRecord'[a].data.account = a
        /\ commitRecord'[a].data.slot = args.slot
        /\ commitRecord'[a].data.lamports = args.lamports
    BY <1>3 DEF CommitIsWritten
  <1>5. /\ \A b \in Accounts \ {a} : AccountUnchanged(b)
        /\ UNCHANGED <<delegatedAccount, delegationRecord, vaults, programConfig>>
    BY <1>3 DEF CommitIsWritten
  <1>6. Safe(a)'
    <2>1. IsDelegated(a)' /\ HasPendingCommit(a)' /\ DelegatedLamports(a)' = DelegatedLamports(a)
      BY <1>1, <1>4, <1>5 DEF IsDelegated, HasPendingCommit, DelegatedLamports
    <2>2. args.slot >= delegationMetadata'[a].data.lastUpdateSlot
      BY <1>1, <1>2, <1>4 DEF Typed, IsDelegated
    <2>3. /\ Funded(commitState'[a], DataRent[commitState'[a].data])
          /\ Funded(delegationMetadata'[a], MetadataRent)
          /\ Funded(commitRecord'[a], CommitRecordRent)
      BY <1>1, <1>2, <1>4 DEF Funded, Safe, IsDelegated
    <2> QED
      BY <1>1, <1>2, <1>4, <1>5, <2>1, <2>2, <2>3 DEF Safe, IsDelegated
  <1>7. VaultsAreSafe' /\ ConfigsAreSafe'
    BY <1>5, VaultsUnchanged, ConfigsUnchanged DEF Inv
  <1> QED
    BY <1>3, <1>5, <1>6, <1>7, OneAccountStep

\* CommitState and CommitStateFromBuffer are the same step on other contents.
LEMMA CommitStateKeepsInv ==
    ASSUME Inv, NEW a \in Accounts, NEW v \in Validators,
           CommitState(v, a) \/ CommitStateFromBuffer(v, a)
    PROVE  Inv'
  <1>1. PICK args \in CommitArgs(InlineData) \cup CommitArgs(BufferData) : CommitStateInternal(v, a, args)
    BY DEF CommitState, CommitStateFromBuffer
  <1>2. args \in CommitArgs(Data)
    BY <1>1, CommitAssumption DEF CommitArgs
  <1> QED
    BY <1>1, <1>2, CommitKeepsInv

-----------------------------------------------------------------------------
(* Finalize. *)

\* What a settlement moves is never more than the side it is taken from holds.
LEMMA SettlementIsOneSided ==
    ASSUME NEW recorded \in Nat, NEW committed \in Nat
    PROVE  /\ Settlement(recorded, committed).toVault \in Nat
           /\ Settlement(recorded, committed).toAccount \in Nat
  BY DEF Settlement

\* What consuming a commit writes: the record follows the account that is settled,
\* however the transaction leaves it, and the commit PDAs are gone.
FinalizeIsWritten(a, left) ==
    /\ \A b \in Accounts \ {a} : AccountUnchanged(b)
    /\ UNCHANGED programConfig
    /\ delegatedAccount'[a] = left
    /\ IsInitialized(delegationRecord'[a])
    /\ delegationRecord'[a].lamports = delegationRecord[a].lamports
    /\ DelegatedLamports(a)' = SettledAccount(a).lamports
    /\ IsInitialized(delegationMetadata'[a])
    /\ delegationMetadata'[a].lamports = delegationMetadata[a].lamports
    /\ delegationMetadata'[a].data.lastUpdateSlot = commitRecord[a].data.slot
    /\ commitState'[a] = Absent
    /\ commitRecord'[a] = Absent
    /\ VaultsOnlyGrow

\* What it leaves of the account: settled, or removed because nothing is left in it.
LEMMA SettledAccountIsTyped ==
    ASSUME TypeOK, NEW a \in Accounts, IsDelegated(a), HasPendingCommit(a),
           delegatedAccount[a].lamports
              >= Settlement(DelegatedLamports(a), commitRecord[a].data.lamports).toVault
    PROVE  /\ SettledAccount(a) \in DelegatableAccount
           /\ SettledAccount(a).owner = Dlp
           /\ SettledAccount(a).data = commitState[a].data
           /\ SettledAccount(a).lamports \in Nat
  <1> DEFINE settlement == Settlement(DelegatedLamports(a), commitRecord[a].data.lamports)
             lamports == delegatedAccount[a].lamports - settlement.toVault + settlement.toAccount
             settled == [delegatedAccount[a] EXCEPT !.lamports = lamports, !.data = commitState[a].data]
  <1>1. /\ delegatedAccount[a] \in DelegatableAccount
        /\ delegatedAccount[a].owner = Dlp
        /\ delegatedAccount[a].lamports \in Nat
        /\ commitState[a].data \in Data
        /\ DelegatedLamports(a) \in Nat
        /\ commitRecord[a].data.lamports \in Nat
    BY AccountsAreTyped DEF Typed, IsDelegated, HasPendingCommit, IsInitialized
  <1>2. settlement.toVault \in Nat /\ settlement.toAccount \in Nat
    BY <1>1, SettlementIsOneSided
  <1>3. SettledAccount(a) = settled
    BY DEF SettledAccount
  <1> HIDE DEF settlement
  <1>4. lamports \in Nat
    BY <1>1, <1>2 DEF settlement
  <1> HIDE DEF lamports
  <1>5. /\ settled \in DelegatableAccount
        /\ settled.owner = Dlp
        /\ settled.data = commitState[a].data
        /\ settled.lamports = lamports
    BY <1>1, <1>4 DEF DelegatableAccount
  <1> QED
    BY <1>3, <1>4, <1>5

\* A commit is consumed as said, whether or not the rest of the ledger is safe.
LEMMA FinalizeWrites ==
    ASSUME TypeOK, NEW a \in Accounts, NEW v \in Validators, NEW left \in DelegatableAccount,
           ProcessFinalize(v, a, left)
    PROVE  TypeOK' /\ FinalizeIsWritten(a, left)
  <1> DEFINE commit == commitRecord[a].data
             settlement == Settlement(DelegatedLamports(a), commit.lamports)
             lamports == SettledAccount(a).lamports
             leftover == commitState[a].lamports - settlement.toAccount + commitRecord[a].lamports
             recordData == [delegationRecord[a].data EXCEPT !.lamports = lamports]
             metadataData == [delegationMetadata[a].data EXCEPT !.lastUpdateSlot = commit.slot]
             record == [delegationRecord[a] EXCEPT !.data = recordData]
             metadata == [delegationMetadata[a] EXCEPT !.data = metadataData]
             fees == validatorFeesVault[v].lamports + settlement.toVault
             paid == [validatorFeesVault[v] EXCEPT !.lamports = fees]
  <1>1. /\ IsDelegated(a)
        /\ HasPendingCommit(a)
        /\ delegatedAccount[a].lamports >= settlement.toVault
        /\ commitState[a].lamports >= settlement.toAccount
        /\ delegatedAccount' = [delegatedAccount EXCEPT ![a] = left]
        /\ delegationRecord' = [delegationRecord EXCEPT ![a] = record]
        /\ delegationMetadata' = [delegationMetadata EXCEPT ![a] = metadata]
        /\ commitState' = [commitState EXCEPT ![a] = Absent]
        /\ commitRecord' = [commitRecord EXCEPT ![a] = Absent]
        /\ validatorFeesVault' = [validatorFeesVault EXCEPT ![v] = paid]
        /\ wallet' = [wallet EXCEPT ![v] = @ + leftover]
        /\ UNCHANGED <<feesVault, programConfig>>
    BY DEF ProcessFinalize, SettledRecord
  <1>2. /\ Typed(a)
        /\ delegationRecord[a] \in Pda(RecordData)
        /\ delegationMetadata[a] \in Pda(MetadataData)
        /\ validatorFeesVault[v] \in Pda(VaultData)
        /\ validatorFeesVault[v].lamports \in Nat
        /\ feesVault.lamports \in Nat
        /\ v \in Wallets
    BY AccountsAreTyped, PdaContents, LedgerAssumption DEF TypeOK
  <1>3. /\ IsInitialized(delegationRecord[a])
        /\ IsInitialized(delegationMetadata[a])
        /\ delegationRecord[a].data \in RecordData
        /\ delegationMetadata[a].data \in MetadataData
        /\ commitState[a].lamports \in Nat
        /\ commitRecord[a].lamports \in Nat
        /\ DelegatedLamports(a) \in Nat
        /\ commit.lamports \in Nat
        /\ commit.slot \in Slots
    BY <1>1, <1>2 DEF Typed, IsDelegated, HasPendingCommit
  <1>4. settlement.toVault \in Nat /\ settlement.toAccount \in Nat
    BY <1>3, SettlementIsOneSided
  <1>5. lamports \in Nat
    BY <1>1, SettledAccountIsTyped
  <1> HIDE DEF commit, settlement, lamports
  <1>6. leftover \in Nat /\ fees \in Nat /\ fees >= validatorFeesVault[v].lamports
    BY <1>1, <1>2, <1>3, <1>4
  <1>7. recordData \in RecordData /\ recordData.lamports = lamports
    BY <1>3, <1>5 DEF RecordData
  <1>8. metadataData \in MetadataData /\ metadataData.lastUpdateSlot = commit.slot
    BY <1>3 DEF MetadataData
  <1> HIDE DEF leftover, fees, recordData, metadataData
  <1>9. /\ record \in Pda(RecordData) /\ IsInitialized(record)
        /\ record.lamports = delegationRecord[a].lamports
        /\ record.data = recordData
    BY <1>2, <1>3, <1>7, WrittenPdaIsTyped
  <1>10. /\ metadata \in Pda(MetadataData) /\ IsInitialized(metadata)
         /\ metadata.lamports = delegationMetadata[a].lamports
         /\ metadata.data = metadataData
    BY <1>2, <1>3, <1>8, WrittenPdaIsTyped
  <1>11. /\ paid \in Pda(VaultData)
         /\ IsInitialized(paid) <=> IsInitialized(validatorFeesVault[v])
         /\ paid.lamports = fees
    BY <1>2, <1>6, PaidPdaIsTyped
  <1> HIDE DEF record, metadata, paid
  <1>12. TypeOK'
    <2>1. delegatedAccount' \in [Accounts -> DelegatableAccount]
      BY <1>1 DEF TypeOK
    <2>2. delegationRecord' \in [Accounts -> Pda(RecordData)]
      BY <1>1, <1>9 DEF TypeOK
    <2>3. delegationMetadata' \in [Accounts -> Pda(MetadataData)]
      BY <1>1, <1>10 DEF TypeOK
    <2>4. commitState' \in [Accounts -> Pda(Data)]
      BY <1>1, AbsentIsUninitialized DEF TypeOK
    <2>5. commitRecord' \in [Accounts -> Pda(CommitRecordData)]
      BY <1>1, AbsentIsUninitialized DEF TypeOK
    <2>6. validatorFeesVault' \in [Validators -> Pda(VaultData)]
      BY <1>1, <1>11 DEF TypeOK
    <2>7. wallet' \in [Wallets -> Nat]
      BY <1>1, <1>2, <1>6 DEF TypeOK
    <2> QED
      BY <1>1, <2>1, <2>2, <2>3, <2>4, <2>5, <2>6, <2>7 DEF TypeOK
  <1>13. VaultsOnlyGrow
    <2>1. ASSUME NEW u \in Validators
          PROVE  /\ IsInitialized(validatorFeesVault'[u]) <=> IsInitialized(validatorFeesVault[u])
                 /\ validatorFeesVault'[u].lamports >= validatorFeesVault[u].lamports
      <3>1. CASE u = v
        BY <1>1, <1>2, <1>6, <1>11, <3>1 DEF TypeOK
      <3>2. CASE u # v
        <4>1. validatorFeesVault'[u] = validatorFeesVault[u]
          BY <1>1, <3>2 DEF TypeOK
        <4>2. validatorFeesVault[u].lamports \in Nat
          BY PdaContents DEF TypeOK
        <4> QED
          BY <4>1, <4>2
      <3> QED
        BY <3>1, <3>2
    <2> QED
      BY <1>1, <1>2, <2>1 DEF VaultsOnlyGrow
  <1>14. /\ delegatedAccount'[a] = left
         /\ delegationRecord'[a] = record
         /\ delegationMetadata'[a] = metadata
         /\ commitState'[a] = Absent
         /\ commitRecord'[a] = Absent
    BY <1>1 DEF TypeOK
  <1>15. DelegatedLamports(a)' = lamports
    BY <1>7, <1>9, <1>14 DEF DelegatedLamports
  <1>16. \A b \in Accounts \ {a} : AccountUnchanged(b)
    BY <1>1 DEF TypeOK, AccountUnchanged
  <1> QED
    BY <1>1, <1>8, <1>9, <1>10, <1>12, <1>13, <1>14, <1>15, <1>16
    DEF FinalizeIsWritten, lamports, commit

\* The commit PDAs are gone, so what is left to show is that the record follows
\* the account and that the account is rent exempt or absent.
LEMMA FinalizeKeepsInv ==
    ASSUME Inv, NEW a \in Accounts, NEW v \in Validators, Finalize(v, a)
    PROVE  Inv'
  <1> DEFINE settled == SettledAccount(a)
  <1>1. /\ IsDelegated(a)
        /\ HasPendingCommit(a)
        /\ delegatedAccount[a].lamports
              >= Settlement(DelegatedLamports(a), commitRecord[a].data.lamports).toVault
        /\ ProcessFinalize(v, a, Purged(settled))
        /\ IsRentExempt(settled, DataRent[settled.data])
    BY DEF Finalize, ProcessFinalize
  <1>2. TypeOK /\ Safe(a)
    BY DEF Inv
  <1>3. /\ settled \in DelegatableAccount
        /\ settled.owner = Dlp
        /\ settled.data = commitState[a].data
        /\ settled.lamports \in Nat
    BY <1>1, <1>2, SettledAccountIsTyped
  <1> HIDE DEF settled
  <1>4. /\ Purged(settled) \in DelegatableAccount
        /\ \/ Purged(settled) = settled /\ settled.lamports > 0
           \/ Purged(settled) = Absent
    BY <1>3, PurgedAccountIsTyped
  <1>5. TypeOK' /\ FinalizeIsWritten(a, Purged(settled))
    BY <1>1, <1>2, <1>4, FinalizeWrites
  <1>6. /\ delegatedAccount'[a] = Purged(settled)
        /\ IsInitialized(delegationRecord'[a])
        /\ delegationRecord'[a].lamports = delegationRecord[a].lamports
        /\ DelegatedLamports(a)' = settled.lamports
        /\ IsInitialized(delegationMetadata'[a])
        /\ delegationMetadata'[a].lamports = delegationMetadata[a].lamports
        /\ ~ IsInitialized(commitState'[a]) /\ ~ IsInitialized(commitRecord'[a])
    BY <1>5, AbsentIsUninitialized DEF FinalizeIsWritten, settled
  <1>7. Safe(a)'
    <2>1. Funded(delegationRecord'[a], RecordRent) /\ Funded(delegationMetadata'[a], MetadataRent)
      BY <1>1, <1>2, <1>6 DEF Safe, Funded, IsDelegated
    <2>2. /\ IsRentExempt(delegatedAccount'[a], DataRent[delegatedAccount'[a].data])
          /\ IsInitialized(delegatedAccount'[a]) =>
                /\ delegatedAccount'[a].lamports = settled.lamports /\ settled.lamports > 0
                /\ CanCreate(delegatedAccount'[a].data)
          /\ delegatedAccount'[a].owner = SystemProgram => delegatedAccount'[a].data = NoData
          /\ delegatedAccount'[a].lamports = 0 => delegatedAccount'[a].owner = SystemProgram
      <3>1. CASE Purged(settled) = settled /\ settled.lamports > 0
        BY <1>1, <1>2, <1>3, <1>6, <3>1, ProgramsDiffer DEF Safe
      <3>2. CASE Purged(settled) = Absent
        BY <1>6, <3>2, ProgramsDiffer DEF IsRentExempt, IsInitialized, Absent, Account
      <3> QED
        BY <1>4, <3>1, <3>2
    <2> QED
      BY <1>3, <1>6, <2>1, <2>2 DEF Safe, HasPendingCommit, IsDelegated, Funded
  <1>8. VaultsAreSafe' /\ ConfigsAreSafe'
    BY <1>2, <1>5, GrownVaultsStaySafe, ConfigsUnchanged DEF Inv, FinalizeIsWritten
  <1> QED
    BY <1>5, <1>7, <1>8, OneAccountStep DEF FinalizeIsWritten

-----------------------------------------------------------------------------
(* Fees vaults. *)

\* A step on the vaults and the configurations concerns no account.
LEMMA NoAccountStep ==
    ASSUME Inv, TypeOK', VaultsAreSafe', ConfigsAreSafe', UNCHANGED <<delegatedAccount, delegationRecord,
           delegationMetadata, commitState, commitRecord>>
    PROVE  Inv'
  <1>1. ASSUME NEW b \in Accounts PROVE Safe(b)'
    BY UnchangedStaysSafe DEF Inv, AccountUnchanged
  <1> QED
    BY <1>1 DEF Inv

\* A step that replaces the vault of one validator, the protocol's vault and the
\* lamports of one wallet.
LEMMA VaultStep ==
    ASSUME Inv, NEW v \in Validators, NEW w \in Wallets,
           NEW vault \in Pda(VaultData), NEW protocolVault \in Pda(VaultData), NEW lamports \in Nat,
           Funded(vault, VaultRent), Funded(protocolVault, VaultRent),
           validatorFeesVault' = [validatorFeesVault EXCEPT ![v] = vault],
           feesVault' = protocolVault,
           wallet' = [wallet EXCEPT ![w] = lamports],
           UNCHANGED <<delegatedAccount, delegationRecord, delegationMetadata, commitState,
                       commitRecord, programConfig>>
    PROVE  Inv'
  <1>1. TypeOK'
    <2>1. validatorFeesVault' \in [Validators -> Pda(VaultData)]
      BY DEF Inv, TypeOK
    <2>2. wallet' \in [Wallets -> Nat]
      BY DEF Inv, TypeOK
    <2> QED
      BY <2>1, <2>2 DEF Inv, TypeOK
  <1>2. VaultsAreSafe'
    <2>1. \A u \in Validators : Funded(validatorFeesVault'[u], VaultRent)
      BY DEF Inv, TypeOK, VaultsAreSafe
    <2> QED
      BY <2>1 DEF VaultsAreSafe
  <1>3. ConfigsAreSafe'
    BY ConfigsUnchanged DEF Inv
  <1> QED
    BY <1>1, <1>2, <1>3, NoAccountStep

\* What Inv says of the vaults.
LEMMA VaultsAreTyped ==
    ASSUME Inv
    PROVE  /\ feesVault \in Pda(VaultData) /\ feesVault.lamports \in Nat
           /\ Funded(feesVault, VaultRent)
           /\ \A v \in Validators :
                 /\ validatorFeesVault[v] \in Pda(VaultData)
                 /\ validatorFeesVault[v].lamports \in Nat
                 /\ Funded(validatorFeesVault[v], VaultRent)
           /\ \A w \in Wallets : wallet[w] \in Nat
           /\ \A v \in Validators : v \in Wallets
           /\ VaultRent \in Nat
  <1>1. feesVault \in Pda(VaultData) /\ feesVault.lamports \in Nat
    BY PdaContents DEF Inv, TypeOK
  <1>2. ASSUME NEW v \in Validators
        PROVE  /\ validatorFeesVault[v] \in Pda(VaultData)
               /\ validatorFeesVault[v].lamports \in Nat
               /\ Funded(validatorFeesVault[v], VaultRent)
    BY PdaContents DEF Inv, TypeOK, VaultsAreSafe
  <1>3. Funded(feesVault, VaultRent) /\ (\A w \in Wallets : wallet[w] \in Nat)
    BY DEF Inv, TypeOK, VaultsAreSafe
  <1>4. VaultRent \in Nat /\ \A v \in Validators : v \in Wallets
    BY LedgerAssumption
  <1> QED
    BY <1>1, <1>2, <1>3, <1>4

\* A vault is created with its rent.
LEMMA CreatedVaultIsSafe ==
    ASSUME NEW acc \in Pda(VaultData)
    PROVE  /\ CreatedVault(acc) \in Pda(VaultData)
           /\ Funded(CreatedVault(acc), VaultRent)
           /\ TopUpCost(acc, VaultRent) \in Nat
  <1>1. Zeroed \in VaultData /\ VaultRent \in Nat
    BY LedgerAssumption DEF VaultData
  <1> QED
    BY <1>1, CreatedPdaIsTyped DEF CreatedVault, Funded, IsNewPda

\* The protocol's vault starts with its rent.
LEMMA InitProtocolFeesVaultKeepsInv ==
    ASSUME Inv, NEW payer \in Wallets, InitProtocolFeesVault(payer)
    PROVE  Inv'
  <1>1. /\ wallet[payer] >= TopUpCost(feesVault, VaultRent)
        /\ feesVault' = CreatedVault(feesVault)
        /\ wallet' = [wallet EXCEPT ![payer] = @ - TopUpCost(feesVault, VaultRent)]
        /\ UNCHANGED <<delegatedAccount, delegationRecord, delegationMetadata, commitState,
                       commitRecord, validatorFeesVault, programConfig>>
    BY DEF InitProtocolFeesVault, delegationPdas, commitPdas
  <1>2. /\ CreatedVault(feesVault) \in Pda(VaultData)
        /\ Funded(CreatedVault(feesVault), VaultRent)
        /\ TopUpCost(feesVault, VaultRent) \in Nat
    BY VaultsAreTyped, CreatedVaultIsSafe
  <1>3. TypeOK'
    <2>1. wallet' \in [Wallets -> Nat]
      BY <1>1, <1>2 DEF Inv, TypeOK
    <2> QED
      BY <1>1, <1>2, <2>1 DEF Inv, TypeOK
  <1>4. VaultsAreSafe'
    BY <1>1, <1>2 DEF Inv, VaultsAreSafe
  <1>5. ConfigsAreSafe'
    BY <1>1, ConfigsUnchanged DEF Inv
  <1> QED
    BY <1>1, <1>3, <1>4, <1>5, NoAccountStep

\* So does the vault of a validator.
LEMMA InitValidatorFeesVaultKeepsInv ==
    ASSUME Inv, NEW payer \in Wallets, NEW admin \in Wallets, NEW v \in Validators,
           InitValidatorFeesVault(payer, admin, v)
    PROVE  Inv'
  <1> DEFINE cost == TopUpCost(validatorFeesVault[v], VaultRent)
             created == CreatedVault(validatorFeesVault[v])
  <1>1. /\ wallet[payer] >= cost
        /\ validatorFeesVault' = [validatorFeesVault EXCEPT ![v] = created]
        /\ feesVault' = feesVault
        /\ wallet' = [wallet EXCEPT ![payer] = wallet[payer] - cost]
        /\ UNCHANGED <<delegatedAccount, delegationRecord, delegationMetadata, commitState,
                       commitRecord, programConfig>>
    BY DEF InitValidatorFeesVault, delegationPdas, commitPdas
  <1>2. created \in Pda(VaultData) /\ Funded(created, VaultRent) /\ cost \in Nat
    BY VaultsAreTyped, CreatedVaultIsSafe
  <1> HIDE DEF created, cost
  <1>3. wallet[payer] - cost \in Nat
    BY <1>1, <1>2, VaultsAreTyped
  <1> QED
    BY <1>1, <1>2, <1>3, VaultsAreTyped, VaultStep

\* A closed vault leaves its lamports to its validator, and pending commits alone.
LEMMA CloseValidatorFeesVaultKeepsInv ==
    ASSUME Inv, NEW admin \in Wallets, NEW v \in Validators, CloseValidatorFeesVault(admin, v)
    PROVE  Inv'
  <1>1. /\ validatorFeesVault' = [validatorFeesVault EXCEPT ![v] = Absent]
        /\ feesVault' = feesVault
        /\ wallet' = [wallet EXCEPT ![v] = wallet[v] + validatorFeesVault[v].lamports]
        /\ UNCHANGED <<delegatedAccount, delegationRecord, delegationMetadata, commitState,
                       commitRecord, programConfig>>
    BY DEF CloseValidatorFeesVault, delegationPdas, commitPdas
  <1>2. Absent \in Pda(VaultData) /\ Funded(Absent, VaultRent)
    BY AbsentIsUninitialized DEF Funded
  <1>3. wallet[v] + validatorFeesVault[v].lamports \in Nat
    BY VaultsAreTyped
  <1> QED
    BY <1>1, <1>2, <1>3, VaultsAreTyped, VaultStep

\* The unchecked subtraction of the claim never goes below zero, and what is
\* left in the vault is at least its rent.
LEMMA ValidatorClaimFeesKeepsInv ==
    ASSUME Inv, NEW v \in Validators, ValidatorClaimFees(v)
    PROVE  Inv'
  <1> DEFINE claimable == Claimable(validatorFeesVault[v])
  <1>1. PICK amount \in ClaimAmounts \cup {claimable} :
           /\ amount <= claimable
           /\ feesVault' = [feesVault EXCEPT !.lamports = @ + Percent(amount, ProtocolFeesPercentage)]
           /\ validatorFeesVault' = [validatorFeesVault EXCEPT ![v].lamports = @ - amount]
           /\ wallet' = [wallet EXCEPT ![v] = @ + (amount - Percent(amount, ProtocolFeesPercentage))]
    BY DEF ValidatorClaimFees, Claims
  <1>2. /\ IsInitialized(validatorFeesVault[v])
        /\ UNCHANGED <<delegatedAccount, delegationRecord, delegationMetadata, commitState,
                       commitRecord, programConfig>>
    BY DEF ValidatorClaimFees, delegationPdas, commitPdas
  <1>3. /\ claimable = validatorFeesVault[v].lamports - VaultRent
        /\ claimable \in Nat
    BY <1>2, VaultsAreTyped DEF Claimable, Funded
  <1> HIDE DEF claimable
  <1>4. amount \in Nat
    BY <1>1, <1>3, ClaimAssumption
  <1> DEFINE share == Percent(amount, ProtocolFeesPercentage)
  <1>5. share \in Nat /\ share <= amount
    BY <1>4, PercentIsPart
  <1> HIDE DEF share
  <1> DEFINE left == validatorFeesVault[v].lamports - amount
             earned == feesVault.lamports + share
             vault == [validatorFeesVault[v] EXCEPT !.lamports = left]
             protocolVault == [feesVault EXCEPT !.lamports = earned]
  <1>6. /\ validatorFeesVault' = [validatorFeesVault EXCEPT ![v] = vault]
        /\ feesVault' = protocolVault
        /\ wallet' = [wallet EXCEPT ![v] = wallet[v] + (amount - share)]
    BY <1>1 DEF share
  <1>7. left \in Nat /\ left >= VaultRent /\ earned \in Nat /\ earned >= feesVault.lamports
          /\ wallet[v] + (amount - share) \in Nat
    BY <1>1, <1>3, <1>4, <1>5, VaultsAreTyped
  <1> HIDE DEF left, earned
  <1>8. vault \in Pda(VaultData) /\ Funded(vault, VaultRent)
    BY <1>7, VaultsAreTyped, PaidPdaIsTyped DEF Funded
  <1>9. protocolVault \in Pda(VaultData) /\ Funded(protocolVault, VaultRent)
    <2>1. feesVault \in Pda(VaultData) /\ Funded(feesVault, VaultRent)
            /\ feesVault.lamports \in Nat /\ VaultRent \in Nat
      BY VaultsAreTyped
    <2> QED
      BY <1>7, <2>1, PaidPdaIsTyped DEF Funded
  <1> HIDE DEF vault, protocolVault
  <1> QED
    BY <1>2, <1>6, <1>7, <1>8, <1>9, VaultsAreTyped, VaultStep

\* The protocol's claim leaves the rent in its vault.
LEMMA ProtocolClaimFeesKeepsInv ==
    ASSUME Inv, NEW admin \in Wallets, ProtocolClaimFees(admin)
    PROVE  Inv'
  <1> DEFINE left == feesVault.lamports - Claimable(feesVault)
             vault == [feesVault EXCEPT !.lamports = left]
  <1>1. /\ feesVault.lamports >= VaultRent
        /\ feesVault' = vault
        /\ wallet' = [wallet EXCEPT ![admin] = @ + Claimable(feesVault)]
        /\ UNCHANGED <<delegatedAccount, delegationRecord, delegationMetadata, commitState,
                       commitRecord, validatorFeesVault, programConfig>>
    BY DEF ProtocolClaimFees, delegationPdas, commitPdas
  <1>2. Claimable(feesVault) \in Nat /\ left = VaultRent /\ VaultRent \in Nat
    BY <1>1, VaultsAreTyped DEF Claimable
  <1> HIDE DEF left
  <1>3. vault \in Pda(VaultData) /\ Funded(vault, VaultRent)
    BY <1>2, VaultsAreTyped, PaidPdaIsTyped DEF Funded
  <1> HIDE DEF vault
  <1>4. TypeOK'
    <2>1. wallet' \in [Wallets -> Nat]
      BY <1>1, <1>2 DEF Inv, TypeOK
    <2> QED
      BY <1>1, <1>3, <2>1 DEF Inv, TypeOK
  <1>5. VaultsAreSafe'
    BY <1>1, <1>3 DEF Inv, VaultsAreSafe
  <1>6. ConfigsAreSafe'
    BY <1>1, ConfigsUnchanged DEF Inv
  <1> QED
    BY <1>1, <1>4, <1>5, <1>6, NoAccountStep

-----------------------------------------------------------------------------
(* Program configurations. *)

\* A configuration is resized to the rent of the updated set, new or not.
LEMMA WhitelistKeepsInv ==
    ASSUME Inv, NEW authority \in Wallets, NEW v \in Validators, NEW program \in Owners,
           NEW insert \in BOOLEAN, WhitelistValidatorForProgram(authority, v, program, insert)
    PROVE  Inv'
  <1> DEFINE stored == programConfig[program]
             isNew == stored.owner = SystemProgram
             config == IF isNew THEN CreatedPda(stored, Dlp, DataRent[NoData], {}) ELSE stored
             approved == Updated(config.data, v, insert)
             resized == ResizedPda(config, ConfigRent(approved), approved)
             cost == resized.lamports - stored.lamports
  <1>1. /\ wallet[authority] >= cost
        /\ programConfig' = [programConfig EXCEPT ![program] = resized]
        /\ wallet' = [wallet EXCEPT ![authority] = @ - cost]
        /\ UNCHANGED <<delegatedAccount, delegationRecord, delegationMetadata, commitState,
                       commitRecord, validatorFeesVault, feesVault>>
    BY DEF WhitelistValidatorForProgram, delegationPdas, commitPdas, vaults
  <1>2. stored \in Pda(SUBSET Validators) /\ stored.lamports \in Nat
    BY PdaContents DEF Inv, TypeOK
  <1>3. /\ config.owner = Dlp
        /\ config.data \in SUBSET Validators
        /\ config.lamports \in Nat /\ config.lamports >= stored.lamports
    <2>1. CASE isNew
      <3>1. DataRent[NoData] \in Nat
        BY LedgerAssumption
      <3>2. config = CreatedPda(stored, Dlp, DataRent[NoData], {})
        BY <2>1
      <3> HIDE DEF stored, config
      <3>3. /\ config.owner = Dlp /\ config.data = {}
            /\ config.lamports \in Nat /\ config.lamports >= stored.lamports
        BY <1>2, <3>1, <3>2, CreatedPdaIsRentExempt
      <3> QED
        BY <3>3
    <2>2. CASE ~ isNew
      BY <1>2, <2>2, ProgramsDiffer DEF Pda
    <2> QED
      BY <2>1, <2>2
  <1> HIDE DEF config
  <1>4. approved \in SUBSET Validators
    BY <1>3 DEF Updated
  <1>5. ConfigRent(approved) \in Nat
    BY <1>4, LedgerAssumption
  <1> HIDE DEF approved
  <1> DEFINE rent == ConfigRent(approved)
             total == config.lamports + TopUpCost(config, rent)
  <1>6. total \in Nat /\ total >= rent /\ total >= config.lamports
    <2>1. rent \in Nat
      BY <1>5
    <2> HIDE DEF rent
    <2> QED
      BY <1>3, <2>1 DEF TopUpCost
  <1>7. resized = [owner |-> Dlp, lamports |-> total, data |-> approved]
    BY <1>3 DEF ResizedPda, Account
  <1> HIDE DEF resized, total
  <1>8. /\ resized \in Pda(SUBSET Validators)
        /\ Funded(resized, ConfigRent(resized.data))
        /\ resized.lamports = total
    BY <1>4, <1>6, <1>7 DEF Pda, Funded
  <1>9. cost \in Nat
    BY <1>2, <1>3, <1>6, <1>8
  <1> HIDE DEF cost
  <1>10. TypeOK'
    <2>1. wallet' \in [Wallets -> Nat]
      BY <1>1, <1>9 DEF Inv, TypeOK
    <2>2. programConfig' \in [Owners -> Pda(SUBSET Validators)]
      BY <1>1, <1>8 DEF Inv, TypeOK
    <2> QED
      BY <1>1, <2>1, <2>2 DEF Inv, TypeOK
  <1>11. ConfigsAreSafe'
    <2> SUFFICES ASSUME NEW p \in Owners
                 PROVE  Funded(programConfig'[p], ConfigRent(programConfig'[p].data))
      BY DEF ConfigsAreSafe
    <2>1. CASE p = program
      <3>1. programConfig'[p] = resized
        BY <1>1, <2>1 DEF Inv, TypeOK
      <3> QED
        BY <1>8, <3>1
    <2>2. CASE p # program
      <3>1. programConfig'[p] = programConfig[p]
        BY <1>1, <2>2 DEF Inv, TypeOK
      <3> QED
        BY <3>1 DEF Inv, ConfigsAreSafe
    <2> QED
      BY <2>1, <2>2
  <1>12. VaultsAreSafe'
    BY <1>1, VaultsUnchanged DEF Inv, vaults
  <1> QED
    BY <1>1, <1>10, <1>11, <1>12, NoAccountStep

-----------------------------------------------------------------------------
(* Ephemeral balances. *)

\* A top-up adds to an escrow what no record says, in custody or not.
LEMMA TopUpEphemeralBalanceKeepsInv ==
    ASSUME Inv, NEW a \in Accounts, NEW payer \in Wallets, NEW amount \in TopUpAmounts,
           TopUpEphemeralBalance(payer, a, amount)
    PROVE  Inv'
  <1> DEFINE escrow == delegatedAccount[a]
             cost == amount + (IF escrow.owner = SystemProgram
                               THEN TopUpCost(escrow, DataRent[NoData])
                               ELSE 0)
             toppedUp == [escrow EXCEPT !.lamports = @ + cost]
  <1>1. /\ escrow \in DelegatableAccount
        /\ escrow.lamports \in Nat
        /\ delegatedAccount' = [delegatedAccount EXCEPT ![a] = toppedUp]
        /\ wallet' = [wallet EXCEPT ![payer] = @ - cost]
        /\ wallet[payer] >= cost
        /\ IsRentExempt(toppedUp, DataRent[escrow.data])
        /\ UNCHANGED <<delegationRecord, delegationMetadata, commitState, commitRecord,
                       validatorFeesVault, feesVault, programConfig>>
    BY DEF Inv, TypeOK, DelegatableAccount, TopUpEphemeralBalance, delegationPdas, commitPdas, vaults
  <1>2. cost \in Nat
    <2>1. amount \in Nat /\ DataRent[NoData] \in Nat
      BY TopUpAssumption, LedgerAssumption
    <2>2. TopUpCost(escrow, DataRent[NoData]) \in Nat
      BY <1>1, <2>1, CreatedPdaIsRentExempt
    <2> QED
      BY <2>1, <2>2
  <1> HIDE DEF cost
  <1>3. /\ toppedUp \in DelegatableAccount
        /\ toppedUp.owner = escrow.owner
        /\ toppedUp.lamports = escrow.lamports + cost
        /\ toppedUp.data = escrow.data
    BY <1>1, <1>2, Credit
  <1> HIDE DEF toppedUp
  <1>4. TypeOK'
    <2>1. delegatedAccount' \in [Accounts -> DelegatableAccount]
      BY <1>1, <1>3 DEF Inv, TypeOK
    <2>2. wallet' \in [Wallets -> Nat]
      BY <1>1, <1>2 DEF Inv, TypeOK
    <2> QED
      BY <1>1, <2>1, <2>2 DEF Inv, TypeOK
  <1>5. Safe(a)'
    <2>1. delegatedAccount'[a] = toppedUp
      BY <1>1 DEF Inv, TypeOK
    <2>2. Safe(a) /\ Typed(a)
      BY AccountsAreTyped DEF Inv
    <2> QED
      BY <1>1, <1>2, <1>3, <2>1, <2>2
      DEF Safe, Typed, IsDelegated, HasPendingCommit, DelegatedLamports, IsInitialized, Funded
  <1>6. VaultsAreSafe' /\ ConfigsAreSafe'
    BY <1>1, VaultsUnchanged, ConfigsUnchanged DEF Inv, vaults
  <1>7. \A b \in Accounts \ {a} : AccountUnchanged(b)
    BY <1>1 DEF Inv, TypeOK, AccountUnchanged
  <1> QED
    BY <1>4, <1>5, <1>6, <1>7, OneAccountStep

\* An escrow that is closed was at home.
LEMMA CloseEphemeralBalanceKeepsInv ==
    ASSUME Inv, NEW a \in Accounts, NEW payer \in Wallets, CloseEphemeralBalance(payer, a)
    PROVE  Inv'
  <1> DEFINE escrow == delegatedAccount[a]
             closed == Purged([escrow EXCEPT !.lamports = 0])
  <1>1. /\ escrow \in DelegatableAccount
        /\ escrow.lamports \in Nat
        /\ escrow.owner = SystemProgram
        /\ delegatedAccount' = [delegatedAccount EXCEPT ![a] = closed]
        /\ wallet' = [wallet EXCEPT ![payer] = @ + escrow.lamports]
        /\ UNCHANGED <<delegationRecord, delegationMetadata, commitState, commitRecord,
                       validatorFeesVault, feesVault, programConfig>>
    BY DEF Inv, TypeOK, DelegatableAccount, CloseEphemeralBalance, delegationPdas, commitPdas, vaults
  <1>2. closed = Absent
    BY <1>1 DEF DelegatableAccount, Purged
  <1>3. /\ Absent \in DelegatableAccount
        /\ ~ IsInitialized(Absent)
        /\ IsRentExempt(Absent, DataRent[Absent.data])
        /\ Absent.owner = SystemProgram /\ Absent.data = NoData
    BY LedgerAssumption, ProgramsDiffer
    DEF Absent, Account, DelegatableAccount, Owners, IsInitialized, IsRentExempt
  <1> HIDE DEF closed
  <1>4. TypeOK'
    <2>1. delegatedAccount' \in [Accounts -> DelegatableAccount]
      BY <1>1, <1>2, <1>3 DEF Inv, TypeOK
    <2>2. wallet' \in [Wallets -> Nat]
      BY <1>1 DEF Inv, TypeOK
    <2> QED
      BY <1>1, <2>1, <2>2 DEF Inv, TypeOK
  <1>5. Safe(a)'
    <2>1. delegatedAccount'[a] = Absent
      BY <1>1, <1>2 DEF Inv, TypeOK
    <2>2. ~ IsInitialized(escrow)
      BY <1>1, ProgramsDiffer DEF IsInitialized
    <2> QED
      BY <1>1, <1>3, <2>1, <2>2, HomeStaysSafe DEF Inv
  <1>6. VaultsAreSafe' /\ ConfigsAreSafe'
    BY <1>1, VaultsUnchanged, ConfigsUnchanged DEF Inv, vaults
  <1>7. \A b \in Accounts \ {a} : AccountUnchanged(b)
    BY <1>1 DEF Inv, TypeOK, AccountUnchanged
  <1> QED
    BY <1>4, <1>5, <1>6, <1>7, OneAccountStep

-----------------------------------------------------------------------------
(* The behaviors. *)

\* The skips change nothing, and neither does stuttering.
LEMMA UnchangedKeepsInv ==
    ASSUME Inv, UNCHANGED vars
    PROVE  Inv'
  <1>1. UNCHANGED <<delegatedAccount, delegationRecord, delegationMetadata, commitState, commitRecord,
                    validatorFeesVault, feesVault, programConfig, wallet>>
    BY DEF vars, delegationPdas, commitPdas, vaults
  <1>2. TypeOK'
    BY <1>1 DEF Inv, TypeOK
  <1>3. VaultsAreSafe' /\ ConfigsAreSafe'
    BY <1>1, VaultsUnchanged, ConfigsUnchanged DEF Inv, vaults
  <1> QED
    BY <1>1, <1>2, <1>3, NoAccountStep

\* With no PDA in existence an account at home is all there is to be safe.
LEMMA AccountsInitIsSafe ==
    ASSUME AccountsInit
    PROVE  /\ delegatedAccount \in [Accounts -> DelegatableAccount]
           /\ delegationRecord \in [Accounts -> Pda(RecordData)]
           /\ delegationMetadata \in [Accounts -> Pda(MetadataData)]
           /\ commitState \in [Accounts -> Pda(Data)]
           /\ commitRecord \in [Accounts -> Pda(CommitRecordData)]
           /\ wallet \in [Wallets -> Nat]
           /\ \A a \in Accounts : Safe(a)
  <1>1. delegatedAccount \in [Accounts -> DelegatableAccount]
    <2>1. InitialAccounts \in [Accounts -> [owner : Owners, lamports : Nat, data : Data]]
      BY InitialAssumption
    <2>2. [owner : Owners, lamports : Nat, data : Data] \subseteq DelegatableAccount
      BY DEF DelegatableAccount
    <2> QED
      BY <2>1, <2>2 DEF AccountsInit
  <1>2. /\ delegationRecord \in [Accounts -> Pda(RecordData)]
        /\ delegationMetadata \in [Accounts -> Pda(MetadataData)]
        /\ commitState \in [Accounts -> Pda(Data)]
        /\ commitRecord \in [Accounts -> Pda(CommitRecordData)]
    BY AbsentIsUninitialized DEF AccountsInit
  <1>3. wallet \in [Wallets -> Nat]
    BY InitialAssumption DEF AccountsInit
  <1>4. ASSUME NEW a \in Accounts PROVE Safe(a)
    <2>1. /\ delegatedAccount[a] = InitialAccounts[a]
          /\ delegationRecord[a] = Absent
          /\ delegationMetadata[a] = Absent
          /\ commitState[a] = Absent
          /\ commitRecord[a] = Absent
      BY DEF AccountsInit
    <2>2. /\ InitialAccounts[a].owner \in Owners
          /\ InitialAccounts[a].owner = SystemProgram => InitialAccounts[a].data = NoData
          /\ IsRentExempt(InitialAccounts[a], DataRent[InitialAccounts[a].data])
          /\ InitialAccounts[a].lamports = 0 => InitialAccounts[a].owner = SystemProgram
      BY InitialAssumption DEF Absent, Account
    <2>3. ~ IsInitialized(InitialAccounts[a]) /\ ~ IsInitialized(Absent)
      BY <2>2, AbsentIsUninitialized, LedgerAssumption DEF IsInitialized
    <2> QED
      BY <2>1, <2>2, <2>3 DEF Safe, IsDelegated, HasPendingCommit, Funded
  <1> QED
    BY <1>1, <1>2, <1>3, <1>4

\* The program starts with no vault and no configuration.
LEMMA InitEstablishesInv == Init => Inv
  <1> SUFFICES ASSUME Init PROVE Inv
    OBVIOUS
  <1>1. AccountsInit
    BY DEF Init
  <1>2. /\ validatorFeesVault \in [Validators -> Pda(VaultData)]
        /\ feesVault \in Pda(VaultData)
        /\ programConfig \in [Owners -> Pda(SUBSET Validators)]
    BY AbsentIsUninitialized DEF Init
  <1>3. TypeOK /\ \A a \in Accounts : Safe(a)
    BY <1>1, <1>2, AccountsInitIsSafe DEF TypeOK
  <1>4. VaultsAreSafe /\ ConfigsAreSafe
    BY AbsentIsUninitialized DEF Init, VaultsAreSafe, ConfigsAreSafe, Funded
  <1> QED
    BY <1>3, <1>4 DEF Inv

\* Sessions start with open vaults, and configurations that hold their rent.
LEMMA SessionInitEstablishesInv == SessionInit => Inv
  <1> SUFFICES ASSUME SessionInit PROVE Inv
    OBVIOUS
  <1>1. AccountsInit /\ programConfig \in InitialConfigs
    BY DEF SessionInit
  <1>2. /\ Account(Dlp, VaultRent, Zeroed) \in Pda(VaultData)
        /\ Funded(Account(Dlp, VaultRent, Zeroed), VaultRent)
    <2>1. VaultRent \in Nat
      BY LedgerAssumption
    <2> QED
      BY <2>1 DEF Account, Pda, VaultData, Funded
  <1>3. ASSUME NEW p \in Owners
        PROVE  /\ programConfig[p] \in Pda(SUBSET Validators)
               /\ Funded(programConfig[p], ConfigRent(programConfig[p].data))
    <2>1. programConfig[p] \in {Absent} \cup {Account(Dlp, ConfigRent(S), S) : S \in SUBSET Validators}
      BY <1>1, InitialConfigsAssumption
    <2>2. CASE programConfig[p] = Absent
      BY <2>2, AbsentIsUninitialized DEF Funded
    <2>3. CASE programConfig[p] # Absent
      <3>1. PICK S \in SUBSET Validators : programConfig[p] = Account(Dlp, ConfigRent(S), S)
        BY <2>1, <2>3
      <3>2. ConfigRent(S) \in Nat
        BY LedgerAssumption
      <3> QED
        BY <3>1, <3>2 DEF Account, Pda, Funded
    <2> QED
      BY <2>2, <2>3
  <1>4. programConfig \in [Owners -> Pda(SUBSET Validators)]
    <2>1. \E f : programConfig = [p \in Owners |-> f[p]]
      BY <1>1, InitialConfigsAssumption
    <2> QED
      BY <1>3, <2>1
  <1>5. TypeOK
    BY <1>1, <1>2, <1>4, AccountsInitIsSafe DEF TypeOK, SessionInit
  <1>6. VaultsAreSafe /\ ConfigsAreSafe
    BY <1>2, <1>3 DEF SessionInit, VaultsAreSafe, ConfigsAreSafe
  <1> QED
    BY <1>1, <1>5, <1>6, AccountsInitIsSafe DEF Inv

\* One step of delegations, commits and the world outside.
LEMMA SessionStepKeepsInv ==
    ASSUME Inv, SessionNext
    PROVE  Inv'
  <1>1. CASE DelegationNext
    BY <1>1, DelegateKeepsInv, UndelegateEmptyKeepsInv, UndelegateViaCpiKeepsInv DEF DelegationNext
  <1>2. CASE CommitNext
    <2> PICK v \in Validators, a \in Accounts :
          \/ CommitState(v, a)
          \/ CommitStateFromBuffer(v, a)
          \/ CommitOutdated(v, a)
          \/ Finalize(v, a)
          \/ FinalizeNothing(v, a)
      BY <1>2 DEF CommitNext
    <2>1. CASE CommitState(v, a) \/ CommitStateFromBuffer(v, a)
      BY <2>1, CommitStateKeepsInv
    <2>2. CASE Finalize(v, a)
      BY <2>2, FinalizeKeepsInv
    <2>3. CASE CommitOutdated(v, a) \/ FinalizeNothing(v, a)
      <3>1. UNCHANGED vars
        BY <2>3 DEF CommitOutdated, FinalizeNothing
      <3> QED
        BY <3>1, UnchangedKeepsInv
    <2> QED
      BY <2>1, <2>2, <2>3
  <1>3. CASE EnvironmentNext
    BY <1>3, DepositKeepsInv, DepositToCommitStateKeepsInv, OwnerWriteKeepsInv, OwnerCreateKeepsInv
    DEF EnvironmentNext
  <1> QED
    BY <1>1, <1>2, <1>3 DEF SessionNext

\* One step of the whole program.
LEMMA NextKeepsInv ==
    ASSUME Inv, Next
    PROVE  Inv'
  <1>1. CASE SessionNext
    BY <1>1, SessionStepKeepsInv
  <1>2. CASE FeesVaultsNext
    BY <1>2, InitProtocolFeesVaultKeepsInv, InitValidatorFeesVaultKeepsInv,
       CloseValidatorFeesVaultKeepsInv, ValidatorClaimFeesKeepsInv, ProtocolClaimFeesKeepsInv
    DEF FeesVaultsNext
  <1>3. CASE ProgramConfigNext
    BY <1>3, WhitelistKeepsInv DEF ProgramConfigNext
  <1>4. CASE EphemeralBalanceNext
    BY <1>4, TopUpEphemeralBalanceKeepsInv, DelegateEphemeralBalanceKeepsInv,
       CloseEphemeralBalanceKeepsInv DEF EphemeralBalanceNext
  <1> QED
    BY <1>1, <1>2, <1>3, <1>4 DEF Next

-----------------------------------------------------------------------------
(* The theorems. *)

\* Inv is an invariant of the whole program, from an empty ledger.
THEOREM ProgramKeepsInv == Spec => []Inv
  <1>1. Inv /\ [Next]_vars => Inv'
    BY NextKeepsInv, UnchangedKeepsInv
  <1> QED
    BY InitEstablishesInv, <1>1, PTL DEF Spec

\* It is one of the sessions among validators that are all set up, too.
THEOREM SessionsKeepInv == SessionSpec => []Inv
  <1>1. Inv /\ [SessionNext]_vars => Inv'
    BY SessionStepKeepsInv, UnchangedKeepsInv
  <1> QED
    BY SessionInitEstablishesInv, <1>1, PTL DEF SessionSpec

\* Every account, PDA, vault, configuration and wallet always has contents of
\* its kind and a natural number of lamports: no subtraction ever wraps.
THEOREM TypeIsCorrect == Spec => []TypeOK
  <1>1. Inv => TypeOK
    BY DEF Inv
  <1> QED
    BY <1>1, ProgramKeepsInv, PTL

\* The "this should never happen" of commit_state.rs never happens: a delegated
\* account holds at least what its record says.
THEOREM RecordIsAlwaysCovered == Spec => []RecordIsCovered
  <1>1. Inv => RecordIsCovered
    BY InvImpliesSafety
  <1> QED
    BY <1>1, ProgramKeepsInv, PTL

\* The lamports a pending commit will move are there for as long as it pends,
\* so the settlement of Finalize never fails for want of them.
THEOREM CommitIsAlwaysCollateralized == Spec => []CommitIsCollateralized
  <1>1. Inv => CommitIsCollateralized
    BY InvImpliesSafety
  <1> QED
    BY <1>1, ProgramKeepsInv, PTL

\* No pending commit without the delegation it is for, and no account in
\* custody without its record.
THEOREM PdasAreAlwaysConsistent == Spec => []PdasAreConsistent
  <1>1. Inv => PdasAreConsistent
    BY InvImpliesSafety
  <1> QED
    BY <1>1, ProgramKeepsInv, PTL

\* Vaults, whose rent the claims subtract unchecked, never hold less than it,
\* and neither does any other PDA the program created.
THEOREM PdasAreAlwaysRentExempt == Spec => []PdasAreRentExempt
  <1>1. Inv => PdasAreRentExempt
    BY InvImpliesSafety
  <1> QED
    BY <1>1, ProgramKeepsInv, PTL

\* An account, at home or in custody, is absent or holds its minimum balance, and
\* nothing the system program owns has contents it could not give back.
THEOREM AccountsAreAlwaysRentExempt == Spec => []AccountsAreRentExempt
  <1>1. Inv => AccountsAreRentExempt
    BY InvImpliesSafety
  <1> QED
    BY <1>1, ProgramKeepsInv, PTL

\* Undelegation never fails for the length of the contents, however long those
\* of the account were when it was delegated.
THEOREM UndelegatableAlwaysFits == Spec => []UndelegatableFits
  <1>1. Inv => UndelegatableFits
    BY InvImpliesSafety
  <1> QED
    BY <1>1, ProgramKeepsInv, PTL

\* All of them hold of the sessions the other runs check.
THEOREM SessionsAreSafe ==
    SessionSpec => [](/\ TypeOK
                      /\ RecordIsCovered
                      /\ CommitIsCollateralized
                      /\ PdasAreConsistent
                      /\ PdasAreRentExempt
                      /\ AccountsAreRentExempt
                      /\ UndelegatableFits)
  <1>1. Inv => /\ TypeOK
               /\ RecordIsCovered
               /\ CommitIsCollateralized
               /\ PdasAreConsistent
               /\ PdasAreRentExempt
               /\ AccountsAreRentExempt
               /\ UndelegatableFits
    BY InvImpliesSafety DEF Inv
  <1> QED
    BY <1>1, SessionsKeepInv, PTL
=============================================================================
