-------------------------- MODULE ConservationProofs --------------------------
(***************************************************************************)
(* No instruction makes or loses a lamport, whatever the accounts and the  *)
(* amounts.                                                                *)
(*                                                                         *)
(* First what a sum over a function does when the function changes at one  *)
(* argument.  That is an induction: over the subsets of a finite set, as   *)
(* the absence of a smallest one that fails.                               *)
(***************************************************************************)
EXTENDS Conservation, DelegationProgramProofs, FiniteSetTheorems

-----------------------------------------------------------------------------
(* Sums. *)

Some(s) == CHOOSE x \in s : TRUE

\* g is the sum of f over every subset of S, one element after the other.
IsTotal(g, f, S) ==
    g = [s \in SUBSET S |-> IF s = {} THEN 0 ELSE f[Some(s)] + g[s \ {Some(s)}]]

\* Among subsets of a finite set there is a smallest.
LEMMA SmallestSubset ==
    ASSUME NEW S, IsFiniteSet(S), NEW Bad, Bad \subseteq SUBSET S, Bad # {}
    PROVE  \E T \in Bad : \A U \in Bad : ~ (U \subseteq T /\ U # T)
  <1>1. \A T \in SUBSET S : IsFiniteSet(T)
    BY FS_Subset
  <1>2. Bad \subseteq FiniteSubsetsOf(S)
    BY <1>1 DEF FiniteSubsetsOf
  <1>3. \E T \in Bad : \A U \in Bad : ~ (<<U, T>> \in StrictSubsetOrdering(S))
    BY <1>2, FS_StrictSubsetOrderingWellFounded, WFMin
  <1> QED
    BY <1>3 DEF StrictSubsetOrdering

\* Among numbers as well.
LEMMA SmallestNumber ==
    ASSUME NEW Bad, Bad \subseteq Nat, Bad # {}
    PROVE  \E n \in Bad : \A m \in Bad : ~ (m < n)
  <1>1. \E n \in Bad : \A m \in Bad : ~ (<<m, n>> \in OpToRel(<, Nat))
    BY NatLessThanWellFounded, WFMin
  <1> QED
    BY <1>1 DEF OpToRel

\* There is such a sum: subsets with n elements add one element to smaller ones.
LEMMA TotalExists ==
    ASSUME NEW f, NEW S, IsFiniteSet(S)
    PROVE  \E g : IsTotal(g, f, S)
  <1> DEFINE Value(g, s) == IF s = {} THEN 0 ELSE f[Some(s)] + g[s \ {Some(s)}]
             UpTo(g, n) == \A s \in SUBSET S : Cardinality(s) <= n => g[s] = Value(g, s)
             Bad == {n \in Nat : ~ \E g : UpTo(g, n)}
  <1>1. \A s \in SUBSET S : IsFiniteSet(s) /\ Cardinality(s) \in Nat /\ (Cardinality(s) = 0 <=> s = {})
    BY FS_Subset, FS_CardinalityType, FS_EmptySet
  <1>2. \A s \in SUBSET S : s # {} =>
            s \ {Some(s)} \in SUBSET S /\ Cardinality(s \ {Some(s)}) = Cardinality(s) - 1
    BY <1>1, FS_RemoveElement DEF Some
  <1>3. Bad = {}
    <2>1. SUFFICES ASSUME NEW n \in Bad, \A m \in Bad : ~ (m < n)
                   PROVE  FALSE
      BY SmallestNumber
    <2>2. n # 0
      <3>1. UpTo([s \in SUBSET S |-> 0], 0)
        BY <1>1
      <3> QED
        BY <3>1
    <2>3. n \in Nat /\ n - 1 \in Nat /\ n - 1 < n
      BY <2>2
    <2>4. PICK g : UpTo(g, n - 1)
      <3>1. n - 1 \notin Bad
        <4> HIDE DEF Bad
        <4> QED
          BY <2>1, <2>3
      <3> QED
        BY <2>3, <3>1
    <2> DEFINE h == [s \in SUBSET S |-> Value(g, s)]
    <2>5. ASSUME NEW s \in SUBSET S, Cardinality(s) <= n
          PROVE  h[s] = Value(h, s)
      <3>1. CASE s = {}
        BY <3>1
      <3>2. CASE s # {}
        <4> DEFINE r == s \ {Some(s)}
        <4>1. r \in SUBSET S /\ Cardinality(r) <= n - 1
          BY <1>1, <1>2, <2>5, <3>2
        <4>2. h[r] = g[r]
          BY <2>4, <4>1
        <4> QED
          BY <3>2, <4>2
      <3> QED
        BY <3>1, <3>2
    <2>6. UpTo(h, n)
      BY <2>5
    <2> QED
      BY <2>6
  <1>4. PICK g : UpTo(g, Cardinality(S))
    BY <1>1, <1>3
  <1> DEFINE h == [s \in SUBSET S |-> g[s]]
  <1>5. \A s \in SUBSET S : h[s] = Value(h, s)
    <2>1. \A s \in SUBSET S : Cardinality(s) <= Cardinality(S)
      BY FS_Subset
    <2> QED
      BY <1>2, <1>4, <2>1
  <1>6. h = [s \in SUBSET S |-> Value(h, s)]
    BY <1>5
  <1> QED
    BY <1>6 DEF IsTotal

\* It is what the community modules compute.
LEMMA SumIsTotal ==
    ASSUME NEW f, IsFiniteSet(DOMAIN f)
    PROVE  \E g : IsTotal(g, f, DOMAIN f) /\ SumFunction(f) = g[DOMAIN f]
  <1> DEFINE g == CHOOSE g : IsTotal(g, f, DOMAIN f)
  <1>1. IsTotal(g, f, DOMAIN f)
    BY TotalExists
  <1>2. SumFunction(f) = g[DOMAIN f]
    BY DEF SumFunction, SumFunctionOnSet, FoldFunctionOnSet, MapThenFoldSet, IsTotal, Some
  <1> QED
    BY <1>1, <1>2

\* A sum changes with one of its terms.
LEMMA SumChanges ==
    ASSUME NEW S, IsFiniteSet(S), NEW f \in [S -> Int], NEW h \in [S -> Int],
           NEW x \in S, \A y \in S : y # x => h[y] = f[y]
    PROVE  SumFunction(f) \in Int /\ SumFunction(h) = SumFunction(f) + (h[x] - f[x])
  <1>1. PICK g : IsTotal(g, f, S) /\ SumFunction(f) = g[S]
    BY SumIsTotal
  <1>2. PICK k : IsTotal(k, h, S) /\ SumFunction(h) = k[S]
    BY SumIsTotal
  <1> DEFINE Change(s) == IF x \in s THEN h[x] - f[x] ELSE 0
             Bad == {s \in SUBSET S : ~ (g[s] \in Int /\ k[s] = g[s] + Change(s))}
  <1>3. Bad = {}
    <2>1. SUFFICES ASSUME NEW T \in Bad, \A U \in Bad : ~ (U \subseteq T /\ U # T)
                   PROVE  FALSE
      <3>1. Bad \subseteq SUBSET S
        OBVIOUS
      <3> HIDE DEF Bad
      <3> QED
        BY <3>1, SmallestSubset
    <2>2. \A s \in SUBSET S :
            /\ g[s] = IF s = {} THEN 0 ELSE f[Some(s)] + g[s \ {Some(s)}]
            /\ k[s] = IF s = {} THEN 0 ELSE h[Some(s)] + k[s \ {Some(s)}]
      BY <1>1, <1>2 DEF IsTotal
    <2>3. T # {}
      <3>1. g[{}] = 0 /\ k[{}] = 0 /\ Change({}) = 0
        BY <2>2
      <3>2. {} \notin Bad
        BY <3>1
      <3> QED
        BY <2>1, <3>2
    <2> DEFINE y == Some(T)
               r == T \ {y}
    <2>4. y \in T /\ y \in S /\ r \in SUBSET S /\ r \subseteq T /\ r # T
      BY <2>3 DEF Some
    <2>5. g[r] \in Int /\ k[r] = g[r] + Change(r)
      BY <2>1, <2>4
    <2>6. g[T] = f[y] + g[r] /\ k[T] = h[y] + k[r]
      BY <2>2, <2>3
    <2> HIDE DEF y
    <2>7. f[y] \in Int /\ h[y] \in Int /\ h[x] \in Int /\ f[x] \in Int
      BY <2>4
    <2>8. g[T] \in Int /\ k[T] = g[T] + Change(T)
      <3>1. CASE y = x
        BY <2>4, <2>5, <2>6, <2>7, <3>1
      <3>2. CASE y # x
        <4>1. h[y] = f[y] /\ Change(T) = Change(r)
          BY <2>4, <3>2
        <4>2. Change(r) \in Int
          BY <2>7
        <4> HIDE DEF Change, r
        <4> QED
          BY <2>5, <2>6, <2>7, <4>1, <4>2
      <3> QED
        BY <3>1, <3>2
    <2> QED
      BY <2>8
  <1>4. S \in SUBSET S /\ S \notin Bad
    BY <1>3
  <1> QED
    BY <1>1, <1>2, <1>4

\* The total of some accounts changes with one of them.
LEMMA TotalChanges ==
    ASSUME NEW K, IsFiniteSet(K), NEW f, DOMAIN f = K, NEW h, DOMAIN h = K,
           \A k \in K : f[k].lamports \in Int, NEW x \in K, h[x].lamports \in Int,
           \A k \in K : k # x => h[k] = f[k]
    PROVE  TotalOf(f) \in Int /\ TotalOf(h) = TotalOf(f) + (h[x].lamports - f[x].lamports)
  <1>1. LamportsOf(f) \in [K -> Int] /\ LamportsOf(h) \in [K -> Int]
    BY DEF LamportsOf
  <1>2. \A k \in K : LamportsOf(f)[k] = f[k].lamports /\ LamportsOf(h)[k] = h[k].lamports
    BY DEF LamportsOf
  <1>3. \A k \in K : k # x => LamportsOf(h)[k] = LamportsOf(f)[k]
    BY <1>2
  <1> QED
    BY <1>1, <1>2, <1>3, SumChanges DEF TotalOf

\* A sum of numbers is one.
LEMMA SumIsNumber ==
    ASSUME NEW S, IsFiniteSet(S), NEW f \in [S -> Int]
    PROVE  SumFunction(f) \in Int
  <1>1. CASE S = {}
    <2>1. PICK g : IsTotal(g, f, S) /\ SumFunction(f) = g[S]
      BY SumIsTotal
    <2>2. g[S] = 0
      BY <1>1, <2>1 DEF IsTotal
    <2> QED
      BY <2>1, <2>2
  <1>2. CASE S # {}
    <2>1. PICK x : x \in S
      BY <1>2
    <2> QED
      BY <2>1, SumChanges
  <1> QED
    BY <1>1, <1>2

\* So is a total of lamports.
LEMMA TotalIsNumber ==
    ASSUME NEW K, IsFiniteSet(K), NEW f, DOMAIN f = K, \A k \in K : f[k].lamports \in Int
    PROVE  TotalOf(f) \in Int
  <1>1. LamportsOf(f) \in [K -> Int]
    BY DEF LamportsOf
  <1> QED
    BY <1>1, SumIsNumber DEF TotalOf

-----------------------------------------------------------------------------
(* The totals of the ledger. *)

\* Whatever can hold lamports is finite.
LEMMA LedgerIsFinite ==
    /\ IsFiniteSet(Accounts)
    /\ IsFiniteSet(Validators)
    /\ IsFiniteSet(Owners)
    /\ IsFiniteSet(Wallets)
  <1>1. IsFiniteSet(Accounts) /\ IsFiniteSet(Wallets) /\ IsFiniteSet(Programs)
    BY FiniteAssumption
  <1>2. IsFiniteSet(Validators)
    BY <1>1, LedgerAssumption, FS_Subset
  <1>3. IsFiniteSet(Owners)
    BY <1>1, FS_AddElement DEF Owners
  <1> QED
    BY <1>1, <1>2, <1>3

\* The lamports of the accounts and PDAs of one key, and of them all.
Held(a) ==
    delegatedAccount[a].lamports + delegationRecord[a].lamports + delegationMetadata[a].lamports
      + commitState[a].lamports + commitRecord[a].lamports

AccountTotals ==
    TotalOf(delegatedAccount) + TotalOf(delegationRecord) + TotalOf(delegationMetadata)
      + TotalOf(commitState) + TotalOf(commitRecord)

\* Lamports of typed accounts are numbers.
LEMMA LamportsAreNumbers ==
    ASSUME TypeOK
    PROVE  /\ \A a \in Accounts : /\ delegatedAccount[a].lamports \in Nat
                                  /\ delegationRecord[a].lamports \in Nat
                                  /\ delegationMetadata[a].lamports \in Nat
                                  /\ commitState[a].lamports \in Nat
                                  /\ commitRecord[a].lamports \in Nat
           /\ \A v \in Validators : validatorFeesVault[v].lamports \in Nat
           /\ feesVault.lamports \in Nat
           /\ \A p \in Owners : programConfig[p].lamports \in Nat
           /\ \A w \in Wallets : wallet[w] \in Nat
  <1>1. ASSUME NEW a \in Accounts
        PROVE  /\ delegatedAccount[a].lamports \in Nat
               /\ delegationRecord[a].lamports \in Nat
               /\ delegationMetadata[a].lamports \in Nat
               /\ commitState[a].lamports \in Nat
               /\ commitRecord[a].lamports \in Nat
    BY AccountsAreTyped DEF Typed
  <1>2. /\ \A v \in Validators : validatorFeesVault[v].lamports \in Nat
        /\ feesVault.lamports \in Nat
    BY PdaContents DEF TypeOK
  <1>3. \A p \in Owners : programConfig[p].lamports \in Nat
    BY PdaContents DEF TypeOK
  <1> QED
    BY <1>1, <1>2, <1>3 DEF TypeOK

\* The lamports of a function of accounts, when one of them changes.
LEMMA TypedTotalChanges ==
    ASSUME NEW K, IsFiniteSet(K), NEW D, \A acc \in D : acc.lamports \in Nat,
           NEW f \in [K -> D], NEW h \in [K -> D], NEW x \in K, \A k \in K \ {x} : h[k] = f[k]
    PROVE  /\ TotalOf(f) \in Int
           /\ f[x].lamports \in Nat /\ h[x].lamports \in Nat
           /\ TotalOf(h) = TotalOf(f) + (h[x].lamports - f[x].lamports)
  <1>1. /\ DOMAIN f = K /\ DOMAIN h = K
        /\ \A k \in K : f[k].lamports \in Int
        /\ h[x].lamports \in Int
        /\ \A k \in K : k # x => h[k] = f[k]
        /\ f[x].lamports \in Nat /\ h[x].lamports \in Nat
    OBVIOUS
  <1> QED
    BY <1>1, TotalChanges

\* In particular of one of the PDAs.
LEMMA PdaTotalChanges ==
    ASSUME NEW K, IsFiniteSet(K), NEW D, NEW f \in [K -> Pda(D)], NEW h \in [K -> Pda(D)],
           NEW x \in K, \A k \in K \ {x} : h[k] = f[k]
    PROVE  /\ TotalOf(f) \in Int
           /\ f[x].lamports \in Nat /\ h[x].lamports \in Nat
           /\ TotalOf(h) = TotalOf(f) + (h[x].lamports - f[x].lamports)
  <1>1. \A acc \in Pda(D) : acc.lamports \in Nat
    BY PdaContents
  <1> HIDE DEF Pda
  <1> QED
    BY <1>1, TypedTotalChanges

\* Every total of the ledger is a number.
LEMMA TotalsAreNumbers ==
    ASSUME TypeOK
    PROVE  /\ AccountTotals \in Int
           /\ TotalOf(validatorFeesVault) \in Int
           /\ feesVault.lamports \in Int
           /\ TotalOf(programConfig) \in Int
           /\ SumFunction(wallet) \in Int
  <1>1. /\ DOMAIN delegatedAccount = Accounts /\ DOMAIN delegationRecord = Accounts
        /\ DOMAIN delegationMetadata = Accounts /\ DOMAIN commitState = Accounts
        /\ DOMAIN commitRecord = Accounts /\ DOMAIN validatorFeesVault = Validators
        /\ DOMAIN programConfig = Owners
    BY DEF TypeOK
  <1>2. TotalOf(delegatedAccount) \in Int
    BY <1>1, LedgerIsFinite, LamportsAreNumbers, TotalIsNumber
  <1>3. TotalOf(delegationRecord) \in Int
    BY <1>1, LedgerIsFinite, LamportsAreNumbers, TotalIsNumber
  <1>4. TotalOf(delegationMetadata) \in Int
    BY <1>1, LedgerIsFinite, LamportsAreNumbers, TotalIsNumber
  <1>5. TotalOf(commitState) \in Int
    BY <1>1, LedgerIsFinite, LamportsAreNumbers, TotalIsNumber
  <1>6. TotalOf(commitRecord) \in Int
    BY <1>1, LedgerIsFinite, LamportsAreNumbers, TotalIsNumber
  <1>7. TotalOf(validatorFeesVault) \in Int
    BY <1>1, LedgerIsFinite, LamportsAreNumbers, TotalIsNumber
  <1>8. TotalOf(programConfig) \in Int
    BY <1>1, LedgerIsFinite, LamportsAreNumbers, TotalIsNumber
  <1>9. SumFunction(wallet) \in Int
    <2>1. wallet \in [Wallets -> Int]
      BY DEF TypeOK
    <2> QED
      BY <2>1, LedgerIsFinite, SumIsNumber
  <1>10. AccountTotals \in Int
    BY <1>2, <1>3, <1>4, <1>5, <1>6 DEF AccountTotals
  <1> QED
    BY <1>7, <1>8, <1>9, <1>10, LamportsAreNumbers

\* What a step on the accounts of one key changes of the total.
LEMMA AccountTotalsChange ==
    ASSUME TypeOK, TypeOK', NEW a \in Accounts, \A b \in Accounts \ {a} : AccountUnchanged(b)
    PROVE  /\ Held(a) \in Int /\ Held(a)' \in Int
           /\ AccountTotals' = AccountTotals + (Held(a)' - Held(a))
  <1>1. IsFiniteSet(Accounts)
    BY LedgerIsFinite
  <1>2. \A acc \in DelegatableAccount : acc.lamports \in Nat
    BY DEF DelegatableAccount
  <1>3. /\ delegatedAccount[a].lamports \in Nat /\ delegatedAccount'[a].lamports \in Nat
        /\ TotalOf(delegatedAccount) \in Int
        /\ TotalOf(delegatedAccount') = TotalOf(delegatedAccount)
              + (delegatedAccount'[a].lamports - delegatedAccount[a].lamports)
    <2>1. /\ delegatedAccount \in [Accounts -> DelegatableAccount]
          /\ delegatedAccount' \in [Accounts -> DelegatableAccount]
          /\ \A b \in Accounts \ {a} : delegatedAccount'[b] = delegatedAccount[b]
      BY DEF TypeOK, AccountUnchanged
    <2> QED
      BY <1>1, <1>2, <2>1, TypedTotalChanges
  <1>4. /\ delegationRecord[a].lamports \in Nat /\ delegationRecord'[a].lamports \in Nat
        /\ TotalOf(delegationRecord) \in Int
        /\ TotalOf(delegationRecord') = TotalOf(delegationRecord)
              + (delegationRecord'[a].lamports - delegationRecord[a].lamports)
    <2>1. /\ delegationRecord \in [Accounts -> Pda(RecordData)]
          /\ delegationRecord' \in [Accounts -> Pda(RecordData)]
          /\ \A b \in Accounts \ {a} : delegationRecord'[b] = delegationRecord[b]
      BY DEF TypeOK, AccountUnchanged
    <2> QED
      BY <1>1, <2>1, PdaTotalChanges
  <1>5. /\ delegationMetadata[a].lamports \in Nat /\ delegationMetadata'[a].lamports \in Nat
        /\ TotalOf(delegationMetadata) \in Int
        /\ TotalOf(delegationMetadata') = TotalOf(delegationMetadata)
              + (delegationMetadata'[a].lamports - delegationMetadata[a].lamports)
    <2>1. /\ delegationMetadata \in [Accounts -> Pda(MetadataData)]
          /\ delegationMetadata' \in [Accounts -> Pda(MetadataData)]
          /\ \A b \in Accounts \ {a} : delegationMetadata'[b] = delegationMetadata[b]
      BY DEF TypeOK, AccountUnchanged
    <2> QED
      BY <1>1, <2>1, PdaTotalChanges
  <1>6. /\ commitState[a].lamports \in Nat /\ commitState'[a].lamports \in Nat
        /\ TotalOf(commitState) \in Int
        /\ TotalOf(commitState') = TotalOf(commitState)
              + (commitState'[a].lamports - commitState[a].lamports)
    <2>1. /\ commitState \in [Accounts -> Pda(Data)]
          /\ commitState' \in [Accounts -> Pda(Data)]
          /\ \A b \in Accounts \ {a} : commitState'[b] = commitState[b]
      BY DEF TypeOK, AccountUnchanged
    <2> QED
      BY <1>1, <2>1, PdaTotalChanges
  <1>7. /\ commitRecord[a].lamports \in Nat /\ commitRecord'[a].lamports \in Nat
        /\ TotalOf(commitRecord) \in Int
        /\ TotalOf(commitRecord') = TotalOf(commitRecord)
              + (commitRecord'[a].lamports - commitRecord[a].lamports)
    <2>1. /\ commitRecord \in [Accounts -> Pda(CommitRecordData)]
          /\ commitRecord' \in [Accounts -> Pda(CommitRecordData)]
          /\ \A b \in Accounts \ {a} : commitRecord'[b] = commitRecord[b]
      BY DEF TypeOK, AccountUnchanged
    <2> QED
      BY <1>1, <2>1, PdaTotalChanges
  <1> QED
    BY <1>3, <1>4, <1>5, <1>6, <1>7 DEF Held, AccountTotals

\* What a step on the lamports of one wallet changes.
LEMMA WalletTotalChanges ==
    ASSUME TypeOK, TypeOK', NEW w \in Wallets, \A u \in Wallets \ {w} : wallet'[u] = wallet[u]
    PROVE  /\ wallet[w] \in Int /\ wallet'[w] \in Int
           /\ SumFunction(wallet') = SumFunction(wallet) + (wallet'[w] - wallet[w])
  <1>1. wallet \in [Wallets -> Int] /\ wallet' \in [Wallets -> Int]
    BY DEF TypeOK
  <1> QED
    BY <1>1, LedgerIsFinite, SumChanges

\* What a step on the vault of one validator changes.
LEMMA VaultTotalChanges ==
    ASSUME TypeOK, TypeOK', NEW v \in Validators,
           \A u \in Validators \ {v} : validatorFeesVault'[u] = validatorFeesVault[u]
    PROVE  /\ validatorFeesVault[v].lamports \in Int /\ validatorFeesVault'[v].lamports \in Int
           /\ TotalOf(validatorFeesVault') = TotalOf(validatorFeesVault)
                 + (validatorFeesVault'[v].lamports - validatorFeesVault[v].lamports)
  <1>1. /\ validatorFeesVault \in [Validators -> Pda(VaultData)]
        /\ validatorFeesVault' \in [Validators -> Pda(VaultData)]
    BY DEF TypeOK
  <1> QED
    BY <1>1, LedgerIsFinite, PdaTotalChanges

\* What a step on the configuration of one program changes.
LEMMA ConfigTotalChanges ==
    ASSUME TypeOK, TypeOK', NEW p \in Owners,
           \A q \in Owners \ {p} : programConfig'[q] = programConfig[q]
    PROVE  /\ programConfig[p].lamports \in Int /\ programConfig'[p].lamports \in Int
           /\ TotalOf(programConfig') = TotalOf(programConfig)
                 + (programConfig'[p].lamports - programConfig[p].lamports)
  <1> DEFINE D == SUBSET Validators
  <1>1. programConfig \in [Owners -> Pda(D)] /\ programConfig' \in [Owners -> Pda(D)]
    BY DEF TypeOK
  <1> HIDE DEF D
  <1> QED
    BY <1>1, LedgerIsFinite, PdaTotalChanges

\* Lamports that move between the accounts of one key and a wallet.
LEMMA AccountStepConserves ==
    ASSUME TypeOK, TypeOK', NEW a \in Accounts, NEW w \in Wallets,
           \A b \in Accounts \ {a} : AccountUnchanged(b),
           \A u \in Wallets \ {w} : wallet'[u] = wallet[u],
           UNCHANGED <<validatorFeesVault, feesVault, programConfig>>,
           Held(a)' + wallet'[w] = Held(a) + wallet[w]
    PROVE  TotalLamports' = TotalLamports
  <1>1. /\ AccountTotals' = AccountTotals + (Held(a)' - Held(a))
        /\ Held(a) \in Int /\ Held(a)' \in Int
    BY AccountTotalsChange
  <1>2. /\ SumFunction(wallet') = SumFunction(wallet) + (wallet'[w] - wallet[w])
        /\ wallet[w] \in Int /\ wallet'[w] \in Int
    BY WalletTotalChanges
  <1>3. TotalLamports = AccountTotals + TotalOf(validatorFeesVault) + feesVault.lamports
                           + TotalOf(programConfig) + SumFunction(wallet)
    BY DEF TotalLamports, AccountTotals
  <1>4. TotalLamports' = AccountTotals' + TotalOf(validatorFeesVault) + feesVault.lamports
                           + TotalOf(programConfig) + SumFunction(wallet')
    BY DEF TotalLamports, AccountTotals
  <1> QED
    BY <1>1, <1>2, <1>3, <1>4, TotalsAreNumbers

\* Lamports that move between the accounts of one key, the vaults and the wallets.
LEMMA PaymentStepConserves ==
    ASSUME TypeOK, TypeOK', NEW a \in Accounts, NEW v \in Validators, NEW gain \in Int,
           \A b \in Accounts \ {a} : AccountUnchanged(b),
           \A u \in Validators \ {v} : validatorFeesVault'[u] = validatorFeesVault[u],
           SumFunction(wallet') = SumFunction(wallet) + gain,
           UNCHANGED programConfig,
           Held(a)' + validatorFeesVault'[v].lamports + feesVault'.lamports + gain
              = Held(a) + validatorFeesVault[v].lamports + feesVault.lamports
    PROVE  TotalLamports' = TotalLamports
  <1>1. /\ AccountTotals' = AccountTotals + (Held(a)' - Held(a))
        /\ Held(a) \in Int /\ Held(a)' \in Int
    BY AccountTotalsChange
  <1>2. /\ TotalOf(validatorFeesVault') = TotalOf(validatorFeesVault)
              + (validatorFeesVault'[v].lamports - validatorFeesVault[v].lamports)
        /\ validatorFeesVault[v].lamports \in Int /\ validatorFeesVault'[v].lamports \in Int
    BY VaultTotalChanges
  <1>3. feesVault.lamports \in Int /\ feesVault'.lamports \in Int
    BY PdaContents DEF TypeOK
  <1>4. TotalLamports = AccountTotals + TotalOf(validatorFeesVault) + feesVault.lamports
                           + TotalOf(programConfig) + SumFunction(wallet)
    BY DEF TotalLamports, AccountTotals
  <1>5. TotalLamports' = AccountTotals' + TotalOf(validatorFeesVault') + feesVault'.lamports
                           + TotalOf(programConfig) + SumFunction(wallet')
    BY DEF TotalLamports, AccountTotals
  <1> QED
    BY <1>1, <1>2, <1>3, <1>4, <1>5, TotalsAreNumbers

\* Lamports that move between the accounts of one key, the vaults and one wallet.
LEMMA SettlementStepConserves ==
    ASSUME TypeOK, TypeOK', NEW a \in Accounts, NEW v \in Validators, NEW w \in Wallets,
           \A b \in Accounts \ {a} : AccountUnchanged(b),
           \A u \in Validators \ {v} : validatorFeesVault'[u] = validatorFeesVault[u],
           \A u \in Wallets \ {w} : wallet'[u] = wallet[u],
           UNCHANGED programConfig,
           Held(a)' + validatorFeesVault'[v].lamports + feesVault'.lamports + wallet'[w]
              = Held(a) + validatorFeesVault[v].lamports + feesVault.lamports + wallet[w]
    PROVE  TotalLamports' = TotalLamports
  <1> DEFINE gain == wallet'[w] - wallet[w]
  <1>1. SumFunction(wallet') = SumFunction(wallet) + gain
    BY WalletTotalChanges
  <1>2. wallet[w] \in Int /\ wallet'[w] \in Int
    BY WalletTotalChanges
  <1>3. Held(a) \in Int /\ Held(a)' \in Int
    BY AccountTotalsChange
  <1>4. /\ validatorFeesVault[v].lamports \in Int /\ validatorFeesVault'[v].lamports \in Int
        /\ feesVault.lamports \in Int /\ feesVault'.lamports \in Int
    BY VaultTotalChanges, PdaContents DEF TypeOK
  <1>5. Held(a)' + validatorFeesVault'[v].lamports + feesVault'.lamports + gain
          = Held(a) + validatorFeesVault[v].lamports + feesVault.lamports
    <2> DEFINE held == Held(a)
               vault == validatorFeesVault[v].lamports
               fees == feesVault.lamports
               purse == wallet[w]
    <2>1. held' + vault' + fees' + purse' = held + vault + fees + purse
      OBVIOUS
    <2>2. /\ held \in Int /\ vault \in Int /\ fees \in Int /\ purse \in Int
          /\ held' \in Int /\ vault' \in Int /\ fees' \in Int /\ purse' \in Int
      BY <1>2, <1>3, <1>4
    <2>3. gain = purse' - purse
      OBVIOUS
    <2> HIDE DEF held, vault, fees, purse, gain
    <2>4. held' + vault' + fees' + gain = held + vault + fees
      BY <2>1, <2>2, <2>3
    <2> QED
      BY <2>4 DEF held, vault, fees, purse
  <1>6. gain \in Int
    BY <1>2
  <1> HIDE DEF gain
  <1> QED
    BY <1>1, <1>5, <1>6, PaymentStepConserves

\* Lamports that move between the vaults and a wallet.
LEMMA VaultStepConserves ==
    ASSUME TypeOK, TypeOK', NEW v \in Validators, NEW w \in Wallets,
           \A u \in Validators \ {v} : validatorFeesVault'[u] = validatorFeesVault[u],
           \A u \in Wallets \ {w} : wallet'[u] = wallet[u],
           UNCHANGED <<delegatedAccount, delegationRecord, delegationMetadata, commitState,
                       commitRecord, programConfig>>,
           validatorFeesVault'[v].lamports + feesVault'.lamports + wallet'[w]
              = validatorFeesVault[v].lamports + feesVault.lamports + wallet[w]
    PROVE  TotalLamports' = TotalLamports
  <1>1. /\ SumFunction(wallet') = SumFunction(wallet) + (wallet'[w] - wallet[w])
        /\ wallet[w] \in Int /\ wallet'[w] \in Int
    BY WalletTotalChanges
  <1>2. /\ TotalOf(validatorFeesVault') = TotalOf(validatorFeesVault)
              + (validatorFeesVault'[v].lamports - validatorFeesVault[v].lamports)
        /\ validatorFeesVault[v].lamports \in Int /\ validatorFeesVault'[v].lamports \in Int
    BY VaultTotalChanges
  <1>3. feesVault.lamports \in Int /\ feesVault'.lamports \in Int
    BY PdaContents DEF TypeOK
  <1>4. TotalLamports = AccountTotals + TotalOf(validatorFeesVault) + feesVault.lamports
                           + TotalOf(programConfig) + SumFunction(wallet)
    BY DEF TotalLamports, AccountTotals
  <1>5. TotalLamports' = AccountTotals + TotalOf(validatorFeesVault') + feesVault'.lamports
                           + TotalOf(programConfig) + SumFunction(wallet')
    BY DEF TotalLamports, AccountTotals
  <1> QED
    BY <1>1, <1>2, <1>3, <1>4, <1>5, TotalsAreNumbers

\* Lamports that move between the protocol's vault and a wallet.
LEMMA ProtocolStepConserves ==
    ASSUME TypeOK, TypeOK', NEW w \in Wallets,
           \A u \in Wallets \ {w} : wallet'[u] = wallet[u],
           UNCHANGED <<delegatedAccount, delegationRecord, delegationMetadata, commitState,
                       commitRecord, validatorFeesVault, programConfig>>,
           feesVault'.lamports + wallet'[w] = feesVault.lamports + wallet[w]
    PROVE  TotalLamports' = TotalLamports
  <1>1. /\ SumFunction(wallet') = SumFunction(wallet) + (wallet'[w] - wallet[w])
        /\ wallet[w] \in Int /\ wallet'[w] \in Int
    BY WalletTotalChanges
  <1>2. feesVault.lamports \in Int /\ feesVault'.lamports \in Int
    BY PdaContents DEF TypeOK
  <1>3. TotalLamports = AccountTotals + TotalOf(validatorFeesVault) + feesVault.lamports
                           + TotalOf(programConfig) + SumFunction(wallet)
    BY DEF TotalLamports, AccountTotals
  <1>4. TotalLamports' = AccountTotals + TotalOf(validatorFeesVault) + feesVault'.lamports
                           + TotalOf(programConfig) + SumFunction(wallet')
    BY DEF TotalLamports, AccountTotals
  <1> QED
    BY <1>1, <1>2, <1>3, <1>4, TotalsAreNumbers

\* Lamports that move between a configuration and a wallet.
LEMMA ConfigStepConserves ==
    ASSUME TypeOK, TypeOK', NEW p \in Owners, NEW w \in Wallets,
           \A q \in Owners \ {p} : programConfig'[q] = programConfig[q],
           \A u \in Wallets \ {w} : wallet'[u] = wallet[u],
           UNCHANGED <<delegatedAccount, delegationRecord, delegationMetadata, commitState,
                       commitRecord, validatorFeesVault, feesVault>>,
           programConfig'[p].lamports + wallet'[w] = programConfig[p].lamports + wallet[w]
    PROVE  TotalLamports' = TotalLamports
  <1>1. /\ SumFunction(wallet') = SumFunction(wallet) + (wallet'[w] - wallet[w])
        /\ wallet[w] \in Int /\ wallet'[w] \in Int
    BY WalletTotalChanges
  <1>2. /\ TotalOf(programConfig') = TotalOf(programConfig)
              + (programConfig'[p].lamports - programConfig[p].lamports)
        /\ programConfig[p].lamports \in Int /\ programConfig'[p].lamports \in Int
    BY ConfigTotalChanges
  <1>3. TotalLamports = AccountTotals + TotalOf(validatorFeesVault) + feesVault.lamports
                           + TotalOf(programConfig) + SumFunction(wallet)
    BY DEF TotalLamports, AccountTotals
  <1>4. TotalLamports' = AccountTotals + TotalOf(validatorFeesVault) + feesVault.lamports
                           + TotalOf(programConfig') + SumFunction(wallet')
    BY DEF TotalLamports, AccountTotals
  <1> QED
    BY <1>1, <1>2, <1>3, <1>4, TotalsAreNumbers

-----------------------------------------------------------------------------
(* The instructions. *)

\* A deposit moves lamports from a wallet to an account.
LEMMA DepositConserves ==
    ASSUME Inv, Inv', NEW a \in Accounts, NEW payer \in Depositors, NEW amount \in Deposits,
           Deposit(payer, a, amount)
    PROVE  TotalLamports' = TotalLamports
  <1>1. amount \in Nat /\ payer \in Wallets
    BY DepositsAssumption
  <1>2. /\ delegatedAccount' =
              [delegatedAccount EXCEPT ![a] = [delegatedAccount[a] EXCEPT !.lamports = @ + amount]]
        /\ wallet' = [wallet EXCEPT ![payer] = @ - amount]
        /\ UNCHANGED <<delegationRecord, delegationMetadata, commitState, commitRecord,
                       validatorFeesVault, feesVault, programConfig>>
    BY DEF Deposit, delegationPdas, commitPdas, vaults
  <1>3. TypeOK /\ TypeOK' /\ delegatedAccount[a] \in DelegatableAccount
    BY DEF Inv, TypeOK
  <1>4. /\ \A b \in Accounts \ {a} : AccountUnchanged(b)
        /\ \A u \in Wallets \ {payer} : wallet'[u] = wallet[u]
    BY <1>2, <1>3 DEF TypeOK, AccountUnchanged
  <1>5. /\ delegatedAccount'[a].lamports = delegatedAccount[a].lamports + amount
        /\ wallet'[payer] = wallet[payer] - amount
    BY <1>1, <1>2, <1>3 DEF TypeOK, DelegatableAccount
  <1>6. Held(a)' + wallet'[payer] = Held(a) + wallet[payer]
    BY <1>1, <1>2, <1>3, <1>5, LamportsAreNumbers DEF Held
  <1> QED
    BY <1>1, <1>2, <1>3, <1>4, <1>6, AccountStepConserves

\* So does a deposit to a commit state PDA.
LEMMA DepositToCommitStateConserves ==
    ASSUME Inv, Inv', NEW a \in Accounts, NEW payer \in Depositors, NEW amount \in Deposits,
           DepositToCommitState(payer, a, amount)
    PROVE  TotalLamports' = TotalLamports
  <1>1. amount \in Nat /\ payer \in Wallets
    BY DepositsAssumption
  <1>2. /\ commitState' = [commitState EXCEPT ![a] = [commitState[a] EXCEPT !.lamports = @ + amount]]
        /\ wallet' = [wallet EXCEPT ![payer] = @ - amount]
        /\ UNCHANGED <<delegatedAccount, delegationRecord, delegationMetadata, commitRecord,
                       validatorFeesVault, feesVault, programConfig>>
    BY DEF DepositToCommitState, delegationPdas, commitPdas, vaults
  <1>3. TypeOK /\ TypeOK' /\ commitState[a] \in Pda(Data)
    BY DEF Inv, TypeOK
  <1>4. /\ \A b \in Accounts \ {a} : AccountUnchanged(b)
        /\ \A u \in Wallets \ {payer} : wallet'[u] = wallet[u]
    BY <1>2, <1>3 DEF TypeOK, AccountUnchanged
  <1>5. /\ commitState'[a].lamports = commitState[a].lamports + amount
        /\ wallet'[payer] = wallet[payer] - amount
    BY <1>1, <1>2, <1>3 DEF TypeOK, Pda
  <1>6. Held(a)' + wallet'[payer] = Held(a) + wallet[payer]
    BY <1>1, <1>2, <1>3, <1>5, LamportsAreNumbers DEF Held
  <1> QED
    BY <1>1, <1>2, <1>3, <1>4, <1>6, AccountStepConserves

\* A program that writes its account moves no lamports.
LEMMA OwnerWriteConserves ==
    ASSUME Inv, Inv', NEW a \in Accounts, NEW data \in Data, OwnerWrite(a, data)
    PROVE  TotalLamports' = TotalLamports
  <1>1. /\ delegatedAccount' =
              [delegatedAccount EXCEPT ![a] = [delegatedAccount[a] EXCEPT !.data = data]]
        /\ UNCHANGED <<delegationRecord, delegationMetadata, commitState, commitRecord,
                       validatorFeesVault, feesVault, programConfig, wallet>>
    BY DEF OwnerWrite, delegationPdas, commitPdas, vaults
  <1>2. TypeOK /\ TypeOK' /\ delegatedAccount[a] \in DelegatableAccount
    BY DEF Inv, TypeOK
  <1>3. \A b \in Accounts \ {a} : AccountUnchanged(b)
    BY <1>1, <1>2 DEF TypeOK, AccountUnchanged
  <1>4. delegatedAccount'[a].lamports = delegatedAccount[a].lamports
    BY <1>1, <1>2 DEF TypeOK, DelegatableAccount
  <1>5. Held(a)' + wallet'[Admin] = Held(a) + wallet[Admin]
    BY <1>1, <1>4 DEF Held
  <1> QED
    BY <1>1, <1>2, <1>3, <1>5, LedgerAssumption, AccountStepConserves

\* A program that creates its PDA tops it up from a wallet.
LEMMA OwnerCreateConserves ==
    ASSUME Inv, Inv', NEW a \in Accounts, NEW payer \in Wallets, NEW data \in Data,
           OwnerCreate(payer, a, data)
    PROVE  TotalLamports' = TotalLamports
  <1> DEFINE cost == TopUpCost(delegatedAccount[a], DataRent[data])
             created == CreatedPda(delegatedAccount[a], OwnerProgram[a], DataRent[data], data)
  <1>1. /\ delegatedAccount' = [delegatedAccount EXCEPT ![a] = created]
        /\ wallet' = [wallet EXCEPT ![payer] = @ - cost]
        /\ UNCHANGED <<delegationRecord, delegationMetadata, commitState, commitRecord,
                       validatorFeesVault, feesVault, programConfig>>
    BY DEF OwnerCreate, delegationPdas, commitPdas, vaults
  <1>2. TypeOK /\ TypeOK'
    BY DEF Inv
  <1>3. cost \in Nat /\ created.lamports = delegatedAccount[a].lamports + cost
    <2>1. delegatedAccount[a].lamports \in Nat /\ DataRent[data] \in Nat
      BY <1>2, LamportsAreNumbers, LedgerAssumption
    <2> QED
      BY <2>1 DEF CreatedPda, TopUpCost, Account
  <1> HIDE DEF cost, created
  <1>4. /\ \A b \in Accounts \ {a} : AccountUnchanged(b)
        /\ \A u \in Wallets \ {payer} : wallet'[u] = wallet[u]
        /\ delegatedAccount'[a] = created
        /\ wallet'[payer] = wallet[payer] - cost
    BY <1>1, <1>2 DEF TypeOK, AccountUnchanged
  <1>5. Held(a)' + wallet'[payer] = Held(a) + wallet[payer]
    BY <1>1, <1>2, <1>3, <1>4, LamportsAreNumbers DEF Held
  <1> QED
    BY <1>1, <1>2, <1>4, <1>5, AccountStepConserves

\* Delegating moves the rent of the delegation PDAs into them, and the account
\* keeps its lamports.
LEMMA ProcessDelegateConserves ==
    ASSUME TypeOK, TypeOK', NEW a \in Accounts, NEW payer \in Wallets, NEW program \in Owners,
           NEW handed, NEW taken, taken.lamports = delegatedAccount[a].lamports,
           ProcessDelegate(payer, a, program, handed, taken)
    PROVE  TotalLamports' = TotalLamports
  <1> DEFINE recordData == [owner |-> program, lamports |-> handed.lamports]
             metadataData == [lastUpdateSlot |-> 0, isUndelegatable |-> FALSE, rentPayer |-> payer]
             record == CreatedPda(delegationRecord[a], Dlp, RecordRent, recordData)
             metadata == CreatedPda(delegationMetadata[a], Dlp, MetadataRent, metadataData)
             recordCost == TopUpCost(delegationRecord[a], RecordRent)
             metadataCost == TopUpCost(delegationMetadata[a], MetadataRent)
  <1>1. /\ delegatedAccount' = [delegatedAccount EXCEPT ![a] = taken]
        /\ delegationRecord' = [delegationRecord EXCEPT ![a] = record]
        /\ delegationMetadata' = [delegationMetadata EXCEPT ![a] = metadata]
        /\ wallet' = [wallet EXCEPT ![payer] = @ - (recordCost + metadataCost)]
        /\ UNCHANGED <<commitState, commitRecord, validatorFeesVault, feesVault, programConfig>>
    BY DEF ProcessDelegate, commitPdas, vaults
  <1> HIDE DEF recordData, metadataData
  <1>2. /\ recordCost \in Nat /\ record.lamports = delegationRecord[a].lamports + recordCost
        /\ metadataCost \in Nat /\ metadata.lamports = delegationMetadata[a].lamports + metadataCost
    <2>1. /\ delegationRecord[a].lamports \in Nat /\ RecordRent \in Nat
          /\ delegationMetadata[a].lamports \in Nat /\ MetadataRent \in Nat
      BY LamportsAreNumbers, LedgerAssumption
    <2> QED
      BY <2>1 DEF CreatedPda, TopUpCost, Account
  <1> HIDE DEF record, metadata, recordCost, metadataCost
  <1>3. /\ \A b \in Accounts \ {a} : AccountUnchanged(b)
        /\ \A u \in Wallets \ {payer} : wallet'[u] = wallet[u]
        /\ delegatedAccount'[a] = taken
        /\ delegationRecord'[a] = record
        /\ delegationMetadata'[a] = metadata
        /\ commitState'[a] = commitState[a] /\ commitRecord'[a] = commitRecord[a]
        /\ wallet'[payer] = wallet[payer] - (recordCost + metadataCost)
    BY <1>1 DEF TypeOK, AccountUnchanged
  <1>4. Held(a)' + wallet'[payer] = Held(a) + wallet[payer]
    BY <1>2, <1>3, LamportsAreNumbers DEF Held
  <1> QED
    BY <1>1, <1>3, <1>4, AccountStepConserves

\* An account keeps its lamports when it is removed because it has none.
LEMMA PurgingKeepsLamports ==
    ASSUME NEW acc
    PROVE  Purged(acc).lamports = acc.lamports
  BY DEF Purged, Absent, Account

\* The owner program hands the account over with its lamports.
LEMMA DelegateConserves ==
    ASSUME Inv, Inv', NEW a \in Accounts, NEW payer \in Wallets, NEW program \in Owners,
           Delegate(payer, a, program)
    PROVE  TotalLamports' = TotalLamports
  <1> DEFINE home == delegatedAccount[a]
             handed == [home EXCEPT !.owner = Dlp,
                                    !.data = IF home.data = NoData THEN NoData ELSE Zeroed]
             restored == Restored(handed, home.data)
  <1>1. ProcessDelegate(payer, a, program, handed, Purged(restored))
    BY DEF Delegate
  <1>2. TypeOK /\ TypeOK' /\ home \in DelegatableAccount
    BY DEF Inv, TypeOK
  <1>3. restored.lamports = home.lamports
    <2>1. handed.lamports = home.lamports
            /\ [handed EXCEPT !.data = home.data].lamports = home.lamports
      BY <1>2 DEF DelegatableAccount
    <2> HIDE DEF handed
    <2> QED
      BY <2>1 DEF Restored
  <1> HIDE DEF handed, restored
  <1>4. Purged(restored).lamports = delegatedAccount[a].lamports
    BY <1>3, PurgingKeepsLamports
  <1> QED
    BY <1>1, <1>2, <1>4, ProcessDelegateConserves

\* So does the system program an escrow.
LEMMA DelegateEphemeralBalanceConserves ==
    ASSUME Inv, Inv', NEW a \in Accounts, NEW payer \in Wallets, NEW pubkey \in Wallets,
           DelegateEphemeralBalance(payer, pubkey, a)
    PROVE  TotalLamports' = TotalLamports
  <1> DEFINE escrow == delegatedAccount[a]
             handed == [escrow EXCEPT !.owner = Dlp]
  <1>1. ProcessDelegate(payer, a, SystemProgram, handed, Purged(Restored(handed, NoData)))
    BY DEF DelegateEphemeralBalance
  <1>2. TypeOK /\ TypeOK' /\ escrow \in DelegatableAccount /\ SystemProgram \in Owners
    BY DEF Inv, TypeOK, Owners
  <1>3. handed.lamports = escrow.lamports /\ Restored(handed, NoData) = handed
    BY <1>2 DEF DelegatableAccount, Restored
  <1> HIDE DEF handed
  <1>4. Purged(Restored(handed, NoData)).lamports = delegatedAccount[a].lamports
    BY <1>3, PurgingKeepsLamports
  <1> QED
    BY <1>1, <1>2, <1>4, ProcessDelegateConserves

\* Closing the delegation PDAs pays out all they hold, and no more, beside what the
\* account loses to the validator.
LEMMA CleanupConserves ==
    ASSUME TypeOK, TypeOK', NEW a \in Accounts, NEW v \in Validators, NEW reimbursed \in Wallets,
           NEW withheld \in Nat, NEW returned,
           returned.lamports = delegatedAccount[a].lamports - withheld,
           delegatedAccount' = [delegatedAccount EXCEPT ![a] = returned],
           Cleanup(v, a, reimbursed, [wallet EXCEPT ![v] = @ + withheld]),
           UNCHANGED <<commitPdas, programConfig>>
    PROVE  TotalLamports' = TotalLamports
  <1> DEFINE record == FeeSplit(delegationRecord[a].lamports)
             metadata == FeeSplit(delegationMetadata[a].lamports)
             fees == validatorFeesVault[v].lamports + record.validator + metadata.validator
             protocolFees == feesVault.lamports + record.protocol + metadata.protocol
             purse == [wallet EXCEPT ![v] = @ + withheld]
             refund == record.refund + metadata.refund
  <1>1. /\ delegationRecord' = [delegationRecord EXCEPT ![a] = Absent]
        /\ delegationMetadata' = [delegationMetadata EXCEPT ![a] = Absent]
        /\ validatorFeesVault' =
              [validatorFeesVault EXCEPT ![v] = [validatorFeesVault[v] EXCEPT !.lamports = fees]]
        /\ feesVault' = [feesVault EXCEPT !.lamports = protocolFees]
        /\ wallet' = [purse EXCEPT ![reimbursed] = purse[reimbursed] + record.refund + metadata.refund]
        /\ UNCHANGED <<commitState, commitRecord, programConfig>>
    BY DEF Cleanup, commitPdas
  <1>2. /\ delegationRecord[a].lamports \in Nat /\ delegationMetadata[a].lamports \in Nat
        /\ validatorFeesVault[v].lamports \in Nat /\ feesVault.lamports \in Nat
        /\ delegatedAccount[a].lamports \in Nat
        /\ commitState[a].lamports \in Nat /\ commitRecord[a].lamports \in Nat
    BY LamportsAreNumbers
  <1>3. /\ record.validator \in Nat /\ record.protocol \in Nat /\ record.refund \in Nat
        /\ record.protocol + record.validator + record.refund = delegationRecord[a].lamports
        /\ metadata.validator \in Nat /\ metadata.protocol \in Nat /\ metadata.refund \in Nat
        /\ metadata.protocol + metadata.validator + metadata.refund = delegationMetadata[a].lamports
    BY <1>2, FeeSplitIsExact
  <1>4. SumFunction(wallet') = SumFunction(wallet) + (withheld + refund)
    <2>1. /\ wallet \in [Wallets -> Nat] /\ wallet \in [Wallets -> Int]
          /\ v \in Wallets /\ IsFiniteSet(Wallets)
      BY LedgerIsFinite, LedgerAssumption DEF TypeOK
    <2>2. purse \in [Wallets -> Int] /\ purse[v] = wallet[v] + withheld
      BY <2>1
    <2>3. \A w \in Wallets : w # v => purse[w] = wallet[w]
      BY <2>1
    <2> HIDE DEF record, metadata, purse
    <2>4. /\ wallet' \in [Wallets -> Int]
          /\ wallet'[reimbursed] = purse[reimbursed] + record.refund + metadata.refund
          /\ \A w \in Wallets : w # reimbursed => wallet'[w] = purse[w]
      BY <1>1, <1>3, <2>2
    <2>5. /\ SumFunction(wallet) \in Int
          /\ SumFunction(purse) = SumFunction(wallet) + (purse[v] - wallet[v])
      BY <2>1, <2>2, <2>3, SumChanges
    <2>6. /\ SumFunction(purse) \in Int
          /\ SumFunction(wallet') = SumFunction(purse) + (wallet'[reimbursed] - purse[reimbursed])
      BY <2>1, <2>2, <2>4, SumChanges
    <2>7. wallet[v] \in Int /\ purse[reimbursed] \in Int
      BY <2>1, <2>2
    <2> QED
      BY <1>3, <2>2, <2>4, <2>5, <2>6, <2>7
  <1> HIDE DEF record, metadata
  <1>5. fees + protocolFees + refund
          = validatorFeesVault[v].lamports + feesVault.lamports
              + delegationRecord[a].lamports + delegationMetadata[a].lamports
    BY <1>2, <1>3
  <1>6. fees \in Nat /\ protocolFees \in Nat /\ refund \in Nat
    BY <1>2, <1>3
  <1> HIDE DEF fees, protocolFees, refund
  <1>7. /\ validatorFeesVault[v] \in Pda(VaultData) /\ feesVault \in Pda(VaultData)
        /\ DOMAIN validatorFeesVault = Validators
        /\ DOMAIN delegatedAccount = Accounts
        /\ DOMAIN delegationRecord = Accounts /\ DOMAIN delegationMetadata = Accounts
    BY DEF TypeOK
  <1>8. /\ \A b \in Accounts \ {a} : AccountUnchanged(b)
        /\ \A u \in Validators \ {v} : validatorFeesVault'[u] = validatorFeesVault[u]
        /\ delegatedAccount'[a] = returned
        /\ delegationRecord'[a] = Absent
        /\ delegationMetadata'[a] = Absent
    BY <1>1, <1>7 DEF AccountUnchanged
  <1>9. validatorFeesVault'[v].lamports = fees /\ feesVault'.lamports = protocolFees
    BY <1>1, <1>6, <1>7, PaidPdaIsTyped
  <1>10. Absent.lamports = 0
    BY DEF Absent, Account
  <1> DEFINE gain == withheld + refund
  <1>11. gain \in Int
    BY <1>6
  <1>12. Held(a)' + validatorFeesVault'[v].lamports + feesVault'.lamports + gain
           = Held(a) + validatorFeesVault[v].lamports + feesVault.lamports
    <2>1. Held(a)' = delegatedAccount[a].lamports - withheld
                       + commitState[a].lamports + commitRecord[a].lamports
      BY <1>1, <1>2, <1>8, <1>10 DEF Held
    <2>2. Held(a) = delegatedAccount[a].lamports + commitState[a].lamports + commitRecord[a].lamports
                      + delegationRecord[a].lamports + delegationMetadata[a].lamports
      BY <1>2 DEF Held
    <2>3. Held(a)' + validatorFeesVault'[v].lamports + feesVault'.lamports + gain
            = Held(a)' + fees + protocolFees + (withheld + refund)
      BY <1>9
    <2>4. Held(a)' \in Int
      BY <1>2, <2>1
    <2> HIDE DEF gain
    <2> QED
      BY <1>2, <1>5, <1>6, <2>1, <2>2, <2>3, <2>4
  <1>13. SumFunction(wallet') = SumFunction(wallet) + gain
    BY <1>4
  <1> HIDE DEF gain
  <1> QED
    BY <1>1, <1>8, <1>11, <1>12, <1>13, PaymentStepConserves

\* An undelegated account goes home with its lamports, but for what its owner
\* program moved to the validator.
LEMMA UndelegateConserves ==
    ASSUME Inv, Inv', NEW a \in Accounts, NEW v \in Validators, NEW program \in Owners,
           NEW reimbursed \in Wallets,
           UndelegateEmpty(v, a, program, reimbursed) \/ UndelegateViaCpi(v, a, program, reimbursed)
    PROVE  TotalLamports' = TotalLamports
  <1>1. PICK withheld \in Nat :
           LET left == [owner |-> program, lamports |-> delegatedAccount[a].lamports - withheld,
                        data |-> delegatedAccount[a].data]
           IN  /\ delegatedAccount' = [delegatedAccount EXCEPT ![a] = Purged(left)]
               /\ Cleanup(v, a, reimbursed, [wallet EXCEPT ![v] = @ + withheld])
               /\ UNCHANGED <<commitPdas, programConfig>>
    BY UndelegateWrites
  <1> DEFINE left == [owner |-> program, lamports |-> delegatedAccount[a].lamports - withheld,
                      data |-> delegatedAccount[a].data]
             returned == Purged(left)
  <1>2. returned.lamports = delegatedAccount[a].lamports - withheld
    BY PurgingKeepsLamports
  <1>3. TypeOK /\ TypeOK'
    BY DEF Inv
  <1>4. /\ delegatedAccount' = [delegatedAccount EXCEPT ![a] = returned]
        /\ Cleanup(v, a, reimbursed, [wallet EXCEPT ![v] = @ + withheld])
        /\ UNCHANGED <<commitPdas, programConfig>>
    BY <1>1
  <1> HIDE DEF returned
  <1> QED
    BY <1>2, <1>3, <1>4, CleanupConserves

\* A commit moves the collateral and the rent of the commit PDAs into them.
LEMMA CommitConserves ==
    ASSUME Inv, Inv', NEW a \in Accounts, NEW v \in Validators, NEW args \in CommitArgs(Data),
           CommitStateInternal(v, a, args)
    PROVE  TotalLamports' = TotalLamports
  <1> DEFINE extra == Collateral(DelegatedLamports(a), args.lamports)
             funded == [commitState[a] EXCEPT !.lamports = @ + extra]
             rent == DataRent[args.data]
             stateCost == TopUpCost(funded, rent)
             recordCost == TopUpCost(commitRecord[a], CommitRecordRent)
             commit == [identity |-> v, account |-> a, slot |-> args.slot, lamports |-> args.lamports]
             allowed == [delegationMetadata[a].data EXCEPT !.isUndelegatable = args.allowUndelegation]
             metadata == [delegationMetadata[a] EXCEPT !.data = allowed]
             state == CreatedPda(funded, Dlp, rent, args.data)
             record == CreatedPda(commitRecord[a], Dlp, CommitRecordRent, commit)
  <1>1. /\ IsDelegated(a)
        /\ delegationMetadata' = [delegationMetadata EXCEPT ![a] = metadata]
        /\ commitState' = [commitState EXCEPT ![a] = state]
        /\ commitRecord' = [commitRecord EXCEPT ![a] = record]
        /\ wallet' = [wallet EXCEPT ![v] = @ - (extra + stateCost + recordCost)]
        /\ UNCHANGED <<delegatedAccount, delegationRecord, validatorFeesVault, feesVault, programConfig>>
    BY DEF CommitStateInternal, CanCommit, DelegatedLamports, vaults
  <1>2. args.data \in Data /\ args.lamports \in Nat /\ v \in Wallets
    BY CommitAssumption, LedgerAssumption DEF CommitArgs
  <1>3. /\ TypeOK /\ TypeOK' /\ Typed(a)
        /\ delegationMetadata[a] \in Pda(MetadataData)
        /\ commitState[a] \in Pda(Data)
        /\ commitState[a].lamports \in Nat /\ commitRecord[a].lamports \in Nat
        /\ rent \in Nat /\ CommitRecordRent \in Nat
    BY <1>2, AccountsAreTyped, LedgerAssumption DEF Inv, TypeOK, Typed
  <1>4. DelegatedLamports(a) \in Nat
    BY <1>1, <1>3 DEF Typed, IsDelegated
  <1>5. extra \in Nat
    BY <1>2, <1>4 DEF Collateral
  <1> HIDE DEF extra, allowed, commit, rent
  <1>6. funded.lamports = commitState[a].lamports + extra
    <2>1. commitState[a].lamports + extra \in Nat
      BY <1>3, <1>5
    <2> QED
      BY <1>3, <2>1, PaidPdaIsTyped
  <1> HIDE DEF funded
  <1>7. stateCost \in Nat /\ state.lamports = commitState[a].lamports + extra + stateCost
    BY <1>3, <1>5, <1>6 DEF CreatedPda, TopUpCost, Account
  <1>8. recordCost \in Nat /\ record.lamports = commitRecord[a].lamports + recordCost
    BY <1>3 DEF CreatedPda, TopUpCost, Account
  <1>9. metadata.lamports = delegationMetadata[a].lamports
    BY <1>3 DEF Pda
  <1> HIDE DEF stateCost, state, recordCost, record, metadata
  <1>10. /\ \A b \in Accounts \ {a} : AccountUnchanged(b)
         /\ \A u \in Wallets \ {v} : wallet'[u] = wallet[u]
         /\ delegationMetadata'[a] = metadata
         /\ commitState'[a] = state
         /\ commitRecord'[a] = record
         /\ wallet'[v] = wallet[v] - (extra + stateCost + recordCost)
    BY <1>1, <1>2, <1>3 DEF TypeOK, AccountUnchanged
  <1>11. Held(a)' + wallet'[v] = Held(a) + wallet[v]
    <2>1. /\ delegatedAccount[a].lamports \in Nat /\ delegationRecord[a].lamports \in Nat
          /\ delegationMetadata[a].lamports \in Nat /\ wallet[v] \in Nat
      BY <1>2, <1>3, LamportsAreNumbers
    <2>2. Held(a)' = Held(a) + (extra + stateCost + recordCost)
      BY <1>1, <1>3, <1>5, <1>7, <1>8, <1>9, <1>10, <2>1 DEF Held
    <2>3. Held(a) \in Nat
      BY <1>3, <2>1 DEF Held
    <2> QED
      BY <1>5, <1>7, <1>8, <1>10, <2>1, <2>2, <2>3
  <1> QED
    BY <1>1, <1>2, <1>3, <1>10, <1>11, AccountStepConserves

\* Both commit instructions, inline or from a buffer.
LEMMA CommitStateConserves ==
    ASSUME Inv, Inv', NEW a \in Accounts, NEW v \in Validators,
           CommitState(v, a) \/ CommitStateFromBuffer(v, a)
    PROVE  TotalLamports' = TotalLamports
  <1>1. PICK args \in CommitArgs(InlineData) \cup CommitArgs(BufferData) :
           CommitStateInternal(v, a, args)
    BY DEF CommitState, CommitStateFromBuffer
  <1>2. args \in CommitArgs(Data)
    BY CommitAssumption DEF CommitArgs
  <1> QED
    BY <1>1, <1>2, CommitConserves

\* A settlement moves lamports between the account, the validator's vault and the
\* commit PDAs, whose leftover is the validator's.
LEMMA FinalizeConserves ==
    ASSUME Inv, Inv', NEW a \in Accounts, NEW v \in Validators, Finalize(v, a)
    PROVE  TotalLamports' = TotalLamports
  <1> DEFINE settlement == Settlement(DelegatedLamports(a), commitRecord[a].data.lamports)
             lamports == delegatedAccount[a].lamports - settlement.toVault + settlement.toAccount
             leftover == commitState[a].lamports - settlement.toAccount + commitRecord[a].lamports
             left == Purged(SettledAccount(a))
             recordData == [delegationRecord[a].data EXCEPT !.lamports = SettledAccount(a).lamports]
             metadataData ==
                [delegationMetadata[a].data EXCEPT !.lastUpdateSlot = commitRecord[a].data.slot]
             record == [delegationRecord[a] EXCEPT !.data = recordData]
             metadata == [delegationMetadata[a] EXCEPT !.data = metadataData]
             fees == validatorFeesVault[v].lamports + settlement.toVault
             paid == [validatorFeesVault[v] EXCEPT !.lamports = fees]
  <1>1. /\ IsDelegated(a)
        /\ HasPendingCommit(a)
        /\ delegatedAccount' = [delegatedAccount EXCEPT ![a] = left]
        /\ delegationRecord' = [delegationRecord EXCEPT ![a] = record]
        /\ delegationMetadata' = [delegationMetadata EXCEPT ![a] = metadata]
        /\ commitState' = [commitState EXCEPT ![a] = Absent]
        /\ commitRecord' = [commitRecord EXCEPT ![a] = Absent]
        /\ validatorFeesVault' = [validatorFeesVault EXCEPT ![v] = paid]
        /\ wallet' = [wallet EXCEPT ![v] = @ + leftover]
        /\ UNCHANGED <<feesVault, programConfig>>
    BY DEF Finalize, ProcessFinalize, SettledRecord
  <1>2. /\ TypeOK /\ TypeOK' /\ Typed(a)
        /\ delegatedAccount[a] \in DelegatableAccount
        /\ delegationRecord[a] \in Pda(RecordData)
        /\ delegationMetadata[a] \in Pda(MetadataData)
        /\ validatorFeesVault[v] \in Pda(VaultData)
        /\ v \in Wallets
    BY AccountsAreTyped, LedgerAssumption DEF Inv, TypeOK
  <1>3. /\ delegatedAccount[a].lamports \in Nat
        /\ delegationRecord[a].lamports \in Nat
        /\ delegationMetadata[a].lamports \in Nat
        /\ commitState[a].lamports \in Nat
        /\ commitRecord[a].lamports \in Nat
        /\ validatorFeesVault[v].lamports \in Nat
        /\ feesVault.lamports \in Nat
        /\ wallet[v] \in Nat
        /\ DelegatedLamports(a) \in Nat
        /\ commitRecord[a].data.lamports \in Nat
    BY <1>1, <1>2, LamportsAreNumbers DEF Typed, IsDelegated, HasPendingCommit
  <1>4. settlement.toVault \in Nat /\ settlement.toAccount \in Nat
    BY <1>3, SettlementIsOneSided
  <1>5. left.lamports = lamports
    <2>1. SettledAccount(a)
            = [delegatedAccount[a] EXCEPT !.lamports = lamports, !.data = commitState[a].data]
      BY DEF SettledAccount
    <2> HIDE DEF lamports
    <2>2. SettledAccount(a).lamports = lamports
      BY <1>2, <2>1 DEF DelegatableAccount
    <2> QED
      BY <2>2, PurgingKeepsLamports
  <1> HIDE DEF settlement, recordData, metadataData, left
  <1>6. /\ record.lamports = delegationRecord[a].lamports
        /\ metadata.lamports = delegationMetadata[a].lamports
    BY <1>2 DEF Pda
  <1>7. paid.lamports = fees
    <2> HIDE DEF fees
    <2> QED
      BY <1>2 DEF Pda
  <1> HIDE DEF record, metadata, paid
  <1>8. /\ \A b \in Accounts \ {a} : AccountUnchanged(b)
        /\ \A u \in Validators \ {v} : validatorFeesVault'[u] = validatorFeesVault[u]
        /\ \A u \in Wallets \ {v} : wallet'[u] = wallet[u]
        /\ delegatedAccount'[a] = left
        /\ delegationRecord'[a] = record
        /\ delegationMetadata'[a] = metadata
        /\ commitState'[a] = Absent
        /\ commitRecord'[a] = Absent
        /\ validatorFeesVault'[v] = paid
        /\ wallet'[v] = wallet[v] + leftover
    BY <1>1, <1>2 DEF TypeOK, AccountUnchanged
  <1>9. Absent.lamports = 0
    BY DEF Absent, Account
  <1>10. Held(a)' + validatorFeesVault'[v].lamports + feesVault'.lamports + wallet'[v]
           = Held(a) + validatorFeesVault[v].lamports + feesVault.lamports + wallet[v]
    BY <1>1, <1>3, <1>4, <1>5, <1>6, <1>7, <1>8, <1>9 DEF Held
  <1> QED
    BY <1>1, <1>2, <1>8, <1>10, SettlementStepConserves

\* Creating the protocol's vault costs its payer what the vault gains.
LEMMA InitProtocolFeesVaultConserves ==
    ASSUME Inv, Inv', NEW payer \in Wallets, InitProtocolFeesVault(payer)
    PROVE  TotalLamports' = TotalLamports
  <1> DEFINE cost == TopUpCost(feesVault, VaultRent)
  <1>1. /\ feesVault' = CreatedVault(feesVault)
        /\ wallet' = [wallet EXCEPT ![payer] = @ - cost]
        /\ UNCHANGED <<delegatedAccount, delegationRecord, delegationMetadata, commitState,
                       commitRecord, validatorFeesVault, programConfig>>
    BY DEF InitProtocolFeesVault, delegationPdas, commitPdas
  <1>2. TypeOK /\ TypeOK' /\ feesVault.lamports \in Nat /\ VaultRent \in Nat /\ wallet[payer] \in Nat
    BY VaultsAreTyped DEF Inv
  <1>3. cost \in Nat /\ CreatedVault(feesVault).lamports = feesVault.lamports + cost
    BY <1>2 DEF CreatedVault, CreatedPda, TopUpCost, Account
  <1> HIDE DEF cost
  <1>4. /\ \A u \in Wallets \ {payer} : wallet'[u] = wallet[u]
        /\ wallet'[payer] = wallet[payer] - cost
    BY <1>1, <1>2 DEF TypeOK
  <1>5. feesVault'.lamports + wallet'[payer] = feesVault.lamports + wallet[payer]
    BY <1>1, <1>2, <1>3, <1>4
  <1> QED
    BY <1>1, <1>2, <1>4, <1>5, ProtocolStepConserves

\* So does creating the vault of a validator.
LEMMA InitValidatorFeesVaultConserves ==
    ASSUME Inv, Inv', NEW payer \in Wallets, NEW admin \in Wallets, NEW v \in Validators,
           InitValidatorFeesVault(payer, admin, v)
    PROVE  TotalLamports' = TotalLamports
  <1> DEFINE cost == TopUpCost(validatorFeesVault[v], VaultRent)
             created == CreatedVault(validatorFeesVault[v])
  <1>1. /\ validatorFeesVault' = [validatorFeesVault EXCEPT ![v] = created]
        /\ wallet' = [wallet EXCEPT ![payer] = @ - cost]
        /\ UNCHANGED <<delegatedAccount, delegationRecord, delegationMetadata, commitState,
                       commitRecord, feesVault, programConfig>>
    BY DEF InitValidatorFeesVault, delegationPdas, commitPdas
  <1>2. /\ TypeOK /\ TypeOK' /\ VaultRent \in Nat
        /\ validatorFeesVault[v].lamports \in Nat /\ feesVault.lamports \in Nat
        /\ wallet[payer] \in Nat
    BY VaultsAreTyped DEF Inv
  <1>3. cost \in Nat /\ created.lamports = validatorFeesVault[v].lamports + cost
    BY <1>2 DEF CreatedVault, CreatedPda, TopUpCost, Account
  <1> HIDE DEF cost, created
  <1>4. /\ \A u \in Validators \ {v} : validatorFeesVault'[u] = validatorFeesVault[u]
        /\ \A u \in Wallets \ {payer} : wallet'[u] = wallet[u]
        /\ validatorFeesVault'[v] = created
        /\ wallet'[payer] = wallet[payer] - cost
    BY <1>1, <1>2 DEF TypeOK
  <1>5. validatorFeesVault'[v].lamports + feesVault'.lamports + wallet'[payer]
          = validatorFeesVault[v].lamports + feesVault.lamports + wallet[payer]
    BY <1>1, <1>2, <1>3, <1>4
  <1> QED
    BY <1>1, <1>2, <1>4, <1>5, VaultStepConserves

\* A closed vault pays all it holds to its validator.
LEMMA CloseValidatorFeesVaultConserves ==
    ASSUME Inv, Inv', NEW admin \in Wallets, NEW v \in Validators, CloseValidatorFeesVault(admin, v)
    PROVE  TotalLamports' = TotalLamports
  <1>1. /\ validatorFeesVault' = [validatorFeesVault EXCEPT ![v] = Absent]
        /\ wallet' = [wallet EXCEPT ![v] = @ + validatorFeesVault[v].lamports]
        /\ UNCHANGED <<delegatedAccount, delegationRecord, delegationMetadata, commitState,
                       commitRecord, feesVault, programConfig>>
    BY DEF CloseValidatorFeesVault, delegationPdas, commitPdas
  <1>2. /\ TypeOK /\ TypeOK' /\ v \in Wallets
        /\ validatorFeesVault[v].lamports \in Nat /\ feesVault.lamports \in Nat
        /\ wallet[v] \in Nat
    BY VaultsAreTyped DEF Inv
  <1>3. /\ \A u \in Validators \ {v} : validatorFeesVault'[u] = validatorFeesVault[u]
        /\ \A u \in Wallets \ {v} : wallet'[u] = wallet[u]
        /\ validatorFeesVault'[v] = Absent
        /\ wallet'[v] = wallet[v] + validatorFeesVault[v].lamports
    BY <1>1, <1>2 DEF TypeOK
  <1>4. Absent.lamports = 0
    BY DEF Absent, Account
  <1>5. validatorFeesVault'[v].lamports + feesVault'.lamports + wallet'[v]
          = validatorFeesVault[v].lamports + feesVault.lamports + wallet[v]
    BY <1>1, <1>2, <1>3, <1>4
  <1> QED
    BY <1>1, <1>2, <1>3, <1>5, VaultStepConserves

\* The rounding of the protocol's share is the validator's gain.
LEMMA ValidatorClaimFeesConserves ==
    ASSUME Inv, Inv', NEW v \in Validators, ValidatorClaimFees(v)
    PROVE  TotalLamports' = TotalLamports
  <1>1. PICK amount \in Claims(validatorFeesVault[v]) :
           /\ feesVault' = [feesVault EXCEPT !.lamports = @ + Percent(amount, ProtocolFeesPercentage)]
           /\ validatorFeesVault' = [validatorFeesVault EXCEPT ![v].lamports = @ - amount]
           /\ wallet' = [wallet EXCEPT ![v] = @ + (amount - Percent(amount, ProtocolFeesPercentage))]
    BY DEF ValidatorClaimFees
  <1>2. UNCHANGED <<delegatedAccount, delegationRecord, delegationMetadata, commitState,
                    commitRecord, programConfig>>
    BY DEF ValidatorClaimFees, delegationPdas, commitPdas
  <1>3. /\ TypeOK /\ TypeOK' /\ v \in Wallets
        /\ validatorFeesVault[v] \in Pda(VaultData) /\ feesVault \in Pda(VaultData)
        /\ validatorFeesVault[v].lamports \in Nat /\ feesVault.lamports \in Nat
        /\ wallet[v] \in Nat /\ VaultRent \in Nat
    BY VaultsAreTyped DEF Inv
  <1> DEFINE share == Percent(amount, ProtocolFeesPercentage)
  <1>4. amount \in Int /\ share \in Int
    <2>1. amount \in Int
      BY <1>3, ClaimAssumption DEF Claims, Claimable
    <2> QED
      BY <2>1 DEF Percent, ProtocolFeesPercentage
  <1>5. /\ feesVault' = [feesVault EXCEPT !.lamports = @ + share]
        /\ validatorFeesVault' = [validatorFeesVault EXCEPT ![v].lamports = @ - amount]
        /\ wallet' = [wallet EXCEPT ![v] = @ + (amount - share)]
    BY <1>1
  <1> HIDE DEF share
  <1>6. /\ \A u \in Validators \ {v} : validatorFeesVault'[u] = validatorFeesVault[u]
        /\ \A u \in Wallets \ {v} : wallet'[u] = wallet[u]
        /\ wallet'[v] = wallet[v] + (amount - share)
    BY <1>3, <1>5 DEF TypeOK
  <1>7. /\ validatorFeesVault'[v].lamports = validatorFeesVault[v].lamports - amount
        /\ feesVault'.lamports = feesVault.lamports + share
    BY <1>3, <1>5 DEF TypeOK, Pda
  <1>8. validatorFeesVault'[v].lamports + feesVault'.lamports + wallet'[v]
          = validatorFeesVault[v].lamports + feesVault.lamports + wallet[v]
    BY <1>3, <1>4, <1>6, <1>7
  <1> QED
    BY <1>2, <1>3, <1>6, <1>8, VaultStepConserves

\* The protocol's claim moves lamports from its vault to the admin.
LEMMA ProtocolClaimFeesConserves ==
    ASSUME Inv, Inv', NEW admin \in Wallets, ProtocolClaimFees(admin)
    PROVE  TotalLamports' = TotalLamports
  <1> DEFINE claimed == Claimable(feesVault)
  <1>1. /\ feesVault' = [feesVault EXCEPT !.lamports = @ - claimed]
        /\ wallet' = [wallet EXCEPT ![admin] = @ + claimed]
        /\ UNCHANGED <<delegatedAccount, delegationRecord, delegationMetadata, commitState,
                       commitRecord, validatorFeesVault, programConfig>>
    BY DEF ProtocolClaimFees, delegationPdas, commitPdas
  <1>2. /\ TypeOK /\ TypeOK' /\ feesVault \in Pda(VaultData) /\ feesVault.lamports \in Nat
        /\ wallet[admin] \in Nat /\ claimed \in Int
    BY VaultsAreTyped DEF Inv, Claimable
  <1> HIDE DEF claimed
  <1>3. /\ \A u \in Wallets \ {admin} : wallet'[u] = wallet[u]
        /\ wallet'[admin] = wallet[admin] + claimed
    BY <1>1, <1>2 DEF TypeOK
  <1>4. feesVault'.lamports = feesVault.lamports - claimed
    BY <1>1, <1>2 DEF Pda
  <1>5. feesVault'.lamports + wallet'[admin] = feesVault.lamports + wallet[admin]
    BY <1>2, <1>3, <1>4
  <1> QED
    BY <1>1, <1>2, <1>3, <1>5, ProtocolStepConserves

\* The authority pays what the configuration gains.
LEMMA WhitelistConserves ==
    ASSUME Inv, Inv', NEW authority \in Wallets, NEW v \in Validators, NEW program \in Owners,
           NEW insert \in BOOLEAN, WhitelistValidatorForProgram(authority, v, program, insert)
    PROVE  TotalLamports' = TotalLamports
  <1>1. PICK resized :
           /\ programConfig' = [programConfig EXCEPT ![program] = resized]
           /\ wallet' =
                [wallet EXCEPT ![authority] = @ - (resized.lamports - programConfig[program].lamports)]
    BY DEF WhitelistValidatorForProgram
  <1>2. UNCHANGED <<delegatedAccount, delegationRecord, delegationMetadata, commitState,
                    commitRecord, validatorFeesVault, feesVault>>
    BY DEF WhitelistValidatorForProgram, delegationPdas, commitPdas, vaults
  <1>3. TypeOK /\ TypeOK'
    BY DEF Inv
  <1>4. /\ \A q \in Owners \ {program} : programConfig'[q] = programConfig[q]
        /\ \A u \in Wallets \ {authority} : wallet'[u] = wallet[u]
        /\ programConfig'[program] = resized
        /\ wallet'[authority]
             = wallet[authority] - (resized.lamports - programConfig[program].lamports)
    BY <1>1, <1>3 DEF TypeOK
  <1>5. resized.lamports \in Nat
    <2>1. programConfig'[program] \in Pda(SUBSET Validators)
      BY <1>3 DEF TypeOK
    <2> QED
      BY <1>4, <2>1, PdaContents
  <1>6. programConfig'[program].lamports + wallet'[authority]
          = programConfig[program].lamports + wallet[authority]
    BY <1>3, <1>4, <1>5, LamportsAreNumbers
  <1> QED
    BY <1>2, <1>3, <1>4, <1>6, ConfigStepConserves

\* A top-up moves lamports from its payer to the escrow.
LEMMA TopUpEphemeralBalanceConserves ==
    ASSUME Inv, Inv', NEW a \in Accounts, NEW payer \in Wallets, NEW amount \in TopUpAmounts,
           TopUpEphemeralBalance(payer, a, amount)
    PROVE  TotalLamports' = TotalLamports
  <1> DEFINE escrow == delegatedAccount[a]
             cost == amount + (IF escrow.owner = SystemProgram
                               THEN TopUpCost(escrow, DataRent[NoData])
                               ELSE 0)
  <1>1. /\ delegatedAccount' =
              [delegatedAccount EXCEPT ![a] = [escrow EXCEPT !.lamports = @ + cost]]
        /\ wallet' = [wallet EXCEPT ![payer] = @ - cost]
        /\ UNCHANGED <<delegationRecord, delegationMetadata, commitState, commitRecord,
                       validatorFeesVault, feesVault, programConfig>>
    BY DEF TopUpEphemeralBalance, delegationPdas, commitPdas, vaults
  <1>2. TypeOK /\ TypeOK' /\ escrow \in DelegatableAccount /\ escrow.lamports \in Nat
    BY LamportsAreNumbers DEF Inv, TypeOK
  <1>3. cost \in Nat
    <2>1. amount \in Nat /\ DataRent[NoData] \in Nat
      BY TopUpAssumption, LedgerAssumption
    <2>2. TopUpCost(escrow, DataRent[NoData]) \in Nat
      BY <1>2, <2>1, CreatedPdaIsRentExempt
    <2> QED
      BY <2>1, <2>2
  <1> HIDE DEF cost
  <1>4. /\ \A b \in Accounts \ {a} : AccountUnchanged(b)
        /\ \A u \in Wallets \ {payer} : wallet'[u] = wallet[u]
        /\ delegatedAccount'[a].lamports = delegatedAccount[a].lamports + cost
        /\ wallet'[payer] = wallet[payer] - cost
    BY <1>1, <1>2 DEF TypeOK, AccountUnchanged, DelegatableAccount
  <1>5. Held(a)' + wallet'[payer] = Held(a) + wallet[payer]
    BY <1>1, <1>2, <1>3, <1>4, LamportsAreNumbers DEF Held
  <1> QED
    BY <1>1, <1>2, <1>4, <1>5, AccountStepConserves

\* A closed escrow moves all it holds to its wallet.
LEMMA CloseEphemeralBalanceConserves ==
    ASSUME Inv, Inv', NEW a \in Accounts, NEW payer \in Wallets, CloseEphemeralBalance(payer, a)
    PROVE  TotalLamports' = TotalLamports
  <1> DEFINE escrow == delegatedAccount[a]
             closed == Purged([escrow EXCEPT !.lamports = 0])
  <1>1. /\ delegatedAccount' = [delegatedAccount EXCEPT ![a] = closed]
        /\ wallet' = [wallet EXCEPT ![payer] = @ + escrow.lamports]
        /\ UNCHANGED <<delegationRecord, delegationMetadata, commitState, commitRecord,
                       validatorFeesVault, feesVault, programConfig>>
    BY DEF CloseEphemeralBalance, delegationPdas, commitPdas, vaults
  <1>2. TypeOK /\ TypeOK' /\ escrow \in DelegatableAccount /\ escrow.lamports \in Nat
    BY LamportsAreNumbers DEF Inv, TypeOK
  <1>3. closed.lamports = 0
    BY <1>2, PurgingKeepsLamports DEF DelegatableAccount
  <1> HIDE DEF closed
  <1>4. /\ \A b \in Accounts \ {a} : AccountUnchanged(b)
        /\ \A u \in Wallets \ {payer} : wallet'[u] = wallet[u]
        /\ delegatedAccount'[a].lamports = 0
        /\ wallet'[payer] = wallet[payer] + escrow.lamports
    BY <1>1, <1>2, <1>3 DEF TypeOK, AccountUnchanged
  <1>5. Held(a)' + wallet'[payer] = Held(a) + wallet[payer]
    BY <1>1, <1>2, <1>4, LamportsAreNumbers DEF Held
  <1> QED
    BY <1>1, <1>2, <1>4, <1>5, AccountStepConserves

-----------------------------------------------------------------------------
(* The behaviors. *)

\* The skips move nothing.
LEMMA UnchangedConserves ==
    ASSUME UNCHANGED vars
    PROVE  TotalLamports' = TotalLamports
  BY DEF vars, delegationPdas, commitPdas, vaults, TotalLamports

\* One step of delegations, commits and the world outside.
LEMMA SessionStepConserves ==
    ASSUME Inv, Inv', SessionNext
    PROVE  TotalLamports' = TotalLamports
  <1>1. CASE DelegationNext
    BY <1>1, DelegateConserves, UndelegateConserves DEF DelegationNext
  <1>2. CASE CommitNext
    <2> PICK v \in Validators, a \in Accounts :
          \/ CommitState(v, a)
          \/ CommitStateFromBuffer(v, a)
          \/ CommitOutdated(v, a)
          \/ Finalize(v, a)
          \/ FinalizeNothing(v, a)
      BY <1>2 DEF CommitNext
    <2>1. CASE CommitState(v, a) \/ CommitStateFromBuffer(v, a)
      BY <2>1, CommitStateConserves
    <2>2. CASE Finalize(v, a)
      BY <2>2, FinalizeConserves
    <2>3. CASE CommitOutdated(v, a) \/ FinalizeNothing(v, a)
      BY <2>3, UnchangedConserves DEF CommitOutdated, FinalizeNothing
    <2> QED
      BY <2>1, <2>2, <2>3
  <1>3. CASE EnvironmentNext
    BY <1>3, DepositConserves, DepositToCommitStateConserves, OwnerWriteConserves,
       OwnerCreateConserves DEF EnvironmentNext
  <1> QED
    BY <1>1, <1>2, <1>3 DEF SessionNext

\* One step of the whole program.
LEMMA StepConserves ==
    ASSUME Inv, Inv', Next
    PROVE  TotalLamports' = TotalLamports
  <1>1. CASE SessionNext
    BY <1>1, SessionStepConserves
  <1>2. CASE FeesVaultsNext
    BY <1>2, InitProtocolFeesVaultConserves, InitValidatorFeesVaultConserves,
       CloseValidatorFeesVaultConserves, ValidatorClaimFeesConserves, ProtocolClaimFeesConserves
    DEF FeesVaultsNext
  <1>3. CASE ProgramConfigNext
    BY <1>3, WhitelistConserves DEF ProgramConfigNext
  <1>4. CASE EphemeralBalanceNext
    BY <1>4, TopUpEphemeralBalanceConserves, DelegateEphemeralBalanceConserves,
       CloseEphemeralBalanceConserves DEF EphemeralBalanceNext
  <1> QED
    BY <1>1, <1>2, <1>3, <1>4 DEF Next

-----------------------------------------------------------------------------
(* The theorems. *)

\* No instruction of the program makes or loses a lamport.
THEOREM LamportsAreAlwaysConserved == Spec => LamportsAreConserved
  <1>1. Inv /\ Inv' /\ [Next]_vars => [TotalLamports' = TotalLamports]_vars
    BY StepConserves
  <1> QED
    BY <1>1, ProgramKeepsInv, PTL DEF Spec, LamportsAreConserved

\* Nor does a session among validators that are all set up.
THEOREM SessionsConserveLamports == SessionSpec => LamportsAreConserved
  <1>1. Inv /\ Inv' /\ [SessionNext]_vars => [TotalLamports' = TotalLamports]_vars
    BY SessionStepConserves
  <1> QED
    BY <1>1, SessionsKeepInv, PTL DEF SessionSpec, LamportsAreConserved
=============================================================================
