---------------------------- MODULE HistoryProofs ----------------------------
(***************************************************************************)
(* What the sessions with a memory (History.tla) remember is what the      *)
(* ledger says, and so a commit sent again takes nothing but deposits, and *)
(* what goes home is what was released, for any constants.                 *)
(*                                                                         *)
(* HistoryInv adds to the inductive invariant of the program that the      *)
(* history agrees with the ledger, account by account (Remembered).  A     *)
(* step is looked at through what it does to the PDAs of one account       *)
(* (PdaStep of ActionProofs), so no instruction is taken apart again but   *)
(* Finalize and Undelegate.                                                *)
(***************************************************************************)
EXTENDS History, ActionProofs

-----------------------------------------------------------------------------
(* The invariant. *)

\* The commit that pends, as its PDAs and the metadata tell it.
PendingCommit(a) ==
    [slot |-> commitRecord[a].data.slot, lamports |-> commitRecord[a].data.lamports,
     data |-> commitState[a].data, release |-> delegationMetadata[a].data.isUndelegatable,
     deposits |-> 0]

\* What is proposed is what pends.
PendingIsRemembered(a) ==
    proposed[a] = IF HasPendingCommit(a) THEN {PendingCommit(a)} ELSE {}

\* The record holds the lamports of the last update with the deposits that had come
\* before it; the account, while in custody, its contents; and the metadata, until
\* the next commit, its permission.
IsLastUpdate(c, a) ==
    /\ c.lamports \in Nat /\ c.deposits \in Nat
    /\ DelegatedLamports(a) = c.lamports + c.deposits
    /\ IsDelegated(a) => delegatedAccount[a].data = c.data
    /\ ~ HasPendingCommit(a) => c.release = delegationMetadata[a].data.isUndelegatable

\* An account was updated in its session, or nothing released it.
UpdateIsRemembered(a) ==
    InSession(a) =>
        \/ /\ applied[a] = {}
           /\ HasPendingCommit(a) \/ ~ delegationMetadata[a].data.isUndelegatable
        \/ \E c : applied[a] = {c} /\ IsLastUpdate(c, a)

Remembered(a) == PendingIsRemembered(a) /\ UpdateIsRemembered(a)

\* The inductive invariant.
HistoryInv == Inv /\ \A a \in Accounts : Remembered(a)

-----------------------------------------------------------------------------
(* One step, one account. *)

\* A step of a session with a memory is a step of the program, and what it adds to
\* the history of an account depends on that account alone.
LEMMA HistoryStep ==
    ASSUME HistoryNext, NEW a \in Accounts
    PROVE  /\ [Next]_vars
           /\ proposed'[a] =
                 IF CommitIsAccepted(a) THEN {AcceptedCommit(a)}
                 ELSE IF CommitIsConsumed(a) THEN {}
                 ELSE proposed[a]
           /\ applied'[a] =
                 IF CommitIsConsumed(a) THEN {[c EXCEPT !.deposits = Deposited(a)] : c \in proposed[a]}
                 ELSE IF SessionBegins(a) THEN {}
                 ELSE applied[a]
  BY DEF HistoryNext, Remember, Next

\* Dlp does not come to own, within a session, an account that it lost.
LEMMA CustodyIsNotRegained ==
    ASSUME Inv, [Next]_vars, NEW a \in Accounts, InSession(a), IsInitialized(delegatedAccount'[a])
    PROVE  IsInitialized(delegatedAccount[a])
  <1> SUFFICES ASSUME delegatedAccount[a].owner # Dlp PROVE FALSE
    BY DEF IsInitialized
  <1>1. /\ delegatedAccount \in [Accounts -> DelegatableAccount]
        /\ delegatedAccount[a] \in DelegatableAccount
        /\ delegatedAccount'[a].owner = Dlp
    BY DEF Inv, TypeOK, IsInitialized
  <1>2. custodyTerms[a] # {}
    BY MappedAccount DEF TermsOf, InSession
  <1>3. C!Next
    <2>1. delegatedAccount' # delegatedAccount
      BY <1>1
    <2> QED
      BY <2>1, StepMaps DEF C!custodyVars
  <1>4. PICK b \in Accounts :
          \/ \E owner \in Owners : C!Take(b, owner)
          \/ C!Propose(b)
          \/ C!Apply(b)
          \/ C!Return(b)
          \/ C!Receive(b)
          \/ C!AtHome(b)
    BY <1>3 DEF C!Next
  <1>5. CASE b # a
    <2>1. delegatedAccount'[a] = delegatedAccount[a]
      BY <1>1, <1>4, <1>5
      DEF C!Take, C!Propose, C!Apply, C!Return, C!Receive, C!AtHome
    <2> QED
      BY <1>1, <2>1
  <1>6. CASE b = a
    <2>1. ~ C!IsHeld(a)
      BY DEF C!IsHeld
    <2>2. C!Receive(a) \/ C!AtHome(a)
      BY <1>2, <1>4, <1>6, <2>1 DEF C!Take, C!Propose, C!Apply, C!Return
    <2>3. ~ C!AtHome(a)
      BY <1>1 DEF C!AtHome
    <2>4. delegatedAccount'[a].owner = delegatedAccount[a].owner
      BY <1>1, <2>2, <2>3 DEF C!Receive, DelegatableAccount
    <2> QED
      BY <1>1, <2>4
  <1> QED
    BY <1>5, <1>6

\* As long as the PDAs of an account say the same of its last update, so does the
\* history: only Finalize changes the account.
LEMMA UpdateIsStillRemembered ==
    ASSUME Inv, [Next]_vars, NEW a \in Accounts, InSession(a), ~ CommitIsConsumed(a),
           delegationRecord'[a] = delegationRecord[a],
           IsInitialized(delegationMetadata'[a]) <=> IsInitialized(delegationMetadata[a]),
           ~ HasPendingCommit(a)' => delegationMetadata'[a] = delegationMetadata[a],
           UpdateIsRemembered(a), applied'[a] = applied[a]
    PROVE  UpdateIsRemembered(a)'
  <1>1. DelegatedLamports(a)' = DelegatedLamports(a)
    BY DEF DelegatedLamports
  <1>2. HasPendingCommit(a) => HasPendingCommit(a)'
    BY DEF CommitIsConsumed
  <1>3. CASE applied[a] = {} /\ (HasPendingCommit(a) \/ ~ delegationMetadata[a].data.isUndelegatable)
    BY <1>2, <1>3 DEF UpdateIsRemembered
  <1>4. ASSUME NEW c, applied[a] = {c}, IsLastUpdate(c, a)
        PROVE  UpdateIsRemembered(a)'
    <2>1. ASSUME IsDelegated(a)' PROVE delegatedAccount'[a].data = c.data
      <3>1. IsDelegated(a)
        BY <2>1, CustodyIsNotRegained DEF IsDelegated, InSession, IsInitialized
      <3>2. ~ SessionEnds(a)
        BY <2>1 DEF SessionEnds, InSession, IsDelegated
      <3>3. delegatedAccount'[a].data = delegatedAccount[a].data
        BY <3>1, <3>2, StepMaps, CustodyStepIsFaithful
      <3> QED
        BY <1>4, <3>1, <3>3 DEF IsLastUpdate
    <2>2. ASSUME ~ HasPendingCommit(a)'
          PROVE  c.release = delegationMetadata'[a].data.isUndelegatable
      BY <1>2, <1>4, <2>2 DEF IsLastUpdate
    <2>3. IsLastUpdate(c, a)'
      BY <1>1, <1>4, <2>1, <2>2 DEF IsLastUpdate
    <2> QED
      BY <1>4, <2>3 DEF UpdateIsRemembered
  <1> QED
    BY <1>3, <1>4 DEF UpdateIsRemembered

\* Finalize makes the pending commit the last update.
LEMMA FinalizeIsRemembered ==
    ASSUME Inv, NEW a \in Accounts, NEW v \in Validators, Finalize(v, a),
           NEW update, update = [PendingCommit(a) EXCEPT !.deposits = Deposited(a)],
           applied'[a] = {update},
           delegationMetadata'[a].data.isUndelegatable = delegationMetadata[a].data.isUndelegatable
    PROVE  UpdateIsRemembered(a)'
  <1>1. /\ Safe(a) /\ Typed(a) /\ IsDelegated(a) /\ HasPendingCommit(a)
        /\ delegatedAccount' = [delegatedAccount EXCEPT ![a] = Purged(SettledAccount(a))]
    BY AccountsAreTyped DEF Inv, Finalize, ProcessFinalize
  <1>2. /\ update.lamports = commitRecord[a].data.lamports
        /\ update.deposits = Deposited(a)
        /\ update.data = commitState[a].data
        /\ update.release = delegationMetadata[a].data.isUndelegatable
    BY DEF PendingCommit
  <1>3. Deposited(a) \in Nat /\ commitRecord[a].data.lamports \in Nat
    <2>1. /\ DelegatedLamports(a) \in Nat /\ delegatedAccount[a].lamports \in Nat
          /\ DelegatedLamports(a) <= delegatedAccount[a].lamports
          /\ commitRecord[a].data.lamports \in Nat
      BY <1>1 DEF Safe, Typed, IsDelegated, HasPendingCommit
    <2> QED
      BY <2>1 DEF Deposited
  <1>4. DelegatedLamports(a)' = update.lamports + update.deposits
    BY <1>2, FinalizeIsExact DEF Deposited
  <1>5. ASSUME IsDelegated(a)' PROVE delegatedAccount'[a].data = update.data
    <2> DEFINE settled == SettledAccount(a)
    <2>1. delegatedAccount'[a] = Purged(settled)
      BY <1>1 DEF Inv, TypeOK
    <2>2. settled.data = commitState[a].data
      BY DEF SettledAccount, Inv, TypeOK, DelegatableAccount
    <2> HIDE DEF settled
    <2>3. delegatedAccount'[a] # Absent
      BY <1>5, AbsentIsUninitialized DEF IsDelegated
    <2> QED
      BY <1>2, <2>1, <2>2, <2>3 DEF Purged
  <1>6. IsLastUpdate(update, a)'
    BY <1>2, <1>3, <1>4, <1>5 DEF IsLastUpdate
  <1> QED
    BY <1>6 DEF UpdateIsRemembered

\* Every step keeps the memory of every account true.
LEMMA StepIsRemembered ==
    ASSUME Inv, HistoryNext, NEW a \in Accounts, Remembered(a)
    PROVE  Remembered(a)'
  <1>1. [Next]_vars /\ Safe(a) /\ Safe(a)' /\ PdaStep(a)
    BY HistoryStep, StepMaps, NextIsPdaStep DEF Inv
  <1>2. /\ InSession(a) <=> IsInitialized(delegationMetadata[a])
        /\ InSession(a)' <=> IsInitialized(delegationMetadata'[a])
        /\ HasPendingCommit(a) => InSession(a)
        /\ HasPendingCommit(a)' => InSession(a)'
    BY <1>1 DEF Safe, InSession, IsDelegated
  <1>3. ASSUME ~ HasPendingCommit(a)' PROVE PendingIsRemembered(a)'
    <2>1. ~ CommitIsAccepted(a)
      BY <1>3 DEF CommitIsAccepted
    <2>2. proposed'[a] = {}
      BY <1>3, <2>1, HistoryStep DEF CommitIsConsumed, Remembered, PendingIsRemembered
    <2> QED
      BY <1>3, <2>2 DEF PendingIsRemembered
  <1>4. ASSUME ~ InSession(a)' PROVE Remembered(a)'
    <2>1. PendingIsRemembered(a)'
      BY <1>2, <1>3, <1>4
    <2>2. UpdateIsRemembered(a)'
      BY <1>4 DEF UpdateIsRemembered
    <2> QED
      BY <2>1, <2>2 DEF Remembered
  <1>5. CASE OutOfSession(a)
    <2>1. ~ HasPendingCommit(a) /\ ~ InSession(a)
      BY <1>2, <1>5 DEF OutOfSession
    <2>2. CASE InSession(a)'
      <3>1. ~ HasPendingCommit(a)'
        BY <1>1, <2>1, <2>2, StepMaps, CustodyStepTakesIntact
      <3>2. applied'[a] = {}
        BY <2>1, <2>2, HistoryStep DEF CommitIsConsumed, SessionBegins
      <3> QED
        BY <1>3, <1>5, <2>2, <3>1, <3>2 DEF OutOfSession, Remembered, UpdateIsRemembered
    <2>3. CASE ~ InSession(a)'
      BY <1>4, <2>3
    <2> QED
      BY <2>2, <2>3
  <1>6. CASE AccountLeaves(a)
    BY <1>4, <1>6 DEF AccountLeaves
  <1>7. CASE PdasAreKept(a)
    <2>1. /\ HasPendingCommit(a)' <=> HasPendingCommit(a)
          /\ InSession(a)' <=> InSession(a)
      BY <1>7 DEF PdasAreKept, HasPendingCommit, InSession, IsInitialized
    <2>2. proposed'[a] = proposed[a] /\ applied'[a] = applied[a]
      BY <2>1, HistoryStep DEF CommitIsAccepted, CommitIsConsumed, SessionBegins
    <2>3. PendingIsRemembered(a)'
      BY <1>7, <2>1, <2>2 DEF Remembered, PendingIsRemembered, PendingCommit, PdasAreKept
    <2>4. UpdateIsRemembered(a)'
      <3>1. CASE InSession(a)
        <4>1. ~ CommitIsConsumed(a)
          BY <2>1 DEF CommitIsConsumed
        <4> QED
          BY <1>1, <1>7, <2>2, <3>1, <4>1, UpdateIsStillRemembered DEF PdasAreKept, Remembered
      <3>2. CASE ~ InSession(a)
        BY <2>1, <3>2 DEF UpdateIsRemembered
      <3> QED
        BY <3>1, <3>2
    <2> QED
      BY <2>3, <2>4 DEF Remembered
  <1>8. CASE CommitArrives(a) /\ InSession(a)
    <2>1. CommitIsAccepted(a) /\ ~ CommitIsConsumed(a) /\ ~ SessionBegins(a)
      BY <1>8 DEF CommitArrives, CommitIsAccepted, CommitIsConsumed, SessionBegins
    <2>2. proposed'[a] = {AcceptedCommit(a)} /\ applied'[a] = applied[a]
      BY <2>1, HistoryStep
    <2>3. AcceptedCommit(a) = PendingCommit(a)'
      BY DEF AcceptedCommit, PendingCommit
    <2>4. PendingIsRemembered(a)'
      BY <1>8, <2>2, <2>3 DEF PendingIsRemembered, CommitArrives
    <2>5. UpdateIsRemembered(a)'
      BY <1>1, <1>8, <2>1, <2>2, UpdateIsStillRemembered DEF CommitArrives, Remembered, IsInitialized
    <2> QED
      BY <2>4, <2>5 DEF Remembered
  <1>9. CASE CommitLeaves(a)
    <2>1. PICK v \in Validators : Finalize(v, a)
      BY <1>9 DEF CommitLeaves
    <2>2. CommitIsConsumed(a) /\ HasPendingCommit(a) /\ ~ HasPendingCommit(a)'
      BY <1>9 DEF CommitLeaves, CommitIsConsumed
    <2>3. proposed[a] = {PendingCommit(a)}
      BY <2>2 DEF Remembered, PendingIsRemembered
    <2>4. applied'[a] = {[PendingCommit(a) EXCEPT !.deposits = Deposited(a)]}
      BY <2>2, <2>3, HistoryStep
    <2>5. UpdateIsRemembered(a)'
      <3>1. delegationMetadata'[a].data.isUndelegatable = delegationMetadata[a].data.isUndelegatable
        BY <1>9 DEF CommitLeaves
      <3> QED
        BY <2>1, <2>4, <3>1, FinalizeIsRemembered
    <2> QED
      BY <1>3, <2>2, <2>5 DEF Remembered
  <1>10. CASE CommitArrives(a) /\ ~ InSession(a)
    BY <1>2, <1>10 DEF CommitArrives, InSession
  <1> QED
    BY <1>1, <1>5, <1>6, <1>7, <1>8, <1>9, <1>10 DEF PdaStep

\* And if nothing happens, nothing is forgotten.
LEMMA NothingIsForgotten ==
    ASSUME NEW a \in Accounts, Remembered(a), UNCHANGED <<vars, historyVars>>
    PROVE  Remembered(a)'
  BY DEF Remembered, PendingIsRemembered, UpdateIsRemembered, IsLastUpdate, PendingCommit,
         vars, delegationPdas, commitPdas, historyVars, HasPendingCommit, InSession, IsDelegated,
         IsInitialized, DelegatedLamports

-----------------------------------------------------------------------------
(* The invariant holds. *)

\* In the beginning there is nothing to remember.
LEMMA HistoryInitEstablishesInv == HistoryInit => HistoryInv
  <1> SUFFICES ASSUME HistoryInit PROVE HistoryInv
    OBVIOUS
  <1>1. Inv
    BY SessionInitEstablishesInv DEF HistoryInit
  <1>2. ASSUME NEW a \in Accounts PROVE Remembered(a)
    <2>1. /\ delegationRecord[a] = Absent /\ commitState[a] = Absent
          /\ proposed[a] = {} /\ applied[a] = {}
      BY DEF HistoryInit, SessionInit, AccountsInit
    <2>2. ~ HasPendingCommit(a) /\ ~ InSession(a)
      BY <2>1, AbsentIsUninitialized DEF HasPendingCommit, InSession
    <2> QED
      BY <2>1, <2>2 DEF Remembered, PendingIsRemembered, UpdateIsRemembered
  <1> QED
    BY <1>1, <1>2 DEF HistoryInv

\* A step of a session with a memory is one of the program, and keeps what holds of it.
LEMMA HistoryStepMaps ==
    ASSUME [HistoryNext]_<<vars, historyVars>>
    PROVE  [Next]_vars
  BY DEF HistoryNext, Next, historyVars

LEMMA HistoryStepKeepsInv ==
    HistoryInv /\ [HistoryNext]_<<vars, historyVars>> => HistoryInv'
  <1> SUFFICES ASSUME HistoryInv, [HistoryNext]_<<vars, historyVars>> PROVE HistoryInv'
    OBVIOUS
  <1>1. Inv'
    BY HistoryStepMaps, StepMaps DEF HistoryInv
  <1>2. ASSUME NEW a \in Accounts PROVE Remembered(a)'
    BY <1>2, StepIsRemembered, NothingIsForgotten DEF HistoryInv
  <1> QED
    BY <1>1, <1>2 DEF HistoryInv

\* What is remembered agrees with the ledger: the pending commit with its PDAs, the
\* last update of the session with the record and with the account itself.
THEOREM HistoryKeepsInv == HistorySpec => []HistoryInv
  <1> QED
    BY HistoryInitEstablishesInv, HistoryStepKeepsInv, PTL DEF HistorySpec

-----------------------------------------------------------------------------
(* What the memory is for. *)

\* A commit that repeats the last update settles what was deposited before it.
LEMMA RetrySettlesDeposits ==
    ASSUME Inv, NEW a \in Accounts, Remembered(a), HasPendingCommit(a), InSession(a),
           NEW again \in proposed[a], NEW first \in applied[a],
           [again EXCEPT !.release = first.release, !.deposits = first.deposits] = first
    PROVE  /\ first.deposits \in Nat
           /\ DelegatedLamports(a) = commitRecord[a].data.lamports + first.deposits
           /\ Settlement(DelegatedLamports(a), commitRecord[a].data.lamports)
                 = [toVault |-> first.deposits, toAccount |-> 0]
           /\ IsDelegated(a) => commitState[a].data = delegatedAccount[a].data
  <1>1. again = PendingCommit(a)
    BY DEF Remembered, PendingIsRemembered
  <1>2. first.lamports = commitRecord[a].data.lamports /\ first.data = commitState[a].data
    <2>1. first.lamports = again.lamports /\ first.data = again.data
      BY <1>1 DEF PendingCommit
    <2> QED
      BY <1>1, <2>1 DEF PendingCommit
  <1>3. IsLastUpdate(first, a)
    BY DEF Remembered, UpdateIsRemembered
  <1>4. /\ first.lamports \in Nat /\ first.deposits \in Nat
        /\ DelegatedLamports(a) = commitRecord[a].data.lamports + first.deposits
        /\ IsDelegated(a) => commitState[a].data = delegatedAccount[a].data
    BY <1>2, <1>3 DEF IsLastUpdate
  <1>5. /\ DelegatedLamports(a) > commitRecord[a].data.lamports <=> first.deposits > 0
        /\ ~ DelegatedLamports(a) < commitRecord[a].data.lamports
        /\ DelegatedLamports(a) - commitRecord[a].data.lamports = first.deposits
    BY <1>2, <1>4
  <1>6. first.deposits > 0 \/ first.deposits = 0
    BY <1>4
  <1>7. Settlement(DelegatedLamports(a), commitRecord[a].data.lamports)
           = [toVault |-> first.deposits, toAccount |-> 0]
    BY <1>5, <1>6 DEF Settlement
  <1> QED
    BY <1>4, <1>7

\* Finalizing it moves these deposits to the validator's vault, and nothing else.
LEMMA RetryMovesDeposits ==
    ASSUME Inv, [Next]_vars, NEW a \in Accounts, Remembered(a), CommitIsConsumed(a),
           NEW again \in proposed[a], NEW first \in applied[a],
           [again EXCEPT !.release = first.release, !.deposits = first.deposits] = first
    PROVE  LET v == commitRecord[a].data.identity
           IN  /\ delegatedAccount'[a] \in
                      {[delegatedAccount[a] EXCEPT !.lamports = @ - first.deposits], Absent}
               /\ delegatedAccount'[a].lamports = delegatedAccount[a].lamports - first.deposits
               /\ validatorFeesVault'[v].lamports =
                      validatorFeesVault[v].lamports + first.deposits
  <1> DEFINE deposits == first.deposits
             committed == commitRecord[a].data.lamports
             settled == SettledAccount(a)
             kept == [delegatedAccount[a] EXCEPT !.lamports = @ - deposits]
             settlement == Settlement(DelegatedLamports(a), committed)
  <1>1. PICK v \in Validators : Finalize(v, a)
    BY OnlyFinalizeConsumes
  <1>2. /\ Safe(a) /\ Typed(a)
        /\ IsDelegated(a) /\ HasPendingCommit(a) /\ InSession(a)
        /\ commitRecord[a].data.identity = v
        /\ delegatedAccount' = [delegatedAccount EXCEPT ![a] = Purged(settled)]
        /\ validatorFeesVault' = [validatorFeesVault EXCEPT ![v].lamports = @ + settlement.toVault]
    BY <1>1, AccountsAreTyped DEF Inv, Finalize, ProcessFinalize, IsDelegated, InSession
  <1>3. /\ delegatedAccount[a] \in DelegatableAccount
        /\ delegatedAccount[a].lamports \in Nat
        /\ validatorFeesVault[v] \in Pda(VaultData)
        /\ DelegatedLamports(a) \in Nat /\ committed \in Nat
    BY <1>2 DEF Inv, TypeOK, Typed, IsDelegated, HasPendingCommit
  <1>4. /\ deposits \in Nat
        /\ DelegatedLamports(a) = committed + deposits
        /\ settlement = [toVault |-> deposits, toAccount |-> 0]
        /\ commitState[a].data = delegatedAccount[a].data
    BY <1>2, RetrySettlesDeposits
  <1>5. settled = kept
    <2>1. delegatedAccount[a].lamports - settlement.toVault + settlement.toAccount
             = delegatedAccount[a].lamports - deposits
      BY <1>3, <1>4
    <2> QED
      BY <1>3, <1>4, <2>1 DEF SettledAccount, DelegatableAccount
  <1>6. delegatedAccount'[a] \in {kept, Absent}
    <2> HIDE DEF settled, kept
    <2>1. delegatedAccount'[a] = Purged(settled)
      BY <1>2 DEF Inv, TypeOK
    <2> QED
      BY <1>5, <2>1 DEF Purged
  <1>7. delegatedAccount'[a].lamports = delegatedAccount[a].lamports - deposits
    <2> HIDE DEF committed, deposits
    <2>1. delegatedAccount'[a].lamports
             = committed + (delegatedAccount[a].lamports - DelegatedLamports(a))
      BY <1>1, FinalizeIsExact DEF committed
    <2> QED
      BY <1>3, <1>4, <2>1
  <1>8. validatorFeesVault'[v].lamports = validatorFeesVault[v].lamports + deposits
    <2>1. validatorFeesVault'[v] = [validatorFeesVault[v] EXCEPT !.lamports = @ + settlement.toVault]
      BY <1>2 DEF Inv, TypeOK
    <2> QED
      BY <1>3, <1>4, <2>1 DEF Pda
  <1> QED
    BY <1>2, <1>6, <1>7, <1>8

\* A commit that is sent again after it was finalized, and finalized again, takes
\* from the account only deposits that had come before the first time, for the
\* validator's vault (process_finalize, settle_lamports_balance): whatever else is
\* committed, deposited or undelegated in between, in however many sessions.
THEOREM RetryAlwaysTakesOnlyDeposits == HistorySpec => RetryTakesOnlyDeposits
  <1>1. HistoryInv /\ [HistoryNext]_<<vars, historyVars>> =>
          [\A a \in Accounts : CommitIsConsumed(a) =>
             \A again \in proposed[a], first \in applied[a] :
                [again EXCEPT !.release = first.release, !.deposits = first.deposits] = first =>
                   LET v == commitRecord[a].data.identity
                   IN  /\ delegatedAccount'[a] \in
                              {[delegatedAccount[a] EXCEPT !.lamports = @ - first.deposits], Absent}
                       /\ delegatedAccount'[a].lamports
                              = delegatedAccount[a].lamports - first.deposits
                       /\ validatorFeesVault'[v].lamports =
                              validatorFeesVault[v].lamports + first.deposits]_<<vars, historyVars>>
    BY HistoryStepMaps, RetryMovesDeposits DEF HistoryInv
  <1> QED
    BY <1>1, HistoryKeepsInv, PTL DEF HistorySpec, RetryTakesOnlyDeposits

\* Undelegate finds the account as its last update left it, which released it.
LEMMA ReturnIsReleased ==
    ASSUME Inv, [Next]_vars, NEW a \in Accounts, Remembered(a), SessionEnds(a)
    PROVE  \E c \in applied[a] :
              LET withholdable == IF c.data = NoData THEN 0 ELSE DataRent[c.data]
              IN  /\ c.release
                  /\ delegatedAccount'[a].data = c.data \/ delegatedAccount'[a] = Absent
                  /\ delegatedAccount'[a].lamports + withholdable >= c.lamports + c.deposits
  <1> DEFINE before == delegatedAccount[a]
             after == delegatedAccount'[a]
             withheld == before.lamports - after.lamports
  <1>1. PICK v \in Validators, program \in Owners, reimbursed \in Wallets :
           \/ UndelegateEmpty(v, a, program, reimbursed)
           \/ UndelegateViaCpi(v, a, program, reimbursed)
    BY OnlyUndelegateEnds
  <1>2. /\ delegationMetadata[a].data.isUndelegatable
        /\ \/ after = [before EXCEPT !.owner = delegationRecord[a].data.owner, !.lamports = @ - withheld]
           \/ after = Absent
        /\ withheld <= IF before.data = NoData THEN 0 ELSE DataRent[before.data]
    BY <1>1, UndelegateReturnsIntact
  <1>3. IsDelegated(a) /\ ~ HasPendingCommit(a) /\ InSession(a) /\ Safe(a)
    BY <1>1, UndelegateWrites, ProgramsDiffer
    DEF CanUndelegate, NoPendingCommit, HasPendingCommit, IsInitialized, IsUninitialized,
        SessionEnds, Inv
  <1>4. PICK c : applied[a] = {c} /\ IsLastUpdate(c, a)
    BY <1>2, <1>3 DEF Remembered, UpdateIsRemembered
  <1>5. c.release /\ before.data = c.data
    BY <1>2, <1>3, <1>4 DEF IsLastUpdate
  <1>6. /\ before.lamports >= c.lamports + c.deposits
        /\ c.lamports + c.deposits \in Int
    <2>1. DelegatedLamports(a) <= before.lamports
      BY <1>3 DEF Safe
    <2>2. DelegatedLamports(a) \in Nat
      BY <1>3, AccountsAreTyped DEF Typed, Inv, IsDelegated, RecordData, DelegatedLamports
    <2> QED
      BY <1>4, <2>1, <2>2 DEF IsLastUpdate
  <1>7. /\ before.lamports \in Nat /\ before \in DelegatableAccount
        /\ after.lamports \in Nat
        /\ DataRent[before.data] \in Nat
    <2>1. TypeOK' /\ TypeOK
      BY StepMaps DEF Inv
    <2>2. before \in DelegatableAccount /\ after \in DelegatableAccount
      BY <2>1 DEF TypeOK
    <2> QED
      BY <2>2, LedgerAssumption DEF DelegatableAccount
  <1>8. after.data = before.data \/ after = Absent
    <2> DEFINE given == [before EXCEPT !.owner = delegationRecord[a].data.owner]
    <2>1. given.data = before.data
      BY <1>7 DEF DelegatableAccount
    <2>2. [before EXCEPT !.owner = delegationRecord[a].data.owner, !.lamports = @ - withheld].data
            = given.data
      BY <1>7 DEF DelegatableAccount
    <2> HIDE DEF given
    <2> QED
      BY <1>2, <2>1, <2>2
  <1> DEFINE withholdable == IF c.data = NoData THEN 0 ELSE DataRent[c.data]
  <1>9. after.lamports + withholdable >= c.lamports + c.deposits
    <2>1. withholdable \in Nat
      BY <1>5, <1>7
    <2>2. before.lamports - after.lamports <= withholdable
      BY <1>2, <1>5
    <2> HIDE DEF withholdable
    <2> QED
      BY <1>6, <1>7, <2>1, <2>2
  <1> QED
    BY <1>4, <1>5, <1>8, <1>9

\* What goes home is what the last commit finalized in the same session proposed,
\* with what others sent to the account, and that commit allowed it to: a permission
\* of an earlier session, or of a commit that was overtaken, returns nothing
\* (process_undelegate tests only the flag of the metadata).
THEOREM ReturnIsAlwaysAsReleased == HistorySpec => ReturnedAsReleased
  <1>1. HistoryInv /\ [HistoryNext]_<<vars, historyVars>> =>
          [\A a \in Accounts : SessionEnds(a) =>
             \E c \in applied[a] :
                LET withholdable == IF c.data = NoData THEN 0 ELSE DataRent[c.data]
                IN  /\ c.release
                    /\ delegatedAccount'[a].data = c.data \/ delegatedAccount'[a] = Absent
                    /\ delegatedAccount'[a].lamports + withholdable >= c.lamports + c.deposits]_<<vars, historyVars>>
    BY HistoryStepMaps, ReturnIsReleased DEF HistoryInv
  <1> QED
    BY <1>1, HistoryKeepsInv, PTL DEF HistorySpec, ReturnedAsReleased
=============================================================================
