# Delegation program: TLA+ models, checks and proofs

The delegation program (`dlp`) is a Solana program that takes accounts into
custody. The owner program of an account *delegates* it; while it is delegated
an ephemeral validator runs transactions on a copy of it and *commits* new
states; each commit is *finalized* into the account; a commit may allow
undelegation, and then the account is *undelegated*, that is returned to its
owner with its data and lamports. What the program must get right is a ledger:
who owns what, who advanced which lamports, and which PDAs exist together.

These modules model all fourteen instructions, the client's builders, the tests of
accounts and privileges, and bundles of several instructions. TLC checks them on
small instances; TLAPS proves, for every value of the constants, every property of a
passing run: the safety invariants, the action properties, the sum of all lamports, the
refinement of an abstract specification of custody, the properties of bundles, histories
and account lists, and liveness, up to what ENABLED means.
Paths below are relative to the repository.

## The system

| component | state it keeps | operations | what makes it hard |
|---|---|---|---|
| delegation lifecycle (`processor/delegate.rs`, `undelegate.rs`) | the delegated account's owner; delegation record and metadata PDAs | Delegate, Undelegate (without data: assign; with data: buffer, CPI to the owner program, checks) | foreign code runs in the middle of Undelegate with the validator's signature; the key pair and escrow cases; rounding of fees |
| commits (`commit_state.rs`, `commit_state_from_buffer.rs`, `finalize.rs`) | commit state and commit record PDAs; last update slot, undelegatable flag, recorded lamports | CommitState, CommitStateFromBuffer, Finalize | several validators race; deposits arrive between commit and finalize; collateral is sent to a PDA that does not exist yet; silent skips |
| fees vaults (`init_*`, `close_validator_fees_vault.rs`, `*_claim_fees.rs`) | the protocol vault, one vault per validator | two Init, Close, two Claim | unchecked subtraction of the rent; a vault is closed while a commit of its validator pends |
| program configuration (`whitelist_validator_for_program.rs`) | the approved validators of a program | WhitelistValidatorForProgram | created with no space and resized; never closed |
| ephemeral balances (`*_ephemeral_balance.rs`) | escrow accounts derived from a wallet | TopUp, Delegate, Close | an escrow is delegated like any other account, and topped up while it is |
| PDA helpers (`processor/utils/pda.rs`) | none | create, resize, close, close with fees | accounts with lamports but no data; rounding; payer, validator and admin may be one wallet; inner instructions create at most 10 KiB |
| loaders (`processor/utils/loaders.rs`) and dispatch (`lib.rs`) | none | tests of keys, signatures, writability, owners | what an account may do is merged over the transaction, what a handler tests is one instruction's |
| builders (`instruction_builder/`) | none | the account list of each instruction | up to twelve accounts told apart by position only |
| state, args (`state/`, `args/`) | layouts | (de)serialisation, parsing | not modelled, but for the fields the program reads |

The components call each other through the ledger only: every instruction loads
the accounts it needs, checks their owners, and writes them in one atomic
transaction. Commit, finalize and undelegate require an initialized validator
vault; commit reads the configuration of the account's owner; finalize consumes
what commit wrote; undelegate requires that nothing is left to finalize.

What makes each component correct, and the properties that say so (in `Safety.tla`
where no module is named):

- **lifecycle**: `AccountIsTakenIntact`, `AccountIsReturnedIntact`,
  `CustodyIsFaithful`, `AccountsAreRentExempt`, `UndelegatableFits`,
  `ReleasedAccountIsReturned` (`FairSession`);
- **commits**: `RecordIsCovered`, `CommitIsCollateralized`, `PdasAreConsistent`,
  `SettlementIsExact`, `PendingCommitIsImmutable`, `SessionMovesForward`,
  `PendingCommitIsSettled`, `NobodyIsStuck` (`FairSession`);
- **both together**: `ImplementsCustody` (`CustodyRefinement`), the refinement of `Custody`;
- **commits sent again, successive sessions**: `RetryTakesOnlyDeposits`,
  `ReturnedAsReleased` (`History`);
- **bundles**: `BundledCommitTakesEffect`, `CommitIsStrandedOnlyByEmptying` (`Transactions`);
- **vaults**: `VaultsPayTheirOwners`, `PdasAreRentExempt`;
- **configuration**: `ConfigurationIsPermanent`;
- **escrows**: `EscrowPaysItsOwner`;
- **loaders and builders**: `BuiltInstructionsAreAccepted`,
  `ChangedAccountsAreTheRightOnes` (`AccountLists`);
- **all of them**: `TypeOK` (`Ledger`), `LamportsAreConserved` (`Conservation`).

`PROJECT.json` lists the hazards of the code, at the line where each bites, with
the properties that watch it.

## The modules

    DlpAccounts            accounts, PDA creation/resizing, fees, rent
      Ledger               the state; what instructions test of it; TypeOK
        Delegation         Delegate, Undelegate
          EphemeralBalance TopUp, Delegate and Close of escrows
        Commit             CommitState, CommitStateFromBuffer, Finalize
        Environment        deposits; owner programs at home (external)
        FeesVaults         the vault instructions
        ProgramConfig      WhitelistValidatorForProgram
        Safety             the properties
          Claims           statements of docs and tests that do not hold
        Conservation       the sum of all lamports
      Session              Delegation + Commit + Environment, vaults set up
        Transactions       Session in bundles, with rollback
        History            Session with a memory of the commits
        FairSession        Session with fairness, vaults opened and closed
      DelegationProgram    everything, from an empty ledger
    Custody                the abstract specification of an account
    CustodyRefinement      how the ledger implements it
    InstructionBuilder     the account lists the client builds
      Loaders              the tests of keys and privileges; the dispatch
        AccountLists       transactions: built, merged, tested, run
    DelegationProgramProofs  the invariants proved
      CustodyProofs          the refinement proved
        ActionProofs         action properties proved
          HistoryProofs      the properties of histories proved
          FairSessionProofs  liveness proved
      TransactionsProofs     the properties of bundles proved
      ConservationProofs     sums; the conservation of lamports proved
    AccountListsProofs       the properties of account lists proved
    MC*                      instances for TLC

**State.** There is one variable per PDA seed prefix of `src/src/pda.rs`, a
function of the key in the seed: `delegationRecord`, `delegationMetadata`,
`commitState`, `commitRecord`, `validatorFeesVault`, `feesVault`,
`programConfig`. Deriving a PDA and checking its address is applying the
function. `delegatedAccount` holds the accounts themselves, escrows included, and
`wallet` what a wallet can spend. An account is a record of owner, lamports and
data; one that does not exist is `Absent`, and one that someone sent lamports to
but nobody created is uninitialized and not empty, as in the code.

**Actions.** One per instruction, named as in the code; a transaction that fails
has no effect, so an error path is an action that is not enabled. A transaction
that succeeds without doing anything (an outdated commit, nothing to finalize)
is an action of its own that leaves everything unchanged: it is there for
completeness and to be seen enabled, since a stutter cannot break anything.
Deposits, and what owner programs do with their accounts at home, are in
`Environment.tla`.

A handler that may run in the middle of a bundle has two layers. `ProcessFinalize` and
`CommitStateInternal` are the handlers; `Finalize` and the others are the handler
followed by the end of a transaction, which tests rents and removes the account if it
is empty. `Transactions` runs the first kind, each instruction seeing what the
ones before it left, and ends or undoes them all; a transaction that fails is `RollBack`.

**Custody** knows accounts, the terms under which they are held, and a proposal. `Take`,
`Propose`, `Apply` and `Return` are what Delegate, the two commits, Finalize and
Undelegate do to them; `Receive` is anybody's transfer. `CustodyRefinement` maps the
delegation record and metadata to the terms, and the two commit PDAs to the proposal.
`Return` gives the account back with its contents and at most its lamports; how much its
program may withhold, and to whose benefit, is what `AccountIsReturnedIntact` tells.
Collateral, fees, vaults, configurations and wallets are not in it: a step that
changes those only is a stutter.

**Histories.** `History` adds the commit that pends and the commit of the last update to
the state (auxiliary: no action reads them). Commits with any arguments may come at any
time in `Session`, so the repeated and the late ones are there already; the history
tells which they are.

**Sizes.** `TooLarge` are the contents above 10 KiB: an inner instruction cannot create an
account for them, so that they cannot be committed nor moved to an undelegation buffer,
but an account that has them can be delegated.

**Account lists.** `InstructionBuilder` gives each instruction's list of keys and
privileges, `Loaders` what each handler tests of them and which accounts it changes, and
`AccountLists` puts up to two instructions in a transaction, gets one account
wrong or none, chooses who pays the fee, and merges the privileges as the runtime does.
What the ledger modules take for granted, that a step is applied to the right accounts
and that those it changes may be changed, is what these three modules check.

**The CPI of Undelegate** is a choice of `CpiOutcomes`. The owner program is given the
emptied account, the buffer and the validator, all writable. It may reopen the account with
any contents, charge the validator any amount, and divert any part of that to the
buffer, which `dlp` closes to the validator at the end. The code goes on (`CpiIsFaithful`)
if what was charged is exactly the rent and the contents are those of the buffer; it
looks neither at the lamports nor at the owner of the account. So the account may come back
with less than it had, by up to its rent, and the validator gains the difference;
if nothing is left the runtime removes the account, and if less than the rent is left it undoes
the transaction. The owner is what the code does not test and the runtime does: an account is
written by its owner only and changes hands only when it is blank, so that an account with
contents other than zeroes belongs to the program that wrote them. In the buffer, which
`dlp` owns, foreign code can only add lamports. For the system program and for a key pair the
CPI cannot succeed: an account with data delegated for those is in custody for good
(`AccountsAreRentExempt` shows the alternative would be worse: the system program
owning data).

**What is abstracted.** Data are model values with a rent (`DataRent`); `Zeroed` is
what is left in an account whose contents were moved to the buffer. Keys,
signatures and writability are in `Loaders` and `AccountLists` only: the actions on the
ledger are applied to the right accounts. Fields the program stores and never reads
(authority, delegation slot, commit frequency, seeds) are left out. The undelegation
buffer exists only inside Undelegate; the validator pays its rent and gets it back, so
it is a guard on the validator's wallet. It is assumed never to have been sent lamports
before. The escrow of a wallet stands for all its indices.

**What is assumed of the environment.** One instruction per transaction, except the
assignment that must precede Delegate, and except in `Transactions`, where Delegate and
the creation of an account are transactions of their own. `Rent::default()` is the rent
of the cluster. No account is below its rent, except an empty one; wallets count the
lamports above their own reserve. Unsolicited transfers go to delegatable accounts
and to the commit state PDA, which is the one whose balance matters to a
settlement. An owner program assigns an account to `dlp` only to call Delegate, and
the holder of a key pair that was returned to a program other than its own no
longer delegates it. Nothing is delegated on behalf of `dlp` itself: `delegate.rs:71` derives
PDAs only, so that it would accept a key pair whose holder names `dlp` as the owner program,
and such an account, once undelegated, is owned by `dlp` without a record
(`LedgerAssumption`: `Dlp` is not among the `Owners`). Delegated contents are not all zeroes
(`ContentsAssumption`: `Zeroed` is not among the `Data`): those that are could be given to
another owner during the CPI. In the CPI an owner program uses the signature of the validator
to charge it, and leaves its wallet a wallet. Configurations are set for the programs of
`Owners`.

## The runs

Numbers are small but in proportion: the rent of the delegation PDAs is large
enough for the fee and for the protocol's share of it to be whole numbers other
than zero; the rents of the contents (3, 4 and 6) differ, so growing, shrinking and
emptying an account are different; the committed balances lie below the rent, below
the recorded balance and above it. (`MCFairSession` is the exception: its rents are
1 to 3 units and its fees round to nothing, which keeps its state graph small enough
for liveness.) The validators can pay for one or two commits
above the balance, so running out of lamports is reached as well.

| run | instance | properties |
|---|---|---|
| `MCSession` | a PDA, two validators, two slots, commits of 0, 2, 8, 15 lamports and two sizes of data, deposits at any time, charges and diversions of 0, 1, 3, 4, 6 lamports in the CPI, the program restricted to `v1` or not | `RecordIsCovered`, `CommitIsCollateralized`, `PdasAreConsistent`, `CustodyIsFaithful`, `SettlementIsExact`, `PendingCommitIsImmutable`, `SessionMovesForward`, `AccountIsReturnedIntact`, `AccountIsTakenIntact`, `LamportsAreConserved`, `ImplementsCustody` |
| `MCKeyPair` | the same for the account of a key pair | `AccountsAreRentExempt`, `AccountIsReturnedIntact`, `ImplementsCustody` |
| `MCProgram` | all instructions from an empty ledger, a PDA and one validator; the user is the admin and the upgrade authority, and pays for everything | `TypeOK`, `PdasAreConsistent`, `PdasAreRentExempt`, `VaultsPayTheirOwners`, `LamportsAreConserved` |
| `MCEscrow` | all instructions on an escrow, topped up at home, in custody and with a commit pending | `EscrowPaysItsOwner`, `SettlementIsExact`, `LamportsAreConserved`, `ImplementsCustody` |
| `MCConfig` | no account; two validators, an admin and an upgrade authority, each with a wallet of its own | `ConfigurationIsPermanent` |
| `MCTransactions` | a PDA, two validators, two slots, bundles of up to three commits, finalizes, undelegates and transfers, ended or undone | `RecordIsCovered`, `CommitIsCollateralized`, `BundledCommitTakesEffect`, `CommitIsStrandedOnlyByEmptying` |
| `MCHistory` | a PDA, two validators, two slots, the fees of several sessions, rents withheld or not; the history of the commits | `RetryTakesOnlyDeposits`, `ReturnedAsReleased` |
| `MCFairSession` | a PDA that is too large when it is first delegated; two validators, one that can pay for one commit above the balance and then for no buffer, and one that can pay for nothing before its vault is closed or it gains what an owner program withholds; rents of 1 to 3 units; deposits during the session; commits above and below the rent; vaults closed and opened again; fairness | `UndelegatableFits`, `NobodyIsStuck`, `PendingCommitIsSettled`, `ReleasedAccountIsReturned` |
| `MCAccountLists` | a PDA and an escrow in custody, three wallets; every built instruction, alone with one account replaced by any other, or in pairs; any fee payer | `BuiltInstructionsAreAccepted`, `ChangedAccountsAreTheRightOnes` |
| `ClaimCustody`, `ClaimSettled`, `ClaimEscrow` | the instances above | one statement of the repository each, violated (see Findings) |

Why the bounds are enough: all instructions on an account touch that account's PDAs
only, plus the vault of one validator and wallets, so a second account adds
interleavings but no interaction except through shared wallets and vaults (which
`MCProgram` shares among all the roles of its user). Two validators give
every race for one account; two slots give earlier, equal and later. Three instructions
are a bundle that commits, finalizes and then does one thing more: commits again,
undelegates, or finalizes what is no longer there. The lists of two instructions merge
as those of any number do, since a privilege is there if any list asks for it. `DepositsBelow`
and `TopUpsBelow` bound transfers to accounts that already hold that much; nothing
else needs a bound since lamports are conserved. The same invariants are proved without
any of these bounds.

`CHECK_DEADLOCK` is off: the system may stop, when wallets run dry or a program's
configuration accepts nobody.

**Fairness** is assumed in `FairSession` only. The program has no timer and no scheduler:
what must happen is an instruction that a validator has to send. A validator that goes on
sends Finalize for its commit, and Undelegate for an account that was released, until it
goes through: weak fairness of `Finalize(v, a)`, and of `Undelegate(a)`, which any
validator may send. Nobody has to commit, to deposit, to delegate, or to open a vault.
`NobodyIsStuck` says the same of a moment: the instruction goes through at once.
Both liveness properties name what can end the wait otherwise. `PendingCommitIsSettled` speaks of
commits that cover the rent of their contents (the others are a finding) and
allows for the vault of the validator being closed. `ReleasedAccountIsReturned` speaks
of accounts that the owner program can reopen, and allows for a moment at which no
validator with a vault can advance the rent of the buffer: whoever released the account
may have spent its lamports on the collateral.

Every property of a passing run has a *mutant*: a second version of a definition
with a plausible bug (a missing check, an off-by-one, a share paid twice), kept beside the
original with a comment that starts with `Mutant`. With the mutant in its
place, TLC finds the property violated.

## Findings

- **A commit of 0 lamports orphans the delegation** (`ClaimCustody`).
  `finalize.rs` moves the whole balance to the vault, the runtime removes the
  account, and the delegation record and metadata stay. The owner program finds its
  PDA gone and cannot delegate it again, and Undelegate refuses an account the
  program does not own. The tests assert that the owner is still `dlp` after
  every finalize, and never commit 0.
- **A commit below the rent of its data cannot be finalized** (`ClaimSettled`).
  The commit instruction compares lamports with the record, never with the rent. While
  such a commit pends no other commit and no undelegation is accepted. A
  deposit to the account that makes up the difference unlocks it.
- **An empty escrow can be delegated** (`ClaimEscrow`), and is gone
  when the transaction ends, like the account of the first finding.

Differences that have no run of their own, met while translating:

- The doc at `processor/undelegate.rs:51` asks that the account is *not* undelegatable; the
  code asks that it is.
- The doc at `processor/commit_state.rs:39` requires a program configuration; the code
  accepts every validator when there is none.
- `processor/commit_state.rs:43` rules out commits at an earlier slot than the last; an equal
  slot is accepted, and the slots restart at 0 with each delegation, so that a commit of an
  earlier session may be accepted in a later one.
- `load_pda` (`processor/utils/loaders.rs`) rejects an account that is writable where it
  needs not be. A transaction that commits an account and changes the configuration
  of its program is therefore rejected (`BuiltInstructionsAreAccepted`).
- The builders of the commits and of finalize name the validator read-only, which pays for
  the commit PDAs and gets their rent back. The instructions go through only because the
  validator pays the fee or is writable in another instruction (the same property).
- The doc of `whitelist_validator_for_program.rs` lists six accounts, the code takes seven.
- A bundle that settles an account to no lamports and commits it again leaves a commit, and
  its collateral, on an account that is removed at the end (`CommitIsStrandedOnlyByEmptying`
  says that nothing else does).

## The proofs

`DelegationProgramProofs.tla` proves, for any sets of accounts, validators, wallets,
programs, slots and data, any committed and deposited amounts and any rents, that
from an empty ledger (`Spec`) and in sessions (`SessionSpec`) the invariants
`TypeOK`, `RecordIsCovered`, `CommitIsCollateralized`, `PdasAreConsistent`,
`PdasAreRentExempt`, `AccountsAreRentExempt` and `UndelegatableFits` hold in every
reachable state. `CustodyProofs.tla` proves that both implement `Custody`,
`ActionProofs.tla` the nine action properties of `Safety.tla`, and `ConservationProofs.tla`
that no lamport is made or lost. `HistoryProofs.tla`, `TransactionsProofs.tla`,
`AccountListsProofs.tla` and `FairSessionProofs.tla` prove what the modules they are named
after state. `PROJECT.json` lists the theorems, each with the property it states.

Assumptions: `ProgramsDiffer` (`dlp` is not the system program), `LedgerAssumption` (the
sets are what their names say, rents are positive), the assumptions of the
components on their amounts (subsets of the naturals), `InitialAssumption`: accounts
start at home, rent exempt, and those without lamports do not exist; for the sum of all
lamports `FiniteAssumption` (accounts, wallets and programs are finite sets), and for the
account lists `KeysAssumption` (wallets and upgrade authorities are wallets, an account
in custody is derived from the program it was delegated for). TLC evaluates all of them in the passing runs. The theorems on
released accounts have one hypothesis more, `OwnersCanChargeRent`: an owner program can
charge the validator the rent of any contents a buffer can hold, and divert none of it.

The argument. None of the invariants is inductive alone, but their conjunction is:

- the coverage of a commit by collateral relies on the coverage of the record
  (a deficit is taken from the account), which in turn needs the settlement to be
  possible, that is the commit to be collateralized;
- both are about accounts in custody, so that they survive Delegate needs
  `PdasAreConsistent`: no commit pends when a delegation begins, since a commit
  pends only while the account is delegated and undelegation requires that none does;
- an empty account that was purged must not be mistaken for one in custody, hence
  "an account without lamports belongs to the system program" in `AccountsAreRentExempt`;
- the vaults and configurations need their rent so that the subtractions of
  `ValidatorClaimFees` stay natural numbers, which is `TypeOK`;
- `UndelegatableFits` holds because a commit, which alone can release an account, is
  itself never too large, and is what the account contains once it is finalized.

`Inv` regroups the conjunction by account (`Safe(a)`), so that an instruction on one
account needs a proof for that account only; `InvImpliesSafety` derives
the checked invariants from it. `OneAccountStep`, `NoAccountStep` and `VaultStep` are the
frame lemmas, and there is one lemma per instruction, which proves the types first and
then each part the instruction can disturb. The arithmetic (`FeeSplitIsExact`,
`PercentIsPart`, the lemmas on created and resized PDAs) comes first.

The refinement (`ProgramImplementsCustody`, `SessionsImplementCustody`). `Inv` is what
makes it work: it tells that an account is held in `Custody` exactly while it is delegated
(`HeldIsDelegated`), and that what a settlement takes is there. `OneAccountMaps` reduces an instruction on one
account to the mapped state of that account; there is one lemma per step of `Custody`
(`Take`, `Propose`, `Apply`, `Return`, `Receive`, `AtHome`), which an instruction
uses once its assignments are known, and `OtherAccountsMap` for instructions that touch
neither accounts nor their PDAs.

The action properties (`ActionProofs.tla`), all nine of `Safety.tla` for the whole program,
and the six about accounts and commits for the sessions, too:

- `CustodyIsFaithful` and `AccountIsTakenIntact` follow from the step of `Custody` that an
  instruction implements, whichever instruction it is.
- `PendingCommitIsImmutable` and `SessionMovesForward` are about the PDAs, of which
  `Custody` tells less. `PdaStep(a)` lists what any step can do to the PDAs of one account:
  keep them (but for transfers to the commit state), accept a commit, finalize it, or end
  the session. `NextIsPdaStep` shows it, one lemma per instruction.
- `SettlementIsExact` and `AccountIsReturnedIntact`: `PdaStep` tells that a commit that is
  gone was consumed by Finalize of its own account, and a session that is over ended by
  Undelegate. What remains is the arithmetic of those two: the collateral that `Inv` promises
  is what the settlement moves, and two fees rounded down leave nine tenths.
  `UndelegateWrites` tells what the CPI can change: whatever was charged and diverted, the
  top-up and the closing of the buffer leave the account short of exactly what the validator
  gains, which is no more than the rent.
- `VaultsPayTheirOwners` and `EscrowPaysItsOwner` go through the instructions: all but the
  claims and the close only add to a vault, all but the close of an escrow only add to an
  account at home (by its step of `Custody`). That an escrow in custody loses nothing when it
  goes back takes one invariant more, `OwnersAreDerived`: the account of a PDA is held for the
  program it is derived from, for an escrow the system program, to which it returns without
  a CPI. `ConfigurationIsPermanent` is about
  WhitelistValidatorForProgram alone, once `Inv` gives the configuration its type.

Conservation (`ConservationProofs.tla`). The sum over a function is defined by recursion
over sets, and the induction theorems of the library cannot be used. So the proof works with
smallest counterexamples: among the subsets of a finite set for which a statement on sums
fails there would be a smallest (`SmallestSubset`, `SmallestNumber`, from the well-foundedness
of strict inclusion and of `<`), and it does not fail. This gives that the sum exists
(`TotalExists`) and that it changes by as much as the function does at one argument
(`SumChanges`). After that there is one lemma per instruction: which
variables change at which key, and that the changes add up. `Inv` tells that a sum is one of
natural numbers. A wallet that is validator, payer and admin at once is credited more than
once in one step, which the lemmas take in turn.

Histories (`HistoryProofs.tla`). `HistoryInv` adds to `Inv` that `proposed` is what the commit
PDAs say, and that the last update of a session agrees with the record (its lamports and the
deposits before it), with the contents of the account while it is in custody, and, until the
next commit, with the permission in the metadata. Without it neither property is
inductive: they compare what is in the PDAs now with what was accepted earlier. A step is
looked at through `PdaStep` and `Custody`, so only Finalize and Undelegate are taken apart.

Bundles (`TransactionsProofs.tla`). `Inv` does not hold inside a bundle: an account may be
empty, or below its rent, and then a commit may outlive it. `Intact` is what remains of it.
`TransactionsInv` adds that the ledger to roll back to is intact, and that every commit
that was brought has been applied, is superseded or pends. It is kept by every instruction
of a bundle, by the removal of empty accounts at the end, and by rolling back; the
bundles are of any length.

Account lists (`AccountListsProofs.tla`). `ListsInv` says how far a transaction got and why, and
that its instructions come from the builders but for one account. The rest is about
operators: merging only adds privileges (`InfosMerge`), the handlers accept what the
builders build if nothing is added to what they want exactly (`BuiltIsAccepted`), only the whitelist
instruction writes a configuration (`OnlyWhitelistWritesConfigs`), and what a handler accepts has the
right keys at the positions it changes (`AcceptedAreRight`).

Liveness (`FairSessionProofs.tla`). In `FairSession` the vaults of validators come and go;
its steps are steps of the program, so that `Inv` is kept, and the protocol's vault stays open.
Each liveness property is one application of weak fairness, for one account and validator:

- what waits goes on waiting until it is served: no step touches a pending commit
  (`SettleableStaysSo`), nor what a released account was released with
  (`ReturnableStaysSo`, from `PdaStep` and `Custody`);
- meanwhile the instruction goes through: the invariant gives the collateral, the rent and the
  size of the buffer (`SettleableCanBeFinalized`, `ReturnableCanBeReturned`);
- and it ends the wait (`FinalizeSettles`, `UndelegateEndsSession`).

The provers know nothing of ENABLED, which weak fairness is about. `TryingSpec` is
`FairSessionSpec` with the guards `CanFinalize` and `CanReturn` written out instead:
`FinalizeHasGuard` and `UndelegateHasGuard` prove that the action is its guard and an
assignment to each variable. For `TryingSpec` both properties are proved without
more ado. That a guard of this kind enables its action is `GuardsEnable`, the hypothesis under which
`FairValidatorsTry`, `FairSessionsGoOn` and `NobodyIsEverStuck` speak of
`FairSessionSpec` itself. It is satisfied by every state of a session (an action that is a guard and
assignments is enabled when its guard holds), and TLC, which computes ENABLED, checks its
consequences, `NobodyIsStuck` and the two liveness properties, on the instance.

Only model-checked: that last step from guards to ENABLED; and the statements of `Claims.tla`, which do
not hold. Type correctness is part of each inductive invariant. That the code's operations are
what the modules say they are is a matter of reading, for which `PROJECT.json` maps each
definition to its lines.

## Not modelled

- Serialisation (byte layouts of bytemuck and borsh, discriminators of accounts) and the
  encoding of instruction arguments: contents are abstract and of their kind.
- Derivation of PDAs: bumps and hashing. Keys from distinct seeds are distinct.
- Errors: an error is a step that does not happen; which one is returned is not told.
- Compute budgets and the depth of inner calls: a step that exceeds them fails, which is
  `RollBack`.
- `load_sysvar` and `load_account`, which no instruction uses, and the tests, which were
  read for what they assert.

## Plan

Done, in this order: the ledger and its instructions, their invariants and proofs; `Custody`
and its refinement; bundles; histories; liveness; builders, loaders and account lists; the
proofs of the refinement, of the action properties, of the conservation of lamports, and of
the properties of histories, bundles, account lists and fair sessions. What comes next:

1. The invariant of bundles from an empty ledger: `Transactions` starts from sessions that are
   set up, and its theorems could start from `Init` as those of the program do.
2. A refinement of `Custody` by bundles, in which a bundle is one step or none for each account.
3. Instances with two accounts that share a validator's vault and wallet under fairness:
   one account's commits may take the lamports another account's buffer needs. (The theorems
   cover it; the instance would show how often.)
4. A codec of the whitelist and of the commit arguments, should a property need them.
