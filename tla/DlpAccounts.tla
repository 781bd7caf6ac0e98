----------------------------- MODULE DlpAccounts -----------------------------
(***************************************************************************)
(* The account arithmetic every instruction of the delegation program is   *)
(* built from: what counts as an (un)initialized account, what creating,   *)
(* resizing and closing a PDA costs and pays, and what the Solana runtime  *)
(* does to an account when the transaction that wrote it ends.             *)
(*                                                                         *)
(* An account is a record [owner, lamports, data].  NoData is the empty    *)
(* byte string.  There is no state here: the state is in module Ledger.    *)
(***************************************************************************)
EXTENDS Integers

CONSTANTS
    SystemProgram,  \* owner of wallets and of every account that does not exist
    Dlp,            \* the delegation program itself (crate::id())
    NoData          \* empty account data

ASSUME ProgramsDiffer == SystemProgram # Dlp

Account(owner, lamports, data) ==
    [owner |-> owner, lamports |-> lamports, data |-> data]

\* An account nobody created and nobody sent lamports to.
Absent == Account(SystemProgram, 0, NoData)

\* Note that an uninitialized account may hold lamports: anyone can send some.
IsUninitialized(acc) == acc.owner = SystemProgram /\ acc.data = NoData

\* load_owned_pda, and load_initialized_pda once the address is known to be right.
IsInitialized(acc) == acc.owner = Dlp

-----------------------------------------------------------------------------
(* Creating and resizing. *)

\* What the payer transfers so that acc holds the minimum balance `rent`.
TopUpCost(acc, rent) == IF acc.lamports < rent THEN rent - acc.lamports ELSE 0

\* create_pda: both branches (create_account on a zero balance; transfer,
\* allocate and assign otherwise) leave max(balance, rent) in the account.
CreatedPda(acc, owner, rent, data) ==
    Account(owner, acc.lamports + TopUpCost(acc, rent), data)

\* Mutant: growing is not paid for.
ResizedPdaFree(acc, rent, data) == Account(acc.owner, acc.lamports, data)

\* resize_pda never refunds: shrinking leaves the surplus in the account.
ResizedPda(acc, rent, data) ==
    Account(acc.owner, acc.lamports + TopUpCost(acc, rent), data)

-----------------------------------------------------------------------------
(* Closing with fees, and claiming fees. *)

RentFeesPercentage == 10
ProtocolFeesPercentage == 10

\* Mutant: rounded up.
PercentUp(amount, percentage) == (amount * percentage + 99) \div 100

Percent(amount, percentage) == (amount * percentage) \div 100

\* Mutant: the validator is paid the protocol's share as well.
FeeSplitTwice(lamports) ==
    LET total    == Percent(lamports, RentFeesPercentage)
        protocol == Percent(total, RentFeesPercentage)
    IN  [protocol |-> protocol, validator |-> total, refund |-> lamports - total]

\* close_pda_with_fees on <<validator vault, protocol vault>>: the protocol
\* takes its share of the fee, the validator the rest of it, and the
\* destination what the fee leaves.
FeeSplit(lamports) ==
    LET total    == Percent(lamports, RentFeesPercentage)
        protocol == Percent(total, RentFeesPercentage)
    IN  [protocol |-> protocol, validator |-> total - protocol, refund |-> lamports - total]

-----------------------------------------------------------------------------
(* The end of a transaction (external: the Solana runtime). *)

\* Every account a transaction wrote must end it empty of lamports or rent exempt.
IsRentExempt(acc, rent) == acc.lamports = 0 \/ acc.lamports >= rent

\* An account left with no lamports is gone when the transaction ends.
Purged(acc) == IF acc.lamports = 0 THEN Absent ELSE acc
=============================================================================
