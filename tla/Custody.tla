------------------------------- MODULE Custody -------------------------------
(***************************************************************************)
(* What the delegation program promises about an account, told without     *)
(* PDAs, rents, fees, vaults or wallets: the abstract specification that   *)
(* the instructions implement (CustodyRefinement.tla).                     *)
(*                                                                         *)
(*   at home --Take--> held --Propose--> held, proposal --Apply--> held    *)
(*      ^                |                                                 *)
(*      +---- Return ----+   (once a proposal released the account)        *)
(*                                                                         *)
(* An option is a set of at most one element: terms[a] are the terms under *)
(* which a is held, proposal[a] the state proposed for it.                 *)
(***************************************************************************)
EXTENDS Integers

CONSTANTS Accounts, Owners, Custodian, Gone, Proposals

VARIABLES account, terms, proposal

custodyVars == <<account, terms, proposal>>

IsHeld(a) == terms[a] # {} /\ account[a].owner = Custodian

\* An account that holds no lamports cannot be kept.
Kept(acc) == IF acc.lamports = 0 THEN Gone ELSE [acc EXCEPT !.owner = Custodian]

Init ==
    /\ terms = [a \in Accounts |-> {}]
    /\ proposal = [a \in Accounts |-> {}]
    /\ \A a \in Accounts : account[a].owner # Custodian

\* The account is taken over as it is.
Take(a, owner) ==
    /\ terms[a] = {}
    /\ account[a].owner # Custodian
    /\ account' = [account EXCEPT ![a] = Kept(@)]
    /\ terms' = [terms EXCEPT ![a] =
          {[owner |-> owner, balance |-> account[a].lamports, slot |-> 0, released |-> FALSE]}]
    /\ UNCHANGED proposal

\* One proposal at a time, none from before the last update, and none after one
\* that released the account.
Propose(a) ==
    /\ IsHeld(a)
    /\ proposal[a] = {}
    /\ \E p \in Proposals, t \in terms[a], release \in BOOLEAN :
          /\ proposal' = [proposal EXCEPT ![a] = {p}]
          /\ ~ t.released
          /\ p.slot >= t.slot
          /\ terms' = [terms EXCEPT ![a] = {[t EXCEPT !.released = release]}]
    /\ UNCHANGED account

\* The account becomes what was proposed, plus what it received meanwhile.
Apply(a) ==
    /\ IsHeld(a)
    /\ \E p \in proposal[a], t \in terms[a] :
          LET applied == [account[a] EXCEPT !.lamports = p.lamports + (@ - t.balance),
                                            !.data = p.data]
          IN  /\ account' = [account EXCEPT ![a] = Kept(applied)]
              /\ terms' = [terms EXCEPT ![a] =
                    {[t EXCEPT !.balance = applied.lamports, !.slot = p.slot]}]
    /\ proposal' = [proposal EXCEPT ![a] = {}]

\* The account goes back as it is to the owner it was taken for, who may
\* withhold lamports from it; if nothing is left of it, it is gone.
Return(a) ==
    /\ IsHeld(a)
    /\ proposal[a] = {}
    /\ \E t \in terms[a], left \in 0 .. account[a].lamports :
          /\ t.released
          /\ account' = [account EXCEPT ![a] =
                IF left = 0 THEN Gone ELSE [@ EXCEPT !.owner = t.owner, !.lamports = left]]
    /\ terms' = [terms EXCEPT ![a] = {}]
    /\ UNCHANGED proposal

\* Anybody may send lamports to the account, held or not.
Receive(a) ==
    /\ account'[a].lamports >= account[a].lamports
    /\ account' = [account EXCEPT ![a].lamports = account'[a].lamports]
    /\ UNCHANGED <<terms, proposal>>

\* An account that is not held is its owner's business.
AtHome(a) ==
    /\ account[a].owner # Custodian /\ account'[a].owner # Custodian
    /\ account' = [account EXCEPT ![a] = account'[a]]
    /\ UNCHANGED <<terms, proposal>>

Next ==
    \E a \in Accounts :
        \/ \E owner \in Owners : Take(a, owner)
        \/ Propose(a)
        \/ Apply(a)
        \/ Return(a)
        \/ Receive(a)
        \/ AtHome(a)

Spec == Init /\ [][Next]_custodyVars
=============================================================================
