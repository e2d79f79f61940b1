-------------------------- MODULE MultisigContract --------------------------
(***************************************************************************)
(* What the program promises those who keep funds in its vaults.           *)
(*                                                                         *)
(* A council is a multisig: its members and its threshold.  A proposal is  *)
(* one message at one address, voted on by the council and paid, that is   *)
(* run with the vault's signature, once.  One step is one whole bundle of  *)
(* instructions: it may convene councils, open proposals, collect votes,   *)
(* pay and remove proposals, several at a time and all of it for the same  *)
(* proposal.  There are no accounts, indexes, frames or caches here.       *)
(***************************************************************************)
EXTENDS Naturals, FiniteSets

VARIABLES
    council,    \* members and threshold of each multisig
    used,       \* the addresses that are or were a proposal's
    proposal,   \* the proposals that exist: multisig, message, paid or not
    votes,      \* the votes ever cast: member, transaction, message
    payments    \* the payments ever made: multisig, transaction, message,
                \* and whether all of the message was run

contractVars == <<council, used, proposal, votes, payments>>

Start ==
    /\ DOMAIN council = {}
    /\ used = {}
    /\ DOMAIN proposal = {}
    /\ votes = {}
    /\ payments = {}

\* A vote or a payment concerns the message everybody could read before the
\* bundle, if it was still unpaid, or one that the bundle itself proposes at
\* an address that no proposal ever had.
Decidable(txn, message) ==
    \/ /\ txn \in DOMAIN proposal
       /\ proposal[txn].message = message
       /\ ~proposal[txn].paid
    \/ txn \in used' \ used

\* Those who have voted for this message of this proposal, new votes included.
Supporters(ms, txn, message) ==
    { m \in council'[ms].members :
        [member |-> m, transaction |-> txn, message |-> message] \in votes' }

\* Councils are for ever.
Convene == \A ms \in DOMAIN council : ms \in DOMAIN council' /\ council'[ms] = council[ms]

\* A proposal is opened at an address of its own; while it exists its message
\* is what it was and it stays paid once it is.
Propose ==
    /\ used \subseteq used'
    /\ \A t \in DOMAIN proposal' \ DOMAIN proposal : t \in used' \ used
    /\ \A t \in DOMAIN proposal' \cap DOMAIN proposal :
          /\ proposal'[t].multisig = proposal[t].multisig
          /\ proposal'[t].message = proposal[t].message
          /\ proposal[t].paid => proposal'[t].paid

\* Votes are never withdrawn, and an address is voted on for one message only.
Vote ==
    /\ votes \subseteq votes'
    /\ \A v \in votes' \ votes : Decidable(v.transaction, v.message)
    /\ \A v, w \in votes' : v.transaction = w.transaction => v.message = w.message

\* A payment has the support of the council, runs the whole message and is the
\* only one of its proposal, which shows as paid as long as it exists.
Pay ==
    /\ payments \subseteq payments'
    /\ \A p \in payments' \ payments :
          /\ Decidable(p.transaction, p.message)
          /\ Cardinality(Supporters(p.multisig, p.transaction, p.message))
                >= council'[p.multisig].threshold
          /\ p.complete
    /\ \A p, q \in payments' : p.transaction = q.transaction => p = q
    /\ \A t \in DOMAIN proposal' :
          proposal'[t].paid <=> \E p \in payments' : p.transaction = t

Bundle == Convene /\ Propose /\ Vote /\ Pay

Contract == Start /\ [][Bundle]_contractVars

=============================================================================
