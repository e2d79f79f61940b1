------------------------- MODULE ContractRefinement -------------------------
(***************************************************************************)
(* The program implements its contract.  The mapping reads the committed   *)
(* ledger only, so every step but Commit is a stutter of the contract and  *)
(* a whole bundle, with all the CPIs of its proposals, is one step.        *)
(***************************************************************************)
EXTENDS InductiveInvariant

Councils(L) ==
    [ms \in DOMAIN L.multisig |->
        [members   |-> ToSet(L.multisig[ms].members),
         threshold |-> L.multisig[ms].threshold]]

\* The addresses whose index was claimed, closed proposals included.
Used(L) ==
    UNION { { transaction_pda(ms, i) : i \in 1..L.multisig[ms].transaction_index } :
            ms \in DOMAIN L.multisig }

Proposals(L) ==
    [txn \in DOMAIN L.transaction |->
        [multisig |-> L.transaction[txn].multisig,
         message  |-> L.transaction[txn].message,
         paid     |-> L.transaction[txn].executed]]

\* A payment is all the runs of one proposal taken together.
Payment(L, run) ==
    [multisig    |-> run.multisig,
     transaction |-> run.transaction,
     message     |-> run.message,
     complete    |-> Ran(L, run.transaction) = 1..Len(run.message.instructions)]

Payments(L) == { Payment(L, L.log[n]) : n \in DOMAIN L.log }

Promised == INSTANCE MultisigContract WITH
    council  <- Councils(committed),
    used     <- Used(committed),
    proposal <- Proposals(committed),
    votes    <- committed.consent,
    payments <- Payments(committed)

\* To those who only see committed ledgers, the program is its contract: each
\* bundle spends only by messages that enough members voted for and could read
\* before, each at most once and in full.
ImplementsContract == Promised!Contract

-----------------------------------------------------------------------------
(***************************************************************************)
(* How far an open outer transaction may have moved from the ledger C it   *)
(* started on: the pieces are those of LedgerInv.                          *)
(***************************************************************************)

\* The message was open for decision at txn in C, or txn was nobody's then.
Origin(C, txn, message) ==
    \/ /\ txn \in DOMAIN C.transaction
       /\ C.transaction[txn].message = message
       /\ ~C.transaction[txn].executed
    \/ txn \notin Used(C)

SameRun(r, s) == r.multisig = s.multisig /\ r.transaction = s.transaction /\ r.message = s.message

\* Multisigs are what they were; proposals are new or what they were.
ProposalsSince(C, m, t) ==
    /\ \A ms \in DOMAIN C.multisig :
          /\ ms \in DOMAIN m
          /\ m[ms].members = C.multisig[ms].members
          /\ m[ms].threshold = C.multisig[ms].threshold
          /\ m[ms].transaction_index >= C.multisig[ms].transaction_index
    /\ \A txn \in DOMAIN t :
          \/ txn \notin Used(C)
          \/ /\ txn \in DOMAIN C.transaction
             /\ t[txn].multisig = C.transaction[txn].multisig
             /\ t[txn].message = C.transaction[txn].message
             /\ C.transaction[txn].executed => t[txn].executed

\* No consent is lost, and what is new concerns messages open for decision.
ConsentSince(C, c) ==
    /\ C.consent \subseteq c
    /\ \A k \in c \ C.consent : Origin(C, k.transaction, k.message)

\* No run is lost, and what is run or executing concerns messages open for
\* decision.
RunsSince(C, l, S) ==
    /\ \A n \in DOMAIN C.log : \E k \in DOMAIN l : SameRun(l[k], C.log[n])
    /\ \A n \in DOMAIN l :
          \/ \E k \in DOMAIN C.log : SameRun(C.log[k], l[n])
          \/ Origin(C, l[n].transaction, l[n].message)
    /\ \A k \in DOMAIN S : Origin(C, S[k].transaction, S[k].cached.message)

OneMessage(c) == \A j, k \in c : j.transaction = k.transaction => j.message = k.message

Progress(C, m, t, c, l, S) ==
    /\ ProposalsSince(C, m, t)
    /\ ConsentSince(C, c)
    /\ RunsSince(C, l, S)
    /\ OneMessage(c)

\* At any point of a bundle, frames and all, the working copy has decided and
\* run nothing that was not open for decision when the bundle started: an
\* address closed and claimed again, a proposal executed twice or an approval
\* after execution would show here before the bundle commits.
BundleSoFar ==
    /\ Progress(committed, multisig, transaction, consent, log, stack)
    /\ OneMessage(committed.consent)

=============================================================================
