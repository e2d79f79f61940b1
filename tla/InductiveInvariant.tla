------------------------- MODULE InductiveInvariant -------------------------
(***************************************************************************)
(* Why the program is safe, as one invariant that every step preserves.    *)
(*                                                                         *)
(* The parts speak of a ledger given piece by piece (m multisigs, t live   *)
(* proposals, c consents, l log) and of the frames S that are executing on *)
(* it: they hold of the working copy with the current stack, and of the    *)
(* committed ledger with no frame at all.                                  *)
(***************************************************************************)
EXTENDS SolanaMultisig

\* An address some multisig has already given to a proposal.
Claimed(m, ms, txn) ==
    /\ ms \in DOMAIN m
    /\ \E i \in 1..m[ms].transaction_index : txn = transaction_pda(ms, i)

\* At least threshold members of ms have approved this message at this address.
Consented(m, c, ms, txn, message) ==
    Cardinality({ k \in ToSet(m[ms].members) :
        [member |-> k, transaction |-> txn, message |-> message] \in c })
      >= m[ms].threshold

Executing(S, txn) == \E k \in DOMAIN S : S[k].transaction = txn

\* A live proposal sits at an address claimed by its multisig, and holds a
\* message that create_transaction accepted for its vault.
LiveInv(m, t) ==
    \A txn \in DOMAIN t :
        /\ t[txn].multisig \in DOMAIN m
        /\ t[txn].transaction_index \in 1..m[t[txn].multisig].transaction_index
        /\ txn = transaction_pda(t[txn].multisig, t[txn].transaction_index)
        /\ ValidMessage(t[txn].message,
                        derive_vault_pda(t[txn].multisig, t[txn].vault_index))

\* The approvals of a live proposal are those of different members who have
\* consented to its message.
ApprovalInv(m, t, c) ==
    \A txn \in DOMAIN t :
        /\ IsInjective(t[txn].approvals)
        /\ \A i \in DOMAIN t[txn].approvals :
              /\ t[txn].approvals[i] \in ToSet(m[t[txn].multisig].members)
              /\ [member |-> t[txn].approvals[i], transaction |-> txn,
                  message |-> t[txn].message] \in c

\* Consent was given at a claimed address; if a proposal is still there, it
\* is the one consented to.
ConsentInv(m, t, c) ==
    \A k \in c :
        /\ \E ms \in DOMAIN m : Claimed(m, ms, k.transaction)
        /\ k.transaction \in DOMAIN t => t[k.transaction].message = k.message

\* What was run was run for a claimed address and with consent; if a proposal
\* is still there, it is executed and holds the message that was run.
LogInv(m, t, c, l) ==
    \A n \in DOMAIN l :
        /\ Claimed(m, l[n].multisig, l[n].transaction)
        /\ Consented(m, c, l[n].multisig, l[n].transaction, l[n].message)
        /\ l[n].transaction \in DOMAIN t =>
              /\ t[l[n].transaction].executed
              /\ t[l[n].transaction].message = l[n].message

\* For each address the log lists the instructions of one message, once and in
\* order.
OrderInv(l) ==
    \A a, b \in DOMAIN l :
        a < b /\ l[a].transaction = l[b].transaction =>
            l[a].message = l[b].message /\ l[a].pc < l[b].pc

\* A frame holds what is stored, or what was stored before a CPI closed it; it
\* is marked executed, has consent, and everything before its pc, and nothing
\* else, was run.
FrameInv(m, t, c, l, f) ==
    /\ Claimed(m, f.multisig, f.transaction)
    /\ f.cached.multisig = f.multisig
    /\ f.cached.executed
    /\ ValidMessage(f.cached.message,
                    derive_vault_pda(f.multisig, f.cached.vault_index))
    /\ f.transaction \in DOMAIN t => t[f.transaction] = f.cached
    /\ Consented(m, c, f.multisig, f.transaction, f.cached.message)
    /\ f.pc <= Len(f.cached.message.instructions) + 1
    /\ \A n \in DOMAIN l :
          l[n].transaction = f.transaction =>
              l[n].pc < f.pc /\ l[n].message = f.cached.message
    /\ \A p \in 1..(f.pc - 1) :
          \E n \in DOMAIN l : l[n].transaction = f.transaction /\ l[n].pc = p

\* No proposal executes inside itself.
StackInv(m, t, c, l, S) ==
    /\ \A k \in DOMAIN S : FrameInv(m, t, c, l, S[k])
    /\ \A j, k \in DOMAIN S : S[j].transaction = S[k].transaction => j = k

\* What no frame is executing was run in full or not at all.
DoneInv(t, l, S) ==
    /\ \A n \in DOMAIN l :
          ~Executing(S, l[n].transaction) =>
              /\ l[n].pc <= Len(l[n].message.instructions)
              /\ \A p \in 1..Len(l[n].message.instructions) :
                    \E k \in DOMAIN l : l[k].transaction = l[n].transaction /\ l[k].pc = p
    /\ \A txn \in DOMAIN t :
          t[txn].executed /\ ~Executing(S, txn) =>
              \E n \in DOMAIN l : l[n].transaction = txn

LedgerInv(m, t, c, l, S) ==
    /\ LiveInv(m, t)
    /\ ApprovalInv(m, t, c)
    /\ ConsentInv(m, t, c)
    /\ LogInv(m, t, c, l)
    /\ OrderInv(l)
    /\ StackInv(m, t, c, l, S)
    /\ DoneInv(t, l, S)

\* The inductive invariant: the working copy with the frames on the stack, and
\* the ledger an Abort goes back to, both account for every approval and every
\* instruction run.
Inv ==
    /\ TypeOK
    /\ LedgerInv(multisig, transaction, consent, log, stack)
    /\ LedgerInv(committed.multisig, committed.transaction, committed.consent,
                 committed.log, <<>>)

\* What sums over the live proposals need besides: there are finitely many, no
\* counter has passed the largest index, and a set of known keys signed.
CountInv(L) ==
    /\ IsFiniteSet(DOMAIN L.transaction)
    /\ \A ms \in DOMAIN L.multisig : L.multisig[ms].transaction_index <= U64_MAX

DepositInv ==
    /\ CountInv(Ledger)
    /\ CountInv(committed)
    /\ signers # {} => signers \in SignerSets

=============================================================================
