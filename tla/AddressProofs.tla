---------------------------- MODULE AddressProofs ----------------------------
(***************************************************************************)
(* A multisig is where every client looks for it, and a proposal has room  *)
(* for every approval.  Both need an invariant about what was stored when  *)
(* the account was created, of the working copy and of the ledger that an  *)
(* Abort goes back to.                                                     *)
(***************************************************************************)
EXTENDS SolanaMultisigSafety, SequenceLemmas

\* The members of a multisig are stored in byte order and without duplicates,
\* at the address made of that list and the threshold.
MultisigsInv(m) ==
    \A ms \in DOMAIN m :
        /\ InOrder(m[ms].members)
        /\ IsInjective(m[ms].members)
        /\ ms = multisig_pda(hash_members(m[ms].members), m[ms].threshold)
        /\ m[ms].threshold \in 1..Len(m[ms].members)

\* The space of a proposal is that of its message with all members' approvals.
SpaceInv(m, t) ==
    \A txn \in DOMAIN t :
        t[txn].space = compute_proposal_space(t[txn].message, Len(m[t[txn].multisig].members))

CreatedInv(m, t) == MultisigsInv(m) /\ SpaceInv(m, t)

AddressInv ==
    /\ CreatedInv(multisig, transaction)
    /\ CreatedInv(committed.multisig, committed.transaction)

-----------------------------------------------------------------------------
(***************************************************************************)
(* What the handlers do to CreatedInv.                                     *)
(***************************************************************************)

\* A step that creates nothing: multisigs only count, proposals are changed in
\* other fields, or removed.
Keeps(m, t, m2, t2) ==
    /\ DOMAIN m2 = DOMAIN m
    /\ \A ms \in DOMAIN m : m2[ms].members = m[ms].members /\ m2[ms].threshold = m[ms].threshold
    /\ DOMAIN t2 \subseteq DOMAIN t
    /\ \A txn \in DOMAIN t2 : /\ t2[txn].multisig = t[txn].multisig
                              /\ t2[txn].message = t[txn].message
                              /\ t2[txn].space = t[txn].space

\* What is said of the creation of an account stays true while accounts keep
\* what they were created with.
LEMMA KeptCreated ==
    ASSUME NEW m, NEW t, NEW m2, NEW t2, CreatedInv(m, t), Keeps(m, t, m2, t2),
           \A txn \in DOMAIN t : t[txn].multisig \in DOMAIN m
    PROVE  CreatedInv(m2, t2)
<1>1. MultisigsInv(m2)
  BY DEF CreatedInv, MultisigsInv, Keeps
<1>2. SpaceInv(m2, t2)
  BY DEF CreatedInv, SpaceInv, Keeps
<1> QED
  BY <1>1, <1>2 DEF CreatedInv

\* initialize_multisig stores the sorted list whose hash the address was
\* derived from.
LEMMA InitializeCreated ==
    ASSUME TypeOK, CreatedInv(multisig, transaction), LiveInv(multisig, transaction),
           NEW ms, NEW payer, NEW members \in Seq(Address), NEW member_hash,
           NEW threshold \in Nat, NEW member_count, NEW sig, NEW wr,
           initialize_multisig(ms, payer, members, member_hash, threshold,
                               member_count, sig, wr)
    PROVE  CreatedInv(multisig', transaction')
<1>1. PICK s \in Sorted(members) :
        /\ AdjacentDistinct(s)
        /\ hash_members(s) = member_hash
        /\ multisig' = With(multisig, ms, [members |-> s, threshold |-> threshold,
                                           transaction_index |-> 0])
  BY DEF initialize_multisig, HashBound
<1>2. /\ ms = multisig_pda(member_hash, threshold)
      /\ ms \notin DOMAIN multisig
      /\ threshold > 0 /\ threshold <= Len(members)
      /\ transaction' = transaction
  BY DEF initialize_multisig
<1>3. InOrder(s) /\ Len(s) = Len(members) /\ IsInjective(s)
  BY <1>1, SortedMeans, SortedType, SortedDistinct
<1>4. threshold \in 1..Len(s)
  BY <1>2, <1>3
<1>5. /\ DOMAIN multisig' = DOMAIN multisig \cup {ms}
      /\ multisig'[ms].members = s /\ multisig'[ms].threshold = threshold
      /\ \A a \in DOMAIN multisig : multisig'[a] = multisig[a]
  BY <1>1, <1>2 DEF With
<1>6. MultisigsInv(multisig')
  BY <1>1, <1>2, <1>3, <1>4, <1>5 DEF CreatedInv, MultisigsInv
<1>7. SpaceInv(multisig', transaction')
  BY <1>2, <1>5 DEF CreatedInv, SpaceInv, LiveInv
<1> QED
  BY <1>6, <1>7 DEF CreatedInv

\* create_transaction allocates the space for all members.
LEMMA CreateCreated ==
    ASSUME TypeOK, CreatedInv(multisig, transaction), LiveInv(multisig, transaction),
           NEW ms, NEW txn, NEW creator, NEW payer, NEW vault_index, NEW message,
           NEW sig, NEW wr,
           create_transaction(ms, txn, creator, payer, vault_index, message, sig, wr)
    PROVE  CreatedInv(multisig', transaction')
<1> DEFINE account == [multisig |-> ms, transaction_index |-> NextIndex(ms),
                       creator |-> creator, payer |-> payer,
                       vault_index |-> vault_index, executed |-> FALSE,
                       approvals |-> <<>>, message |-> message,
                       space |-> SpaceFor(ms, message)]
<1>1. /\ ms \in DOMAIN multisig
      /\ multisig' = [multisig EXCEPT ![ms].transaction_index = NextIndex(ms)]
      /\ transaction' = With(transaction, txn, account)
  BY DEF create_transaction
<1>2. /\ account.multisig = ms /\ account.message = message
      /\ account.space = compute_proposal_space(message, Len(multisig[ms].members))
  BY DEF SpaceFor
<1> HIDE DEF account
<1>3. \A a \in DOMAIN multisig : multisig[a] \in MultisigAccount
  BY DEF TypeOK, LedgerTypeOK, Ledger
<1>4. /\ DOMAIN multisig' = DOMAIN multisig
      /\ \A a \in DOMAIN multisig : /\ multisig'[a].members = multisig[a].members
                                    /\ multisig'[a].threshold = multisig[a].threshold
  BY <1>1, <1>3 DEF MultisigAccount
<1>5. MultisigsInv(multisig')
  BY <1>4 DEF CreatedInv, MultisigsInv
<1>6. /\ DOMAIN transaction' = DOMAIN transaction \cup {txn}
      /\ transaction'[txn] = account
      /\ \A x \in DOMAIN transaction \ {txn} : transaction'[x] = transaction[x]
  BY <1>1 DEF With
<1>7. SpaceInv(multisig', transaction')
  BY <1>1, <1>2, <1>4, <1>6 DEF CreatedInv, SpaceInv, LiveInv
<1> QED
  BY <1>5, <1>7 DEF CreatedInv

\* approve_transaction, execute_transaction and close_transaction create nothing.
LEMMA ApproveKeeps ==
    ASSUME TypeOK, NEW ms, NEW txn, NEW member, NEW transaction_index, NEW sig, NEW wr,
           approve_transaction(ms, txn, member, transaction_index, sig, wr)
    PROVE  Keeps(multisig, transaction, multisig', transaction')
<1> DEFINE t == [transaction[txn] EXCEPT !.approvals = Append(@, member)]
<1>1. txn \in DOMAIN transaction /\ multisig' = multisig
      /\ transaction' = [transaction EXCEPT ![txn] = t]
  BY DEF approve_transaction, BoundTo
<1>2. transaction[txn] \in VaultTransaction
  BY <1>1 DEF TypeOK, LedgerTypeOK, Ledger
<1>3. /\ t.multisig = transaction[txn].multisig
      /\ t.message = transaction[txn].message /\ t.space = transaction[txn].space
  BY <1>2 DEF VaultTransaction
<1> HIDE DEF t
<1> QED
  BY <1>1, <1>3 DEF Keeps

\* An execution changes no multisig, and of a proposal no message and no space.
LEMMA ExecuteKeeps ==
    ASSUME TypeOK, NEW ms, NEW txn, NEW executor, NEW transaction_index, NEW remaining,
           NEW sig, NEW wr, NEW caller,
           execute_transaction(ms, txn, executor, transaction_index, remaining,
                               sig, wr, caller)
    PROVE  Keeps(multisig, transaction, multisig', transaction')
<1> DEFINE t == [transaction[txn] EXCEPT !.executed = TRUE]
<1>1. txn \in DOMAIN transaction /\ multisig' = multisig
      /\ transaction' = [transaction EXCEPT ![txn] = t]
  BY DEF execute_transaction, BoundTo, Flushed
<1>2. transaction[txn] \in VaultTransaction
  BY <1>1 DEF TypeOK, LedgerTypeOK, Ledger
<1>3. /\ t.multisig = transaction[txn].multisig
      /\ t.message = transaction[txn].message /\ t.space = transaction[txn].space
  BY <1>2 DEF VaultTransaction
<1> HIDE DEF t
<1> QED
  BY <1>1, <1>3 DEF Keeps

\* A close takes a proposal away and changes nothing else.
LEMMA CloseKeeps ==
    ASSUME NEW ms, NEW txn, NEW payer, NEW transaction_index, NEW sig, NEW wr,
           close_transaction(ms, txn, payer, transaction_index, sig, wr)
    PROVE  Keeps(multisig, transaction, multisig', transaction')
BY DEF close_transaction, Without, Keeps

-----------------------------------------------------------------------------
(***************************************************************************)
(* AddressInv is inductive.                                                *)
(***************************************************************************)

\* Without accounts there is nothing to say.
LEMMA AddressInit == Init => AddressInv
<1>1. CreatedInv(<<>>, <<>>)
  BY DEF CreatedInv, MultisigsInv, SpaceInv
<1> QED
  BY <1>1 DEF Init, Ledger, AddressInv

\* What runs on the working copy keeps it.
LEMMA AddressWorking ==
    ASSUME Inv, AddressInv, TypeOK', [Next]_vars,
           ~Commit, ~Abort
    PROVE  CreatedInv(multisig', transaction')
<1>1. /\ TypeOK /\ CreatedInv(multisig, transaction) /\ LiveInv(multisig, transaction)
      /\ \A txn \in DOMAIN transaction : transaction[txn].multisig \in DOMAIN multisig
  BY DEF Inv, AddressInv, LedgerInv, LiveInv
<1>2. Keeps(multisig, transaction, multisig', transaction')
        => CreatedInv(multisig', transaction')
  BY <1>1, KeptCreated
<1>3. CASE InitializeMultisig
  <2>1. PICK members, claimed \in MemberLists, payer \in signers,
             threshold \in 0..(MAX_MEMBERS + 1) :
          \E member_count \in {Len(members), Len(claimed)} :
             initialize_multisig(multisig_pda(hash_members(claimed), threshold), payer,
                                 members, hash_members(claimed), threshold, member_count,
                                 signers, {multisig_pda(hash_members(claimed), threshold), payer})
    BY <1>3 DEF InitializeMultisig
  <2>2. members \in Seq(Address) /\ threshold \in Nat
    BY ConstantsAssumption
  <2> QED
    BY <1>1, <2>1, <2>2, InitializeCreated
<1>4. CASE CpiInitialize
  <2> DEFINE f == Last(stack)
             members == [k \in 1..(Len(Metas(f)) - 3) |-> Arg(f, k + 3)]
  <2>1. InvokeSigned(PROGRAM_ID) /\ Payload(f).op = "initialize_multisig" /\ Len(Metas(f)) >= 3
    BY <1>4 DEF CpiInitialize, InvokeSelf
  <2>2. initialize_multisig(Arg(f, 1), Arg(f, 2), members,
             Payload(f).member_hash, Payload(f).threshold, Payload(f).member_count,
             SignerKeys(Metas(f)), WritableKeys(Metas(f)))
    BY <1>4 DEF CpiInitialize
  <2>3. Len(Metas(f)) \in Nat /\ \A k \in 1..Len(Metas(f)) : Arg(f, k) \in Address
    BY <1>1, <2>1, InvokeType
  <2>4. members \in Seq(Address)
    <3>1. Len(Metas(f)) - 3 \in Nat
      BY <2>1, <2>3
    <3>2. \A k \in 1..(Len(Metas(f)) - 3) : Arg(f, k + 3) \in Address
      BY <2>1, <2>3
    <3> QED
      BY <3>1, <3>2
  <2>5. Payload(f).threshold \in Nat
    BY <1>1, <2>1, InvokeType, DecodeAssumption DEF Payload
  <2> HIDE DEF members
  <2> QED
    BY <1>1, <2>2, <2>4, <2>5, InitializeCreated
<1>5. CASE CreateTransaction \/ CpiCreate
  BY <1>1, <1>5, CreateCreated DEF CreateTransaction, CpiCreate
<1>6. CASE ApproveTransaction \/ CpiApprove
  BY <1>1, <1>2, <1>6, ApproveKeeps DEF ApproveTransaction, CpiApprove
<1>7. CASE ExecuteTransaction \/ CpiExecute
  BY <1>1, <1>2, <1>7, ExecuteKeeps DEF ExecuteTransaction, CpiExecute
<1>8. CASE CloseTransaction \/ CpiClose
  BY <1>1, <1>2, <1>8, CloseKeeps DEF CloseTransaction, CpiClose
<1>9. CASE \/ ProvisionNonce \/ Prefund \/ CpiTransfer \/ CpiOther \/ CpiProvision
           \/ BeginTransaction \/ UNCHANGED vars
  <2>1. UNCHANGED <<multisig, transaction>>
    BY <1>9 DEF ProvisionNonce, Prefund, CpiTransfer, CpiOther, CpiProvision,
                provision_nonce, BeginTransaction, ledgerVars, vars
  <2> QED
    BY <1>1, <2>1
<1>10. CASE ExitExecute
  <2> DEFINE f == Last(stack)
  <2>1. f.transaction \in DOMAIN transaction => transaction[f.transaction] = f.cached
    <3>1. stack \in Seq(StackFrame) /\ stack # <<>>
      BY <1>1, <1>10 DEF TypeOK, ExitExecute
    <3>2. Len(stack) \in DOMAIN stack
      BY <3>1
    <3> QED
      BY <3>2 DEF Inv, LedgerInv, StackInv, FrameInv, Last
  <2> HIDE DEF f
  <2>2. /\ transaction' = IF f.transaction \in DOMAIN transaction
                          THEN [transaction EXCEPT ![f.transaction] = f.cached]
                          ELSE transaction
        /\ multisig' = multisig
    BY <1>10 DEF f, ExitExecute, ProposalOnExit, MultisigOnExit
  <2>3. Keeps(multisig, transaction, multisig', transaction')
    BY <2>1, <2>2 DEF Keeps
  <2> QED
    BY <1>2, <2>3
<1> QED
  BY <1>3, <1>4, <1>5, <1>6, <1>7, <1>8, <1>9, <1>10 DEF Next

\* Every step keeps AddressInv.
LEMMA AddressStep ==
    ASSUME Inv, AddressInv, [Next]_vars
    PROVE  AddressInv'
<1>1. TypeOK'
  BY TypeStep DEF Inv
<1>2. CASE Commit
  BY <1>2 DEF Commit, Ledger, ledgerVars, AddressInv
<1>3. CASE Abort
  BY <1>3 DEF Abort, AddressInv
<1>4. CASE ~Commit /\ ~Abort
  <2>1. CreatedInv(multisig', transaction')
    BY <1>1, <1>4, AddressWorking
  <2>2. committed' = committed
    BY <1>4 DEF Next, InitializeMultisig, CreateTransaction, ApproveTransaction,
         ExecuteTransaction, CloseTransaction, ProvisionNonce, Prefund, TopLevel,
         CpiTransfer, CpiOther, CpiInitialize, CpiCreate, CpiApprove, CpiExecute,
         CpiClose, CpiProvision, InvokeSelf, InvokeSigned, ExitExecute,
         BeginTransaction, vars
  <2> QED
    BY <2>1, <2>2 DEF AddressInv
<1> QED
  BY <1>2, <1>3, <1>4

\* What is stored at creation stays true of every multisig and proposal.
THEOREM AddressInvariant == Spec => []AddressInv
<1>1. Inv /\ AddressInv /\ [Next]_vars => AddressInv'
  BY AddressStep
<1> QED
  BY <1>1, AddressInit, Invariant, PTL DEF Spec

-----------------------------------------------------------------------------
(***************************************************************************)
(* What follows.                                                           *)
(***************************************************************************)

\* Every client derives the address of a multisig from its members in any
\* order, and the members can reach the threshold.
THEOREM CanonicalTheorem == Spec => []CanonicalAddress
<1>1. ASSUME Inv, AddressInv
      PROVE  CanonicalAddress
  <2>1. SUFFICES ASSUME NEW ms \in DOMAIN multisig
                 PROVE  LET members == multisig[ms].members IN
                        /\ \A p \in Bijection(DOMAIN members, DOMAIN members) :
                              derive_multisig_pda([i \in DOMAIN members |-> members[p[i]]],
                                                  multisig[ms].threshold) = ms
                        /\ multisig[ms].threshold \in 1..Cardinality(ToSet(members))
    BY DEF CanonicalAddress
  <2> DEFINE members == multisig[ms].members
  <2>2. members \in Seq(Address)
    BY <1>1 DEF Inv, TypeOK, LedgerTypeOK, Ledger, MultisigAccount
  <2>3. /\ InOrder(members) /\ IsInjective(members)
        /\ ms = multisig_pda(hash_members(members), multisig[ms].threshold)
        /\ multisig[ms].threshold \in 1..Len(members)
    BY <1>1 DEF AddressInv, CreatedInv, MultisigsInv
  <2> HIDE DEF members
  <2>4. DOMAIN members = 1..Len(members)
    BY <2>2
  <2>5. ASSUME NEW p \in Bijection(DOMAIN members, DOMAIN members)
        PROVE  derive_multisig_pda([i \in DOMAIN members |-> members[p[i]]],
                                   multisig[ms].threshold) = ms
    <3>1. sort_members([i \in DOMAIN members |-> members[p[i]]]) = members
      BY <2>2, <2>3, <2>4, <2>5, SortedPermuted
    <3> QED
      BY <2>3, <3>1 DEF derive_multisig_pda
  <2>6. Cardinality(ToSet(members)) = Len(members)
    BY <2>2, <2>3, DistinctElements
  <2> QED
    BY <2>3, <2>5, <2>6 DEF members
<1> QED
  BY <1>1, Invariant, AddressInvariant, PTL

\* The approvals of a proposal and one more member are no more than the members.
LEMMA RoomForOneMore ==
    ASSUME NEW members \in Seq(Address), NEW approvals \in Seq(Address),
           IsInjective(approvals), ToSet(approvals) \subseteq ToSet(members),
           NEW member \in ToSet(members) \ ToSet(approvals)
    PROVE  Len(approvals) + 1 <= Len(members)
<1>1. /\ IsFiniteSet(ToSet(approvals)) /\ Cardinality(ToSet(approvals)) = Len(approvals)
      /\ IsFiniteSet(ToSet(members)) /\ Cardinality(ToSet(members)) <= Len(members)
      /\ Cardinality(ToSet(members)) \in Nat
  BY DistinctElements
<1> DEFINE S == ToSet(approvals) \cup {member}
<1>2. Cardinality(S) = Len(approvals) + 1
  BY <1>1, FS_AddElement
<1>3. S \in SUBSET ToSet(members)
  OBVIOUS
<1>4. Cardinality(S) <= Cardinality(ToSet(members))
  BY <1>1, <1>3, FS_Subset
<1>5. Len(approvals) \in Nat /\ Len(members) \in Nat
  OBVIOUS
<1> HIDE DEF S
<1> QED
  BY <1>1, <1>2, <1>4, <1>5

\* No member's approval is ever turned away because the account is full.
THEOREM RoomTheorem == Spec => []EveryApprovalFits
<1>1. ASSUME Inv, AddressInv
      PROVE  EveryApprovalFits
  <2>1. SUFFICES ASSUME NEW txn \in DOMAIN transaction,
                        NEW m \in ToSet(multisig[transaction[txn].multisig].members)
                                    \ ToSet(transaction[txn].approvals)
                 PROVE  SerializedLen([transaction[txn] EXCEPT !.approvals = Append(@, m)])
                           <= transaction[txn].space
    BY DEF EveryApprovalFits
  <2> DEFINE t == transaction[txn]
             members == multisig[t.multisig].members
             u == [t EXCEPT !.approvals = Append(@, m)]
  <2>2. t \in VaultTransaction
    BY <1>1 DEF Inv, TypeOK, LedgerTypeOK, Ledger
  <2>3. /\ t.multisig \in DOMAIN multisig
        /\ t.message.address_table_lookups = <<>>
    BY <1>1 DEF Inv, LedgerInv, LiveInv, ValidMessage, IndexesOk
  <2>4. members \in Seq(Address)
    BY <1>1, <2>3 DEF Inv, TypeOK, LedgerTypeOK, Ledger, MultisigAccount
  <2>5. t.approvals \in Seq(Address) /\ t.message \in TransactionMessage
    BY <2>2, ConstantsAssumption DEF VaultTransaction
  <2>6. IsInjective(t.approvals) /\ ToSet(t.approvals) \subseteq ToSet(members)
    <3>1. \A i \in DOMAIN t.approvals : t.approvals[i] \in ToSet(members)
      BY <1>1 DEF Inv, LedgerInv, ApprovalInv
    <3> QED
      BY <1>1, <3>1 DEF Inv, LedgerInv, ApprovalInv, ToSet
  <2>7. Len(t.approvals) + 1 <= Len(members)
    BY <2>4, <2>5, <2>6, RoomForOneMore
  <2>8. u.message = t.message /\ u.approvals = Append(t.approvals, m)
    BY <2>2 DEF VaultTransaction
  <2>9. Len(u.approvals) = Len(t.approvals) + 1
    BY <2>5, <2>8
  <2>10. t.space = compute_proposal_space(t.message, Len(members))
    BY <1>1 DEF AddressInv, CreatedInv, SpaceInv
  <2>11. /\ SumOver(InstructionBytes, t.message.instructions) \in Nat
         /\ SumOver(LookupBytes, t.message.address_table_lookups) = 0
    <3>1. t.message.instructions \in Seq(CompiledInstruction)
      BY <2>5 DEF TransactionMessage
    <3> QED
      BY <2>3, <3>1, ConstantsAssumption, InstructionsHaveSize, NoLookupsNoBytes
  <2>12. Len(t.message.account_keys) \in Nat /\ Len(t.approvals) \in Nat /\ Len(members) \in Nat
    BY <2>4, <2>5 DEF TransactionMessage
  <2> DEFINE rest == 8 + 32 + 8 + 32 + 32 + 1 + 1 + 1 + 1 + 4 + 1 + 1 + 1
                       + 4 + Len(t.message.account_keys) * 32
                       + 4 + SumOver(InstructionBytes, t.message.instructions)
                       + 4 + SumOver(LookupBytes, t.message.address_table_lookups)
  <2> HIDE DEF t, members, u
  <2>13. \A count \in Nat :
            compute_proposal_space(t.message, count) = rest + count * 32
    <3> DEFINE keys == Len(t.message.account_keys)
               a == SumOver(InstructionBytes, t.message.instructions)
               b == SumOver(LookupBytes, t.message.address_table_lookups)
    <3>1. keys \in Nat /\ a \in Nat /\ b \in Nat
      BY <2>11, <2>12
    <3>2. rest = 8 + 32 + 8 + 32 + 32 + 1 + 1 + 1 + 1 + 4 + 1 + 1 + 1
                   + 4 + keys * 32 + 4 + a + 4 + b
      OBVIOUS
    <3>3. \A count : compute_proposal_space(t.message, count) =
              8 + 32 + 8 + 32 + 32 + 1 + 1 + 1 + 1 + 4 + count * 32 + 1 + 1 + 1
                + 4 + keys * 32 + 4 + a + 4 + b
      BY DEF compute_proposal_space
    <3> HIDE DEF keys, a, b, rest
    <3> QED
      BY <3>1, <3>2, <3>3
  <2>14. rest \in Nat
    BY <2>11, <2>12
  <2> HIDE DEF rest
  <2>15. SerializedLen(u) = rest + (Len(t.approvals) + 1) * 32
    BY <2>8, <2>9, <2>12, <2>13 DEF SerializedLen
  <2>16. SerializedLen(u) <= t.space
    BY <2>7, <2>10, <2>12, <2>13, <2>14, <2>15
  <2> QED
    BY <2>16 DEF t, u
<1> QED
  BY <1>1, Invariant, AddressInvariant, PTL

=============================================================================
