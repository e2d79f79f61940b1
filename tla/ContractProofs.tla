--------------------------- MODULE ContractProofs ---------------------------
(***************************************************************************)
(* The program implements its contract.  BundleSoFar is invariant, by the  *)
(* same division into handlers as Inv; a Commit then turns everything it   *)
(* says of the working copy into the contract's Bundle.                    *)
(***************************************************************************)
EXTENDS ContractRefinement, SolanaMultisigSafety

\* The used addresses are the claimed ones.
LEMMA UsedClaimed ==
    ASSUME NEW L, NEW txn
    PROVE  txn \in Used(L) <=> \E ms \in DOMAIN L.multisig : Claimed(L.multisig, ms, txn)
BY DEF Used, Claimed

-----------------------------------------------------------------------------
(***************************************************************************)
(* What the handlers do to the progress of the bundle.                     *)
(***************************************************************************)

\* The ledger C the bundle started on, and its progress so far.
Since(C, L, S) ==
    /\ \A ms \in DOMAIN C.multisig : C.multisig[ms] \in MultisigAccount
    /\ Progress(C, multisig, transaction, consent, L, S)

\* The same once the handler is done.
Then(C, L, S) == Progress(C, multisig', transaction', consent', L, S)

\* A bundle has not decided anything yet on the ledger it starts on.
LEMMA NothingSoFar ==
    ASSUME NEW C, LedgerTypeOK(C), OneMessage(C.consent),
           LiveInv(C.multisig, C.transaction)
    PROVE  Progress(C, C.multisig, C.transaction, C.consent, C.log, <<>>)
<1>1. ProposalsSince(C, C.multisig, C.transaction)
  BY DEF ProposalsSince, LedgerTypeOK, MultisigAccount
<1>2. ConsentSince(C, C.consent)
  BY DEF ConsentSince
<1>3. RunsSince(C, C.log, <<>>)
  BY DEF RunsSince, SameRun
<1> QED
  BY <1>1, <1>2, <1>3 DEF Progress

\* A handler that changes only nonces and balances.
LEMMA OtherSoFar ==
    ASSUME NEW C, NEW L, NEW S, Since(C, L, S),
           UNCHANGED <<multisig, transaction, consent>>
    PROVE  Then(C, L, S)
BY DEF Since, Then

\* Multisigs that appear or count up leave the progress as it is, if the
\* proposals do.
LEMMA MultisigsSince ==
    ASSUME NEW C, NEW m, NEW m2, NEW t, ProposalsSince(C, m, t), Grows(m, m2),
           \A ms \in DOMAIN C.multisig : C.multisig[ms] \in MultisigAccount,
           \A ms \in DOMAIN m : m[ms] \in MultisigAccount
    PROVE  ProposalsSince(C, m2, t)
<1>1. ASSUME NEW ms \in DOMAIN C.multisig
      PROVE  /\ ms \in DOMAIN m2
             /\ m2[ms].members = C.multisig[ms].members
             /\ m2[ms].threshold = C.multisig[ms].threshold
             /\ m2[ms].transaction_index >= C.multisig[ms].transaction_index
  <2>1. /\ ms \in DOMAIN m
        /\ m[ms].members = C.multisig[ms].members
        /\ m[ms].threshold = C.multisig[ms].threshold
        /\ m[ms].transaction_index >= C.multisig[ms].transaction_index
    BY DEF ProposalsSince
  <2>2. /\ ms \in DOMAIN m2
        /\ m2[ms].members = m[ms].members
        /\ m2[ms].threshold = m[ms].threshold
        /\ m2[ms].transaction_index >= m[ms].transaction_index
        /\ m2[ms] \in MultisigAccount
    BY <2>1 DEF Grows
  <2>3. /\ m2[ms].transaction_index \in Nat
        /\ m[ms].transaction_index \in Nat
        /\ C.multisig[ms].transaction_index \in Nat
    BY <2>1, <2>2 DEF MultisigAccount
  <2> QED BY <2>1, <2>2, <2>3
<1> QED
  BY <1>1 DEF ProposalsSince

\* Claims made before the bundle are still there.
LEMMA UsedStaysClaimed ==
    ASSUME NEW C, NEW m, NEW t, ProposalsSince(C, m, t), NEW txn \in Used(C),
           \A ms \in DOMAIN C.multisig : C.multisig[ms] \in MultisigAccount,
           \A ms \in DOMAIN m : m[ms] \in MultisigAccount
    PROVE  \E ms \in DOMAIN m : Claimed(m, ms, txn)
<1>1. PICK ms \in DOMAIN C.multisig : Claimed(C.multisig, ms, txn)
  BY UsedClaimed
<1>2. PICK i \in 1..C.multisig[ms].transaction_index : txn = transaction_pda(ms, i)
  BY <1>1 DEF Claimed
<1>3. /\ ms \in DOMAIN m
      /\ m[ms].transaction_index >= C.multisig[ms].transaction_index
      /\ C.multisig[ms].transaction_index \in Nat /\ m[ms].transaction_index \in Nat
  BY DEF ProposalsSince, MultisigAccount
<1>4. i \in 1..m[ms].transaction_index
  BY <1>3
<1> QED
  BY <1>2, <1>3, <1>4 DEF Claimed

\* An open proposal was open when the bundle started, or is new.
LEMMA OpenOrigin ==
    ASSUME NEW C, NEW m, NEW t, ProposalsSince(C, m, t), NEW txn \in DOMAIN t,
           ~t[txn].executed
    PROVE  Origin(C, txn, t[txn].message)
BY DEF ProposalsSince, Origin

\* initialize_multisig: nothing is decided.
LEMMA InitializeSoFar ==
    ASSUME NEW C, NEW L, NEW S, Since(C, L, S), AccountsTypeOK, AccountsTypeOK',
           NEW ms, NEW payer, NEW members, NEW member_hash, NEW threshold,
           NEW member_count, NEW sig, NEW wr,
           initialize_multisig(ms, payer, members, member_hash, threshold,
                               member_count, sig, wr)
    PROVE  Then(C, L, S)
<1>1. ms \notin DOMAIN multisig /\ transaction' = transaction /\ consent' = consent
      /\ \E r : multisig' = With(multisig, ms, r)
  BY DEF initialize_multisig
<1>2. Grows(multisig, multisig')
  <2>1. \A a \in DOMAIN multisig : a \in DOMAIN multisig' /\ multisig'[a] = multisig[a]
    BY <1>1 DEF With
  <2>2. \A a \in DOMAIN multisig : multisig[a].transaction_index \in Nat
    BY DEF AccountsTypeOK, MultisigAccount
  <2> QED BY <2>1, <2>2 DEF Grows, AccountsTypeOK
<1>3. ProposalsSince(C, multisig', transaction)
  BY <1>2, MultisigsSince DEF Since, Progress, AccountsTypeOK
<1> QED
  BY <1>1, <1>3 DEF Since, Then, Progress

\* create_transaction: the address is one nobody had used when the bundle
\* started.
LEMMA CreateSoFar ==
    ASSUME NEW C, NEW L, NEW S, Since(C, L, S), Start(L, S), AccountsTypeOK',
           NEW ms, NEW txn, NEW creator, NEW payer, NEW vault_index, NEW message,
           NEW sig, NEW wr,
           create_transaction(ms, txn, creator, payer, vault_index, message, sig, wr)
    PROVE  Then(C, L, S)
<1>1. /\ Typed(multisig, transaction, consent, L, S)
      /\ LedgerInv(multisig, transaction, consent, L, S)
      /\ \A a \in DOMAIN multisig : multisig[a] \in MultisigAccount
      /\ \A a \in DOMAIN multisig' : multisig'[a] \in MultisigAccount
  BY StartTyped DEF Start, AccountsTypeOK
<1>2. /\ ms \in DOMAIN multisig
      /\ txn = transaction_pda(ms, multisig[ms].transaction_index + 1)
      /\ multisig' = [multisig EXCEPT ![ms].transaction_index =
                        multisig[ms].transaction_index + 1]
      /\ consent' = consent
      /\ \E r : transaction' = With(transaction, txn, r)
  BY DEF create_transaction, NextIndex
<1>3. Grows(multisig, multisig')
  BY <1>1, <1>2 DEF Grows, MultisigAccount
<1>4. ProposalsSince(C, multisig, transaction)
  BY DEF Since, Progress
<1>5. txn \notin Used(C)
  <2>1. \A a \in DOMAIN multisig : ~Claimed(multisig, a, txn)
    BY <1>1, <1>2, FreshIndex
  <2> QED BY <1>1, <1>4, <2>1, UsedStaysClaimed DEF Since
<1>6. /\ DOMAIN transaction' = DOMAIN transaction \cup {txn}
      /\ \A x \in DOMAIN transaction \ {txn} : transaction'[x] = transaction[x]
  BY <1>2 DEF With
<1>7. ProposalsSince(C, multisig', transaction)
  BY <1>1, <1>3, <1>4, MultisigsSince DEF Since
<1>8. ProposalsSince(C, multisig', transaction')
  BY <1>5, <1>6, <1>7 DEF ProposalsSince
<1> QED
  BY <1>2, <1>8 DEF Since, Then, Progress

\* approve_transaction: the proposal is open, hence open for decision, and all
\* consent given at its address is for its message.
LEMMA ApproveSoFar ==
    ASSUME NEW C, NEW L, NEW S, Since(C, L, S), Start(L, S), NEW ms, NEW txn,
           NEW member, NEW transaction_index, NEW sig, NEW wr,
           approve_transaction(ms, txn, member, transaction_index, sig, wr)
    PROVE  Then(C, L, S)
<1> DEFINE given == [member |-> member, transaction |-> txn,
                     message |-> transaction[txn].message]
           u == [transaction[txn] EXCEPT !.approvals = Append(@, member)]
<1>1. /\ txn \in DOMAIN transaction /\ ~transaction[txn].executed
      /\ transaction[txn] \in VaultTransaction
  BY DEF approve_transaction, BoundTo, OpenForApproval, Start, AccountsTypeOK
<1>2. /\ transaction' = [transaction EXCEPT ![txn] = u]
      /\ consent' = consent \cup {given}
      /\ multisig' = multisig
  BY DEF approve_transaction
<1>3. given.transaction = txn /\ given.message = transaction[txn].message
  OBVIOUS
<1>4. /\ u.multisig = transaction[txn].multisig
      /\ u.message = transaction[txn].message
      /\ u.executed = transaction[txn].executed
  BY <1>1 DEF VaultTransaction
<1> HIDE DEF given, u
<1>5. /\ DOMAIN transaction' = DOMAIN transaction
      /\ \A x \in DOMAIN transaction \ {txn} : transaction'[x] = transaction[x]
      /\ transaction'[txn] = u
  BY <1>1, <1>2
<1>6. ProposalsSince(C, multisig, transaction)
  BY DEF Since, Progress
<1>7. ProposalsSince(C, multisig', transaction')
  <2>1. ASSUME NEW x \in DOMAIN transaction'
        PROVE  /\ x \in DOMAIN transaction
               /\ transaction'[x].multisig = transaction[x].multisig
               /\ transaction'[x].message = transaction[x].message
               /\ transaction'[x].executed = transaction[x].executed
    BY <1>4, <1>5
  <2> QED BY <1>2, <1>6, <2>1 DEF ProposalsSince
<1>8. Origin(C, txn, transaction[txn].message)
  BY <1>1, <1>6, OpenOrigin
<1>9. ConsentSince(C, consent')
  BY <1>2, <1>3, <1>8 DEF Since, Progress, ConsentSince
<1>10. OneMessage(consent')
  <2>1. \A k \in consent : k.transaction = txn => k.message = transaction[txn].message
    BY <1>1 DEF Start, LedgerInv, ConsentInv
  <2> QED BY <1>2, <1>3, <2>1 DEF Since, Progress, OneMessage
<1> QED
  BY <1>7, <1>9, <1>10 DEF Since, Then, Progress

\* execute_transaction: the proposal it marks and pushes was open.
LEMMA ExecuteSoFar ==
    ASSUME NEW C, NEW L, NEW S, Since(C, L, S), Start(L, S), NEW ms, NEW txn,
           NEW executor, NEW transaction_index, NEW remaining, NEW sig, NEW wr,
           execute_transaction(ms, txn, executor, transaction_index, remaining,
                               sig, wr, S)
    PROVE  Then(C, L, stack')
<1> DEFINE u == [transaction[txn] EXCEPT !.executed = TRUE]
           f == [multisig |-> ms, transaction |-> txn, pc |-> 1,
                 signers |-> sig, writable |-> wr,
                 cached_multisig |-> multisig[ms], cached |-> u]
<1>1. /\ txn \in DOMAIN transaction /\ ~transaction[txn].executed
      /\ transaction[txn] \in VaultTransaction /\ S \in Seq(StackFrame)
  BY DEF execute_transaction, BoundTo, Start, AccountsTypeOK
<1>2. /\ transaction' = [transaction EXCEPT ![txn] = u]
      /\ stack' = Append(S, f)
      /\ UNCHANGED <<multisig, consent>>
  BY DEF execute_transaction, Flushed
<1>3. /\ u.multisig = transaction[txn].multisig
      /\ u.message = transaction[txn].message
      /\ u.executed
  BY <1>1 DEF VaultTransaction
<1>4. f.transaction = txn /\ f.cached = u
  OBVIOUS
<1> HIDE DEF f, u
<1>5. /\ DOMAIN transaction' = DOMAIN transaction
      /\ \A x \in DOMAIN transaction \ {txn} : transaction'[x] = transaction[x]
      /\ transaction'[txn] = u
  BY <1>1, <1>2
<1>6. /\ DOMAIN stack' = 1..(Len(S) + 1) /\ stack'[Len(S) + 1] = f
      /\ \A k \in 1..Len(S) : stack'[k] = S[k]
      /\ DOMAIN S = 1..Len(S) /\ Len(S) \in Nat
  BY <1>1, <1>2
<1>7. ProposalsSince(C, multisig, transaction)
  BY DEF Since, Progress
<1>8. ProposalsSince(C, multisig', transaction')
  <2>1. ASSUME NEW x \in DOMAIN transaction'
        PROVE  /\ x \in DOMAIN transaction
               /\ transaction'[x].multisig = transaction[x].multisig
               /\ transaction'[x].message = transaction[x].message
               /\ transaction[x].executed => transaction'[x].executed
    BY <1>3, <1>5
  <2> QED BY <1>2, <1>7, <2>1 DEF ProposalsSince
<1>9. RunsSince(C, L, stack')
  <2>1. Origin(C, f.transaction, f.cached.message)
    BY <1>1, <1>3, <1>4, <1>7, OpenOrigin
  <2>2. RunsSince(C, L, S)
    BY DEF Since, Progress
  <2>3. \A k \in DOMAIN stack' : Origin(C, stack'[k].transaction, stack'[k].cached.message)
    BY <1>6, <2>1, <2>2 DEF RunsSince
  <2> QED BY <2>2, <2>3 DEF RunsSince
<1> QED
  BY <1>2, <1>8, <1>9 DEF Since, Then, Progress

\* close_transaction: what remains was there.
LEMMA CloseSoFar ==
    ASSUME NEW C, NEW L, NEW S, Since(C, L, S), NEW ms, NEW txn, NEW payer,
           NEW transaction_index, NEW sig, NEW wr,
           close_transaction(ms, txn, payer, transaction_index, sig, wr)
    PROVE  Then(C, L, S)
<1>1. /\ transaction' = Without(transaction, txn)
      /\ UNCHANGED <<multisig, consent>>
  BY DEF close_transaction
<1>2. /\ DOMAIN transaction' \subseteq DOMAIN transaction
      /\ \A x \in DOMAIN transaction' : transaction'[x] = transaction[x]
  BY <1>1 DEF Without
<1>3. ProposalsSince(C, multisig', transaction')
  BY <1>1, <1>2 DEF Since, Progress, ProposalsSince
<1> QED
  BY <1>1, <1>3 DEF Since, Then, Progress

\* A CPI runs an instruction of a frame, whose message was open for decision.
LEMMA InvokeSoFar ==
    ASSUME NEW C, Since(C, log, stack), TypeOK, NEW program_id, InvokeSigned(program_id)
    PROVE  Since(C, log', Resumed)
<1> DEFINE f == Last(stack)
           e == [multisig |-> f.multisig, transaction |-> f.transaction,
                 message |-> f.cached.message, pc |-> f.pc]
           f2 == [f EXCEPT !.pc = @ + 1]
<1>1. log \in Seq(Run) /\ stack \in Seq(StackFrame)
  BY TypeParts
<1>2. f \in StackFrame /\ f = stack[Len(stack)] /\ Len(stack) \in Nat \ {0}
  BY InvokeType
<1>3. log' = Append(log, e)
  BY DEF InvokeSigned
<1>4. e.transaction = f.transaction /\ e.message = f.cached.message
  OBVIOUS
<1>5. f2.transaction = f.transaction /\ f2.cached = f.cached
  BY <1>2 DEF StackFrame
<1>6. Resumed = [stack EXCEPT ![Len(stack)] = f2]
  BY <1>2 DEF Resumed
<1> HIDE DEF e, f2, f
<1>7. /\ DOMAIN log' = 1..(Len(log) + 1) /\ log'[Len(log) + 1] = e
      /\ \A n \in 1..Len(log) : log'[n] = log[n]
      /\ DOMAIN log = 1..Len(log) /\ Len(log) \in Nat
  BY <1>1, <1>3
<1>8. /\ DOMAIN Resumed = DOMAIN stack /\ Resumed[Len(stack)] = f2
      /\ \A k \in DOMAIN stack \ {Len(stack)} : Resumed[k] = stack[k]
      /\ Len(stack) \in DOMAIN stack
  BY <1>1, <1>2, <1>6
<1>9. RunsSince(C, log, stack)
  BY DEF Since, Progress
<1>10. Origin(C, f.transaction, f.cached.message)
  BY <1>2, <1>8, <1>9 DEF RunsSince
<1>11. \A k \in DOMAIN Resumed : Origin(C, Resumed[k].transaction, Resumed[k].cached.message)
  BY <1>5, <1>8, <1>9, <1>10 DEF RunsSince
<1>12. \A n \in DOMAIN C.log : \E k \in DOMAIN log' : SameRun(log'[k], C.log[n])
  <2> SUFFICES ASSUME NEW n \in DOMAIN C.log
               PROVE  \E k \in DOMAIN log' : SameRun(log'[k], C.log[n])
    OBVIOUS
  <2>1. PICK k \in DOMAIN log : SameRun(log[k], C.log[n])
    BY <1>9 DEF RunsSince
  <2>2. k \in DOMAIN log' /\ log'[k] = log[k]
    BY <1>7
  <2> QED BY <2>1, <2>2
<1>13. \A n \in DOMAIN log' :
          \/ \E k \in DOMAIN C.log : SameRun(C.log[k], log'[n])
          \/ Origin(C, log'[n].transaction, log'[n].message)
  <2> SUFFICES ASSUME NEW n \in DOMAIN log'
               PROVE  \/ \E k \in DOMAIN C.log : SameRun(C.log[k], log'[n])
                      \/ Origin(C, log'[n].transaction, log'[n].message)
    OBVIOUS
  <2>1. CASE n \in DOMAIN log
    <3>1. log'[n] = log[n]
      BY <1>7, <2>1
    <3> QED BY <1>9, <2>1, <3>1 DEF RunsSince
  <2>2. CASE n = Len(log) + 1
    BY <1>4, <1>7, <1>10, <2>2
  <2> QED BY <1>7, <2>1, <2>2
<1>14. RunsSince(C, log', Resumed)
  BY <1>11, <1>12, <1>13 DEF RunsSince
<1> QED
  BY <1>14 DEF Since, Progress

-----------------------------------------------------------------------------
(***************************************************************************)
(* BundleSoFar is invariant.                                               *)
(***************************************************************************)

\* The progress after every instruction of the outer transaction.
LEMMA TopLevelSoFar ==
    ASSUME Inv, TypeOK', Since(committed, log, stack),
           \/ InitializeMultisig \/ CreateTransaction \/ ApproveTransaction
           \/ ExecuteTransaction \/ CloseTransaction \/ ProvisionNonce \/ Prefund
    PROVE  Then(committed, log', stack') /\ committed' = committed
<1>1. AccountsTypeOK /\ AccountsTypeOK'
  BY TypeParts DEF Inv
<1>2. Start(log, stack)
  BY TypeParts DEF Inv, Start
<1>3. TopLevel
  BY DEF InitializeMultisig, CreateTransaction, ApproveTransaction,
         ExecuteTransaction, CloseTransaction, ProvisionNonce, Prefund
<1>4. log' = log /\ committed' = committed /\ stack = <<>>
  BY <1>3 DEF TopLevel
<1>5. CASE InitializeMultisig
  <2>1. Then(committed, log, stack)
    BY <1>1, <1>5, InitializeSoFar DEF InitializeMultisig
  <2> QED BY <1>4, <1>5, <2>1 DEF InitializeMultisig
<1>6. CASE CreateTransaction
  <2>1. Then(committed, log, stack)
    BY <1>1, <1>2, <1>6, CreateSoFar DEF CreateTransaction
  <2> QED BY <1>4, <1>6, <2>1 DEF CreateTransaction
<1>7. CASE ApproveTransaction
  <2>1. Then(committed, log, stack)
    BY <1>2, <1>7, ApproveSoFar DEF ApproveTransaction
  <2> QED BY <1>4, <1>7, <2>1 DEF ApproveTransaction
<1>8. CASE ExecuteTransaction
  <2>1. Since(committed, log, <<>>) /\ Start(log, <<>>)
    BY <1>2, <1>4
  <2>2. Then(committed, log, stack')
    BY <1>8, <2>1, ExecuteSoFar DEF ExecuteTransaction
  <2> QED BY <1>4, <2>2
<1>9. CASE CloseTransaction
  <2>1. Then(committed, log, stack)
    BY <1>9, CloseSoFar DEF CloseTransaction
  <2> QED BY <1>4, <1>9, <2>1 DEF CloseTransaction
<1>10. CASE ProvisionNonce \/ Prefund
  <2>1. UNCHANGED <<multisig, transaction, consent, stack>>
    BY <1>10 DEF ProvisionNonce, provision_nonce, Prefund
  <2>2. Then(committed, log, stack)
    BY <2>1, OtherSoFar
  <2> QED BY <1>4, <2>1, <2>2
<1> QED
  BY <1>5, <1>6, <1>7, <1>8, <1>9, <1>10

\* The same in every CPI.
LEMMA CpiSoFar ==
    ASSUME Inv, TypeOK', Since(committed, log, stack),
           \/ CpiTransfer \/ CpiOther \/ CpiInitialize \/ CpiCreate \/ CpiApprove
           \/ CpiExecute \/ CpiClose \/ CpiProvision
    PROVE  Then(committed, log', stack') /\ committed' = committed
<1>1. AccountsTypeOK /\ AccountsTypeOK' /\ TypeOK
  BY TypeParts DEF Inv
<1>2. PICK program_id : InvokeSigned(program_id)
  BY DEF CpiTransfer, CpiOther, CpiInitialize, CpiCreate, CpiApprove, CpiExecute,
         CpiClose, CpiProvision, InvokeSelf
<1>3. Start(log', Resumed) /\ Since(committed, log', Resumed)
  BY <1>1, <1>2, InvokeSafe, InvokeSoFar
<1>4. committed' = committed
  BY <1>2 DEF InvokeSigned
<1>5. CASE CpiTransfer \/ CpiOther \/ CpiProvision
  <2>1. UNCHANGED <<multisig, transaction, consent>> /\ stack' = Resumed
    BY <1>5 DEF CpiTransfer, CpiOther, CpiProvision, provision_nonce
  <2>2. Then(committed, log', Resumed)
    BY <1>3, <2>1, OtherSoFar
  <2> QED BY <1>4, <2>1, <2>2
<1>6. CASE CpiInitialize
  <2>1. Then(committed, log', Resumed)
    BY <1>1, <1>3, <1>6, InitializeSoFar DEF CpiInitialize
  <2> QED BY <1>4, <1>6, <2>1 DEF CpiInitialize
<1>7. CASE CpiCreate
  <2>1. Then(committed, log', Resumed)
    BY <1>1, <1>3, <1>7, CreateSoFar DEF CpiCreate
  <2> QED BY <1>4, <1>7, <2>1 DEF CpiCreate
<1>8. CASE CpiApprove
  <2>1. Then(committed, log', Resumed)
    BY <1>3, <1>8, ApproveSoFar DEF CpiApprove
  <2> QED BY <1>4, <1>8, <2>1 DEF CpiApprove
<1>9. CASE CpiExecute
  <2>1. Then(committed, log', stack')
    BY <1>3, <1>9, ExecuteSoFar DEF CpiExecute
  <2> QED BY <1>4, <2>1
<1>10. CASE CpiClose
  <2>1. Then(committed, log', Resumed)
    BY <1>3, <1>10, CloseSoFar DEF CpiClose
  <2> QED BY <1>4, <1>10, <2>1 DEF CpiClose
<1> QED
  BY <1>5, <1>6, <1>7, <1>8, <1>9, <1>10

\* The same when execute_transaction returns: what it writes back is there.
LEMMA ExitSoFar ==
    ASSUME Inv, Since(committed, log, stack), ExitExecute
    PROVE  Then(committed, log', stack') /\ committed' = committed
<1> DEFINE f == Last(stack)
<1>1. stack \in Seq(StackFrame) /\ stack # <<>>
  BY DEF Inv, TypeOK, ExitExecute
<1>2. f.transaction \in DOMAIN transaction => transaction[f.transaction] = f.cached
  <2>1. Len(stack) \in DOMAIN stack
    BY <1>1
  <2> QED BY <2>1 DEF Inv, LedgerInv, StackInv, FrameInv, Last
<1> HIDE DEF f
<1>3. transaction' = IF f.transaction \in DOMAIN transaction
                     THEN [transaction EXCEPT ![f.transaction] = f.cached]
                     ELSE transaction
  BY DEF f, ExitExecute, ProposalOnExit
<1>4. /\ DOMAIN transaction' = DOMAIN transaction
      /\ \A x \in DOMAIN transaction : transaction'[x] = transaction[x]
  BY <1>2, <1>3
<1>5. UNCHANGED <<multisig, consent, log, committed>>
  BY DEF ExitExecute, MultisigOnExit
<1>6. stack' = SubSeq(stack, 1, Len(stack) - 1)
  BY DEF ExitExecute, Front
<1>7. DOMAIN stack' \subseteq DOMAIN stack /\ \A k \in DOMAIN stack' : stack'[k] = stack[k]
  BY <1>1, <1>6
<1>8. ProposalsSince(committed, multisig', transaction')
  BY <1>4, <1>5 DEF Since, Progress, ProposalsSince
<1>9. RunsSince(committed, log, stack')
  BY <1>7 DEF Since, Progress, RunsSince
<1> QED
  BY <1>5, <1>8, <1>9 DEF Since, Then, Progress

\* Nothing is decided before the first bundle.
LEMMA InitSoFar == Init => BundleSoFar
<1> SUFFICES ASSUME Init PROVE BundleSoFar
  OBVIOUS
<1>1. Inv
  BY InitSafe
<1>2. LedgerTypeOK(committed) /\ LiveInv(committed.multisig, committed.transaction)
  BY <1>1 DEF Inv, TypeOK, LedgerInv
<1>3. /\ committed.multisig = multisig /\ committed.transaction = transaction
      /\ committed.consent = consent /\ committed.log = log /\ stack = <<>>
      /\ consent = {}
  BY DEF Init, Ledger
<1>4. OneMessage(committed.consent)
  BY <1>3 DEF OneMessage
<1>5. Progress(committed, committed.multisig, committed.transaction,
               committed.consent, committed.log, <<>>)
  BY <1>2, <1>4, NothingSoFar
<1> QED
  BY <1>3, <1>4, <1>5 DEF BundleSoFar

\* Every step keeps it; a Commit or an Abort starts over.
LEMMA SoFarStep == Inv /\ Inv' /\ BundleSoFar /\ [Next]_vars => BundleSoFar'
<1> SUFFICES ASSUME Inv, Inv', BundleSoFar, [Next]_vars PROVE BundleSoFar'
  OBVIOUS
<1>1. TypeOK'
  BY DEF Inv
<1>2. Since(committed, log, stack) /\ OneMessage(committed.consent)
  BY DEF Inv, TypeOK, LedgerTypeOK, BundleSoFar, Since
<1>3. ASSUME Then(committed, log', stack'), committed' = committed PROVE BundleSoFar'
  BY <1>2, <1>3 DEF Then, BundleSoFar
<1>4. ASSUME OneMessage(committed'.consent), stack' = <<>>,
             multisig' = committed'.multisig, transaction' = committed'.transaction,
             consent' = committed'.consent, log' = committed'.log
      PROVE  BundleSoFar'
  <2>1. LedgerTypeOK(committed') /\ LiveInv(committed'.multisig, committed'.transaction)
    BY DEF Inv, TypeOK, LedgerInv
  <2>2. Progress(committed', committed'.multisig, committed'.transaction,
                 committed'.consent, committed'.log, <<>>)
    BY <1>4, <2>1, NothingSoFar
  <2> QED BY <1>4, <2>2 DEF BundleSoFar
<1>5. CASE \/ InitializeMultisig \/ CreateTransaction \/ ApproveTransaction
           \/ ExecuteTransaction \/ CloseTransaction \/ ProvisionNonce \/ Prefund
  BY <1>1, <1>2, <1>3, <1>5, TopLevelSoFar
<1>6. CASE \/ CpiTransfer \/ CpiOther \/ CpiInitialize \/ CpiCreate \/ CpiApprove
           \/ CpiExecute \/ CpiClose \/ CpiProvision
  BY <1>1, <1>2, <1>3, <1>6, CpiSoFar
<1>7. CASE ExitExecute
  BY <1>2, <1>3, <1>7, ExitSoFar
<1>8. CASE BeginTransaction
  BY <1>8 DEF BeginTransaction, ledgerVars, BundleSoFar
<1>9. CASE Commit
  <2>1. OneMessage(consent)
    BY DEF BundleSoFar, Progress
  <2> QED BY <1>4, <1>9, <2>1 DEF Commit, ledgerVars, Ledger
<1>10. CASE Abort
  BY <1>2, <1>4, <1>10 DEF Abort
<1>11. CASE UNCHANGED vars
  BY <1>11 DEF vars, BundleSoFar
<1> QED
  BY <1>5, <1>6, <1>7, <1>8, <1>9, <1>10, <1>11 DEF Next

\* Nothing is decided or run in a bundle but what was open when it started.
THEOREM SoFarTheorem == Spec => []BundleSoFar
BY InitSoFar, SoFarStep, Invariant, PTL DEF Spec

-----------------------------------------------------------------------------
(***************************************************************************)
(* A bundle of the program is a bundle of the contract.  C is the ledger   *)
(* it starts on, D the one it commits.                                     *)
(***************************************************************************)

Complete(L) ==
    \A n \in DOMAIN L.log :
        Ran(L, L.log[n].transaction) = 1..Len(L.log[n].message.instructions)

Sound(L) ==
    /\ LedgerTypeOK(L)
    /\ LedgerInv(L.multisig, L.transaction, L.consent, L.log, <<>>)
    /\ Complete(L)

Between(C, D) ==
    /\ Sound(C)
    /\ Sound(D)
    /\ Progress(C, D.multisig, D.transaction, D.consent, D.log, <<>>)

\* The contract's Decidable, for the ledgers before and after.
DecidableIn(C, D, txn, message) ==
    \/ /\ txn \in DOMAIN Proposals(C)
       /\ Proposals(C)[txn].message = message
       /\ ~Proposals(C)[txn].paid
    \/ txn \in Used(D) \ Used(C)

\* What was open for decision at an address in use now could be decided.
LEMMA OriginDecidable ==
    ASSUME NEW C, NEW D, NEW txn, NEW message, Origin(C, txn, message), txn \in Used(D)
    PROVE  DecidableIn(C, D, txn, message)
BY DEF Origin, DecidableIn, Proposals

\* Councils are for ever.
LEMMA CouncilsKept ==
    ASSUME NEW C, NEW D, Between(C, D), NEW ms \in DOMAIN Councils(C)
    PROVE  ms \in DOMAIN Councils(D) /\ Councils(D)[ms] = Councils(C)[ms]
BY DEF Between, Progress, ProposalsSince, Councils

\* Proposals keep what they say, and new ones have addresses of their own.
LEMMA ProposalsKept ==
    ASSUME NEW C, NEW D, Between(C, D)
    PROVE  /\ Used(C) \subseteq Used(D)
           /\ \A t \in DOMAIN Proposals(D) \ DOMAIN Proposals(C) : t \in Used(D) \ Used(C)
           /\ \A t \in DOMAIN Proposals(D) \cap DOMAIN Proposals(C) :
                 /\ Proposals(D)[t].multisig = Proposals(C)[t].multisig
                 /\ Proposals(D)[t].message = Proposals(C)[t].message
                 /\ Proposals(C)[t].paid => Proposals(D)[t].paid
<1>1. /\ ProposalsSince(C, D.multisig, D.transaction)
      /\ LiveInv(C.multisig, C.transaction) /\ LiveInv(D.multisig, D.transaction)
      /\ \A ms \in DOMAIN C.multisig : C.multisig[ms] \in MultisigAccount
      /\ \A ms \in DOMAIN D.multisig : D.multisig[ms] \in MultisigAccount
  BY DEF Between, Sound, Progress, LedgerTypeOK, LedgerInv
<1>2. DOMAIN Proposals(C) = DOMAIN C.transaction /\ DOMAIN Proposals(D) = DOMAIN D.transaction
  BY DEF Proposals
<1>3. Used(C) \subseteq Used(D)
  BY <1>1, UsedStaysClaimed, UsedClaimed
<1>4. ASSUME NEW L, LiveInv(L.multisig, L.transaction), NEW t \in DOMAIN L.transaction
      PROVE  t \in Used(L)
  <2>1. Claimed(L.multisig, L.transaction[t].multisig, t)
    BY <1>4 DEF LiveInv, Claimed
  <2> QED BY <2>1, UsedClaimed DEF Claimed
<1>5. \A t \in DOMAIN D.transaction \ DOMAIN C.transaction : t \in Used(D) \ Used(C)
  BY <1>1, <1>4 DEF ProposalsSince
<1>6. ASSUME NEW t \in DOMAIN D.transaction, t \in DOMAIN C.transaction
      PROVE  /\ D.transaction[t].multisig = C.transaction[t].multisig
             /\ D.transaction[t].message = C.transaction[t].message
             /\ C.transaction[t].executed => D.transaction[t].executed
  BY <1>1, <1>4, <1>6 DEF ProposalsSince
<1> QED
  BY <1>2, <1>3, <1>5, <1>6 DEF Proposals

\* Votes are kept, could be cast, and agree on the message.
LEMMA VotesKept ==
    ASSUME NEW C, NEW D, Between(C, D)
    PROVE  /\ C.consent \subseteq D.consent
           /\ \A v \in D.consent \ C.consent : DecidableIn(C, D, v.transaction, v.message)
           /\ \A v, w \in D.consent : v.transaction = w.transaction => v.message = w.message
<1>1. ConsentSince(C, D.consent) /\ OneMessage(D.consent)
  BY DEF Between, Progress
<1>2. \A v \in D.consent : v.transaction \in Used(D)
  BY UsedClaimed DEF Between, Sound, LedgerInv, ConsentInv, Claimed
<1> QED
  BY <1>1, <1>2, OriginDecidable DEF ConsentSince, OneMessage

\* The payments of a ledger: all complete, one for each address.
LEMMA PaymentsOf ==
    ASSUME NEW L, Sound(L)
    PROVE  /\ \A n \in DOMAIN L.log :
                 Payment(L, L.log[n]) =
                    [multisig |-> L.log[n].multisig, transaction |-> L.log[n].transaction,
                     message |-> L.log[n].message, complete |-> TRUE]
           /\ \A p, q \in Payments(L) : p.transaction = q.transaction => p = q
<1>1. \A n \in DOMAIN L.log :
         Payment(L, L.log[n]) =
            [multisig |-> L.log[n].multisig, transaction |-> L.log[n].transaction,
             message |-> L.log[n].message, complete |-> TRUE]
  BY DEF Payment, Sound, Complete
<1>2. ASSUME NEW a \in DOMAIN L.log, NEW b \in DOMAIN L.log,
             L.log[a].transaction = L.log[b].transaction
      PROVE  L.log[a].multisig = L.log[b].multisig /\ L.log[a].message = L.log[b].message
  <2>1. a \in Nat /\ b \in Nat
    BY DEF Sound, LedgerTypeOK
  <2>2. L.log[a].message = L.log[b].message
    <3>1. a = b \/ a < b \/ b < a
      BY <2>1
    <3> QED BY <1>2, <3>1 DEF Sound, LedgerInv, OrderInv
  <2>3. /\ Claimed(L.multisig, L.log[a].multisig, L.log[a].transaction)
        /\ Claimed(L.multisig, L.log[b].multisig, L.log[b].transaction)
    BY DEF Sound, LedgerInv, LogInv
  <2>4. PICK i, j : L.log[a].transaction = transaction_pda(L.log[a].multisig, i)
                    /\ L.log[b].transaction = transaction_pda(L.log[b].multisig, j)
    BY <2>3 DEF Claimed
  <2>5. L.log[a].multisig = L.log[b].multisig
    <3>1. transaction_pda(L.log[a].multisig, i) = transaction_pda(L.log[b].multisig, j)
      BY <1>2, <2>4
    <3> QED BY <3>1, PdaInjective
  <2> QED BY <2>2, <2>5
<1>3. ASSUME NEW p \in Payments(L), NEW q \in Payments(L), p.transaction = q.transaction
      PROVE  p = q
  <2>1. PICK a \in DOMAIN L.log : p = Payment(L, L.log[a])
    BY DEF Payments
  <2>2. PICK b \in DOMAIN L.log : q = Payment(L, L.log[b])
    BY DEF Payments
  <2>3. p.transaction = L.log[a].transaction /\ q.transaction = L.log[b].transaction
    BY <2>1, <2>2 DEF Payment
  <2>4. L.log[a].multisig = L.log[b].multisig /\ L.log[a].message = L.log[b].message
    BY <1>2, <1>3, <2>3
  <2> QED BY <1>1, <1>3, <2>1, <2>2, <2>3, <2>4
<1> QED
  BY <1>1, <1>3

\* Payments are kept; a new one could be decided, has the council's support and
\* is complete; a proposal is paid exactly when there is a payment for it.
LEMMA PaymentsKept ==
    ASSUME NEW C, NEW D, Between(C, D)
    PROVE  /\ Payments(C) \subseteq Payments(D)
           /\ \A p \in Payments(D) \ Payments(C) :
                 /\ DecidableIn(C, D, p.transaction, p.message)
                 /\ Cardinality({ m \in Councils(D)[p.multisig].members :
                       [member |-> m, transaction |-> p.transaction, message |-> p.message]
                          \in D.consent }) >= Councils(D)[p.multisig].threshold
                 /\ p.complete
           /\ \A t \in DOMAIN Proposals(D) :
                 Proposals(D)[t].paid <=> \E p \in Payments(D) : p.transaction = t
<1>1. Sound(C) /\ Sound(D) /\ RunsSince(C, D.log, <<>>)
  BY DEF Between, Progress
<1>2. ASSUME NEW a \in DOMAIN C.log, NEW b \in DOMAIN D.log, SameRun(C.log[a], D.log[b])
      PROVE  Payment(C, C.log[a]) = Payment(D, D.log[b])
  BY <1>1, <1>2, PaymentsOf DEF SameRun
<1>3. ASSUME NEW p \in Payments(C) PROVE p \in Payments(D)
  <2>1. PICK a \in DOMAIN C.log : p = Payment(C, C.log[a])
    BY DEF Payments
  <2>2. PICK b \in DOMAIN D.log : SameRun(D.log[b], C.log[a])
    BY <1>1 DEF RunsSince
  <2>3. SameRun(C.log[a], D.log[b])
    BY <2>2 DEF SameRun
  <2> QED BY <1>2, <2>1, <2>3 DEF Payments
<1>4. ASSUME NEW p \in Payments(D), p \notin Payments(C)
      PROVE  /\ DecidableIn(C, D, p.transaction, p.message)
             /\ Cardinality({ m \in Councils(D)[p.multisig].members :
                   [member |-> m, transaction |-> p.transaction, message |-> p.message]
                      \in D.consent }) >= Councils(D)[p.multisig].threshold
             /\ p.complete
  <2>1. PICK b \in DOMAIN D.log : p = Payment(D, D.log[b])
    BY DEF Payments
  <2>2. /\ p.multisig = D.log[b].multisig /\ p.transaction = D.log[b].transaction
        /\ p.message = D.log[b].message /\ p.complete
    <3>1. Payment(D, D.log[b]) =
             [multisig |-> D.log[b].multisig, transaction |-> D.log[b].transaction,
              message |-> D.log[b].message, complete |-> TRUE]
      BY <1>1, PaymentsOf
    <3> QED BY <2>1, <3>1
  <2>3. /\ Claimed(D.multisig, p.multisig, p.transaction)
        /\ Consented(D.multisig, D.consent, p.multisig, p.transaction, p.message)
    BY <1>1, <2>2 DEF Sound, LedgerInv, LogInv
  <2>4. \A a \in DOMAIN C.log : ~SameRun(C.log[a], D.log[b])
    BY <1>2, <1>4, <2>1 DEF Payments
  <2>5. Origin(C, p.transaction, p.message)
    BY <1>1, <2>2, <2>4 DEF RunsSince
  <2>6. p.transaction \in Used(D) /\ p.multisig \in DOMAIN D.multisig
    BY <2>3, UsedClaimed DEF Claimed
  <2>7. DecidableIn(C, D, p.transaction, p.message)
    BY <2>5, <2>6, OriginDecidable
  <2>8. /\ Councils(D)[p.multisig].members = ToSet(D.multisig[p.multisig].members)
        /\ Councils(D)[p.multisig].threshold = D.multisig[p.multisig].threshold
    BY <2>6 DEF Councils
  <2>9. Cardinality({ m \in Councils(D)[p.multisig].members :
                         [member |-> m, transaction |-> p.transaction, message |-> p.message]
                            \in D.consent }) >= Councils(D)[p.multisig].threshold
    BY <2>3, <2>8 DEF Consented
  <2> QED BY <2>2, <2>7, <2>9
<1>5. ASSUME NEW t \in DOMAIN Proposals(D)
      PROVE  Proposals(D)[t].paid <=> \E p \in Payments(D) : p.transaction = t
  <2>1. t \in DOMAIN D.transaction /\ Proposals(D)[t].paid = D.transaction[t].executed
    BY DEF Proposals
  <2>2. D.transaction[t].executed <=> \E n \in DOMAIN D.log : D.log[n].transaction = t
    <3>1. \A x : ~Executing(<<>>, x)
      BY DEF Executing
    <3> QED BY SMTT(30), <1>1, <2>1, <3>1 DEF Sound, LedgerInv, DoneInv, LogInv
  <2>3. (\E n \in DOMAIN D.log : D.log[n].transaction = t)
           <=> \E p \in Payments(D) : p.transaction = t
    <3>1. \A n \in DOMAIN D.log : Payment(D, D.log[n]).transaction = D.log[n].transaction
      BY DEF Payment
    <3> QED BY <3>1 DEF Payments
  <2> QED BY <2>1, <2>2, <2>3
<1> QED
  BY <1>3, <1>4, <1>5

\* What Inv and BundleSoFar say of the working copy when it is committed.
LEMMA CommitBetween ==
    ASSUME Inv, Inv', AllOrNothing, AllOrNothing', BundleSoFar, Commit
    PROVE  Between(committed, committed')
<1>1. Sound(committed)
  BY DEF Inv, TypeOK, Sound, Complete, AllOrNothing
<1>2. Sound(committed')
  <2>1. \A n \in DOMAIN committed'.log :
           Ran(committed', committed'.log[n].transaction)
              = 1..Len(committed'.log[n].message.instructions)
    BY DEF AllOrNothing, Ran
  <2> QED BY <2>1 DEF Inv, TypeOK, Sound, Complete
<1>3. Progress(committed, committed'.multisig, committed'.transaction,
               committed'.consent, committed'.log, <<>>)
  BY DEF BundleSoFar, Commit, Ledger
<1> QED
  BY <1>1, <1>2, <1>3 DEF Between

\* The program is its contract to those who see committed ledgers: for any
\* number of members, proposals, nested calls and bundles.
THEOREM ContractTheorem == Spec => ImplementsContract
<1>1. Init => Promised!Start
  <2> SUFFICES ASSUME Init PROVE Promised!Start
    OBVIOUS
  <2>1. /\ DOMAIN committed.multisig = {} /\ DOMAIN committed.transaction = {}
        /\ committed.consent = {} /\ DOMAIN committed.log = {}
    BY DEF Init, Ledger
  <2> QED BY <2>1 DEF Promised!Start, Councils, Used, Proposals, Payments
<1>2. ASSUME Inv, Inv', AllOrNothing, AllOrNothing', BundleSoFar, [Next]_vars
      PROVE  [Promised!Bundle]_(Promised!contractVars)
  <2>1. CASE Commit
    <3> DEFINE C == committed
               D == committed'
    <3>1. Between(C, D)
      BY <1>2, <2>1, CommitBetween
    <3>2. /\ Councils(committed)' = Councils(D)
          /\ Used(committed)' = Used(D)
          /\ Proposals(committed)' = Proposals(D)
          /\ Payments(committed)' = Payments(D)
      BY DEF Councils, Used, Proposals, Payments, Payment, Ran
    <3>3. \A A : Promised!Cardinality(A) = Cardinality(A)
      BY DEF Promised!Cardinality, Cardinality, Promised!IsFiniteSet, IsFiniteSet
    <3>4. Promised!Convene
      BY <3>1, <3>2, CouncilsKept DEF Promised!Convene
    <3>5. Promised!Propose
      BY <3>1, <3>2, ProposalsKept DEF Promised!Propose
    <3>6. Promised!Vote
      BY <3>1, <3>2, VotesKept DEF Promised!Vote, Promised!Decidable, DecidableIn
    <3>7. Promised!Pay
      <4>1. Payments(C) \subseteq Payments(D)
        BY <3>1, PaymentsKept
      <4>2. ASSUME NEW p \in Payments(D) \ Payments(C)
            PROVE  /\ Promised!Decidable(p.transaction, p.message)
                   /\ Cardinality(Promised!Supporters(p.multisig, p.transaction, p.message))
                         >= Councils(D)[p.multisig].threshold
                   /\ p.complete
        BY <3>1, <3>2, PaymentsKept DEF Promised!Decidable, DecidableIn, Promised!Supporters
      <4>3. \A p, q \in Payments(D) : p.transaction = q.transaction => p = q
        BY <3>1, PaymentsOf DEF Between
      <4>4. \A t \in DOMAIN Proposals(D) :
               Proposals(D)[t].paid <=> \E p \in Payments(D) : p.transaction = t
        BY <3>1, PaymentsKept
      <4> QED BY <3>2, <3>3, <4>1, <4>2, <4>3, <4>4 DEF Promised!Pay
    <3> QED BY <3>4, <3>5, <3>6, <3>7 DEF Promised!Bundle
  <2>2. CASE UNCHANGED committed
    BY <2>2 DEF Promised!contractVars
  <2>3. Commit \/ UNCHANGED committed
    BY <1>2 DEF Next, vars, BeginTransaction, InitializeMultisig, CreateTransaction,
                ApproveTransaction, ExecuteTransaction, CloseTransaction, ProvisionNonce,
                Prefund, TopLevel, CpiTransfer, CpiOther, CpiInitialize, CpiCreate,
                CpiApprove, CpiExecute, CpiClose, CpiProvision, InvokeSelf, InvokeSigned,
                ExitExecute, Abort
  <2> QED BY <2>1, <2>2, <2>3
<1> QED
  BY <1>1, <1>2, Invariant, AtomicityTheorem, SoFarTheorem, PTL
  DEF Spec, ImplementsContract, Promised!Contract

=============================================================================
