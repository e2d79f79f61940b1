------------------------ MODULE SolanaMultisigProofs ------------------------
(***************************************************************************)
(* Proofs about SolanaMultisig, for every value of its constants.          *)
(***************************************************************************)
EXTENDS SolanaMultisig, FiniteSetTheorems, TLAPS

-----------------------------------------------------------------------------
(***************************************************************************)
(* Operators.                                                              *)
(***************************************************************************)

\* sort() returns a list of keys of the same length.
LEMMA SortedType ==
    ASSUME NEW s \in Seq(Address), NEW t \in Sorted(s)
    PROVE  t \in Seq(Address) /\ Len(t) = Len(s) /\ DOMAIN t = 1..Len(s)
<1>1. PICK p \in [1..Len(s) -> 1..Len(s)] : t = [i \in 1..Len(s) |-> s[p[i]]]
  BY DEF Sorted
<1>2. t \in [1..Len(s) -> Address]
  BY <1>1
<1> QED
  BY <1>2

\* Comparing the neighbours of a sorted list finds every duplicate, which is
\* how initialize_multisig and create_transaction look for them.
LEMMA SortedDistinct ==
    ASSUME NEW s \in Seq(Address), NEW t \in Sorted(s), AdjacentDistinct(t)
    PROVE  IsInjective(t)
<1>1. t \in Seq(Address) /\ Len(t) = Len(s) /\ DOMAIN t = 1..Len(s)
  BY SortedType
<1>2. \A i, j \in 1..Len(t) : i < j => <<t[j], t[i]>> \notin KeyLess
  BY <1>1 DEF Sorted
<1>3. ASSUME NEW i \in 1..Len(t), NEW j \in 1..Len(t), i < j, t[i] = t[j]
      PROVE  FALSE
  <2>1. i \in 1..(Len(t) - 1) /\ i + 1 \in 1..Len(t)
    BY <1>1, <1>3
  <2>2. t[i] # t[i + 1]
    BY <2>1 DEF AdjacentDistinct
  <2>3. <<t[i + 1], t[i]>> \notin KeyLess
    BY <2>1, <1>2
  <2>4. t[i + 1] \in Address /\ t[i] \in Address /\ t[j] \in Address
    BY <1>1, <2>1
  <2>5. <<t[i], t[i + 1]>> \in KeyLess
    BY <2>2, <2>3, <2>4, KeyOrderAssumption
  <2>6. i + 1 < j
    BY <1>3, <2>2, <2>1
  <2>7. <<t[j], t[i + 1]>> \notin KeyLess
    BY <2>6, <2>1, <1>2
  <2> QED
    BY <2>5, <2>7, <1>3
<1> QED
  BY <1>1, <1>3 DEF IsInjective

\* Lamports moved between two addresses stay natural numbers when the source
\* holds enough.
LEMMA MovedType ==
    ASSUME lamports \in [Address -> Nat], NEW from \in Address, NEW to \in Address,
           NEW amount \in Nat, lamports[from] >= amount
    PROVE  Moved(from, to, amount) \in [Address -> Nat]
BY DEF Moved

\* So does a debit that a called program makes.
LEMMA DebitsType ==
    ASSUME lamports \in [Address -> Nat], NEW f, NEW from \in Address, NEW to \in Address,
           NEW amount \in Nat, Debits(f, from, to, amount)
    PROVE  lamports' \in [Address -> Nat]
BY MovedType DEF Debits

-----------------------------------------------------------------------------
(***************************************************************************)
(* Type correctness.                                                       *)
(***************************************************************************)

\* The part of the type invariant the handlers can disturb.
AccountsTypeOK ==
    /\ DOMAIN multisig \subseteq Address
    /\ \A ms \in DOMAIN multisig : multisig[ms] \in MultisigAccount
    /\ DOMAIN transaction \subseteq Address
    /\ \A txn \in DOMAIN transaction : transaction[txn] \in VaultTransaction
    /\ DOMAIN nonce \subseteq Address
    /\ \A a \in DOMAIN nonce : nonce[a] \in Address
    /\ lamports \in [Address -> Nat]
    /\ consent \subseteq Consent

\* The type invariant, with the ledger record taken apart.
LEMMA TypeParts ==
    /\ TypeOK <=> /\ AccountsTypeOK
                  /\ log \in Seq(Run)
                  /\ LedgerTypeOK(committed)
                  /\ signers \in SUBSET Address
                  /\ stack \in Seq(StackFrame)
                  /\ ixs \in Nat
    /\ TypeOK' <=> /\ AccountsTypeOK'
                   /\ log' \in Seq(Run)
                   /\ LedgerTypeOK(committed')
                   /\ signers' \in SUBSET Address
                   /\ stack' \in Seq(StackFrame)
                   /\ ixs' \in Nat
BY DEF TypeOK, LedgerTypeOK, Ledger, AccountsTypeOK

\* Anchor's init leaves natural balances, at an address and from a payer the
\* instance knows.
LEMMA AnchorInitType ==
    ASSUME AccountsTypeOK, NEW acct, NEW payer, NEW bytes, NEW sig \in SUBSET Address,
           NEW wr, AnchorInit(acct, payer, bytes, sig, wr)
    PROVE  /\ acct \in Address /\ payer \in Address /\ bytes \in Nat
           /\ lamports' \in [Address -> Nat]
<1>1. acct \in Address /\ payer \in Address /\ bytes \in Nat
  BY ConstantsAssumption DEF AnchorInit
<1>2. Missing(acct, bytes) \in Nat /\ lamports[payer] >= Missing(acct, bytes)
  BY <1>1 DEF Missing, Rent, AnchorInit, CanFund, AccountsTypeOK
<1> QED
  BY <1>1, <1>2, MovedType DEF AnchorInit, AccountsTypeOK

\* initialize_multisig keeps the accounts well typed.
LEMMA InitializeType ==
    ASSUME AccountsTypeOK, NEW ms, NEW payer, NEW members \in Seq(Address),
           NEW member_hash, NEW threshold \in Nat, NEW member_count,
           NEW sig \in SUBSET Address, NEW wr,
           initialize_multisig(ms, payer, members, member_hash, threshold,
                               member_count, sig, wr)
    PROVE  AccountsTypeOK'
<1>1. ms \in Address /\ lamports' \in [Address -> Nat]
  BY AnchorInitType DEF initialize_multisig
<1>2. PICK s \in Sorted(members) :
        multisig' = With(multisig, ms, [members |-> s, threshold |-> threshold,
                                        transaction_index |-> 0])
  BY DEF initialize_multisig
<1>3. s \in Seq(Address)
  BY SortedType
<1>4. /\ DOMAIN multisig' \subseteq Address
      /\ \A a \in DOMAIN multisig' : multisig'[a] \in MultisigAccount
  BY <1>1, <1>2, <1>3 DEF With, AccountsTypeOK, MultisigAccount
<1> QED
  BY <1>1, <1>4 DEF initialize_multisig, AccountsTypeOK

\* create_transaction keeps the accounts well typed.
LEMMA CreateType ==
    ASSUME AccountsTypeOK, NEW ms, NEW txn, NEW creator, NEW payer,
           NEW vault_index \in Nat, NEW message \in Messages,
           NEW sig \in SUBSET Address, NEW wr,
           create_transaction(ms, txn, creator, payer, vault_index, message, sig, wr)
    PROVE  AccountsTypeOK'
<1> DEFINE new_index == NextIndex(ms)
           space == SpaceFor(ms, message)
           account == [multisig |-> ms, transaction_index |-> new_index,
                       creator |-> creator, payer |-> payer,
                       vault_index |-> vault_index, executed |-> FALSE,
                       approvals |-> <<>>, message |-> message, space |-> space]
<1>1. /\ ms \in DOMAIN multisig /\ creator \in sig
      /\ AnchorInit(txn, payer, space, sig, wr)
      /\ multisig' = [multisig EXCEPT ![ms].transaction_index = new_index]
      /\ transaction' = With(transaction, txn, account)
      /\ UNCHANGED <<nonce, consent>>
  BY DEF create_transaction
<1>2. txn \in Address /\ payer \in Address /\ space \in Nat /\ lamports' \in [Address -> Nat]
  <2> HIDE DEF space
  <2> QED BY <1>1, AnchorInitType
<1>3. new_index \in Nat /\ ms \in Address /\ creator \in Address
  BY <1>1 DEF NextIndex, AccountsTypeOK, MultisigAccount
<1> HIDE DEF new_index, space
<1>4. account \in VaultTransaction
  BY <1>2, <1>3 DEF VaultTransaction
<1> HIDE DEF account
<1>5. /\ DOMAIN transaction' \subseteq Address
      /\ \A a \in DOMAIN transaction' : transaction'[a] \in VaultTransaction
  BY <1>1, <1>2, <1>4 DEF With, AccountsTypeOK
<1>6. /\ DOMAIN multisig' \subseteq Address
      /\ \A a \in DOMAIN multisig' : multisig'[a] \in MultisigAccount
  BY <1>1, <1>3 DEF AccountsTypeOK, MultisigAccount
<1> QED
  BY <1>1, <1>2, <1>5, <1>6 DEF AccountsTypeOK

\* A proposal that gains an approval is a proposal, a frame that moves on to
\* its next instruction is a frame.
LEMMA RecordUpdates ==
    /\ \A t \in VaultTransaction, m \in Address :
          [t EXCEPT !.approvals = Append(@, m)] \in VaultTransaction
    /\ \A f \in StackFrame : [f EXCEPT !.pc = @ + 1] \in StackFrame
<1>1. ASSUME NEW t \in VaultTransaction, NEW m \in Address
      PROVE  [t EXCEPT !.approvals = Append(@, m)] \in VaultTransaction
  <2>1. Append(t.approvals, m) \in Seq(Address)
    BY DEF VaultTransaction
  <2> DEFINE approvals == Append(t.approvals, m)
  <2> HIDE DEF approvals
  <2>2. [t EXCEPT !.approvals = approvals] \in VaultTransaction
    BY <2>1 DEF VaultTransaction, approvals
  <2> QED
    BY <2>2 DEF approvals
<1>2. ASSUME NEW f \in StackFrame
      PROVE  [f EXCEPT !.pc = @ + 1] \in StackFrame
  BY DEF StackFrame
<1> QED
  BY <1>1, <1>2

\* approve_transaction keeps the accounts well typed.
LEMMA ApproveType ==
    ASSUME AccountsTypeOK, NEW ms, NEW txn, NEW member, NEW transaction_index,
           NEW sig \in SUBSET Address, NEW wr,
           approve_transaction(ms, txn, member, transaction_index, sig, wr)
    PROVE  AccountsTypeOK'
<1> DEFINE t == [transaction[txn] EXCEPT !.approvals = Append(@, member)]
           c == [member |-> member, transaction |-> txn,
                 message |-> transaction[txn].message]
<1>1. /\ txn \in DOMAIN transaction /\ member \in Address
      /\ transaction' = [transaction EXCEPT ![txn] = t]
      /\ consent' = consent \cup {c}
      /\ UNCHANGED <<multisig, nonce, lamports>>
  BY DEF approve_transaction, BoundTo
<1>2. t \in VaultTransaction
  <2>1. transaction[txn] \in VaultTransaction
    BY <1>1 DEF AccountsTypeOK
  <2> QED
    BY <1>1, <2>1, RecordUpdates
<1>3. c \in Consent
  BY <1>1 DEF AccountsTypeOK, VaultTransaction, Consent
<1> HIDE DEF t, c
<1> QED
  BY <1>1, <1>2, <1>3 DEF AccountsTypeOK

\* The part of execute_transaction before its CPIs keeps the accounts well
\* typed and pushes a well-typed frame.
LEMMA ExecuteType ==
    ASSUME AccountsTypeOK, NEW ms, NEW txn, NEW executor, NEW transaction_index,
           NEW remaining, NEW sig \in SUBSET Address, NEW wr \in SUBSET Address,
           NEW caller \in Seq(StackFrame),
           execute_transaction(ms, txn, executor, transaction_index, remaining,
                               sig, wr, caller)
    PROVE  AccountsTypeOK' /\ stack' \in Seq(StackFrame)
<1> DEFINE marked == [transaction[txn] EXCEPT !.executed = TRUE]
           frame == [multisig |-> ms, transaction |-> txn, pc |-> 1,
                     signers |-> sig, writable |-> wr,
                     cached_multisig |-> multisig[ms], cached |-> marked]
<1>1. /\ ms \in DOMAIN multisig /\ txn \in DOMAIN transaction
      /\ transaction' = [transaction EXCEPT ![txn] = marked]
      /\ stack' = Append(caller, frame)
      /\ UNCHANGED <<multisig, nonce, lamports, consent>>
  BY DEF execute_transaction, BoundTo, Flushed
<1>2. marked \in VaultTransaction
  BY <1>1 DEF AccountsTypeOK, VaultTransaction
<1> HIDE DEF marked
<1>3. frame \in StackFrame
  BY <1>1, <1>2 DEF AccountsTypeOK, StackFrame
<1> HIDE DEF frame
<1> QED
  BY <1>1, <1>2, <1>3 DEF AccountsTypeOK

\* close_transaction keeps the accounts well typed.
LEMMA CloseType ==
    ASSUME AccountsTypeOK, NEW ms, NEW txn, NEW payer, NEW transaction_index,
           NEW sig \in SUBSET Address, NEW wr,
           close_transaction(ms, txn, payer, transaction_index, sig, wr)
    PROVE  AccountsTypeOK'
<1>1. /\ txn \in Address /\ payer \in Address
      /\ lamports[txn] \in Nat /\ lamports[txn] >= lamports[txn]
  BY DEF close_transaction, BoundTo, AccountsTypeOK
<1>2. lamports' \in [Address -> Nat]
  BY <1>1, MovedType DEF close_transaction, AccountsTypeOK
<1> QED
  BY <1>2 DEF close_transaction, Without, AccountsTypeOK

\* provision_nonce keeps the accounts well typed.
LEMMA ProvisionType ==
    ASSUME AccountsTypeOK, NEW ms, NEW nonce_account, NEW payer,
           NEW sig \in SUBSET Address, NEW wr,
           provision_nonce(ms, nonce_account, payer, sig, wr)
    PROVE  AccountsTypeOK'
<1>1. nonce_account \in Address /\ payer \in Address /\ Rent(80) \in Nat
  BY DEF provision_nonce, Rent
<1>2. lamports' \in [Address -> Nat]
  BY <1>1, MovedType DEF provision_nonce, AccountsTypeOK
<1> QED
  BY <1>1, <1>2 DEF provision_nonce, With, AccountsTypeOK

\* A CPI starts from a well-typed frame: the accounts it passes are known
\* addresses, its payload is one of the payloads, and it leaves a well-typed
\* log and stack.
LEMMA InvokeType ==
    ASSUME TypeOK, NEW program_id, InvokeSigned(program_id)
    PROVE  LET f == Last(stack) IN
           /\ stack \in Seq(StackFrame) /\ Len(stack) \in Nat \ {0}
           /\ f \in StackFrame /\ f = stack[Len(stack)]
           /\ Instruction(f).data \in Data
           /\ Len(Metas(f)) \in Nat
           /\ \A k \in 1..Len(Metas(f)) : Arg(f, k) \in Address
           /\ SignerKeys(Metas(f)) \in SUBSET Address
           /\ WritableKeys(Metas(f)) \in SUBSET Address
           /\ log' \in Seq(Run)
           /\ Resumed \in Seq(StackFrame)
<1> DEFINE f == Last(stack)
           message == f.cached.message
<1>1. /\ stack \in Seq(StackFrame) /\ Len(stack) \in Nat \ {0}
      /\ f \in StackFrame /\ f = stack[Len(stack)]
  BY TypeParts DEF InvokeSigned, Last
<1>2. f.cached \in VaultTransaction /\ f.pc \in Nat \ {0}
      /\ f.multisig \in Address /\ f.transaction \in Address
  BY <1>1 DEF StackFrame
<1>3. message \in TransactionMessage /\ message \in Messages
  BY <1>2, ConstantsAssumption DEF VaultTransaction
<1>4. Instruction(f) \in CompiledInstruction
  BY <1>2, <1>3 DEF Instruction, InvokeSigned, TransactionMessage
<1>5. \A k \in DOMAIN Instruction(f).account_indexes :
         message.account_keys[Instruction(f).account_indexes[k] + 1] \in Address
  <2>1. ASSUME NEW k \in DOMAIN Instruction(f).account_indexes
        PROVE  message.account_keys[Instruction(f).account_indexes[k] + 1] \in Address
    <3>1. Instruction(f).account_indexes[k] \in Nat
      BY <1>4 DEF CompiledInstruction
    <3>2. Instruction(f).account_indexes[k] < Len(message.account_keys)
      BY DEF InvokeSigned, InBounds
    <3>3. message.account_keys \in Seq(Address)
      BY <1>3 DEF TransactionMessage
    <3> HIDE DEF message
    <3> QED
      BY <3>1, <3>2, <3>3
  <2> QED
    BY <2>1
<1>6. /\ DOMAIN Metas(f) = 1..Len(Instruction(f).account_indexes)
      /\ Len(Metas(f)) = Len(Instruction(f).account_indexes)
      /\ \A k \in DOMAIN Metas(f) : Metas(f)[k].pubkey \in Address
  BY <1>4, <1>5 DEF Metas, account_metas, CompiledInstruction
<1>7. Resumed \in Seq(StackFrame)
  <2>1. [stack[Len(stack)] EXCEPT !.pc = @ + 1] \in StackFrame
    BY <1>1, RecordUpdates
  <2> QED
    BY <1>1, <2>1 DEF Resumed
<1>8. log' \in Seq(Run)
  BY <1>2, <1>3, TypeParts DEF InvokeSigned, Run
<1>9. Len(Metas(f)) \in Nat /\ \A k \in 1..Len(Metas(f)) : Arg(f, k) \in Address
  BY <1>4, <1>6 DEF Arg, CompiledInstruction
<1>10. /\ SignerKeys(Metas(f)) \in SUBSET Address
       /\ WritableKeys(Metas(f)) \in SUBSET Address
  BY <1>6 DEF SignerKeys, WritableKeys
<1>11. Instruction(f).data \in Data
  BY <1>4 DEF CompiledInstruction
<1> QED
  BY <1>1, <1>7, <1>8, <1>9, <1>10, <1>11

\* What is left to show for a CPI, and for an instruction of the outer
\* transaction, is that its handler keeps the accounts well typed.
LEMMA CpiType ==
    ASSUME TypeOK, NEW program_id, InvokeSigned(program_id), AccountsTypeOK',
           stack' \in Seq(StackFrame)
    PROVE  TypeOK'
<1>1. log' \in Seq(Run)
  BY InvokeType
<1> QED
  BY <1>1, TypeParts DEF InvokeSigned

\* Starting a top-level instruction keeps the type invariant if its handler
\* keeps the accounts and the stack typed.
LEMMA TopLevelType ==
    ASSUME TypeOK, TopLevel, AccountsTypeOK', stack' \in Seq(StackFrame)
    PROVE  TypeOK'
BY TypeParts DEF TopLevel

\* Every instruction of the outer transaction keeps the state well typed.
LEMMA TopLevelStepType ==
    ASSUME TypeOK,
           \/ InitializeMultisig \/ CreateTransaction \/ ApproveTransaction
           \/ ExecuteTransaction \/ CloseTransaction \/ ProvisionNonce \/ Prefund
    PROVE  TypeOK'
<1> USE TypeParts
<1>1. CASE InitializeMultisig
  <2>1. PICK members \in MemberLists, claimed \in MemberLists, payer \in signers,
             threshold \in 0..(MAX_MEMBERS + 1) :
          \E member_count \in {Len(members), Len(claimed)} :
            initialize_multisig(multisig_pda(hash_members(claimed), threshold), payer,
               members, hash_members(claimed), threshold, member_count, signers,
               {multisig_pda(hash_members(claimed), threshold), payer})
    BY <1>1 DEF InitializeMultisig
  <2>2. members \in Seq(Address) /\ threshold \in Nat
    BY ConstantsAssumption
  <2>3. AccountsTypeOK'
    BY <2>1, <2>2, InitializeType
  <2> QED
    BY <1>1, <2>3, TopLevelType DEF InitializeMultisig
<1>2. CASE CreateTransaction
  <2>1. PICK ms \in DOMAIN multisig, creator \in signers, payer \in signers,
             message \in Messages, vault_index \in VaultIndexes, index \in 1..U64_MAX :
          create_transaction(ms, transaction_pda(ms, index), creator, payer, vault_index,
             message, signers, {ms, transaction_pda(ms, index), payer})
    BY <1>2 DEF CreateTransaction
  <2>2. vault_index \in Nat
    BY ConstantsAssumption
  <2>3. AccountsTypeOK'
    BY <2>1, <2>2, CreateType
  <2> QED
    BY <1>2, <2>3, TopLevelType DEF CreateTransaction
<1>3. CASE ApproveTransaction
  <2>1. AccountsTypeOK'
    BY <1>3, ApproveType DEF ApproveTransaction
  <2> QED
    BY <1>3, <2>1, TopLevelType DEF ApproveTransaction
<1>4. CASE ExecuteTransaction
  <2>1. PICK ms \in DOMAIN multisig, txn \in DOMAIN transaction, executor \in signers,
             index \in 1..U64_MAX, m \in Messages :
          execute_transaction(ms, txn, executor, index, m.account_keys, signers,
                              {txn} \cup ToSet(m.account_keys), <<>>)
    BY <1>4 DEF ExecuteTransaction
  <2>2. m.account_keys \in Seq(Address)
    BY ConstantsAssumption DEF TransactionMessage
  <2>3. {txn} \cup ToSet(m.account_keys) \in SUBSET Address
    BY <2>2 DEF ToSet, AccountsTypeOK
  <2>4. <<>> \in Seq(StackFrame)
    OBVIOUS
  <2>5. AccountsTypeOK' /\ stack' \in Seq(StackFrame)
    BY <2>1, <2>3, <2>4, ExecuteType
  <2> QED
    BY <1>4, <2>5, TopLevelType DEF ExecuteTransaction
<1>5. CASE CloseTransaction
  <2>1. AccountsTypeOK'
    BY <1>5, CloseType DEF CloseTransaction
  <2> QED
    BY <1>5, <2>1, TopLevelType DEF CloseTransaction
<1>6. CASE ProvisionNonce
  <2>1. AccountsTypeOK'
    BY <1>6, ProvisionType DEF ProvisionNonce
  <2> QED
    BY <1>6, <2>1, TopLevelType DEF ProvisionNonce
<1>7. CASE Prefund
  <2>1. PICK from \in signers, to \in Prefundable :
          lamports[from] >= 1 /\ lamports' = Moved(from, to, 1)
    BY <1>7 DEF Prefund
  <2>2. from \in Address /\ to \in Address
    BY ConstantsAssumption
  <2>3. lamports' \in [Address -> Nat]
    BY <2>1, <2>2, MovedType DEF AccountsTypeOK
  <2>4. AccountsTypeOK'
    BY <1>7, <2>3 DEF Prefund, AccountsTypeOK
  <2> QED
    BY <1>7, <2>4, TopLevelType DEF Prefund
<1> QED
  BY <1>1, <1>2, <1>3, <1>4, <1>5, <1>6, <1>7

\* Every CPI keeps the state well typed.
LEMMA CpiStepType ==
    ASSUME TypeOK,
           \/ CpiTransfer \/ CpiOther \/ CpiInitialize \/ CpiCreate \/ CpiApprove
           \/ CpiExecute \/ CpiClose \/ CpiProvision
    PROVE  TypeOK'
<1> DEFINE f == Last(stack)
           sig == SignerKeys(Metas(f))
           wr == WritableKeys(Metas(f))
           rest == [k \in 1..(Len(Metas(f)) - 3) |-> Arg(f, k + 3)]
<1>0. PICK program_id : InvokeSigned(program_id)
  BY DEF CpiTransfer, CpiOther, CpiInitialize, CpiCreate, CpiApprove, CpiExecute,
         CpiClose, CpiProvision, InvokeSelf
<1>1. /\ f \in StackFrame
      /\ Instruction(f).data \in Data
      /\ Len(Metas(f)) \in Nat
      /\ \A k \in 1..Len(Metas(f)) : Arg(f, k) \in Address
      /\ sig \in SUBSET Address
      /\ wr \in SUBSET Address
      /\ Resumed \in Seq(StackFrame)
  BY <1>0, InvokeType
<1>2. rest \in Seq(Address)
  <2>1. rest \in [1..(Len(Metas(f)) - 3) -> Address]
    BY <1>1
  <2>2. CASE Len(Metas(f)) >= 3
    BY <1>1, <2>1, <2>2
  <2>3. CASE Len(Metas(f)) < 3
    BY <1>1, <2>1, <2>3
  <2> QED
    BY <1>1, <2>2, <2>3
<1>3. AccountsTypeOK
  BY TypeParts
<1>4. stack' = Resumed => stack' \in Seq(StackFrame)
  BY <1>1
<1>5. CASE CpiTransfer
  <2>1. /\ Payload(f).lamports \in Nat
        /\ Arg(f, 1) \in Address /\ Arg(f, 2) \in Address
    BY <1>1, <1>5, DecodeAssumption DEF CpiTransfer, Payload
  <2>2. Debits(f, Arg(f, 1), Arg(f, 2), Payload(f).lamports)
    BY <1>5 DEF CpiTransfer
  <2>3. lamports' \in [Address -> Nat]
    BY <1>3, <2>1, <2>2, DebitsType DEF AccountsTypeOK
  <2>4. AccountsTypeOK'
    BY <1>3, <1>5, <2>3 DEF CpiTransfer, AccountsTypeOK
  <2> QED
    BY <1>0, <1>4, <1>5, <2>4, CpiType DEF CpiTransfer
<1>6. CASE CpiOther
  <2>1. lamports' \in [Address -> Nat]
    <3>1. CASE UNCHANGED lamports
      BY <1>3, <3>1 DEF AccountsTypeOK
    <3>2. CASE \E from \in sig, to \in wr, amount \in ForeignAmounts :
                   Debits(f, from, to, amount)
      <4>1. PICK from \in sig, to \in wr, amount \in ForeignAmounts :
                Debits(f, from, to, amount)
        BY <3>2
      <4>2. from \in Address /\ to \in Address /\ amount \in Nat
        BY <1>1, ConstantsAssumption
      <4> QED
        BY <1>3, <4>1, <4>2, DebitsType DEF AccountsTypeOK
    <3> QED
      BY <1>6, <3>1, <3>2 DEF CpiOther
  <2>2. AccountsTypeOK'
    BY <1>3, <1>6, <2>1 DEF CpiOther, AccountsTypeOK
  <2> QED
    BY <1>0, <1>4, <1>6, <2>2, CpiType DEF CpiOther
<1>7. CASE CpiInitialize
  <2>1. initialize_multisig(Arg(f, 1), Arg(f, 2), rest, Payload(f).member_hash,
           Payload(f).threshold, Payload(f).member_count, sig, wr)
    BY <1>7 DEF CpiInitialize
  <2>2. Payload(f).threshold \in Nat
    BY <1>1, <1>7, DecodeAssumption DEF CpiInitialize, InvokeSelf, Payload
  <2> HIDE DEF sig, wr, rest, f
  <2>3. AccountsTypeOK'
    BY <1>1, <1>2, <1>3, <2>1, <2>2, InitializeType
  <2> QED
    BY <1>0, <1>4, <1>7, <2>3, CpiType DEF CpiInitialize
<1>8. CASE CpiCreate
  <2>1. create_transaction(Arg(f, 1), Arg(f, 2), Arg(f, 3), Arg(f, 4),
           Payload(f).vault_index, Payload(f).message, sig, wr)
    BY <1>8 DEF CpiCreate
  <2>2. Payload(f).vault_index \in Nat /\ Payload(f).message \in Messages
    BY <1>1, <1>8, DecodeAssumption DEF CpiCreate, InvokeSelf, Payload
  <2> HIDE DEF sig, wr, f
  <2>3. AccountsTypeOK'
    BY <1>1, <1>3, <2>1, <2>2, CreateType
  <2> QED
    BY <1>0, <1>4, <1>8, <2>3, CpiType DEF CpiCreate
<1>9. CASE CpiApprove
  <2>1. approve_transaction(Arg(f, 1), Arg(f, 2), Arg(f, 3),
           Payload(f).transaction_index, sig, wr)
    BY <1>9 DEF CpiApprove
  <2> HIDE DEF sig, wr, f
  <2>2. AccountsTypeOK'
    BY <1>1, <1>3, <2>1, ApproveType
  <2> QED
    BY <1>0, <1>4, <1>9, <2>2, CpiType DEF CpiApprove
<1>10. CASE CpiExecute
  <2>1. execute_transaction(Arg(f, 1), Arg(f, 2), Arg(f, 3),
           Payload(f).transaction_index, rest, sig, wr, Resumed)
    BY <1>10 DEF CpiExecute
  <2> HIDE DEF sig, wr, rest, f
  <2>2. AccountsTypeOK' /\ stack' \in Seq(StackFrame)
    BY <1>1, <1>3, <2>1, ExecuteType
  <2> QED
    BY <1>0, <2>2, CpiType
<1>11. CASE CpiClose
  <2>1. close_transaction(Arg(f, 1), Arg(f, 2), Arg(f, 3),
           Payload(f).transaction_index, sig, wr)
    BY <1>11 DEF CpiClose
  <2> HIDE DEF sig, wr, f
  <2>2. AccountsTypeOK'
    BY <1>1, <1>3, <2>1, CloseType
  <2> QED
    BY <1>0, <1>4, <1>11, <2>2, CpiType DEF CpiClose
<1>12. CASE CpiProvision
  <2>1. provision_nonce(Arg(f, 1), Arg(f, 2), Arg(f, 3), sig, wr)
    BY <1>12 DEF CpiProvision
  <2> HIDE DEF sig, wr, f
  <2>2. AccountsTypeOK'
    BY <1>1, <1>3, <2>1, ProvisionType
  <2> QED
    BY <1>0, <1>4, <1>12, <2>2, CpiType DEF CpiProvision
<1> QED
  BY <1>5, <1>6, <1>7, <1>8, <1>9, <1>10, <1>11, <1>12

\* Every step keeps the state well typed.
LEMMA TypeStep == TypeOK /\ [Next]_vars => TypeOK'
<1> SUFFICES ASSUME TypeOK, [Next]_vars
             PROVE  TypeOK'
  OBVIOUS
<1>1. CASE \/ InitializeMultisig \/ CreateTransaction \/ ApproveTransaction
           \/ ExecuteTransaction \/ CloseTransaction \/ ProvisionNonce \/ Prefund
  BY <1>1, TopLevelStepType
<1>2. CASE \/ CpiTransfer \/ CpiOther \/ CpiInitialize \/ CpiCreate \/ CpiApprove
           \/ CpiExecute \/ CpiClose \/ CpiProvision
  BY <1>2, CpiStepType
<1>3. CASE ExitExecute
  <2>1. stack \in Seq(StackFrame) /\ Len(stack) \in Nat \ {0}
    BY <1>3, TypeParts DEF ExitExecute
  <2>2. Last(stack) \in StackFrame /\ stack' \in Seq(StackFrame)
    BY <1>3, <2>1 DEF ExitExecute, Last, Front
  <2>3. AccountsTypeOK'
    BY <1>3, <2>2, TypeParts
       DEF ExitExecute, ProposalOnExit, MultisigOnExit, StackFrame, AccountsTypeOK
  <2> QED
    BY <1>3, <2>2, <2>3, TypeParts DEF ExitExecute
<1>4. CASE BeginTransaction
  BY <1>4, TypeParts, ConstantsAssumption DEF BeginTransaction, ledgerVars, AccountsTypeOK
<1>5. CASE Commit
  BY <1>5 DEF Commit, ledgerVars, TypeOK, LedgerTypeOK, Ledger
<1>6. CASE Abort
  BY <1>6, TypeParts DEF Abort, LedgerTypeOK, AccountsTypeOK
<1>7. CASE UNCHANGED vars
  BY <1>7, TypeParts DEF vars, AccountsTypeOK
<1> QED
  BY <1>1, <1>2, <1>3, <1>4, <1>5, <1>6, <1>7 DEF Next

\* Type correctness: every reachable state is well typed, so no balance is ever
\* negative and every stored proposal, frame and log entry is well formed.
THEOREM TypeCorrect == Spec => []TypeOK
<1>1. Init => TypeOK
  BY ConstantsAssumption DEF Init, TypeOK, LedgerTypeOK, Ledger
<1> QED
  BY <1>1, TypeStep, PTL DEF Spec

=============================================================================
