---------------------- MODULE BundleVerificationProofs ----------------------
(***************************************************************************)
(* What the gates of the signing devices are worth: an execution takes     *)
(* from the vault what every member that approved it was shown, what one   *)
(* device accepts in the bytes another accepts from the account, and no    *)
(* bundle that the builders make for a send is refused.                    *)
(***************************************************************************)
EXTENDS BundleVerification, SequenceLemmas

-----------------------------------------------------------------------------
(***************************************************************************)
(* The inductive invariant: of the accounts of the program, together with  *)
(* what was signed, and of the devices.                                    *)
(***************************************************************************)

Messages == { SolMessage(s) : s \in Sends }

Proposal ==
    [multisig : {Multisig}, transactionIndex : Nat, creator : Device, payer : {Paymaster},
     vaultIndex : {0}, executed : BOOLEAN, approvals : Seq(Device), message : Messages]

Receipt == [message : Messages, approvals : Seq(Device)]

Funds == [lamports : Nat, tokens : [TokenAccount -> Nat \cup {Unset}]]

Chain ==
    [transaction_index : 0..MaxIndex, proposals : [1..MaxIndex -> Proposal \cup {Unset}],
     paid : [1..MaxIndex -> Receipt \cup {Unset}], funds : Funds, failed : {FALSE}]

\* The accounts of the program, and what the vault has.
Present ==
    [transaction_index |-> transaction_index, proposals |-> proposals, paid |-> paid,
     funds |-> funds, failed |-> FALSE]

\* A member was shown, with what it signed, what a message pays for the
\* proposal of an index.
ShownBy(signed, member, i, message) ==
    \E s \in signed :
       /\ s.device = member
       /\ Pda(i) \in UNION { ToSet(Pubkeys(ix.keys)) : ix \in ToSet(s.tx.instructions) }
       /\ PaysWhatIsShown(message, s.payload)

Shown(member, i, message) == ShownBy(signatures, member, i, message)

\* Whoever approved was shown what is paid, and nobody approved twice.
ApprovedBy(signed, p, i) ==
    /\ IsInjective(p.approvals)
    /\ \A member \in ToSet(p.approvals) : ShownBy(signed, member, i, p.message)

Approved(p, i) == ApprovedBy(signatures, p, i)

\* Indexes are not used twice, so that a proposal is the only one of its index.
IndexInv(c, i) ==
    /\ c.proposals[i] # Unset =>
          /\ c.proposals[i].transactionIndex = i /\ i <= c.transaction_index
          /\ Approved(c.proposals[i], i)
    /\ c.paid[i] # Unset =>
          /\ i <= c.transaction_index
          /\ Len(c.paid[i].approvals) >= Threshold
          /\ Approved(c.paid[i], i)

LedgerInv(c) == c \in Chain /\ \A i \in 1..MaxIndex : IndexInv(c, i)

\* What an approve-only transaction approves, if it is there, pays what the
\* device that signed it had displayed.
TargetOf(tx) == decodeVaultSolanaTransaction(tx, Options).transactionPda

Verified(s) ==
    /\ s \in ApproveOnly
    /\ \E i \in 1..transaction_index :
          /\ TargetOf(s.tx) = Pda(i)
          /\ proposals[i] # Unset => PaysWhatIsShown(proposals[i].message, s.payload)

\* The answer of a node may be old, but the message of a proposal never changes.
AnswerInv(answer) ==
    /\ answer.offer \in ApproveOnly
    /\ answer.account # Unset =>
         /\ answer.account \in Proposal
         /\ answer.account.transactionIndex \in 1..transaction_index
         /\ LET p == proposals[answer.account.transactionIndex] IN
            p # Unset => p.message = answer.account.message

DeviceInv ==
    /\ DOMAIN asked = Device
    /\ \A d \in Device : asked[d] # Unset => AnswerInv(asked[d]) /\ asked[d].offer.device = d
    /\ signatures \subseteq Offers
    /\ \A s \in signatures : s \in Accepted \/ Verified(s)

IInv == LedgerInv(Present) /\ DeviceInv

-----------------------------------------------------------------------------
(***************************************************************************)
(* What is built for a send.                                               *)
(***************************************************************************)

\* A send moved to another index, or with other approvers, is a send.
LEMMA SendFacts ==
    /\ \A s \in Sends : s \in SendType
    /\ \A s \in Sends : \A n \in Nat : At(s, n) \in SendType /\ At(s, n).currentTransactionIndex = n
    /\ \A s \in SendType : \A a \in Seq(Device) \ {<<>>} :
          By(s, a) \in SendType /\ By(s, a).approvers = a
BY BundleAssumption DEF SendType, At, By

\* What a send pays does not depend on its index or its approvers.
LEMMA SameMessage ==
    ASSUME NEW s \in SendType, NEW n
    PROVE  \A a : /\ SolMessage(At(s, n)) = SolMessage(s)
                  /\ SolMessage(By(s, a)) = SolMessage(s)
BY DEF SendType, At, By, SolMessage, VaultOf

\* The instructions of a message, whatever they carry.
AnInstruction == [program_id_index : {3, 4}, account_indexes : Seq(Nat),
                  data : {SystemTransfer(n) : n \in Nat} \cup Data \cup {NoMemo}]

\* The vault pays in lamports only.
LEMMA MessageFacts ==
    ASSUME NEW m \in Messages
    PROVE  /\ m.account_keys[1] = Vault /\ m.account_keys # <<>>
           /\ m.address_table_lookups = <<>>
           /\ m.instructions \in Seq(AnInstruction)
           /\ \A n \in DOMAIN m.instructions :
                 m.account_keys[m.instructions[n].program_id_index + 1]
                     \notin {TOKEN_PROGRAM_ID, TOKEN_2022_PROGRAM_ID}
<1>1. PICK s \in Sends : m = SolMessage(s)
  BY DEF Messages
<1>2. s \in SendType
  BY SendFacts
<1> DEFINE v == VaultOf(s)
           pay == [program_id_index |-> 3, account_indexes |-> <<0, 1>>,
                   data |-> SystemTransfer(s.amount)]
           fee == [program_id_index |-> 3, account_indexes |-> <<0, 2>>,
                   data |-> SystemTransfer(s.fee)]
           memo == [program_id_index |-> 4, account_indexes |-> <<>>, data |-> s.memo]
           keys == <<v, s.recipient, s.paymaster, SYSTEM_PROGRAM>>
<1>3. v = Vault
  BY <1>2 DEF VaultOf, Vault, deriveVaultAddress, deriveVaultPda, SendType
<1>4. pay \in AnInstruction /\ fee \in AnInstruction /\ memo \in AnInstruction
  BY <1>2 DEF AnInstruction, SendType
<1>5. /\ pay.program_id_index + 1 = 4 /\ fee.program_id_index + 1 = 4
      /\ memo.program_id_index + 1 = 5
  OBVIOUS
<1>6. /\ SYSTEM_PROGRAM \notin {TOKEN_PROGRAM_ID, TOKEN_2022_PROGRAM_ID}
      /\ MEMO_PROGRAM_ID \notin {TOKEN_PROGRAM_ID, TOKEN_2022_PROGRAM_ID}
  BY BundleAssumption DEF IsInjective
<1>7. m.address_table_lookups = <<>>
  BY <1>1 DEF SolMessage, buildInnerSolMessage
<1>8. CASE s.memo = NoMemo
  <2>1. m.account_keys = keys \o <<>> /\ m.instructions = <<pay, fee>> \o <<>>
    BY <1>1, <1>8 DEF SolMessage, buildInnerSolMessage
  <2> HIDE DEF pay, fee, memo, v
  <2>2. m.account_keys = keys /\ m.instructions = <<pay, fee>>
    BY <2>1
  <2> QED
    BY <1>3, <1>4, <1>5, <1>6, <1>7, <2>2
<1>9. CASE s.memo # NoMemo
  <2>1. m.account_keys = keys \o <<MEMO_PROGRAM_ID>> /\ m.instructions = <<pay, fee>> \o <<memo>>
    BY <1>1, <1>9 DEF SolMessage, buildInnerSolMessage
  <2> HIDE DEF pay, fee, memo, v
  <2>2. m.account_keys = <<v, s.recipient, s.paymaster, SYSTEM_PROGRAM, MEMO_PROGRAM_ID>>
    BY <2>1, FourAndOne
  <2>3. /\ m.account_keys[1] = v /\ m.account_keys[4] = SYSTEM_PROGRAM
        /\ m.account_keys[5] = MEMO_PROGRAM_ID /\ m.account_keys # <<>>
    BY <2>2
  <2>4. /\ m.instructions \in Seq(AnInstruction)
        /\ ToSet(m.instructions) = {pay, fee} \cup {memo}
    <3> DEFINE first == <<pay, fee>>
               last == <<memo>>
    <3>1. first \in Seq(AnInstruction) /\ ToSet(first) = {pay, fee}
      BY <1>4 DEF ToSet
    <3>2. last \in Seq(AnInstruction) /\ ToSet(last) = {memo}
      BY <1>4, OneElement
    <3>3. m.instructions = first \o last
      BY <2>1
    <3> HIDE DEF first, last
    <3> QED
      BY <3>1, <3>2, <3>3, JoinedElements
  <2>5. \A n \in DOMAIN m.instructions : m.instructions[n] \in {pay, fee, memo}
    BY <2>4 DEF ToSet
  <2> QED
    BY <1>3, <1>5, <1>6, <1>7, <2>3, <2>4, <2>5
<1> QED
  BY <1>8, <1>9

-----------------------------------------------------------------------------
(***************************************************************************)
(* What the comparison of the fund flows is worth.                         *)
(***************************************************************************)

\* The sum of no lamports and of one amount.
LEMMA LamportsOfNone == Lamports(<<>>) = 0
<1> DEFINE Step(t) == [n \in 0..0 |-> IF n = 0 THEN 0 ELSE t[n - 1] + <<>>[n].data.amount]
           total == CHOOSE t : t = Step(t)
<1>1. \E t : t = Step(t)
  <2> DEFINE t == [n \in 0..0 |-> 0]
  <2>1. t = Step(t)
    OBVIOUS
  <2> QED
    BY <2>1
<1>2. total = Step(total)
  BY <1>1
<1>3. Lamports(<<>>) = total[0]
  BY DEF Lamports, SumOver
<1> HIDE DEF total
<1> QED
  BY <1>2, <1>3

\* ... and of one transfer its amount.
LEMMA LamportsOfOne ==
    ASSUME NEW x, x.data.amount \in Nat
    PROVE  Lamports(<<x>>) = x.data.amount
<1> DEFINE s == <<x>>
           Step(t) == [n \in 0..1 |-> IF n = 0 THEN 0 ELSE t[n - 1] + s[n].data.amount]
           total == CHOOSE t : t = Step(t)
<1>1. Len(s) = 1 /\ s[1] = x
  OBVIOUS
<1>2. Lamports(s) = total[1]
  BY <1>1 DEF Lamports, SumOver
<1> HIDE DEF s
<1>3. \E t : t = Step(t)
  <2> DEFINE t == [n \in 0..1 |-> IF n = 0 THEN 0 ELSE x.data.amount]
  <2>1. t[0] = 0 /\ t[1] = x.data.amount
    OBVIOUS
  <2>2. ASSUME NEW n \in 0..1
        PROVE  t[n] = IF n = 0 THEN 0 ELSE t[n - 1] + s[n].data.amount
    <3>1. CASE n = 0
      BY <2>1, <3>1
    <3>2. CASE n = 1
      BY <1>1, <2>1, <3>2
    <3> QED
      BY <3>1, <3>2
  <2>3. t = Step(t)
    BY <2>2
  <2> QED
    BY <2>3
<1>4. total = Step(total)
  BY <1>3
<1> HIDE DEF total
<1>5. total[0] = 0
  BY <1>4
<1>6. total[1] = total[0] + s[1].data.amount
  BY <1>4
<1> QED
  BY <1>1, <1>2, <1>5, <1>6 DEF s

\* Of one expected recipient, the one decoded recipient.
LEMMA OneRecipient ==
    ASSUME NEW decoded, NEW exp, DOMAIN decoded \subseteq Nat, RecipientsMatch(decoded, <<exp>>)
    PROVE  \E n : DOMAIN decoded = {n} /\ RecipientMatches(decoded[n], exp)
<1> DEFINE Free(used, e) ==
               { n \in DOMAIN decoded : n \notin used /\ RecipientMatches(decoded[n], e) }
           Take(taken, e) ==
               LET free == Free(taken.used, e) IN
               IF free = {} THEN [taken EXCEPT !.ok = FALSE]
               ELSE [taken EXCEPT !.used = @ \cup {CHOOSE n \in free : \A m \in free : n <= m}]
           none == [used |-> {}, ok |-> TRUE]
           s == <<exp>>
           Step(t) == [n \in 0..1 |-> IF n = 0 THEN none ELSE Take(t[n - 1], s[n])]
           pool == CHOOSE t : t = Step(t)
<1>1. Len(s) = 1 /\ s[1] = exp
  OBVIOUS
<1>2. pool[1].ok /\ pool[1].used = DOMAIN decoded
  BY <1>1 DEF RecipientsMatch
<1> HIDE DEF s, Take, none
<1>3. \E t : t = Step(t)
  <2> DEFINE t == [n \in 0..1 |-> IF n = 0 THEN none ELSE Take(none, exp)]
  <2>1. t[0] = none /\ t[1] = Take(none, exp)
    OBVIOUS
  <2>2. ASSUME NEW n \in 0..1
        PROVE  t[n] = IF n = 0 THEN none ELSE Take(t[n - 1], s[n])
    <3>1. CASE n = 0
      BY <2>1, <3>1
    <3>2. CASE n = 1
      BY <1>1, <2>1, <3>2
    <3> QED
      BY <3>1, <3>2
  <2>3. t = Step(t)
    BY <2>2
  <2> QED
    BY <2>3
<1>4. pool = Step(pool)
  BY <1>3
<1> HIDE DEF pool
<1>5. pool[0] = none
  BY <1>4
<1>6. pool[1] = Take(pool[0], s[1])
  BY <1>4
<1> DEFINE free == Free({}, exp)
<1>7. Take(none, exp) = IF free = {} THEN [none EXCEPT !.ok = FALSE]
                        ELSE [none EXCEPT !.used = @ \cup {CHOOSE n \in free : \A m \in free : n <= m}]
  BY DEF Take, none
<1>8. free # {}
  BY <1>1, <1>2, <1>5, <1>6, <1>7 DEF none
<1>9. free \subseteq Nat /\ \A n \in free : n \in DOMAIN decoded /\ RecipientMatches(decoded[n], exp)
  OBVIOUS
<1> DEFINE first == CHOOSE n \in free : \A m \in free : n <= m
<1>10. first \in free
  <2> HIDE DEF free
  <2>1. \E n \in free : \A m \in free : n <= m
    BY <1>8, <1>9, LeastNumber
  <2> QED
    BY <2>1
<1>11. pool[1].used = {first}
  <2> HIDE DEF free, first
  <2>1. pool[1] = [none EXCEPT !.used = @ \cup {first}]
    BY <1>1, <1>5, <1>6, <1>7, <1>8 DEF first
  <2> QED
    BY <2>1 DEF none
<1> QED
  BY <1>2, <1>9, <1>10, <1>11

\* What the gates read from a message that the paymaster has paid for, and the
\* comparison of that with what is displayed.
Read(m) == classifyInnerMessage(InnerMessage(0, m), Paymaster, TRUE)

FlowsAgree(m, payload) ==
    /\ Read(m).unknownInnerInstructionCount = 0
    /\ Read(m).feeLamports <= payload.maxFeeLamports
    /\ RecipientsMatch(Read(m).recipients, payload.recipients)
    /\ AssetsMatch(Read(m).recipients, payload)

\* Displayed payloads are those of a payment in lamports.
LEMMA PayloadFacts ==
    ASSUME NEW payload \in Payloads
    PROVE  \E s \in SendType :
              /\ payload.recipients = <<[address |-> s.recipient, amount |-> s.amount]>>
              /\ payload.recipients[1].address = s.recipient
              /\ payload.recipients[1].amount = s.amount
              /\ payload.maxFeeLamports = s.fee /\ payload.tokenMint = Unset
              /\ payload.tokenDecimals = Unset /\ payload.expectedFeePayer = Unset
              /\ payload.expectedTransactionPda = Unset /\ payload.expectedVaultIndex = Unset
              /\ payload.expectedMultisigPda = Multisig /\ payload.expectedVaultPda = Vault
<1>1. PICK s \in Sends : payload = PayloadOf(s)
  BY DEF Payloads
<1>2. s \in SendType
  BY SendFacts
<1>3. /\ payload.recipients = <<[address |-> s.recipient, amount |-> s.amount]>>
      /\ payload.maxFeeLamports = s.fee /\ payload.tokenMint = Unset
      /\ payload.tokenDecimals = Unset /\ payload.expectedFeePayer = Unset
      /\ payload.expectedTransactionPda = Unset /\ payload.expectedVaultIndex = Unset
      /\ payload.expectedMultisigPda = Multisig /\ payload.expectedVaultPda = Vault
  BY <1>1 DEF PayloadOf, ExpectedSolanaVaultPayload
<1>4. payload.recipients[1] = [address |-> s.recipient, amount |-> s.amount]
  BY <1>3
<1> QED
  BY <1>2, <1>3, <1>4

\* A transfer is one as the program computes it when it is one as the decoders
\* read it.
TransferTo(m, ix, account) ==
    LET metas == account_metas(m, ix) IN
    /\ m.account_keys[ix.program_id_index + 1] = SYSTEM_PROGRAM
    /\ ix.data.tag = 2
    /\ metas[1].pubkey = Vault /\ metas[2].pubkey = account

\* What a message gives to an account is the sum over its transfers to it.
LEMMA GivesToTransfers ==
    ASSUME NEW m, NEW account
    PROVE  GivesTo(m, account) =
             Lamports(Pick(m.instructions,
                           { n \in DOMAIN m.instructions : TransferTo(m, m.instructions[n], account) }))
BY DEF GivesTo, TransferTo, Filter

\* The program reads an account of an instruction from the keys of the message.
LEMMA MetasAreKeys ==
    ASSUME NEW m, NEW ix, ix.account_indexes \in Seq(Nat), NEW k \in 1..Len(ix.account_indexes)
    PROVE  account_metas(m, ix)[k].pubkey = m.account_keys[ix.account_indexes[k] + 1]
BY DEF account_metas

\* In a message without unknown instructions, the program and the decoder
\* take the same instructions for transfers to an account (decoder.ts:455).
LEMMA TransferIsRead ==
    ASSUME NEW m \in Messages, NEW n \in DOMAIN m.instructions, NEW account,
           Read(m).unknownInnerInstructionCount = 0
    PROVE  LET ix == m.instructions[n]
               inner == InnerMessage(0, m)
           IN  /\ TransferTo(m, ix, account)
                    <=> IsNativeTransfer(inner, ix) /\ Arg(inner, ix, 2) = account
               /\ ~IsTokenTransfer(inner, ix)
<1> DEFINE ix == m.instructions[n]
           inner == InnerMessage(0, m)
           Fee(x) == IsReimbursement(inner, x, Paymaster)
           Payment(x) == IsTokenTransfer(inner, x) \/ (IsNativeTransfer(inner, x) /\ ~Fee(x))
           Memo(x) == IsMemo(inner, x, TRUE)
           Unknown(x) == ~Fee(x) /\ ~Payment(x) /\ ~Memo(x)
           U == { i \in DOMAIN m.instructions : Unknown(m.instructions[i]) }
<1>1. /\ inner.accountKeys = m.account_keys /\ inner.instructions = m.instructions
      /\ inner.addressTableLookupCount = Len(m.address_table_lookups)
  BY DEF InnerMessage
<1>2. /\ m.account_keys[1] = Vault /\ m.address_table_lookups = <<>>
      /\ m.instructions \in Seq(AnInstruction)
      /\ m.account_keys[ix.program_id_index + 1] \notin {TOKEN_PROGRAM_ID, TOKEN_2022_PROGRAM_ID}
  BY MessageFacts
<1>3. ~IsTokenTransfer(inner, ix)
  BY <1>1, <1>2 DEF IsTokenTransfer, Program, Key
<1>4. ~Unknown(ix)
  <2>1. Read(m).unknownInnerInstructionCount =
          inner.addressTableLookupCount + Len(Pick(m.instructions, U))
    BY <1>1 DEF Read, classifyInnerMessage, Filter
  <2>2. inner.addressTableLookupCount = 0
    BY <1>1, <1>2
  <2> DEFINE p == Pick(m.instructions, U)
  <2>3. U \in SUBSET DOMAIN m.instructions
    OBVIOUS
  <2>4. p \in Seq(AnInstruction) /\ (Len(p) = 0 <=> U = {})
    <3> HIDE DEF U
    <3> QED
      BY <1>2, <2>3, PickedElements, PickedFew
  <2> HIDE DEF p, U, inner
  <2>5. U = {}
    BY <2>1, <2>2, <2>4 DEF p
  <2> QED
    BY <2>5 DEF U, inner
<1>5. ASSUME TransferTo(m, ix, account)
      PROVE  IsNativeTransfer(inner, ix)
  <2>1. m.account_keys[ix.program_id_index + 1] = SYSTEM_PROGRAM
    BY <1>5 DEF TransferTo
  <2>2. SYSTEM_PROGRAM # MEMO_PROGRAM_ID
    BY BundleAssumption DEF IsInjective
  <2>3. ~IsMemo(inner, ix, TRUE)
    BY <1>1, <2>1, <2>2 DEF IsMemo, Program, Key
  <2> QED
    BY <1>3, <1>4, <2>3 DEF IsReimbursement
<1>6. ASSUME IsNativeTransfer(inner, ix)
      PROVE  /\ m.account_keys[ix.program_id_index + 1] = SYSTEM_PROGRAM /\ ix.data.tag = 2
             /\ account_metas(m, ix)[1].pubkey = Vault
             /\ account_metas(m, ix)[2].pubkey = Arg(inner, ix, 2)
  <2>1. /\ Program(inner, ix) = SYSTEM_PROGRAM /\ ix.data.tag = 2
        /\ Len(ix.account_indexes) >= 2
        /\ Arg(inner, ix, 1) = inner.accountKeys[1]
    BY <1>6 DEF IsNativeTransfer
  <2>2. ix.account_indexes \in Seq(Nat)
    <3>1. ix \in AnInstruction
      BY <1>2
    <3> QED
      BY <3>1 DEF AnInstruction
  <2>3. 1 \in 1..Len(ix.account_indexes) /\ 2 \in 1..Len(ix.account_indexes)
    BY <2>1, <2>2
  <2>4. \A k \in {1, 2} : account_metas(m, ix)[k].pubkey = Arg(inner, ix, k)
    <3>1. \A k \in {1, 2} :
              account_metas(m, ix)[k].pubkey = m.account_keys[ix.account_indexes[k] + 1]
      <4> HIDE DEF ix
      <4> QED
        BY <2>2, <2>3, MetasAreKeys
    <3>2. \A k : Arg(inner, ix, k) = m.account_keys[ix.account_indexes[k] + 1]
      BY <1>1 DEF Arg, Key
    <3> HIDE DEF ix, inner
    <3> QED
      BY <3>1, <3>2
  <2> QED
    BY <1>1, <1>2, <2>1, <2>4 DEF Program, Key
<1> QED
  BY <1>3, <1>5, <1>6 DEF TransferTo

\* Flows that agree with what is displayed pay what is displayed.
LEMMA FlowsAreShown ==
    ASSUME NEW m \in Messages, NEW payload \in Payloads, FlowsAgree(m, payload)
    PROVE  PaysWhatIsShown(m, payload)
<1> DEFINE ixs == m.instructions
           inner == InnerMessage(0, m)
           Native(n) == IsNativeTransfer(inner, ixs[n])
           To(n) == Arg(inner, ixs[n], 2)
           Fees == { n \in DOMAIN ixs : IsReimbursement(inner, ixs[n], Paymaster) }
           Pays == { n \in DOMAIN ixs :
                       \/ IsTokenTransfer(inner, ixs[n])
                       \/ Native(n) /\ ~IsReimbursement(inner, ixs[n], Paymaster) }
           Gives(account) == { n \in DOMAIN ixs : TransferTo(m, ixs[n], account) }
<1>1. PICK s \in SendType :
        /\ payload.recipients = <<[address |-> s.recipient, amount |-> s.amount]>>
        /\ payload.recipients[1].address = s.recipient
        /\ payload.recipients[1].amount = s.amount
        /\ payload.maxFeeLamports = s.fee /\ payload.tokenMint = Unset
  BY PayloadFacts
<1>2. ixs \in Seq(AnInstruction)
  BY MessageFacts
<1>3. \A n \in DOMAIN ixs : ~IsTokenTransfer(inner, ixs[n])
  BY TransferIsRead DEF FlowsAgree
<1>4. \A n \in DOMAIN ixs : \A account :
         TransferTo(m, ixs[n], account) <=> Native(n) /\ To(n) = account
  BY TransferIsRead DEF FlowsAgree
<1>5. \A account : GivesTo(m, account) = Lamports(Pick(ixs, Gives(account)))
  BY GivesToTransfers
<1>6. Paymaster # Unset /\ Unset \notin Address
  BY BundleAssumption
<1>7. \A n \in DOMAIN ixs : n \in Fees <=> Native(n) /\ To(n) = Paymaster
  BY <1>6 DEF IsReimbursement
<1>8. \A n \in DOMAIN ixs : n \in Pays <=> Native(n) /\ To(n) # Paymaster
  BY <1>3, <1>6 DEF IsReimbursement
<1>9. Read(m).feeLamports = Lamports(Pick(ixs, Fees))
  BY DEF Read, classifyInnerMessage, Filter, InnerMessage
<1> DEFINE payments == Pick(ixs, Pays)
<1>10. Read(m).recipients = [n \in DOMAIN payments |-> Recipient(inner, payments[n])]
  BY DEF Read, classifyInnerMessage, Filter, InnerMessage
<1>11. Fees \in SUBSET DOMAIN ixs /\ Pays \in SUBSET DOMAIN ixs
  OBVIOUS
<1>12. \A account : Gives(account) \in SUBSET DOMAIN ixs
  OBVIOUS
<1>13. Gives(Paymaster) = Fees
  BY <1>4, <1>7
<1> HIDE DEF Fees, Pays
<1>14. payments \in Seq(AnInstruction)
  BY <1>2, <1>11, PickedElements
\* The payment.
<1>15. PICK k : /\ DOMAIN payments = {k}
                /\ RecipientMatches(Read(m).recipients[k],
                                    [address |-> s.recipient, amount |-> s.amount])
  <2>1. DOMAIN Read(m).recipients = DOMAIN payments
    BY <1>10
  <2>2. DOMAIN payments \subseteq Nat
    <3> HIDE DEF payments
    <3> QED
      BY <1>14
  <2>3. RecipientsMatch(Read(m).recipients, <<[address |-> s.recipient, amount |-> s.amount]>>)
    BY <1>1 DEF FlowsAgree
  <2> DEFINE read == Read(m).recipients
             exp == [address |-> s.recipient, amount |-> s.amount]
  <2> HIDE DEF read, exp
  <2>4. \E n : DOMAIN read = {n} /\ RecipientMatches(read[n], exp)
    BY <2>1, <2>2, <2>3, OneRecipient DEF read, exp
  <2> QED
    BY <2>1, <2>4 DEF read, exp
<1>16. k = 1 /\ Len(payments) = 1
  <2> HIDE DEF payments
  <2>1. Len(payments) \in Nat /\ 1..Len(payments) = {k}
    <3>1. Len(payments) \in Nat /\ DOMAIN payments = 1..Len(payments)
      BY <1>14
    <3> QED
      BY <1>15, <3>1, Zenon
  <2>2. k \in 1..Len(payments)
    BY <2>1
  <2>3. 1 \in 1..Len(payments) /\ Len(payments) \in 1..Len(payments)
    BY <2>1, <2>2
  <2> QED
    BY <2>1, <2>3
<1>17. PICK p \in Pays : Pays = {p}
  BY <1>2, <1>11, <1>16, PickedFew
<1>18. payments = <<ixs[p]>>
  BY <1>2, <1>11, <1>17, PickedFew
<1>19. p \in DOMAIN ixs /\ Native(p) /\ To(p) # Paymaster
  BY <1>8, <1>11, <1>17
<1>20. Read(m).recipients[k] = NativeRecipient(To(p), ixs[p].data.amount)
  <2>1. payments[k] = ixs[p] /\ k \in DOMAIN payments
    BY <1>16, <1>18
  <2>2. Read(m).recipients[k] = Recipient(inner, payments[k])
    BY <1>10, <2>1
  <2> QED
    BY <1>19, <2>1, <2>2 DEF Recipient
<1>21. To(p) = s.recipient /\ ixs[p].data.amount = s.amount
  <2>1. s.recipient # Unset
    BY <1>6 DEF SendType
  <2> QED
    BY <1>15, <1>20, <2>1 DEF RecipientMatches, recipientMatchesAddress, NativeRecipient
<1>22. s.recipient # Paymaster
  BY <1>19, <1>21
\* What the accounts are given.
<1>23. GivesTo(m, s.recipient) = s.amount
  <2>1. Gives(s.recipient) = Pays
    BY <1>4, <1>8, <1>11, <1>17, <1>21, <1>22
  <2>2. s.amount \in Nat
    BY DEF SendType
  <2> HIDE DEF Gives
  <2>3. GivesTo(m, s.recipient) = Lamports(<<ixs[p]>>)
    BY <1>5, <1>18, <2>1
  <2> QED
    BY <1>21, <2>2, <2>3, LamportsOfOne
<1>24. GivesTo(m, Paymaster) <= payload.maxFeeLamports
  <2> HIDE DEF Gives
  <2> QED
    BY <1>5, <1>9, <1>13 DEF FlowsAgree
<1>25. ASSUME NEW account, account # Paymaster, account # s.recipient
       PROVE  GivesTo(m, account) = 0
  <2>1. Gives(account) = {}
    BY <1>4, <1>8, <1>11, <1>17, <1>21, <1>25
  <2> HIDE DEF Gives
  <2>2. Pick(ixs, {}) = <<>>
    BY <1>2, PickedFew
  <2> QED
    BY <1>5, <2>1, <2>2, LamportsOfNone
<1>26. /\ DOMAIN payload.recipients = {1}
       /\ { r.address : r \in ToSet(payload.recipients) } = {s.recipient}
  BY <1>1 DEF ToSet
<1> HIDE DEF ixs, inner, Native, To, Gives
<1> QED
  BY <1>1, <1>23, <1>24, <1>25, <1>26 DEF PaysWhatIsShown

-----------------------------------------------------------------------------
(***************************************************************************)
(* Each gate makes that comparison.                                        *)
(***************************************************************************)

\* compareFundFlows makes the comparison, whatever view carries the readings.
LEMMA FlowsCompared ==
    ASSUME NEW m, NEW payload \in Payloads, NEW view, NEW expected,
           view.recipients = Read(m).recipients, view.feeLamports = Read(m).feeLamports,
           view.unknownInnerInstructionCount = Read(m).unknownInnerInstructionCount,
           view.feePayer = Paymaster,
           expected.recipients = payload.recipients, expected.tokenMint = payload.tokenMint,
           expected.tokenDecimals = payload.tokenDecimals,
           expected.maxFeeLamports = payload.maxFeeLamports,
           expected.expectedFeePayer \in {Unset, Paymaster}
    PROVE  compareFundFlows(view, expected) <=> FlowsAgree(m, payload)
<1>1. payload.maxFeeLamports \in Nat /\ payload.maxFeeLamports # Unset
  <2>1. PICK s \in SendType : payload.maxFeeLamports = s.fee
    BY PayloadFacts
  <2>2. s.fee \in Nat
    BY DEF SendType
  <2>3. Unset \notin Nat
    BY BundleAssumption
  <2> QED
    BY <2>1, <2>2, <2>3
<1>2. MaxFee(expected) = payload.maxFeeLamports /\ MaxFee(expected) # Unset
  BY <1>1 DEF MaxFee, toBigIntOrNull, Invalid
<1>3. FeeBounded(view, expected) <=> Read(m).feeLamports <= payload.maxFeeLamports
  BY <1>2 DEF FeeBounded, Agrees
<1>4. AssetsMatch(view.recipients, expected) <=> AssetsMatch(Read(m).recipients, payload)
  BY DEF AssetsMatch
<1> QED
  BY <1>3, <1>4 DEF compareFundFlows, FlowsAgree

\* The consumer's, of the creation in the bytes.
LEMMA ConsumerCompares ==
    ASSUME NEW m, NEW payload \in Payloads, NEW device, NEW bundle,
           bundle.creates[1].data.message = m, bundle.creates[1].data.vault_index = 0,
           bundle.feePayer = Paymaster, InnerAgrees(bundle, ConsumerParams(device, payload))
    PROVE  FlowsAgree(m, payload)
<1> DEFINE params == ConsumerParams(device, payload)
           view == [recipients |-> ConsumerRecipients(bundle, params),
                    feeLamports |-> ConsumerClassified(bundle).feeLamports,
                    feePayer |-> bundle.feePayer,
                    unknownInnerInstructionCount |->
                        ConsumerClassified(bundle).unknownInnerInstructionCount]
           expected == [ExpectedSolanaVaultPayload(
                  <<[address |-> params.expected.recipient, amount |-> params.expected.amount]>>,
                  params.expected.tokenMint, params.expected.tokenDecimals, params.maxFeeLamports)
                 EXCEPT !.expectedFeePayer = params.expectedFeePayer]
<1>1. compareFundFlows(view, expected)
  BY DEF InnerAgrees
<1>2. /\ params.expected.recipient = payload.recipients[1].address
      /\ params.expected.amount = payload.recipients[1].amount
      /\ params.expected.tokenMint = payload.tokenMint
      /\ params.expected.tokenDecimals = payload.tokenDecimals
      /\ params.maxFeeLamports = payload.maxFeeLamports
      /\ params.expectedFeePayer = Paymaster
  BY DEF ConsumerParams, ConsumerSolanaBundleParams
<1> HIDE DEF params
<1>3. PICK s \in SendType :
        /\ payload.recipients = <<[address |-> s.recipient, amount |-> s.amount]>>
        /\ payload.recipients[1].address = s.recipient
        /\ payload.recipients[1].amount = s.amount
        /\ payload.tokenMint = Unset
  BY PayloadFacts
<1>4. /\ expected.recipients = payload.recipients /\ expected.tokenMint = payload.tokenMint
      /\ expected.tokenDecimals = payload.tokenDecimals
      /\ expected.maxFeeLamports = payload.maxFeeLamports
      /\ expected.expectedFeePayer = Paymaster
  BY <1>2, <1>3 DEF ExpectedSolanaVaultPayload
<1>5. ConsumerClassified(bundle) = Read(m)
  BY DEF ConsumerClassified, Read, parseCreateTransactionData
<1>6. ConsumerRecipients(bundle, params) = Read(m).recipients
  BY <1>2, <1>3, <1>5 DEF ConsumerRecipients
<1>7. /\ view.recipients = Read(m).recipients /\ view.feeLamports = Read(m).feeLamports
      /\ view.unknownInnerInstructionCount = Read(m).unknownInnerInstructionCount
      /\ view.feePayer = Paymaster
  BY <1>5, <1>6
<1> HIDE DEF view, expected
<1> QED
  BY <1>1, <1>4, <1>7, FlowsCompared

\* The enterprise's, of the creation in the bytes.
LEMMA EnterpriseCompares ==
    ASSUME NEW m, NEW payload \in Payloads, NEW bundle,
           bundle.creates[1].data.message = m, bundle.creates[1].data.vault_index = 0,
           bundle.feePayer = Paymaster, CreateAgrees(DecodedCreate(bundle, Options), payload)
    PROVE  FlowsAgree(m, payload)
<1> DEFINE view == DecodedCreate(bundle, Options)
<1>1. compareFundFlows(view, payload)
  BY DEF CreateAgrees
<1>2. /\ Options.expectedRecipientOwner = Unset /\ Options.allowMemo = TRUE
  BY DEF Options, DecodeVaultSolanaOptions
<1>3. /\ view.recipients = Read(m).recipients /\ view.feeLamports = Read(m).feeLamports
      /\ view.unknownInnerInstructionCount = Read(m).unknownInnerInstructionCount
      /\ view.feePayer = Paymaster
  BY <1>2 DEF DecodedCreate, Read, parseCreateTransactionData, ShownRecipients
<1> HIDE DEF view
<1>4. payload.expectedFeePayer = Unset
  BY PayloadFacts
<1> QED
  BY <1>1, <1>3, <1>4, FlowsCompared

\* That of an approve-only transaction, of the account.
LEMMA ProposalCompares ==
    ASSUME NEW payload \in Payloads, NEW account \in Proposal, NEW pda, NEW expected,
           expected.recipients = payload.recipients, expected.tokenMint = payload.tokenMint,
           expected.tokenDecimals = payload.tokenDecimals,
           expected.maxFeeLamports = payload.maxFeeLamports,
           expected.expectedFeePayer = payload.expectedFeePayer
    PROVE  compareFundFlows(DecodedOnChainProposal(account, pda, ProposalOptions(payload)), expected)
             <=> FlowsAgree(account.message, payload)
<1> DEFINE view == DecodedOnChainProposal(account, pda, ProposalOptions(payload))
           opts == ProposalOptions(payload)
<1>1. payload.expectedFeePayer = Unset
  BY PayloadFacts
<1>2. /\ opts.expectedRecipientOwner = Unset /\ opts.allowMemo = TRUE /\ opts.feePayer = Unset
  BY <1>1 DEF ProposalOptions, DecodeProposalOptions
<1>3. account.payer = Paymaster /\ account.vaultIndex = 0
  BY DEF Proposal
<1>4. /\ view.recipients = Read(account.message).recipients
      /\ view.feeLamports = Read(account.message).feeLamports
      /\ view.unknownInnerInstructionCount = Read(account.message).unknownInnerInstructionCount
      /\ view.feePayer = Paymaster
  <2> HIDE DEF opts
  <2> QED
    BY <1>2, <1>3 DEF DecodedOnChainProposal, Read, ShownRecipients, opts
<1> HIDE DEF view
<1> QED
  BY <1>1, <1>4, FlowsCompared DEF view

-----------------------------------------------------------------------------
(***************************************************************************)
(* The transactions that the relay builds.                                 *)
(***************************************************************************)

IsAdvance(ix) == OuterKind(ix) = "nonceAdvance" /\ ix.data.op = "nonceAdvance"

IsCreate(ix) ==
    /\ OuterKind(ix) = "create_transaction" /\ ix.data.op = "create_transaction"
    /\ DOMAIN ix.keys = 1..5 /\ Len(ix.keys) = 5
    /\ KeyOf(ix, 1) = Multisig /\ KeyOf(ix, 3) \in Device /\ KeyOf(ix, 4) = Paymaster
    /\ ix.data.vault_index = 0 /\ ix.data.message \in Messages

IsApprove(ix) ==
    /\ OuterKind(ix) = "approve_transaction" /\ ix.data.op = "approve_transaction"
    /\ DOMAIN ix.keys = 1..3 /\ Len(ix.keys) = 3
    /\ KeyOf(ix, 1) = Multisig /\ KeyOf(ix, 2) = Pda(ix.data.transaction_index)
    /\ KeyOf(ix, 3) \in Device /\ ix.keys[3].isSigner

IsSettlement(ix) ==
    /\ OuterKind(ix) = ix.data.op
    /\ ix.data.op \in {"execute_transaction", "close_transaction"}

\* What the builder of a nonce advance builds is read as one.
LEMMA AdvanceIs ==
    ASSUME NEW s
    PROVE  IsAdvance(AdvanceNonce(s))
<1> DEFINE ix == AdvanceNonce(s)
<1>1. ix.programId = SYSTEM_PROGRAM /\ ix.data.op = "nonceAdvance"
  BY DEF AdvanceNonce, nonceAdvance, Instruction
<1> HIDE DEF ix
<1>2. /\ SYSTEM_PROGRAM # COMPUTE_BUDGET_PROGRAM_ID /\ SYSTEM_PROGRAM # ATA_PROGRAM_ID
      /\ SYSTEM_PROGRAM # PROGRAM_ID
  BY BundleAssumption DEF IsInjective
<1>3. IsAdvance(ix)
  BY <1>1, <1>2 DEF IsAdvance, OuterKind
<1> QED
  BY <1>3 DEF ix

\* An instruction of the program is classified by its operation.
LEMMA ProgramKinds ==
    ASSUME NEW ix, ix.programId = PROGRAM_ID, ix.data.op \in MultisigIxs
    PROVE  OuterKind(ix) = ix.data.op
<1>1. PROGRAM_ID # COMPUTE_BUDGET_PROGRAM_ID /\ PROGRAM_ID # ATA_PROGRAM_ID
  BY BundleAssumption DEF IsInjective
<1>2. ix.data.op # "nonceAdvance"
  BY DEF MultisigIxs
<1> QED
  BY <1>1, <1>2 DEF OuterKind

\* The creation of a send's proposal with some message.
IsCreation(ix, s, m) ==
    /\ OuterKind(ix) = "create_transaction" /\ ix.data.op = "create_transaction"
    /\ DOMAIN ix.keys = 1..5 /\ Len(ix.keys) = 5
    /\ KeyOf(ix, 1) = Multisig /\ KeyOf(ix, 2) = Pda(IndexOf(s))
    /\ KeyOf(ix, 3) = s.approvers[1] /\ KeyOf(ix, 4) = Paymaster
    /\ ix.data.vault_index = 0 /\ ix.data.message = m

\* What the builder of a creation builds is read as that.
LEMMA CreationIs ==
    ASSUME NEW s \in SendType, NEW m
    PROVE  IsCreation(Create(s, m), s, m)
<1> DEFINE ix == Create(s, m)
           pda == predictNextTransactionPda(s.multisig, s.currentTransactionIndex).transactionAddress
<1>1. /\ ix.programId = PROGRAM_ID
      /\ ix.keys = <<Writable(s.multisig), Writable(pda), Signer(s.approvers[1]),
                     WritableSigner(s.paymaster), Readonly(SYSTEM_PROGRAM)>>
      /\ ix.data = [op |-> "create_transaction", vault_index |-> 0, message |-> m]
  BY DEF Create, buildCreateTransactionInstruction, Instruction
<1>2. /\ s.multisig = Multisig /\ s.paymaster = Paymaster
  BY DEF SendType
<1>3. pda = Pda(IndexOf(s))
  BY <1>2 DEF predictNextTransactionPda, transaction_pda, Pda, deriveTransactionPda, IndexOf
<1> HIDE DEF ix, pda
<1>4. /\ DOMAIN ix.keys = 1..5 /\ Len(ix.keys) = 5
      /\ ix.keys[1] = Writable(s.multisig) /\ ix.keys[2] = Writable(pda)
      /\ ix.keys[3] = Signer(s.approvers[1]) /\ ix.keys[4] = WritableSigner(s.paymaster)
  BY <1>1
<1>5. /\ KeyOf(ix, 1) = s.multisig /\ KeyOf(ix, 2) = pda /\ KeyOf(ix, 3) = s.approvers[1]
      /\ KeyOf(ix, 4) = s.paymaster
  BY <1>4 DEF KeyOf, Writable, Signer, WritableSigner, Meta
<1>6. OuterKind(ix) = ix.data.op
  BY <1>1, ProgramKinds DEF MultisigIxs
<1>7. IsCreation(ix, s, m)
  BY <1>1, <1>2, <1>3, <1>4, <1>5, <1>6 DEF IsCreation
<1> QED
  BY <1>7 DEF ix

\* With a message of the sends it is one that the program may be given.
LEMMA CreateIs ==
    ASSUME NEW s \in SendType, NEW m \in Messages
    PROVE  IsCreate(Create(s, m)) /\ KeyOf(Create(s, m), 2) = Pda(IndexOf(s))
<1>1. IsCreation(Create(s, m), s, m)
  BY CreationIs
<1>2. s.approvers[1] \in Device
  BY DEF SendType
<1> QED
  BY <1>1, <1>2 DEF IsCreation, IsCreate

\* What the builder of an approval builds is read as one, by its member.
LEMMA ApproveIs ==
    ASSUME NEW i, NEW d \in Device
    PROVE  /\ IsApprove(buildApproveTransactionInstruction(Multisig, i, d))
           /\ KeyOf(buildApproveTransactionInstruction(Multisig, i, d), 3) = d
           /\ buildApproveTransactionInstruction(Multisig, i, d).data.transaction_index = i
<1> DEFINE ix == buildApproveTransactionInstruction(Multisig, i, d)
<1>1. /\ ix.programId = PROGRAM_ID
      /\ ix.keys = <<Readonly(Multisig), Writable(transaction_pda(Multisig, i)), Signer(d)>>
      /\ ix.data = [op |-> "approve_transaction", transaction_index |-> i]
  BY DEF buildApproveTransactionInstruction, Instruction
<1>2. transaction_pda(Multisig, i) = Pda(i)
  BY DEF transaction_pda, Pda, deriveTransactionPda
<1> HIDE DEF ix
<1>3. /\ DOMAIN ix.keys = 1..3 /\ Len(ix.keys) = 3
      /\ ix.keys[1] = Readonly(Multisig) /\ ix.keys[2] = Writable(transaction_pda(Multisig, i))
      /\ ix.keys[3] = Signer(d)
  BY <1>1
<1>4. /\ KeyOf(ix, 1) = Multisig /\ KeyOf(ix, 2) = Pda(i) /\ KeyOf(ix, 3) = d
      /\ ix.keys[3].isSigner
  BY <1>2, <1>3 DEF KeyOf, Writable, Signer, Readonly, Meta
<1>5. OuterKind(ix) = ix.data.op
  BY <1>1, ProgramKinds DEF MultisigIxs
<1>6. IsApprove(ix) /\ KeyOf(ix, 3) = d /\ ix.data.transaction_index = i
  BY <1>1, <1>3, <1>4, <1>5 DEF IsApprove
<1> QED
  BY <1>6 DEF ix

\* A send's approvals are approvals.
LEMMA ApprovalsAre ==
    ASSUME NEW s \in SendType
    PROVE  /\ Approvals(s) \in Seq(ToSet(Approvals(s)))
           /\ \A ix \in ToSet(Approvals(s)) : IsApprove(ix)
<1>1. /\ s.multisig = Multisig /\ s.approvers \in Seq(Device)
  BY DEF SendType
<1>2. Approvals(s) = [i \in 1..Len(s.approvers) |->
          buildApproveTransactionInstruction(Multisig, IndexOf(s), s.approvers[i])]
  BY <1>1 DEF Approvals
<1>3. \A i \in 1..Len(s.approvers) :
         IsApprove(buildApproveTransactionInstruction(Multisig, IndexOf(s), s.approvers[i]))
  BY <1>1, ApproveIs
<1> DEFINE f == Approvals(s)
           k == Len(s.approvers)
<1>4. k \in Nat
  BY <1>1
<1>5. DOMAIN f = 1..k /\ f = [i \in 1..k |-> f[i]] /\ \A i \in 1..k : IsApprove(f[i])
  BY <1>2, <1>3
<1> HIDE DEF f, k
<1>6. \A i \in 1..k : f[i] \in ToSet(f)
  BY <1>5 DEF ToSet
<1>7. f \in Seq(ToSet(f))
  BY <1>4, <1>5, <1>6
<1>8. \A ix \in ToSet(f) : IsApprove(ix)
  BY <1>5 DEF ToSet
<1> QED
  BY <1>7, <1>8 DEF f

\* What the builders of an execution and of a close build is read as a settlement.
LEMMA SettlementIs ==
    ASSUME NEW s
    PROVE  /\ IsSettlement(Close(s))
           /\ \A i, e, rest : IsSettlement(buildExecuteTransactionInstruction(s.multisig, i, e, rest))
<1>1. /\ Close(s).programId = PROGRAM_ID /\ Close(s).data.op = "close_transaction"
  BY DEF Close, buildCloseTransactionInstruction, Instruction
<1>2. ASSUME NEW i, NEW e, NEW rest
      PROVE  LET ix == buildExecuteTransactionInstruction(s.multisig, i, e, rest)
             IN  ix.programId = PROGRAM_ID /\ ix.data.op = "execute_transaction"
  BY DEF buildExecuteTransactionInstruction, Instruction
<1> QED
  BY <1>1, <1>2, ProgramKinds DEF IsSettlement, MultisigIxs

\* A transaction that creates a proposal does so after the nonce advance and
\* before anything else of the program.
Creating(tx) ==
    /\ tx.feePayer = Paymaster
    /\ tx.instructions \in Seq(ToSet(tx.instructions)) /\ Len(tx.instructions) >= 2
    /\ IsAdvance(tx.instructions[1]) /\ IsCreate(tx.instructions[2])
    /\ \A n \in 3..Len(tx.instructions) :
          IsApprove(tx.instructions[n]) \/ IsSettlement(tx.instructions[n])

Settling(tx) ==
    /\ tx.instructions \in Seq(ToSet(tx.instructions))
    /\ \A n \in 1..Len(tx.instructions) : IsSettlement(tx.instructions[n])

\* An approve-only transaction is of the second member.
ApprovalOf(i) ==
    Transaction(Paymaster, <<nonceAdvance(deriveNonceAccount(Multisig), Paymaster),
                             buildApproveTransactionInstruction(Multisig, i, Members[2])>>)

\* An advance and a creation, with approvals and a settlement after them, are
\* a creating transaction.
LEMMA CreatingTransaction ==
    ASSUME NEW s \in SendType, NEW m \in Messages, NEW advance, IsAdvance(advance),
           NEW W, NEW rest \in Seq(W),
           \A ix \in ToSet(rest) : IsApprove(ix) \/ IsSettlement(ix),
           NEW tx, tx.feePayer = Paymaster,
           \/ tx.instructions = <<advance, Create(s, m)>> \o rest
           \/ tx.instructions = <<advance>> \o (<<Create(s, m)>> \o rest)
    PROVE  Creating(tx)
<1> DEFINE all == tx.instructions
           V == {advance, Create(s, m)} \cup W
           c == Create(s, m)
           both == <<c>> \o rest
<1>1. rest \in Seq(V) /\ advance \in V /\ c \in V
  OBVIOUS
<1>2. IsCreate(c)
  BY CreateIs
<1>3. all = <<advance, c>> \o rest \/ all = <<advance>> \o both
  OBVIOUS
<1> HIDE DEF V, c, all
<1>4. TwoThen(V, advance, c, rest, all)
  <2>1. CASE all = <<advance, c>> \o rest
    BY <1>1, <2>1, AfterTwo
  <2>2. CASE all = <<advance>> \o both
    <3>1. both = <<c>> \o rest
      OBVIOUS
    <3> HIDE DEF both
    <3> QED
      BY <1>1, <2>2, <3>1, AfterOneAndOne
  <2> QED
    BY <1>3, <2>1, <2>2
<1>5. /\ all \in Seq(V) /\ Len(all) = Len(rest) + 2 /\ Len(rest) \in Nat
      /\ all[1] = advance /\ all[2] = c
      /\ \A n \in 3..Len(all) : all[n] \in ToSet(rest)
  BY <1>4 DEF TwoThen
<1>6. all \in Seq(ToSet(all))
  BY <1>5, OwnElements
<1> QED
  BY <1>2, <1>5, <1>6 DEF Creating, all

\* All that the relay offers, mixed bundles included, creates, settles, or
\* approves one proposal and does nothing else.
LEMMA Shapes ==
    ASSUME NEW tx \in Bundles
    PROVE  \/ Creating(tx) \/ Settling(tx)
           \/ \E i \in 1..MaxIndex : tx = ApprovalOf(i)
<1>1. PICK s \in Sends, n \in 0..(MaxIndex - 1) :
        \/ tx \in {WholeBundle(At(s, n)), SplitCreate(At(s, n)), SplitApprove(At(s, n)),
                   SplitExecute(At(s, n)), Reclaim(At(s, n))}
        \/ \E other \in 0..(MaxIndex - 1) : tx = Mixed(At(s, n), other)
  BY DEF Bundles
<1> DEFINE send == At(s, n)
           m == SolMessage(send)
<1>2. /\ MaxIndex \in Nat /\ n \in Nat /\ s \in SendType /\ send \in SendType
      /\ send.currentTransactionIndex = n
  <2>1. MaxIndex \in Nat
    BY BundleAssumption
  <2>2. n \in Nat
    BY <2>1
  <2>3. s \in SendType
    BY SendFacts
  <2>4. At(s, n) \in SendType /\ At(s, n).currentTransactionIndex = n
    BY <2>2, SendFacts
  <2> QED
    BY <2>1, <2>2, <2>3, <2>4
<1>3. m \in Messages
  BY <1>1, <1>2, SameMessage DEF Messages
<1>4. /\ <<Members[1]>> \in Seq(Device) \ {<<>>} /\ <<Members[2]>> \in Seq(Device) \ {<<>>}
      /\ Members[2] \in Device
  <2>1. Members \in Seq(Device) /\ Len(Members) >= 2
    BY BundleAssumption
  <2>2. Members[1] \in Device /\ Members[2] \in Device
    BY <2>1
  <2> QED
    BY <2>2
<1> HIDE DEF send, m
<1>5. send.paymaster = Paymaster /\ send.multisig = Multisig
  BY <1>2 DEF SendType
<1> DEFINE settle(rest, e) ==
             <<buildExecuteTransactionInstruction(send.multisig, IndexOf(send), e, rest), Close(send)>>
<1>6. ASSUME NEW rest, NEW e
      PROVE  /\ settle(rest, e) \in Seq(ToSet(settle(rest, e)))
             /\ \A ix \in ToSet(settle(rest, e)) : IsSettlement(ix)
  <2> DEFINE x == buildExecuteTransactionInstruction(send.multisig, IndexOf(send), e, rest)
             y == Close(send)
  <2>1. IsSettlement(x) /\ IsSettlement(y)
    BY SettlementIs
  <2> HIDE DEF x, y
  <2>2. ToSet(<<x, y>>) = {x, y} /\ <<x, y>> \in Seq({x, y})
    BY DEF ToSet
  <2>3. settle(rest, e) = <<x, y>>
    BY DEF x, y
  <2> QED
    BY <2>1, <2>2, <2>3
<1> HIDE DEF settle
\* The approvals and the settlement of a bundle.
<1>7. ASSUME NEW rest, NEW e
      PROVE  LET all == Approvals(send) \o settle(rest, e) IN
             \E W : all \in Seq(W) /\ \A ix \in ToSet(all) : IsApprove(ix) \/ IsSettlement(ix)
  <2> DEFINE a == Approvals(send)
             b == settle(rest, e)
             W == ToSet(a) \cup ToSet(b)
  <2>1. a \in Seq(ToSet(a)) /\ \A ix \in ToSet(a) : IsApprove(ix)
    BY <1>2, ApprovalsAre
  <2>2. b \in Seq(ToSet(b)) /\ \A ix \in ToSet(b) : IsSettlement(ix)
    BY <1>6
  <2> HIDE DEF a, b
  <2>3. a \in Seq(W) /\ b \in Seq(W)
    BY <2>1, <2>2
  <2> HIDE DEF W
  <2>4. a \o b \in Seq(W) /\ ToSet(a \o b) = ToSet(a) \cup ToSet(b)
    BY <2>3, JoinedElements
  <2>5. \A ix \in ToSet(a \o b) : IsApprove(ix) \/ IsSettlement(ix)
    BY <2>1, <2>2, <2>4
  <2> QED
    BY <2>4, <2>5 DEF a, b
\* What follows a creation.
<1>8. ASSUME NEW a, NEW c \in SendType, NEW W, NEW rest \in Seq(W), IsAdvance(a),
             \A ix \in ToSet(rest) : IsApprove(ix) \/ IsSettlement(ix),
             \/ tx = Transaction(Paymaster, <<a, Create(c, m)>> \o rest)
             \/ tx = Transaction(Paymaster, <<a>> \o (<<Create(c, m)>> \o rest))
      PROVE  Creating(tx)
  <2>1. /\ tx.feePayer = Paymaster
        /\ \/ tx.instructions = <<a, Create(c, m)>> \o rest
           \/ tx.instructions = <<a>> \o (<<Create(c, m)>> \o rest)
    BY <1>8 DEF Transaction
  <2> QED
    BY <1>3, <1>8, <2>1, CreatingTransaction
<1>9. IsAdvance(AdvanceNonce(send))
  BY AdvanceIs
<1>10. CASE tx = WholeBundle(send)
  <2>1. CASE send.memo = NoMemo
    <3> DEFINE tail == settle(SolRemaining(send), send.approvers[1])
               rest == Approvals(send) \o tail
               a == AdvanceNonce(send)
               b == Create(send, m)
    <3>1. tx = Transaction(Paymaster, <<a>> \o (<<b>> \o Approvals(send) \o tail))
      BY <1>5, <1>10, <2>1 DEF WholeBundle, durableSend, ConsumerIxs, settle, m
    <3>2. PICK W : rest \in Seq(W) /\ \A ix \in ToSet(rest) : IsApprove(ix) \/ IsSettlement(ix)
      BY <1>7
    <3>3. <<b>> \o Approvals(send) \o tail = <<b>> \o rest
      <4>1. Approvals(send) \in Seq(ToSet(Approvals(send))) /\ tail \in Seq(ToSet(tail))
        BY <1>2, <1>6, ApprovalsAre
      <4> DEFINE p == Approvals(send)
      <4> HIDE DEF p, tail, b
      <4>2. \E U : <<b>> \in Seq(U) /\ p \in Seq(U) /\ tail \in Seq(U)
        <5> DEFINE U == {b} \cup ToSet(p) \cup ToSet(tail)
        <5>1. <<b>> \in Seq(U) /\ p \in Seq(U) /\ tail \in Seq(U)
          BY <4>1 DEF p
        <5> QED
          BY <5>1
      <4>3. (<<b>> \o p) \o tail = <<b>> \o (p \o tail)
        BY <4>2
      <4> QED
        BY <4>3 DEF p
    <3>4. tx = Transaction(Paymaster, <<a>> \o (<<b>> \o rest))
      BY <3>1, <3>3
    <3> HIDE DEF a, rest
    <3> QED
      BY <1>2, <1>8, <1>9, <3>2, <3>4 DEF a
  <2>2. CASE send.memo # NoMemo
    <3> DEFINE tail == settle(MirroredAccounts(m), send.paymaster)
               rest == Approvals(send) \o tail
    <3>1. tx = Transaction(Paymaster, <<AdvanceNonce(send), Create(send, m)>> \o Approvals(send) \o tail)
      BY <1>5, <1>10, <2>2 DEF WholeBundle, enterpriseBundle, settle, m
    <3>2. PICK W : rest \in Seq(W) /\ \A ix \in ToSet(rest) : IsApprove(ix) \/ IsSettlement(ix)
      BY <1>7
    <3> DEFINE first == <<AdvanceNonce(send), Create(send, m)>>
    <3>3. first \o Approvals(send) \o tail = first \o rest
      <4>1. Approvals(send) \in Seq(ToSet(Approvals(send))) /\ tail \in Seq(ToSet(tail))
        BY <1>2, <1>6, ApprovalsAre
      <4> DEFINE p == Approvals(send)
                 U == {AdvanceNonce(send), Create(send, m)} \cup ToSet(p) \cup ToSet(tail)
      <4>2. first \in Seq(U)
        OBVIOUS
      <4> HIDE DEF p, tail, first
      <4>3. p \in Seq(U) /\ tail \in Seq(U)
        BY <4>1 DEF p
      <4> HIDE DEF U
      <4>4. (first \o p) \o tail = first \o (p \o tail)
        BY <4>2, <4>3
      <4> QED
        BY <4>4 DEF p
    <3> HIDE DEF rest, tail
    <3>4. tx = Transaction(Paymaster, first \o rest)
      BY <3>1, <3>3
    <3> QED
      BY <1>2, <1>8, <1>9, <3>2, <3>4
  <2> QED
    BY <2>1, <2>2
\* What is split, and what is mixed: a creation and approvals.
<1>11. ASSUME NEW a, NEW c \in SendType, NEW q \in SendType, IsAdvance(a),
              tx = Transaction(Paymaster, <<a, Create(c, m)>> \o Approvals(q))
       PROVE  Creating(tx)
  <2>1. /\ Approvals(q) \in Seq(ToSet(Approvals(q)))
        /\ \A ix \in ToSet(Approvals(q)) : IsApprove(ix) \/ IsSettlement(ix)
    BY ApprovalsAre
  <2> QED
    BY <1>8, <1>11, <2>1
<1>12. CASE tx = SplitCreate(send)
  <2> DEFINE c == By(send, <<Members[1]>>)
  <2>1. c \in SendType /\ c.paymaster = Paymaster
    <3>1. c \in SendType
      BY <1>2, <1>4, SendFacts
    <3> QED
      BY <3>1 DEF SendType
  <2> HIDE DEF c
  <2>2. tx = Transaction(Paymaster, <<AdvanceNonce(c), Create(c, m)>> \o Approvals(c))
    BY <1>12, <2>1 DEF SplitCreate, creatorTx, m, c
  <2>3. IsAdvance(AdvanceNonce(c))
    BY AdvanceIs
  <2> QED
    BY <1>11, <2>1, <2>2, <2>3
<1>13. ASSUME NEW other \in 0..(MaxIndex - 1), tx = Mixed(send, other)
       PROVE  Creating(tx)
  <2> DEFINE c == By(send, <<Members[2]>>)
             q == At(c, other)
             a == AdvanceNonce(send)
  <2>1. c \in SendType
    BY <1>2, <1>4, SendFacts
  <2>2. other \in Nat
    BY <1>2
  <2> DEFINE p == At(send, other)
  <2>3. q \in SendType
    BY <2>1, <2>2 DEF SendType, At
  <2>4. tx = Transaction(Paymaster, <<a, Create(c, m)>> \o Approvals(q))
    BY <1>13 DEF Mixed, m
  <2> HIDE DEF a, c, q
  <2> QED
    BY <1>9, <1>11, <2>1, <2>3, <2>4 DEF a
\* The approval of the second member.
<1>14. CASE tx = SplitApprove(send)
  <2> DEFINE c == By(send, <<Members[2]>>)
             approve == buildApproveTransactionInstruction(Multisig, n + 1, Members[2])
  <2>1. /\ c.approvers = <<Members[2]>> /\ c.multisig = Multisig /\ c.paymaster = Paymaster
        /\ c.currentTransactionIndex = n
    <3>1. c \in SendType /\ c.approvers = <<Members[2]>>
      BY <1>2, <1>4, SendFacts
    <3>2. c.currentTransactionIndex = n
      BY <1>2 DEF SendType, By
    <3> QED
      BY <3>1, <3>2 DEF SendType
  <2>2. IndexOf(c) = n + 1
    BY <2>1 DEF IndexOf, predictNextTransactionPda
  <2> HIDE DEF c
  <2>3. Approvals(c) = <<approve>>
    <3>1. Approvals(c) = [i \in DOMAIN <<Members[2]>> |->
              buildApproveTransactionInstruction(Multisig, n + 1, <<Members[2]>>[i])]
      BY <2>1, <2>2 DEF Approvals
    <3>2. DOMAIN <<Members[2]>> = 1..1 /\ <<Members[2]>>[1] = Members[2]
      OBVIOUS
    <3> HIDE DEF approve
    <3>3. Approvals(c) = [i \in 1..1 |-> approve]
      BY <3>1, <3>2 DEF approve
    <3> QED
      BY <3>3
  <2>4. AdvanceNonce(c) = nonceAdvance(deriveNonceAccount(Multisig), Paymaster)
    BY <2>1 DEF AdvanceNonce
  <2> DEFINE advance == nonceAdvance(deriveNonceAccount(Multisig), Paymaster)
  <2>5. tx = Transaction(Paymaster, <<advance>> \o <<approve>>)
    BY <1>14, <2>1, <2>3, <2>4 DEF SplitApprove, approvalTx, c
  <2>6. <<advance>> \o <<approve>> = <<advance, approve>>
    <3> HIDE DEF advance, approve
    <3> QED
      BY OneAndOne
  <2>7. tx = ApprovalOf(n + 1)
    BY <2>5, <2>6 DEF ApprovalOf
  <2>8. n + 1 \in 1..MaxIndex
    BY <1>2
  <2> QED
    BY <2>7, <2>8
\* The settlement by the paymaster.
<1>15. ASSUME NEW s1, s1 \in Seq(ToSet(s1)), \A ix \in ToSet(s1) : IsSettlement(ix),
              tx.instructions = s1
       PROVE  Settling(tx)
  BY <1>15 DEF Settling, ToSet
<1>16. CASE tx = SplitExecute(send)
  <2> DEFINE rest == MirroredAccounts(m)
             s1 == settle(rest, send.paymaster)
  <2>1. tx = Transaction(send.paymaster, <<>> \o s1)
    BY <1>16 DEF SplitExecute, executeTx, settle, m
  <2>2. s1 \in Seq(ToSet(s1)) /\ \A ix \in ToSet(s1) : IsSettlement(ix)
    BY <1>6
  <2> HIDE DEF s1
  <2>3. <<>> \o s1 = s1
    BY <2>2
  <2>4. tx.instructions = s1
    BY <2>1, <2>3 DEF Transaction
  <2> QED
    BY <1>15, <2>2, <2>4
<1>17. CASE tx = Reclaim(send)
  <2> DEFINE x == Close(send)
  <2>1. tx.instructions = <<x>>
    BY <1>17 DEF Reclaim, Transaction
  <2>2. IsSettlement(x)
    BY SettlementIs
  <2> HIDE DEF x
  <2>3. <<x>> \in Seq({x}) /\ ToSet(<<x>>) = {x}
    BY OneElement
  <2> QED
    BY <1>15, <2>1, <2>2, <2>3
<1> QED
  BY <1>1, <1>10, <1>12, <1>13, <1>14, <1>16, <1>17 DEF send

-----------------------------------------------------------------------------
(***************************************************************************)
(* What the gates see of them.                                             *)
(***************************************************************************)

Places(tx, kind) == { n \in DOMAIN tx.instructions : OuterKind(tx.instructions[n]) = kind }

\* The instructions of a kind are those at its places.
LEMMA KindPicks ==
    ASSUME NEW tx, NEW kind
    PROVE  OfKind(tx, kind) = Pick(tx.instructions, Places(tx, kind))
BY DEF OfKind, Filter, Places

\* Kinds that a transaction has nowhere, once, or more than once.
LEMMA KindFacts ==
    ASSUME NEW tx, tx.instructions \in Seq(ToSet(tx.instructions)), NEW kind
    PROVE  /\ OfKind(tx, kind) \in Seq(ToSet(tx.instructions))
           /\ ToSet(OfKind(tx, kind)) = { tx.instructions[n] : n \in Places(tx, kind) }
           /\ OfKind(tx, kind) = <<>> <=> Places(tx, kind) = {}
           /\ \A n : Places(tx, kind) = {n} => OfKind(tx, kind) = <<tx.instructions[n]>>
<1> DEFINE s == tx.instructions
           V == ToSet(s)
           P == Places(tx, kind)
<1>1. P \in SUBSET DOMAIN s
  BY DEF Places
<1>2. OfKind(tx, kind) = Pick(s, P)
  BY KindPicks
<1>3. s \in Seq(V)
  OBVIOUS
<1> HIDE DEF s, V, P
<1>4. Pick(s, P) \in Seq(V) /\ ToSet(Pick(s, P)) = { s[i] : i \in P }
  BY <1>1, <1>3, PickedElements
<1>5. /\ Pick(s, P) = <<>> <=> P = {}
      /\ \A i : P = {i} => Pick(s, P) = <<s[i]>>
  BY <1>1, <1>3, PickedFew
<1> QED
  BY <1>2, <1>4, <1>5 DEF s, V, P

\* A creating transaction has one creation; its approvals are seen as such.
LEMMA CreatingKinds ==
    ASSUME NEW tx, Creating(tx)
    PROVE  /\ OfKind(tx, "create_transaction") = <<tx.instructions[2]>>
           /\ OfKind(tx, "create_transaction")[1] = tx.instructions[2]
           /\ OfKind(tx, "create_transaction") # <<>>
           /\ IsCreate(tx.instructions[2])
           /\ \A n \in 3..Len(tx.instructions) :
                 IsApprove(tx.instructions[n]) =>
                   tx.instructions[n] \in ToSet(OfKind(tx, "approve_transaction"))
<1>1. /\ tx.instructions \in Seq(ToSet(tx.instructions)) /\ Len(tx.instructions) >= 2
      /\ IsAdvance(tx.instructions[1]) /\ IsCreate(tx.instructions[2])
      /\ \A n \in 3..Len(tx.instructions) :
            IsApprove(tx.instructions[n]) \/ IsSettlement(tx.instructions[n])
  BY DEF Creating
<1>2. DOMAIN tx.instructions = 1..Len(tx.instructions) /\ Len(tx.instructions) \in Nat
  BY <1>1
<1>3. /\ OuterKind(tx.instructions[1]) = "nonceAdvance"
      /\ OuterKind(tx.instructions[2]) = "create_transaction"
  BY <1>1 DEF IsAdvance, IsCreate
<1>4. \A n \in 3..Len(tx.instructions) :
         OuterKind(tx.instructions[n]) # "create_transaction"
  BY <1>1 DEF IsApprove, IsSettlement
<1>5. \A n \in 1..Len(tx.instructions) : n = 1 \/ n = 2 \/ n \in 3..Len(tx.instructions)
  BY <1>2
<1>6. 2 \in 1..Len(tx.instructions)
  BY <1>1, <1>2
<1>7. Places(tx, "create_transaction") = {2}
  BY <1>2, <1>3, <1>4, <1>5, <1>6 DEF Places
<1>8. OfKind(tx, "create_transaction") = <<tx.instructions[2]>>
  BY <1>1, <1>7, KindFacts
<1>9. <<tx.instructions[2]>>[1] = tx.instructions[2] /\ <<tx.instructions[2]>> # <<>>
  OBVIOUS
<1>10. ASSUME NEW n \in 3..Len(tx.instructions), IsApprove(tx.instructions[n])
       PROVE  tx.instructions[n] \in ToSet(OfKind(tx, "approve_transaction"))
  <2>1. n \in 1..Len(tx.instructions)
    BY <1>2
  <2>2. OuterKind(tx.instructions[n]) = "approve_transaction"
    BY <1>10 DEF IsApprove
  <2>3. n \in Places(tx, "approve_transaction")
    BY <1>2, <2>1, <2>2 DEF Places
  <2> QED
    BY <1>1, <2>3, KindFacts
<1> QED
  BY <1>1, <1>8, <1>9, <1>10

\* A settling transaction creates and approves nothing.
LEMMA SettlingKinds ==
    ASSUME NEW tx, Settling(tx)
    PROVE  OfKind(tx, "create_transaction") = <<>> /\ OfKind(tx, "approve_transaction") = <<>>
<1>1. /\ tx.instructions \in Seq(ToSet(tx.instructions))
      /\ \A n \in 1..Len(tx.instructions) : IsSettlement(tx.instructions[n])
  BY DEF Settling
<1>2. DOMAIN tx.instructions = 1..Len(tx.instructions)
  BY <1>1
<1>3. Places(tx, "create_transaction") = {} /\ Places(tx, "approve_transaction") = {}
  BY <1>1, <1>2 DEF Places, IsSettlement
<1> QED
  BY <1>1, <1>3, KindFacts

\* The approval of an index, by the second member.
Approving(tx, i) ==
    /\ tx.feePayer = Paymaster
    /\ tx.instructions \in Seq(ToSet(tx.instructions)) /\ Len(tx.instructions) = 2
    /\ IsAdvance(tx.instructions[1]) /\ IsApprove(tx.instructions[2])
    /\ KeyOf(tx.instructions[2], 3) = Members[2]
    /\ tx.instructions[2].data.transaction_index = i
    /\ SignersOf(tx) \subseteq {Paymaster, Members[2]}

\* An approve-only transaction has the shape of one.
LEMMA ApprovalIs ==
    ASSUME NEW i
    PROVE  Approving(ApprovalOf(i), i)
<1> DEFINE advance == nonceAdvance(deriveNonceAccount(Multisig), Paymaster)
           approve == buildApproveTransactionInstruction(Multisig, i, Members[2])
           tx == ApprovalOf(i)
<1>1. Members[2] \in Device
  BY BundleAssumption
<1>2. IsAdvance(advance)
  <2>1. advance = AdvanceNonce(ASend)
    BY DEF AdvanceNonce, Multisig, Paymaster
  <2> QED
    BY <2>1, AdvanceIs
<1>3. /\ IsApprove(approve) /\ KeyOf(approve, 3) = Members[2]
      /\ approve.data.transaction_index = i
  BY <1>1, ApproveIs
<1>4. tx.feePayer = Paymaster /\ tx.instructions = <<advance, approve>>
  BY DEF ApprovalOf, Transaction
<1>5. /\ advance.keys = <<Writable(deriveNonceAccount(Multisig)), Readonly(RECENT_BLOCKHASHES),
                          Signer(Paymaster)>>
      /\ approve.keys = <<Readonly(Multisig), Writable(transaction_pda(Multisig, i)),
                          Signer(Members[2])>>
  BY DEF nonceAdvance, buildApproveTransactionInstruction, Instruction
<1> HIDE DEF advance, approve, tx
<1>6. /\ <<advance, approve>> \in Seq({advance, approve}) /\ Len(<<advance, approve>>) = 2
      /\ <<advance, approve>>[1] = advance /\ <<advance, approve>>[2] = approve
  OBVIOUS
<1>7. ToSet(<<advance, approve>>) = {advance, approve}
  BY DEF ToSet
<1> DEFINE SignersIn(ix) == SignerKeys([k \in DOMAIN ix.keys |->
              [pubkey |-> ix.keys[k].pubkey, is_signer |-> ix.keys[k].isSigner]])
<1>8. SignersOf(tx) = {Paymaster} \cup UNION { SignersIn(ix) : ix \in {advance, approve} }
  BY <1>4, <1>7 DEF SignersOf
<1>9. ASSUME NEW ix, NEW c, DOMAIN ix.keys = 1..3,
             ix.keys[1].isSigner = FALSE, ix.keys[2].isSigner = FALSE,
             ix.keys[3] = Signer(c)
      PROVE  SignersIn(ix) = {c}
  <2>1. DOMAIN ix.keys = 1..3
    BY <1>9
  <2>2. /\ ix.keys[1].isSigner = FALSE /\ ix.keys[2].isSigner = FALSE
        /\ ix.keys[3].isSigner = TRUE /\ ix.keys[3].pubkey = c
    BY <1>9 DEF Signer, Meta
  <2> DEFINE metas == [k \in 1..3 |->
                         [pubkey |-> ix.keys[k].pubkey, is_signer |-> ix.keys[k].isSigner]]
  <2>3. SignersIn(ix) = { metas[k].pubkey : k \in { j \in 1..3 : metas[j].is_signer } }
    BY <2>1 DEF SignerKeys
  <2>4. \A k \in 1..3 : metas[k].pubkey = ix.keys[k].pubkey /\ metas[k].is_signer = ix.keys[k].isSigner
    OBVIOUS
  <2> HIDE DEF metas
  <2>5. \A k \in 1..3 : metas[k].is_signer <=> k = 3
    BY <2>2, <2>4
  <2>6. { j \in 1..3 : metas[j].is_signer } = {3}
    BY <2>5
  <2> HIDE DEF SignersIn
  <2> QED
    BY <2>2, <2>3, <2>4, <2>6
<1>10. SignersIn(advance) = {Paymaster} /\ SignersIn(approve) = {Members[2]}
  <2>1. /\ DOMAIN advance.keys = 1..3 /\ advance.keys[1] = Writable(deriveNonceAccount(Multisig))
        /\ advance.keys[2] = Readonly(RECENT_BLOCKHASHES) /\ advance.keys[3] = Signer(Paymaster)
    BY <1>5
  <2>2. /\ DOMAIN approve.keys = 1..3 /\ approve.keys[1] = Readonly(Multisig)
        /\ approve.keys[2] = Writable(transaction_pda(Multisig, i))
        /\ approve.keys[3] = Signer(Members[2])
    BY <1>5
  <2>3. \A a : Writable(a).isSigner = FALSE /\ Readonly(a).isSigner = FALSE
    BY DEF Writable, Readonly, Meta
  <2> HIDE DEF SignersIn
  <2>4. SignersIn(advance) = {Paymaster}
    BY <1>9, <2>1, <2>3
  <2>5. SignersIn(approve) = {Members[2]}
    BY <1>9, <2>2, <2>3
  <2> QED
    BY <2>4, <2>5
<1> HIDE DEF SignersIn
<1>11. SignersOf(tx) \subseteq {Paymaster, Members[2]}
  BY <1>8, <1>10
<1>12. Approving(tx, i)
  BY <1>2, <1>3, <1>4, <1>6, <1>7, <1>11 DEF Approving
<1> QED
  BY <1>12 DEF tx

\* Beside the advance it has one approval and nothing else.
LEMMA ApprovingKinds ==
    ASSUME NEW tx, NEW i, Approving(tx, i)
    PROVE  /\ OfKind(tx, "approve_transaction") = <<tx.instructions[2]>>
           /\ \A kind \in {"create_transaction", "execute_transaction", "close_transaction",
                           "computeBudget", "ataCreate", "foreign"} : OfKind(tx, kind) = <<>>
<1>1. /\ tx.instructions \in Seq(ToSet(tx.instructions)) /\ Len(tx.instructions) = 2
      /\ OuterKind(tx.instructions[1]) = "nonceAdvance"
      /\ OuterKind(tx.instructions[2]) = "approve_transaction"
  BY DEF Approving, IsAdvance, IsApprove
<1>2. DOMAIN tx.instructions = {1, 2}
  BY <1>1
<1>3. Places(tx, "approve_transaction") = {2}
  BY <1>1, <1>2 DEF Places
<1>4. \A kind \in {"create_transaction", "execute_transaction", "close_transaction",
                   "computeBudget", "ataCreate", "foreign"} : Places(tx, kind) = {}
  BY <1>1, <1>2 DEF Places
<1> QED
  BY <1>1, <1>3, <1>4, KindFacts

\* An approval as it is decoded.
DecodedApproval(d, i) ==
    /\ d.kind = "approve" /\ d.multisigPda = Multisig /\ d.transactionPda = Pda(i)
    /\ d.transactionIndex = i /\ d.unknownOuterPrograms = {}
    /\ ToSet(d.approvers) = {Members[2]}
    /\ \A n \in DOMAIN d.approveTargets : d.approveTargets[n] = Pda(i)
    /\ \A n \in DOMAIN d.approveMultisigs : d.approveMultisigs[n] = Multisig

\* The decoder reads its target, and nothing it would have to compare.
LEMMA ApprovalDecodes ==
    ASSUME NEW tx, NEW i, Approving(tx, i)
    PROVE  DecodedApproval(decodeVaultSolanaTransaction(tx, Options), i)
<1> DEFINE approve == tx.instructions[2]
           bundle == parseBundle(tx)
           d == DecodedApprove(bundle, Options)
<1>1. /\ OfKind(tx, "approve_transaction") = <<approve>>
      /\ OfKind(tx, "create_transaction") = <<>> /\ OfKind(tx, "computeBudget") = <<>>
      /\ OfKind(tx, "ataCreate") = <<>> /\ OfKind(tx, "foreign") = <<>>
  BY ApprovingKinds
<1>2. /\ Len(approve.keys) = 3 /\ KeyOf(approve, 1) = Multisig /\ KeyOf(approve, 2) = Pda(i)
      /\ KeyOf(approve, 3) = Members[2] /\ approve.data.transaction_index = i
  BY DEF Approving, IsApprove
<1> HIDE DEF approve
<1>3. /\ bundle.approves = <<approve>> /\ bundle.creates = <<>> /\ bundle.foreign = <<>>
      /\ DOMAIN bundle.computeBudget = {} /\ DOMAIN bundle.ataCreates = {}
  BY <1>1 DEF parseBundle, Mapped
<1>4. /\ DOMAIN <<approve>> = {1} /\ <<approve>>[1] = approve /\ <<approve>> # <<>>
      /\ DOMAIN <<>> = {} /\ Len(<<>>) = 0
  OBVIOUS
<1>5. Parses(tx)
  BY <1>1 DEF Parses
<1> HIDE DEF bundle
<1>6. Decodes(tx)
  <2>1. /\ Len(bundle.creates) <= 1
        /\ \A n \in DOMAIN bundle.approves : Len(bundle.approves[n].keys) >= 3
        /\ DOMAIN bundle.creates = {} /\ bundle.approves # <<>>
    <3>1. Len(bundle.creates) <= 1 /\ DOMAIN bundle.creates = {} /\ bundle.approves # <<>>
      BY <1>3, <1>4
    <3>2. DOMAIN bundle.approves = {1} /\ bundle.approves[1] = approve
      BY <1>3, <1>4, Zenon
    <3> QED
      BY <1>2, <3>1, <3>2
  <2> QED
    BY <1>5, <2>1 DEF Decodes, bundle
<1>7. decodeVaultSolanaTransaction(tx, Options) = d
  BY <1>3, <1>6 DEF decodeVaultSolanaTransaction, bundle
<1>8. /\ d.kind = "approve" /\ d.multisigPda = KeyOf(bundle.approves[1], 1)
      /\ d.transactionPda = KeyOf(bundle.approves[1], 2)
      /\ d.approvers = [n \in DOMAIN bundle.approves |-> KeyOf(bundle.approves[n], 3)]
      /\ d.approveTargets = Targets(bundle.approves)
      /\ d.approveMultisigs = [n \in DOMAIN bundle.approves |-> KeyOf(bundle.approves[n], 1)]
      /\ d.transactionIndex = bundle.approves[1].data.transaction_index
      /\ d.unknownOuterPrograms = unknownOuterPrograms(bundle, Options)
  BY DEF DecodedApprove
<1>9. unknownOuterPrograms(bundle, Options) = {}
  BY <1>3 DEF unknownOuterPrograms
<1> HIDE DEF d
<1>10. ToSet(d.approvers) = {Members[2]}
  BY <1>2, <1>3, <1>4, <1>8 DEF ToSet
<1>11. /\ \A n \in DOMAIN d.approveTargets : d.approveTargets[n] = Pda(i)
       /\ \A n \in DOMAIN d.approveMultisigs : d.approveMultisigs[n] = Multisig
  BY <1>2, <1>3, <1>4, <1>8 DEF Targets
<1> QED
  BY <1>2, <1>3, <1>4, <1>7, <1>8, <1>9, <1>10, <1>11 DEF DecodedApproval

\* What is decoded as an approval is the approval of an index, by the device.
LEMMA ApproveOnlyFacts ==
    ASSUME NEW o \in ApproveOnly
    PROVE  /\ o \in Offers /\ o.device = Members[2] /\ o.payload \in Payloads
           /\ \E i \in 1..MaxIndex :
                 /\ Approving(o.tx, i) /\ TargetOf(o.tx) = Pda(i)
                 /\ DecodedApproval(decodeVaultSolanaTransaction(o.tx, Options), i)
<1>1. /\ o \in Offers /\ o.device \in Device /\ o.tx \in Bundles /\ o.payload \in Payloads
      /\ o.device \in SignersOf(o.tx)
      /\ decodeVaultSolanaTransaction(o.tx, Options).kind = "approve"
  BY DEF ApproveOnly, Offers
<1> DEFINE bundle == parseBundle(o.tx)
<1>2. Decodes(o.tx) /\ bundle.creates = <<>>
  <2>1. Decodes(o.tx)
    BY <1>1 DEF decodeVaultSolanaTransaction, Undecodable
  <2>2. DecodedCreate(bundle, Options).kind = "create"
    BY DEF DecodedCreate
  <2> QED
    BY <1>1, <2>1, <2>2 DEF decodeVaultSolanaTransaction
<1>3. OfKind(o.tx, "create_transaction") = <<>> /\ OfKind(o.tx, "approve_transaction") # <<>>
  BY <1>2 DEF Decodes, parseBundle
<1>4. ~Creating(o.tx) /\ ~Settling(o.tx)
  BY <1>3, CreatingKinds, SettlingKinds
<1>5. PICK i \in 1..MaxIndex : o.tx = ApprovalOf(i)
  BY <1>1, <1>4, Shapes
<1>6. Approving(o.tx, i)
  BY <1>5, ApprovalIs
<1>7. DecodedApproval(decodeVaultSolanaTransaction(o.tx, Options), i)
  BY <1>6, ApprovalDecodes
<1>8. TargetOf(o.tx) = Pda(i)
  BY <1>7 DEF DecodedApproval, TargetOf
<1>9. o.device = Members[2]
  BY <1>1, <1>6, BundleAssumption DEF Approving
<1> QED
  BY <1>1, <1>6, <1>7, <1>8, <1>9

\* What is accepted creates a proposal that pays what is displayed, and
\* approves no other.
LEMMA AcceptedFacts ==
    ASSUME NEW o \in Accepted
    PROVE  /\ o \in Offers /\ o.payload \in Payloads /\ Creating(o.tx)
           /\ FlowsAgree(o.tx.instructions[2].data.message, o.payload)
           /\ \A n \in 3..Len(o.tx.instructions) :
                 IsApprove(o.tx.instructions[n]) =>
                   KeyOf(o.tx.instructions[n], 2) = KeyOf(o.tx.instructions[2], 2)
<1> DEFINE tx == o.tx
           create == tx.instructions[2]
           bundle == parseBundle(tx)
           params == ConsumerParams(o.device, o.payload)
           decoded == decodeVaultSolanaTransaction(tx, Options)
<1>1. o \in Offers /\ tx \in Bundles /\ o.payload \in Payloads /\ Passes(o.device, tx, o.payload)
  BY DEF Accepted, Offers
<1>2. \/ verifyConsumerSolanaBundle(tx, params)
      \/ decoded.kind = "create" /\ compareDecodedToExpected(decoded, o.payload)
  BY <1>1 DEF Passes
<1>3. bundle.creates = OfKind(tx, "create_transaction")
      /\ bundle.approves = OfKind(tx, "approve_transaction") /\ bundle.feePayer = tx.feePayer
  BY DEF parseBundle
<1>4. ASSUME decoded.kind = "create"
      PROVE  bundle.creates # <<>> /\ decoded = DecodedCreate(bundle, Options)
  <2>1. Decodes(tx)
    BY <1>4 DEF decodeVaultSolanaTransaction, Undecodable
  <2>2. DecodedApprove(bundle, Options).kind = "approve"
    BY DEF DecodedApprove
  <2> QED
    BY <1>4, <2>1, <2>2 DEF decodeVaultSolanaTransaction
<1>5. bundle.creates # <<>>
  <2>1. ASSUME verifyConsumerSolanaBundle(tx, params)
        PROVE  Len(bundle.creates) = 1
    BY <2>1 DEF verifyConsumerSolanaBundle, ConsumerDecodes
  <2>2. Len(<<>>) = 0
    OBVIOUS
  <2> HIDE DEF bundle, params, decoded
  <2> QED
    BY <1>2, <1>4, <2>1, <2>2
<1>6. Creating(tx)
  <2>1. ~Settling(tx)
    BY <1>3, <1>5, SettlingKinds
  <2>2. \A i : tx # ApprovalOf(i)
    BY <1>3, <1>5, ApprovalIs, ApprovingKinds
  <2> QED
    BY <1>1, <2>1, <2>2, Shapes
<1>7. /\ bundle.creates[1] = create /\ IsCreate(create) /\ bundle.feePayer = Paymaster
      /\ \A n \in 3..Len(tx.instructions) :
            IsApprove(tx.instructions[n]) => tx.instructions[n] \in ToSet(bundle.approves)
  BY <1>3, <1>6, CreatingKinds DEF Creating
<1>8. create.data.vault_index = 0
  BY <1>7 DEF IsCreate
<1> HIDE DEF bundle, tx, create
<1>9. CASE verifyConsumerSolanaBundle(tx, params)
  <2>1. InnerAgrees(bundle, params) /\ MultisigIxsAgree(bundle, params)
    BY <1>9 DEF verifyConsumerSolanaBundle, bundle
  <2>2. FlowsAgree(create.data.message, o.payload)
    BY <1>1, <1>7, <1>8, <2>1, ConsumerCompares
  <2>3. \A ix \in ToSet(bundle.approves \o bundle.executes \o bundle.closes) :
           KeyOf(ix, 2) = KeyOf(create, 2)
    BY <1>7, <2>1 DEF MultisigIxsAgree
  <2>4. ToSet(bundle.approves) \subseteq ToSet(bundle.approves \o bundle.executes \o bundle.closes)
    <3> DEFINE V == ToSet(tx.instructions)
               a == bundle.approves
               b == bundle.executes
               c == bundle.closes
    <3>1. tx.instructions \in Seq(V)
      BY <1>6 DEF Creating, tx
    <3>2. a \in Seq(V) /\ b \in Seq(V) /\ c \in Seq(V)
      BY <3>1, KindFacts DEF bundle, parseBundle
    <3> HIDE DEF V, a, b, c
    <3> DEFINE ab == a \o b
    <3>3. ab \in Seq(V) /\ ToSet(a) \subseteq ToSet(ab)
      BY <3>2, JoinedElements
    <3> HIDE DEF ab
    <3>4. ToSet(ab) \subseteq ToSet(ab \o c)
      BY <3>2, <3>3, JoinedElements
    <3> QED
      BY <3>3, <3>4 DEF a, b, c, ab
  <2> QED
    BY <1>1, <1>6, <1>7, <2>2, <2>3, <2>4 DEF tx, create
<1>10. CASE decoded.kind = "create" /\ compareDecodedToExpected(decoded, o.payload)
  <2>1. decoded = DecodedCreate(bundle, Options)
    BY <1>4, <1>10
  <2> HIDE DEF decoded
  <2>2. CreateAgrees(decoded, o.payload)
    BY <1>10 DEF compareDecodedToExpected
  <2>3. FlowsAgree(create.data.message, o.payload)
    BY <1>1, <1>7, <1>8, <2>1, <2>2, EnterpriseCompares
  <2>4. /\ decoded.approveTargets = Targets(bundle.approves)
        /\ decoded.transactionPda = KeyOf(create, 2)
    BY <1>7, <2>1 DEF DecodedCreate
  <2>5. ToSet(decoded.approveTargets) \subseteq {decoded.transactionPda}
    BY <2>2 DEF CreateAgrees
  <2>6. \A ix \in ToSet(bundle.approves) : KeyOf(ix, 2) \in ToSet(decoded.approveTargets)
    BY <2>4 DEF Targets, ToSet
  <2> QED
    BY <1>1, <1>6, <1>7, <2>3, <2>4, <2>5, <2>6 DEF tx, create
<1> QED
  BY <1>2, <1>9, <1>10

-----------------------------------------------------------------------------
(***************************************************************************)
(* What a transaction does to the accounts of the program.                 *)
(***************************************************************************)

\* Proposals of different indexes are at different addresses.
LEMMA PdaInjective == \A i, j : Pda(i) = Pda(j) => i = j
BY DEF Pda, deriveTransactionPda

\* The types of the parts of a chain.
LEMMA ChainFacts ==
    ASSUME NEW c \in Chain
    PROVE  /\ c.transaction_index \in 0..MaxIndex /\ c.transaction_index \in Nat
           /\ MaxIndex \in Nat
           /\ c.proposals \in [1..MaxIndex -> Proposal \cup {Unset}]
           /\ c.paid \in [1..MaxIndex -> Receipt \cup {Unset}] /\ c.failed = FALSE
           /\ c.funds \in Funds
<1>1. MaxIndex \in Nat
  BY BundleAssumption
<1>2. /\ c.transaction_index \in 0..MaxIndex
      /\ c.proposals \in [1..MaxIndex -> Proposal \cup {Unset}]
      /\ c.paid \in [1..MaxIndex -> Receipt \cup {Unset}] /\ c.failed \in {FALSE}
      /\ c.funds \in Funds
  <2> DEFINE P == [1..MaxIndex -> Proposal \cup {Unset}]
             R == [1..MaxIndex -> Receipt \cup {Unset}]
  <2>1. c \in [transaction_index : 0..MaxIndex, proposals : P, paid : R, funds : Funds,
               failed : {FALSE}]
    BY DEF Chain
  <2> HIDE DEF P, R
  <2>2. /\ c.transaction_index \in 0..MaxIndex /\ c.proposals \in P /\ c.paid \in R
        /\ c.failed \in {FALSE} /\ c.funds \in Funds
    BY <2>1
  <2> QED
    BY <2>2 DEF P, R
<1>3. c.transaction_index \in Nat
  BY <1>1, <1>2
<1>4. c.failed = FALSE
  BY <1>2, Zenon
<1> QED
  BY <1>1, <1>2, <1>3, <1>4

\* A proposal of a chain was there before the transaction, or is the one that
\* the transaction creates, of an index that was never used.
Origin(i, message, tx) ==
    \/ proposals[i] # Unset /\ proposals[i].message = message
    \/ /\ i > transaction_index /\ Creating(tx)
       /\ KeyOf(tx.instructions[2], 2) = Pda(i) /\ tx.instructions[2].data.message = message

\* After n instructions.
Sound(c, tx, n) ==
    \/ c = Failed
    \/ /\ LedgerInv(c)
       /\ transaction_index <= c.transaction_index
       /\ \A i \in 1..MaxIndex :
             c.proposals[i] # Unset => Origin(i, c.proposals[i].message, tx)
       /\ Creating(tx) /\ n >= 2 =>
             \A i \in 1..transaction_index : KeyOf(tx.instructions[2], 2) # Pda(i)

\* One index of a chain changes.
Changes(c, d, i, tx) ==
    /\ d \in Chain /\ c.transaction_index <= d.transaction_index /\ IndexInv(d, i)
    /\ \A j \in 1..MaxIndex \ {i} : d.proposals[j] = c.proposals[j] /\ d.paid[j] = c.paid[j]
    /\ d.proposals[i] # Unset => Origin(i, d.proposals[i].message, tx)

\* A creation that has run was of an index that was never used.
Placed(tx, n, k) ==
    Creating(tx) /\ k >= 2 =>
      \/ n >= 2
      \/ \A j \in 1..transaction_index : KeyOf(tx.instructions[2], 2) # Pda(j)

\* A step that changes what is at one index keeps a chain sound if it is sound there.
LEMMA OneIndex ==
    ASSUME NEW tx, NEW n, NEW k, Placed(tx, n, k), NEW c, Sound(c, tx, n), c # Failed,
           transaction_index \in Nat, NEW i \in 1..MaxIndex, NEW d, Changes(c, d, i, tx)
    PROVE  Sound(d, tx, k)
<1>1. /\ c \in Chain /\ \A j \in 1..MaxIndex : IndexInv(c, j)
      /\ transaction_index <= c.transaction_index
      /\ \A j \in 1..MaxIndex : c.proposals[j] # Unset => Origin(j, c.proposals[j].message, tx)
      /\ Creating(tx) /\ n >= 2 =>
             \A j \in 1..transaction_index : KeyOf(tx.instructions[2], 2) # Pda(j)
  BY DEF Sound, LedgerInv
<1>2. c.transaction_index \in Nat /\ d.transaction_index \in Nat /\ MaxIndex \in Nat
  BY <1>1, ChainFacts DEF Changes
<1>3. ASSUME NEW j \in 1..MaxIndex
      PROVE  IndexInv(d, j) /\ (d.proposals[j] # Unset => Origin(j, d.proposals[j].message, tx))
  <2>1. CASE j = i
    BY <2>1 DEF Changes
  <2>2. CASE j # i
    <3>1. /\ d.proposals[j] = c.proposals[j] /\ d.paid[j] = c.paid[j]
          /\ c.transaction_index <= d.transaction_index
      BY <2>2 DEF Changes
    <3>2. IndexInv(c, j) /\ j \in Nat
      BY <1>1, <1>2
    <3>3. IndexInv(d, j)
      BY <1>2, <3>1, <3>2 DEF IndexInv
    <3> QED
      BY <1>1, <3>1, <3>3
  <2> QED
    BY <2>1, <2>2
<1>4. transaction_index <= d.transaction_index /\ d \in Chain
  BY <1>1, <1>2 DEF Changes
<1>5. Creating(tx) /\ k >= 2 =>
         \A j \in 1..transaction_index : KeyOf(tx.instructions[2], 2) # Pda(j)
  BY <1>1 DEF Placed
<1> QED
  BY <1>3, <1>4, <1>5 DEF Sound, LedgerInv

\* A proposal without approvals owes nobody anything.
LEMMA NobodyApproved ==
    ASSUME NEW p, NEW i, p.approvals = <<>>
    PROVE  Approved(p, i)
<1>1. DOMAIN <<>> = {} /\ ToSet(<<>>) = {}
  BY DEF ToSet
<1> QED
  BY <1>1 DEF Approved, ApprovedBy, IsInjective

\* A creation keeps a chain sound: its index was never used (lib.rs:164).
LEMMA CreateIsSound ==
    ASSUME NEW tx, Creating(tx), NEW n, NEW c, Sound(c, tx, n), c # Failed,
           transaction_index \in Nat
    PROVE  Sound(RunCreate(c, tx.instructions[2]), tx, 2)
<1> DEFINE ix == tx.instructions[2]
           index == c.transaction_index + 1
           p == [multisig |-> Multisig, transactionIndex |-> index,
                 creator |-> KeyOf(ix, 3), payer |-> KeyOf(ix, 4),
                 vaultIndex |-> ix.data.vault_index, executed |-> FALSE,
                 approvals |-> <<>>, message |-> ix.data.message]
           d == [c EXCEPT !.transaction_index = index, !.proposals[index] = p]
<1>1. /\ c \in Chain /\ transaction_index <= c.transaction_index /\ c.transaction_index \in Nat
      /\ MaxIndex \in Nat /\ \A i \in 1..MaxIndex : IndexInv(c, i)
  BY ChainFacts DEF Sound, LedgerInv
<1>2. IsCreate(ix)
  BY DEF Creating
<1>3. SUFFICES ASSUME index <= MaxIndex, KeyOf(ix, 2) = Pda(index)
               PROVE  Sound(d, tx, 2)
  BY DEF RunCreate, Sound
<1>4. index \in 1..MaxIndex /\ index \in Nat /\ index > transaction_index
  BY <1>1, <1>3
<1>5. p \in Proposal
  <2>1. /\ KeyOf(ix, 3) \in Device /\ KeyOf(ix, 4) = Paymaster
        /\ ix.data.vault_index = 0 /\ ix.data.message \in Messages
    BY <1>2 DEF IsCreate
  <2> HIDE DEF ix, index
  <2> QED
    BY <1>4, <2>1 DEF Proposal
<1>6. /\ p.transactionIndex = index /\ p.approvals = <<>> /\ p.message = ix.data.message
  OBVIOUS
<1> HIDE DEF p, ix
<1>7. /\ d.transaction_index = index /\ d.paid = c.paid
      /\ d.proposals = [c.proposals EXCEPT ![index] = p]
      /\ d \in Chain
  <2> HIDE DEF index
  <2>1. index \in 0..MaxIndex
    BY <1>4
  <2> QED
    BY <1>1, <1>4, <1>5, <2>1 DEF Chain
<1> HIDE DEF d
<1>8. /\ d.proposals[index] = p
      /\ \A j \in 1..MaxIndex \ {index} : d.proposals[j] = c.proposals[j]
  BY <1>1, <1>4, <1>7, ChainFacts
<1>9. IndexInv(d, index)
  <2>1. Approved(p, index)
    BY <1>6, NobodyApproved
  <2>2. c.paid[index] = Unset
    <3>1. IndexInv(c, index)
      BY <1>1, <1>4
    <3>2. ~(index <= c.transaction_index)
      BY <1>1
    <3> QED
      BY <3>1, <3>2 DEF IndexInv
  <2> HIDE DEF index
  <2> QED
    BY <1>4, <1>6, <1>7, <1>8, <2>1, <2>2 DEF IndexInv
<1>10. Origin(index, p.message, tx)
  BY <1>3, <1>4, <1>6 DEF Origin, ix
<1>11. \A j \in 1..transaction_index : KeyOf(ix, 2) # Pda(j)
  BY <1>3, <1>4, PdaInjective
<1>12. c.transaction_index <= d.transaction_index
  BY <1>1, <1>7
<1>13. \A j \in 1..MaxIndex \ {index} : d.proposals[j] = c.proposals[j] /\ d.paid[j] = c.paid[j]
  BY <1>7, <1>8
<1>14. d.proposals[index] # Unset => Origin(index, d.proposals[index].message, tx)
  BY <1>8, <1>10
<1> HIDE DEF index
<1>15. Changes(c, d, index, tx)
  BY <1>7, <1>9, <1>12, <1>13, <1>14 DEF Changes
<1>16. Placed(tx, n, 2)
  BY <1>11 DEF Placed, ix
<1> QED
  BY <1>4, <1>15, <1>16, OneIndex

\* What the vault has is of its type.
LEMMA FundsTyped == IInv => funds \in Funds
BY ChainFacts DEF IInv, LedgerInv, Present

\* The types of the present accounts.
LEMMA PresentFacts ==
    ASSUME IInv
    PROVE  /\ transaction_index \in Nat /\ transaction_index \in 0..MaxIndex /\ MaxIndex \in Nat
           /\ proposals \in [1..MaxIndex -> Proposal \cup {Unset}]
           /\ paid \in [1..MaxIndex -> Receipt \cup {Unset}]
           /\ \A i \in 1..MaxIndex : proposals[i] # Unset => i \in 1..transaction_index
<1>1. Present \in Chain /\ \A i \in 1..MaxIndex : IndexInv(Present, i)
  BY DEF IInv, LedgerInv
<1>2. /\ Present.transaction_index = transaction_index /\ Present.proposals = proposals
      /\ Present.paid = paid
  BY DEF Present
<1>3. /\ transaction_index \in Nat /\ transaction_index \in 0..MaxIndex /\ MaxIndex \in Nat
      /\ proposals \in [1..MaxIndex -> Proposal \cup {Unset}]
      /\ paid \in [1..MaxIndex -> Receipt \cup {Unset}]
  BY <1>1, <1>2, ChainFacts
<1>4. ASSUME NEW i \in 1..MaxIndex, proposals[i] # Unset
      PROVE  i \in 1..transaction_index
  <2>1. i <= transaction_index
    BY <1>1, <1>2, <1>4 DEF IndexInv
  <2> QED
    BY <1>3, <2>1
<1> QED
  BY <1>3, <1>4

\* Whoever approves was shown what the proposal pays: in the bytes that create
\* it, or from the account, whose message is still the same.
LEMMA ApprovalIsShown ==
    ASSUME IInv, NEW tx \in Bundles, NEW n \in 1..Len(tx.instructions), NEW ix,
           ix = tx.instructions[n], IsApprove(ix), NEW c, Sound(c, tx, n - 1), c # Failed,
           NEW i \in 1..MaxIndex, i = ix.data.transaction_index, c.proposals[i] # Unset,
           NEW s \in signatures, s.tx = tx, s.device = KeyOf(ix, 3)
    PROVE  Shown(KeyOf(ix, 3), i, c.proposals[i].message)
<1> DEFINE message == c.proposals[i].message
           create == tx.instructions[2]
<1>1. KeyOf(ix, 2) = Pda(i) /\ DOMAIN ix.keys = 1..3 /\ OuterKind(ix) = "approve_transaction"
  BY DEF IsApprove
<1>2. transaction_index \in Nat /\ MaxIndex \in Nat /\ i \in Nat
  BY PresentFacts
<1>3. Origin(i, message, tx)
  BY DEF Sound
<1>4. proposals[i] # Unset => i \in 1..transaction_index
  BY PresentFacts
<1>5. /\ s \in Accepted \/ Verified(s)
      /\ tx.instructions \in Seq(ToSet(tx.instructions))
  <2>1. s \in Accepted \/ Verified(s)
    BY DEF IInv, DeviceInv
  <2>2. tx.instructions \in Seq(ToSet(tx.instructions))
    BY Shapes, ApprovalIs DEF Creating, Settling, Approving
  <2> QED
    BY <2>1, <2>2
<1>6. Pda(i) \in UNION { ToSet(Pubkeys(x.keys)) : x \in ToSet(s.tx.instructions) }
  <2>1. ix \in ToSet(s.tx.instructions)
    BY <1>5 DEF ToSet
  <2>2. 2 \in DOMAIN ix.keys
    BY <1>1
  <2>3. Pda(i) \in ToSet(Pubkeys(ix.keys))
    BY <1>1, <2>2 DEF KeyOf, Pubkeys, ToSet
  <2> QED
    BY <2>1, <2>3
<1>7. PaysWhatIsShown(message, s.payload)
  <2>1. CASE s \in Accepted
    <3>1. /\ s.payload \in Payloads /\ Creating(tx)
          /\ FlowsAgree(create.data.message, s.payload)
          /\ \A k \in 3..Len(tx.instructions) :
                IsApprove(tx.instructions[k]) => KeyOf(tx.instructions[k], 2) = KeyOf(create, 2)
      BY <2>1, AcceptedFacts
    <3>2. IsAdvance(tx.instructions[1]) /\ IsCreate(create)
      BY <3>1 DEF Creating
    <3>3. n # 1 /\ n # 2
      BY <1>1, <3>2 DEF IsAdvance, IsCreate
    <3>4. n \in 3..Len(tx.instructions) /\ n - 1 >= 2
      BY <1>5, <3>3
    <3>5. KeyOf(create, 2) = Pda(i)
      BY <1>1, <3>1, <3>4
    <3>6. \A j \in 1..transaction_index : KeyOf(create, 2) # Pda(j)
      BY <3>1, <3>4 DEF Sound
    <3>7. create.data.message = message
      BY <1>3, <1>4, <3>5, <3>6 DEF Origin
    <3>8. create.data.message \in Messages
      BY <3>2 DEF IsCreate
    <3> QED
      BY <3>1, <3>7, <3>8, FlowsAreShown
  <2>2. CASE Verified(s)
    <3>1. PICK j \in 1..transaction_index :
            /\ TargetOf(tx) = Pda(j)
            /\ proposals[j] # Unset => PaysWhatIsShown(proposals[j].message, s.payload)
      BY <2>2 DEF Verified
    <3>2. s \in ApproveOnly
      BY <2>2 DEF Verified
    <3>3. PICK k \in 1..MaxIndex : Approving(tx, k) /\ TargetOf(tx) = Pda(k)
      BY <3>2, ApproveOnlyFacts
    <3>4. j = k
      BY <3>1, <3>3, PdaInjective
    <3>5. /\ IsAdvance(tx.instructions[1]) /\ Len(tx.instructions) = 2
          /\ tx.instructions[2].data.transaction_index = k /\ IsApprove(tx.instructions[2])
      BY <3>3 DEF Approving
    <3>6. n = 2
      BY <1>1, <3>5 DEF IsAdvance
    <3>7. i = j /\ i <= transaction_index
      BY <1>2, <3>4, <3>5, <3>6
    <3>8. ~(i > transaction_index)
      BY <1>2, <3>7
    <3>9. proposals[i] # Unset /\ proposals[i].message = message
      BY <1>3, <3>8 DEF Origin
    <3> QED
      BY <3>1, <3>7, <3>9
  <2> QED
    BY <1>5, <2>1, <2>2
<1> QED
  BY <1>6, <1>7 DEF Shown, ShownBy

\* A member that had not approved keeps the approvals distinct.
LEMMA ApprovedOnce ==
    ASSUME NEW a \in Seq(Device), IsInjective(a), NEW m \in Device, m \notin ToSet(a)
    PROVE  /\ Append(a, m) \in Seq(Device) /\ IsInjective(Append(a, m))
           /\ ToSet(Append(a, m)) = ToSet(a) \cup {m}
<1>1. Append(a, m) \in Seq(Device) /\ ToSet(Append(a, m)) = ToSet(a) \cup {m}
  BY AppendedElements
<1>2. /\ Len(a) \in Nat /\ DOMAIN a = 1..Len(a) /\ DOMAIN Append(a, m) = 1..(Len(a) + 1)
      /\ Append(a, m)[Len(a) + 1] = m /\ \A k \in 1..Len(a) : Append(a, m)[k] = a[k]
  OBVIOUS
<1> DEFINE b == Append(a, m)
<1> HIDE DEF b
<1>3. \A k \in 1..(Len(a) + 1) : k \in 1..Len(a) \/ k = Len(a) + 1
  BY <1>2
<1>4. \A k \in 1..Len(a) : a[k] # m
  BY <1>2 DEF ToSet
<1>5. \A k, l \in 1..(Len(a) + 1) : b[k] = b[l] => k = l
  BY <1>2, <1>3, <1>4 DEF IsInjective, b
<1>6. IsInjective(b)
  BY <1>2, <1>5 DEF IsInjective, b
<1> QED
  BY <1>1, <1>6 DEF b

\* A proposal changes, but not in what it proposes.
Becomes(c, d, i, p, r) ==
    /\ p \in Proposal \cup {Unset}
    /\ p # Unset => /\ p.transactionIndex = i /\ p.message = c.proposals[i].message
                    /\ Approved(p, i)
    /\ r \in Receipt \cup {Unset}
    /\ r # c.paid[i] => Len(r.approvals) >= Threshold /\ Approved(r, i)
    /\ d \in Chain /\ d.transaction_index = c.transaction_index
    /\ d.proposals = [c.proposals EXCEPT ![i] = p] /\ d.paid = [c.paid EXCEPT ![i] = r]

\* A step that changes one live proposal, or pays it, keeps a chain sound if
\* what it leaves there is approved.
LEMMA ProposalIsSound ==
    ASSUME NEW tx, NEW n, NEW k, Placed(tx, n, k), NEW c, Sound(c, tx, n), c # Failed,
           transaction_index \in Nat, NEW i \in 1..MaxIndex, c.proposals[i] # Unset,
           NEW p, NEW r, NEW d, Becomes(c, d, i, p, r)
    PROVE  Sound(d, tx, k)
<1>1. /\ c \in Chain /\ IndexInv(c, i) /\ Origin(i, c.proposals[i].message, tx)
      /\ c.transaction_index \in Nat
      /\ c.proposals \in [1..MaxIndex -> Proposal \cup {Unset}]
      /\ c.paid \in [1..MaxIndex -> Receipt \cup {Unset}]
  BY ChainFacts DEF Sound, LedgerInv
<1>2. /\ p # Unset => /\ p.transactionIndex = i /\ p.message = c.proposals[i].message
                      /\ Approved(p, i)
      /\ r # c.paid[i] => Len(r.approvals) >= Threshold /\ Approved(r, i)
      /\ d \in Chain /\ d.transaction_index = c.transaction_index
      /\ d.proposals = [c.proposals EXCEPT ![i] = p] /\ d.paid = [c.paid EXCEPT ![i] = r]
  BY DEF Becomes
<1>3. d.proposals[i] = p /\ d.paid[i] = r
  BY <1>1, <1>2
<1>4. \A j \in 1..MaxIndex \ {i} : d.proposals[j] = c.proposals[j] /\ d.paid[j] = c.paid[j]
  BY <1>1, <1>2
<1>5. IndexInv(d, i)
  BY <1>1, <1>2, <1>3 DEF IndexInv
<1>6. d.proposals[i] # Unset => Origin(i, d.proposals[i].message, tx)
  BY <1>1, <1>2, <1>3
<1>7. c.transaction_index <= d.transaction_index
  BY <1>1, <1>2
<1>8. Changes(c, d, i, tx)
  BY <1>2, <1>4, <1>5, <1>6, <1>7 DEF Changes
<1> QED
  BY <1>8, OneIndex

\* A transaction lands with the signatures of its members.
Signed(tx) ==
    \A d \in SignersOf(tx) \cap Device : \E s \in signatures : s.device = d /\ s.tx = tx

\* Whoever an approval of a landed transaction names has signed it.
LEMMA ApproverSigned ==
    ASSUME NEW tx, Signed(tx), NEW ix \in ToSet(tx.instructions), IsApprove(ix)
    PROVE  \E s \in signatures : s.device = KeyOf(ix, 3) /\ s.tx = tx
<1>1. DOMAIN ix.keys = 1..3 /\ KeyOf(ix, 3) \in Device /\ ix.keys[3].isSigner
  BY DEF IsApprove
<1> DEFINE metas == [k \in DOMAIN ix.keys |->
              [pubkey |-> ix.keys[k].pubkey, is_signer |-> ix.keys[k].isSigner]]
<1>2. SignerKeys(metas) \subseteq SignersOf(tx)
  BY DEF SignersOf
<1>3. 3 \in DOMAIN metas /\ metas[3].is_signer /\ metas[3].pubkey = KeyOf(ix, 3)
  BY <1>1 DEF KeyOf
<1> HIDE DEF metas
<1>4. KeyOf(ix, 3) \in SignerKeys(metas)
  BY <1>3 DEF SignerKeys
<1> QED
  BY <1>1, <1>2, <1>4 DEF Signed

\* The types of the parts of a sound chain.
LEMMA SoundFacts ==
    ASSUME NEW tx, NEW n, NEW c, Sound(c, tx, n), c # Failed
    PROVE  /\ c \in Chain /\ c.failed = FALSE /\ c.transaction_index \in Nat
           /\ c.proposals \in [1..MaxIndex -> Proposal \cup {Unset}]
           /\ c.paid \in [1..MaxIndex -> Receipt \cup {Unset}]
           /\ \A i \in 1..MaxIndex : IndexInv(c, i)
BY ChainFacts DEF Sound, LedgerInv

\* An approval keeps a chain sound: its member was shown what is paid (lib.rs:377).
LEMMA ApproveIsSound ==
    ASSUME IInv, NEW tx \in Bundles, Signed(tx), NEW n \in 1..Len(tx.instructions), NEW ix,
           ix = tx.instructions[n], ix \in ToSet(tx.instructions), IsApprove(ix),
           Placed(tx, n - 1, n), NEW c, Sound(c, tx, n - 1), c # Failed
    PROVE  Sound(RunApprove(c, ix), tx, n)
<1> DEFINE i == ix.data.transaction_index
           m == KeyOf(ix, 3)
           old == c.proposals[i]
           p == [old EXCEPT !.approvals = Append(@, m)]
           d == [c EXCEPT !.proposals[i].approvals = Append(@, m)]
<1>1. SUFFICES ASSUME Live(c, i), MayApprove(old, m)
               PROVE  Sound(d, tx, n)
  BY DEF RunApprove, Sound
<1>2. i \in 1..MaxIndex /\ old # Unset /\ m \in Device /\ m \notin ToSet(old.approvals)
  BY <1>1 DEF Live, MayApprove
<1>3. /\ c \in Chain /\ c.proposals \in [1..MaxIndex -> Proposal \cup {Unset}]
      /\ c.paid \in [1..MaxIndex -> Receipt \cup {Unset}] /\ IndexInv(c, i)
  BY <1>2, SoundFacts
<1>4. old \in Proposal
  BY <1>2, <1>3
<1>5. old.transactionIndex = i /\ Approved(old, i)
  BY <1>2, <1>3 DEF IndexInv
<1>6. old.approvals \in Seq(Device) /\ IsInjective(old.approvals)
  BY <1>4, <1>5 DEF Proposal, Approved, ApprovedBy
<1> DEFINE a == Append(old.approvals, m)
<1>7. a \in Seq(Device) /\ IsInjective(a) /\ ToSet(a) = ToSet(old.approvals) \cup {m}
  BY <1>2, <1>6, ApprovedOnce
<1>8. PICK s \in signatures : s.device = m /\ s.tx = tx
  BY ApproverSigned
<1>9. Shown(m, i, old.message)
  <2> HIDE DEF m
  <2> QED
    BY <1>2, <1>8, ApprovalIsShown DEF m
<1> HIDE DEF a
<1>10. /\ p \in Proposal /\ p.transactionIndex = old.transactionIndex
       /\ p.message = old.message /\ p.approvals = a
  BY <1>4, <1>7 DEF Proposal, a
<1> DEFINE r == c.paid[i]
<1>11. /\ d.transaction_index = c.transaction_index
       /\ d.proposals = [c.proposals EXCEPT ![i] = p] /\ d.paid = c.paid
       /\ d \in Chain
  BY <1>2, <1>3, <1>10 DEF Chain
<1>12. d.paid = [c.paid EXCEPT ![i] = r] /\ r \in Receipt \cup {Unset}
  BY <1>2, <1>3, <1>11
<1> HIDE DEF p, d, r, old, m
<1>13. Approved(p, i)
  BY <1>5, <1>7, <1>9, <1>10 DEF Approved, ApprovedBy, Shown
<1>14. transaction_index \in Nat
  BY PresentFacts
<1>15. /\ c.proposals[i] # Unset /\ p.transactionIndex = i
       /\ p.message = c.proposals[i].message /\ c.paid[i] = r
  BY <1>2, <1>5, <1>10 DEF old, r
<1> HIDE DEF i
<1>16. Becomes(c, d, i, p, r)
  BY <1>10, <1>11, <1>12, <1>13, <1>15 DEF Becomes
<1> QED
  BY <1>2, <1>14, <1>15, <1>16, ProposalIsSound

-----------------------------------------------------------------------------
(***************************************************************************)
(* The calls of an execution move nothing but the vault's funds.           *)
(***************************************************************************)

\* A chain with other funds.
With(c, f) ==
    [transaction_index |-> c.transaction_index, proposals |-> c.proposals, paid |-> c.paid,
     funds |-> f, failed |-> FALSE]

IsChain(c) == c.funds \in Funds /\ c = With(c, c.funds)

\* What a call makes of a chain.
Moved(c) == {Failed} \cup { With(c, f) : f \in Funds }

\* Only the funds are other.
LEMMA WithIs ==
    ASSUME NEW c, NEW f
    PROVE  /\ With(c, f).transaction_index = c.transaction_index
           /\ With(c, f).proposals = c.proposals /\ With(c, f).paid = c.paid
           /\ With(c, f).funds = f /\ With(c, f).failed = FALSE
           /\ f \in Funds => IsChain(With(c, f))
           /\ \A g : With(With(c, f), g) = With(c, g)
BY DEF With, IsChain

\* Chains of the invariant are chains.
LEMMA ChainIs ==
    ASSUME NEW c \in Chain
    PROVE  IsChain(c)
<1>1. c.funds \in Funds /\ c.failed = FALSE
  BY ChainFacts
<1>2. c = [transaction_index |-> c.transaction_index, proposals |-> c.proposals, paid |-> c.paid,
           funds |-> c.funds, failed |-> c.failed]
  BY DEF Chain
<1> QED
  BY <1>1, <1>2 DEF IsChain, With

\* A chain has not failed.
LEMMA ChainLives ==
    ASSUME NEW c, IsChain(c)
    PROVE  c.failed = FALSE
<1>1. \A f : With(c, f).failed = FALSE
  BY WithIs
<1> QED
  BY <1>1 DEF IsChain

\* The fields of the funds.
LEMMA FundsFacts ==
    ASSUME NEW f \in Funds
    PROVE  /\ f.lamports \in Nat /\ f.tokens \in [TokenAccount -> Nat \cup {Unset}]
           /\ f = [lamports |-> f.lamports, tokens |-> f.tokens]
BY DEF Funds

\* Funds with other lamports, or other tokens.
LEMMA FundsMade ==
    ASSUME NEW n, NEW t
    PROVE  LET f == [lamports |-> n, tokens |-> t] IN
           /\ n \in Nat /\ t \in [TokenAccount -> Nat \cup {Unset}] => f \in Funds
           /\ f.lamports = n /\ f.tokens = t
BY DEF Funds

\* A chain whose lamports, or tokens, are changed in place.
LEMMA ChangedIs ==
    ASSUME NEW c, IsChain(c), NEW n, NEW t
    PROVE  /\ [c EXCEPT !.funds.lamports = n] = With(c, [lamports |-> n, tokens |-> c.funds.tokens])
           /\ [c EXCEPT !.funds.tokens = t] = With(c, [lamports |-> c.funds.lamports, tokens |-> t])
<1> DEFINE f == c.funds
<1>1. f = [lamports |-> f.lamports, tokens |-> f.tokens] /\ c = With(c, f)
  BY FundsFacts DEF IsChain
<1>2. /\ [c EXCEPT !.funds.lamports = n] = [c EXCEPT !.funds = [f EXCEPT !.lamports = n]]
      /\ [c EXCEPT !.funds.tokens = t] = [c EXCEPT !.funds = [f EXCEPT !.tokens = t]]
  BY <1>1 DEF With
<1>3. /\ [f EXCEPT !.lamports = n] = [lamports |-> n, tokens |-> f.tokens]
      /\ [f EXCEPT !.tokens = t] = [lamports |-> f.lamports, tokens |-> t]
  BY <1>1
<1> HIDE DEF f
<1>4. \A g : [c EXCEPT !.funds = g] = With(c, g)
  <2> TAKE g
  <2> DEFINE n0 == c.transaction_index
             p0 == c.proposals
             r0 == c.paid
             no == FALSE
             x == [transaction_index |-> n0, proposals |-> p0, paid |-> r0, funds |-> f,
                   failed |-> no]
  <2>1. /\ With(c, f) = x
        /\ With(c, g) = [transaction_index |-> n0, proposals |-> p0, paid |-> r0, funds |-> g,
                         failed |-> no]
    BY DEF With
  <2> HIDE DEF n0, p0, r0, no
  <2>2. [x EXCEPT !.funds = g] =
          [transaction_index |-> n0, proposals |-> p0, paid |-> r0, funds |-> g, failed |-> no]
    OBVIOUS
  <2> HIDE DEF x
  <2> QED
    BY <1>1, <2>1, <2>2
<1> QED
  BY <1>2, <1>3, <1>4 DEF f

\* The accounts of a mint's tokens hold tokens.
LEMMA TokenAccountsAre ==
    ASSUME NEW mint \in DOMAIN Decimals
    PROVE  TokenAccounts(mint) \subseteq TokenAccount /\ AtaOf(Vault, mint) \in TokenAccounts(mint)
BY DEF TokenAccount, TokenAccounts

\* A transfer of lamports leaves a chain of other funds ...
LEMMA TransferMoves ==
    ASSUME NEW c, IsChain(c), NEW metas, NEW data, MayTransfer(c, metas, data)
    PROVE  \E g \in Funds :
              /\ [c EXCEPT !.funds.lamports = LamportsLeft(@, metas[2].pubkey, data.amount)]
                   = With(c, g)
              /\ g.tokens = c.funds.tokens /\ g.lamports >= c.funds.lamports - data.amount
<1> DEFINE n == LamportsLeft(c.funds.lamports, metas[2].pubkey, data.amount)
           g == [lamports |-> n, tokens |-> c.funds.tokens]
<1>1. c.funds \in Funds /\ data.amount \in 0..c.funds.lamports
  BY DEF IsChain, MayTransfer
<1>2. c.funds.lamports \in Nat /\ c.funds.tokens \in [TokenAccount -> Nat \cup {Unset}]
  BY <1>1, FundsFacts
<1>3. n \in Nat /\ n >= c.funds.lamports - data.amount
  BY <1>1, <1>2 DEF LamportsLeft
<1> HIDE DEF n
<1>4. g \in Funds /\ g.lamports = n /\ g.tokens = c.funds.tokens
  BY <1>2, <1>3, FundsMade
<1>5. [c EXCEPT !.funds.lamports = n] = With(c, g)
  BY ChangedIs
<1> QED
  BY <1>3, <1>4, <1>5 DEF n

\* ... and so does one of tokens.
LEMMA TokensMove ==
    ASSUME NEW c, IsChain(c), NEW metas, NEW data, MayTransferTokens(c, metas, data)
    PROVE  \E g \in Funds :
              /\ [c EXCEPT !.funds.tokens =
                     TokensMoved(@, metas[1].pubkey, metas[3].pubkey, data.amount)] = With(c, g)
              /\ g.lamports = c.funds.lamports
<1> DEFINE from == metas[1].pubkey
           to == metas[3].pubkey
           old == c.funds.tokens
           n == data.amount
           less == [old EXCEPT ![from] = @ - n]
           t == TokensMoved(old, from, to, n)
           g == [lamports |-> c.funds.lamports, tokens |-> t]
<1>1. /\ metas[2].pubkey \in DOMAIN Decimals
      /\ from = AtaOf(Vault, metas[2].pubkey) /\ to \in TokenAccounts(metas[2].pubkey)
      /\ old[from] # Unset /\ old[to] # Unset /\ n \in 0..old[from]
  BY DEF MayTransferTokens
<1>2. c.funds.lamports \in Nat /\ old \in [TokenAccount -> Nat \cup {Unset}]
  BY FundsFacts DEF IsChain
<1>3. from \in TokenAccount /\ to \in TokenAccount
  BY <1>1, TokenAccountsAre
<1> HIDE DEF from, to, old, n
<1>4. old[from] \in Nat /\ old[to] \in Nat
  BY <1>1, <1>2, <1>3
<1>5. n \in Nat /\ old[from] - n \in Nat /\ (old[from] - n) + n \in Nat /\ old[to] + n \in Nat
  BY <1>1, <1>4
<1>6. t = [less EXCEPT ![to] = less[to] + n]
  BY DEF TokensMoved
<1>7. less \in [TokenAccount -> Nat \cup {Unset}] /\ less[to] + n \in Nat
  BY <1>2, <1>3, <1>5
<1> HIDE DEF less, t
<1>8. t \in [TokenAccount -> Nat \cup {Unset}]
  BY <1>6, <1>7
<1>9. g \in Funds /\ g.lamports = c.funds.lamports
  BY <1>2, <1>8, FundsMade
<1>10. [c EXCEPT !.funds.tokens = t] = With(c, g)
  BY ChangedIs DEF old
<1> QED
  BY <1>9, <1>10 DEF t, from, to, old, n

\* A call fails or moves funds.
LEMMA CallMoves ==
    ASSUME NEW c, NEW d \in Moved(c), NEW message, NEW ix, NEW tx
    PROVE  Call(d, message, ix, tx) \in Moved(c)
<1> DEFINE metas == account_metas(message, ix)
           program == message.account_keys[ix.program_id_index + 1]
           data == ix.data
<1>1. CASE d = Failed
  BY <1>1 DEF Failed, Call, Moved
<1>2. CASE d # Failed
  <2>1. PICK f \in Funds : d = With(c, f)
    BY <1>2 DEF Moved
  <2>2. IsChain(d) /\ \A g : With(d, g) = With(c, g)
    <3>1. f \in Funds => IsChain(With(c, f))
      BY WithIs
    <3>2. ASSUME NEW g
          PROVE  With(With(c, f), g) = With(c, g)
      BY DEF With
    <3> QED
      BY <2>1, <3>1, <3>2
  <2>3. /\ SYSTEM_PROGRAM # TOKEN_PROGRAM_ID /\ SYSTEM_PROGRAM # MEMO_PROGRAM_ID
        /\ TOKEN_PROGRAM_ID # MEMO_PROGRAM_ID
    BY BundleAssumption DEF IsInjective
  <2> HIDE DEF metas, program, data
  <2> SUFFICES Called(d, program, metas, data) \in Moved(c)
    BY DEF Call, Moved, metas, program, data
  <2>4. CASE program = SYSTEM_PROGRAM /\ MayTransfer(d, metas, data)
    <3>1. Called(d, program, metas, data) =
            [d EXCEPT !.funds.lamports = LamportsLeft(@, metas[2].pubkey, data.amount)]
      BY <2>3, <2>4 DEF Called
    <3>2. \E g \in Funds : Called(d, program, metas, data) = With(d, g)
      BY <2>2, <2>4, <3>1, TransferMoves
    <3> QED
      BY <2>2, <3>2 DEF Moved
  <2>5. CASE program = TOKEN_PROGRAM_ID /\ MayTransferTokens(d, metas, data)
    <3>1. Called(d, program, metas, data) =
            [d EXCEPT !.funds.tokens =
                TokensMoved(@, metas[1].pubkey, metas[3].pubkey, data.amount)]
      BY <2>3, <2>5 DEF Called
    <3>2. \E g \in Funds : Called(d, program, metas, data) = With(d, g)
      BY <2>2, <2>5, <3>1, TokensMove
    <3> QED
      BY <2>2, <3>2 DEF Moved
  <2>6. CASE program = MEMO_PROGRAM_ID /\ decodeUtf8Strict(data)
    <3>1. Called(d, program, metas, data) = d
      BY <2>3, <2>6 DEF Called
    <3> QED
      BY <3>1
  <2>7. CASE /\ ~(program = SYSTEM_PROGRAM /\ MayTransfer(d, metas, data))
             /\ ~(program = TOKEN_PROGRAM_ID /\ MayTransferTokens(d, metas, data))
             /\ ~(program = MEMO_PROGRAM_ID /\ decodeUtf8Strict(data))
    <3>1. Called(d, program, metas, data) = Failed
      BY <2>7 DEF Called
    <3> QED
      BY <3>1 DEF Moved
  <2> QED
    BY <2>4, <2>5, <2>6, <2>7
<1> QED
  BY <1>1, <1>2

\* Calls are made one after another.
Made(t, c, message, tx) ==
    /\ t[0] = c
    /\ \A n \in 1..Len(message.instructions) :
          t[n] = Call(t[n - 1], message, message.instructions[n], tx) /\ t[n] \in Moved(c)

\* Making the calls of a message is making them in turn.
LEMMA CallSteps ==
    ASSUME NEW c, IsChain(c), NEW message, Len(message.instructions) \in Nat, NEW tx
    PROVE  \E t : /\ Made(t, c, message, tx) /\ t[0] \in Moved(c)
                  /\ Calls(c, message, tx) = t[Len(message.instructions)]
<1> DEFINE k == Len(message.instructions)
           Step(t) == [n \in 0..k |-> IF n = 0 THEN c
                                      ELSE Call(t[n - 1], message, message.instructions[n], tx)]
           called == CHOOSE t : t = Step(t)
           V == Moved(c)
           G == [p \in V \X (1..k) |-> Call(p[1], message, message.instructions[p[2]], tx)]
<1>1. Calls(c, message, tx) = called[k]
  BY DEF Calls
<1>2. c \in V
  <2>1. c.funds \in Funds /\ c = With(c, c.funds)
    BY DEF IsChain
  <2> DEFINE f == c.funds
  <2> HIDE DEF f
  <2>2. f \in Funds /\ c = With(c, f)
    BY <2>1 DEF f
  <2> QED
    BY <2>2 DEF Moved
<1>3. G \in [V \X (1..k) -> V]
  <2>1. \A p \in V \X (1..k) : Call(p[1], message, message.instructions[p[2]], tx) \in V
    BY CallMoves
  <2> HIDE DEF V
  <2> QED
    BY <2>1
<1>4. \A d \in V, n \in 1..k : G[<<d, n>>] = Call(d, message, message.instructions[n], tx)
  OBVIOUS
<1> HIDE DEF G, V, k
<1>5. k \in Nat
  BY DEF k
<1>6. PICK t : Computes(t, k, V, c, G)
  BY <1>2, <1>3, <1>5, StepByStep
<1>7. /\ t \in [0..k -> V] /\ t[0] = c
      /\ \A n \in 1..k : t[n] = Call(t[n - 1], message, message.instructions[n], tx)
  <2>1. t \in [0..k -> V] /\ t[0] = c /\ \A n \in 1..k : t[n] = G[<<t[n - 1], n>>]
    BY <1>6 DEF Computes
  <2>2. \A n \in 1..k : t[n - 1] \in V
    BY <1>5, <2>1
  <2> QED
    BY <1>4, <2>1, <2>2
<1>8. t = Step(t)
  <2>1. \A n \in 0..k : n = 0 \/ n \in 1..k
    BY <1>5
  <2> QED
    BY <1>7, <2>1
<1>9. called = Step(called)
  BY <1>8
<1> HIDE DEF called
<1>10. called[0] = c
  BY <1>5, <1>9
<1>11. \A n \in 1..k : called[n] = Call(called[n - 1], message, message.instructions[n], tx)
  BY <1>5, <1>9
<1> DEFINE S == { n \in 0..k : called[n] \in V }
<1>12. 0 \in S
  BY <1>2, <1>5, <1>10
<1>13. ASSUME NEW n \in 1..k, n - 1 \in S
       PROVE  n \in S
  <2>1. called[n - 1] \in V /\ n \in 0..k
    BY <1>5, <1>13
  <2>2. called[n] \in V
    BY <1>11, <2>1, CallMoves DEF V
  <2> QED
    BY <2>1, <2>2
<1> HIDE DEF S
<1>14. 0..k \subseteq S
  BY <1>5, <1>12, <1>13, UpTo
<1>15. \A n \in 0..k : called[n] \in V
  BY <1>14 DEF S
<1>16. Made(called, c, message, tx) /\ called[0] \in Moved(c)
  <2>1. \A n \in 1..k : n \in 0..k
    BY <1>5
  <2>2. \A n \in 1..k : called[n] \in V
    BY <1>15, <2>1
  <2> QED
    BY <1>2, <1>10, <1>11, <2>2 DEF Made, V, k
<1> QED
  BY <1>1, <1>16 DEF k

\* So that all of them fail or move funds.
LEMMA CallsMove ==
    ASSUME NEW c, IsChain(c), NEW message, Len(message.instructions) \in Nat, NEW tx
    PROVE  Calls(c, message, tx) = Failed \/ \E f \in Funds : Calls(c, message, tx) = With(c, f)
<1> DEFINE k == Len(message.instructions)
<1>1. PICK t : /\ Made(t, c, message, tx) /\ t[0] \in Moved(c)
               /\ Calls(c, message, tx) = t[k]
  BY CallSteps
<1>2. k = 0 \/ k \in 1..k
  OBVIOUS
<1>3. t[k] \in Moved(c)
  <2> HIDE DEF k
  <2> QED
    BY <1>1, <1>2 DEF Made, k
<1> QED
  BY <1>1, <1>3 DEF Moved

\* Other funds do not matter to a sound chain.
LEMMA SoundWith ==
    ASSUME NEW tx, NEW n, NEW c, Sound(c, tx, n), c # Failed, NEW f \in Funds
    PROVE  Sound(With(c, f), tx, n)
<1> DEFINE d == With(c, f)
<1>1. /\ d.transaction_index = c.transaction_index /\ d.proposals = c.proposals
      /\ d.paid = c.paid
  BY WithIs
<1>2. c \in Chain /\ \A i \in 1..MaxIndex : IndexInv(c, i)
  BY DEF Sound, LedgerInv
<1>3. d \in Chain
  <2>1. /\ c.transaction_index \in 0..MaxIndex
        /\ c.proposals \in [1..MaxIndex -> Proposal \cup {Unset}]
        /\ c.paid \in [1..MaxIndex -> Receipt \cup {Unset}]
    BY <1>2, ChainFacts
  <2> QED
    BY <2>1 DEF With, Chain
<1> HIDE DEF d
<1>4. \A i \in 1..MaxIndex : IndexInv(d, i)
  BY <1>1, <1>2 DEF IndexInv
<1> QED
  BY <1>1, <1>3, <1>4 DEF Sound, LedgerInv, d

\* An execution keeps a chain sound: it pays what was approved (lib.rs:445), and
\* the calls change nothing that was approved.
LEMMA ExecuteIsSound ==
    ASSUME NEW tx, NEW n, NEW k, Placed(tx, n, k), NEW c, Sound(c, tx, n), c # Failed,
           transaction_index \in Nat, NEW ix
    PROVE  Sound(RunExecute(c, ix, tx), tx, k)
<1> DEFINE i == ix.data.transaction_index
           old == c.proposals[i]
           p == [old EXCEPT !.executed = TRUE]
           r == [message |-> old.message, approvals |-> old.approvals]
           d == [c EXCEPT !.proposals[i].executed = TRUE, !.paid[i] = r]
<1>1. SUFFICES ASSUME Live(c, i), Len(old.approvals) >= Threshold
               PROVE  Sound(Calls(d, old.message, tx), tx, k)
  BY DEF RunExecute, Sound
<1>2. i \in 1..MaxIndex /\ old # Unset
  BY <1>1 DEF Live
<1>3. /\ c \in Chain /\ c.proposals \in [1..MaxIndex -> Proposal \cup {Unset}]
      /\ c.paid \in [1..MaxIndex -> Receipt \cup {Unset}] /\ IndexInv(c, i)
  BY <1>2, SoundFacts
<1>4. old \in Proposal
  BY <1>2, <1>3
<1>5. old.transactionIndex = i /\ Approved(old, i)
  BY <1>2, <1>3 DEF IndexInv
<1>6. /\ p \in Proposal /\ p.transactionIndex = old.transactionIndex
      /\ p.message = old.message /\ p.approvals = old.approvals
      /\ r \in Receipt /\ r.approvals = old.approvals /\ r.message = old.message
  BY <1>4 DEF Proposal, Receipt
<1>7. Approved(p, i) /\ Approved(r, i)
  <2> HIDE DEF p, r, old
  <2> QED
    BY <1>5, <1>6 DEF Approved, ApprovedBy
<1> HIDE DEF r
<1>8. /\ d.transaction_index = c.transaction_index
      /\ d.proposals = [c.proposals EXCEPT ![i] = p] /\ d.paid = [c.paid EXCEPT ![i] = r]
      /\ d \in Chain
  BY <1>2, <1>3, <1>6 DEF Chain
<1>9. /\ c.proposals[i] # Unset /\ p.transactionIndex = i /\ p.message = c.proposals[i].message
      /\ Len(r.approvals) >= Threshold
  BY <1>1, <1>2, <1>5, <1>6
<1>10. Len(old.message.instructions) \in Nat
  <2>1. old.message \in Messages
    BY <1>4 DEF Proposal
  <2> DEFINE m == old.message
  <2> HIDE DEF m
  <2>2. m.instructions \in Seq(AnInstruction)
    BY <2>1, MessageFacts DEF m
  <2>3. Len(m.instructions) \in Nat
    BY <2>2
  <2> QED
    BY <2>3 DEF m
<1> HIDE DEF p, d, old, i
<1>11. Becomes(c, d, i, p, r)
  BY <1>6, <1>7, <1>8, <1>9 DEF Becomes
<1>12. Sound(d, tx, k)
  BY <1>2, <1>9, <1>11, ProposalIsSound
<1>13. IsChain(d) /\ d # Failed
  <2>1. d.failed = FALSE /\ Failed.failed = TRUE
    BY <1>8, ChainFacts DEF Failed
  <2> QED
    BY <1>8, <2>1, ChainIs
<1>14. \/ Calls(d, old.message, tx) = Failed
       \/ \E f \in Funds : Calls(d, old.message, tx) = With(d, f)
  BY <1>10, <1>13, CallsMove
<1> QED
  BY <1>12, <1>13, <1>14, SoundWith DEF Sound

\* A close keeps a chain sound: it takes a proposal away (lib.rs:668).
LEMMA CloseIsSound ==
    ASSUME NEW tx, NEW n, NEW k, Placed(tx, n, k), NEW c, Sound(c, tx, n), c # Failed,
           transaction_index \in Nat, NEW ix
    PROVE  Sound(RunClose(c, ix), tx, k)
<1> DEFINE i == ix.data.transaction_index
           d == [c EXCEPT !.proposals[i] = Unset]
           r == c.paid[i]
<1>1. SUFFICES ASSUME Live(c, i)
               PROVE  Sound(d, tx, k)
  BY DEF RunClose, Sound
<1>2. i \in 1..MaxIndex /\ c.proposals[i] # Unset
  BY <1>1 DEF Live
<1>3. /\ c \in Chain /\ c.proposals \in [1..MaxIndex -> Proposal \cup {Unset}]
      /\ c.paid \in [1..MaxIndex -> Receipt \cup {Unset}]
  BY <1>2, SoundFacts
<1>4. /\ d.transaction_index = c.transaction_index
      /\ d.proposals = [c.proposals EXCEPT ![i] = Unset] /\ d.paid = c.paid
      /\ d \in Chain
  BY <1>2, <1>3 DEF Chain
<1>5. d.paid = [c.paid EXCEPT ![i] = r] /\ r \in Receipt \cup {Unset} /\ c.paid[i] = r
  BY <1>2, <1>3, <1>4
<1>6. Unset \in Proposal \cup {Unset}
  OBVIOUS
<1> HIDE DEF d, i, r
<1>7. Becomes(c, d, i, Unset, r)
  BY <1>4, <1>5, <1>6 DEF Becomes
<1> QED
  BY <1>2, <1>7, ProposalIsSound

\* Which handler runs an instruction.
LEMMA RunIxIs ==
    ASSUME NEW c, c.failed = FALSE, NEW ix, NEW tx
    PROVE  /\ ix.data.op = "create_transaction" => RunIx(c, ix, tx) = RunCreate(c, ix)
           /\ ix.data.op = "approve_transaction" => RunIx(c, ix, tx) = RunApprove(c, ix)
           /\ ix.data.op = "execute_transaction" => RunIx(c, ix, tx) = RunExecute(c, ix, tx)
           /\ ix.data.op = "close_transaction" => RunIx(c, ix, tx) = RunClose(c, ix)
           /\ ix.data.op = "createIdempotent" => RunIx(c, ix, tx) = RunCreateAta(c, ix)
           /\ ix.data.op = "nonceAdvance" => RunIx(c, ix, tx) = c
BY DEF RunIx

\* One instruction.
LEMMA IxIsSound ==
    ASSUME IInv, NEW tx \in Bundles, Signed(tx), NEW n \in 1..Len(tx.instructions),
           NEW c, Sound(c, tx, n - 1)
    PROVE  Sound(RunIx(c, tx.instructions[n], tx), tx, n)
<1> DEFINE ix == tx.instructions[n]
<1>1. CASE c = Failed
  <2>1. c.failed = TRUE
    BY <1>1 DEF Failed
  <2> QED
    BY <1>1, <2>1 DEF RunIx, Sound
<1>2. CASE c # Failed
  <2>1. c.failed = FALSE /\ transaction_index \in Nat
    BY <1>2, SoundFacts, PresentFacts
  <2>2. tx.instructions \in Seq(ToSet(tx.instructions))
    BY Shapes, ApprovalIs DEF Creating, Settling, Approving
  <2>3. /\ ix \in ToSet(tx.instructions) /\ n \in Nat /\ n >= 1
        /\ Len(tx.instructions) \in Nat
    BY <2>2 DEF ToSet
  <2> HIDE DEF ix
  <2>4. ASSUME IsSettlement(ix), Placed(tx, n - 1, n)
        PROVE  Sound(RunIx(c, ix, tx), tx, n)
    <3>1. Sound(RunExecute(c, ix, tx), tx, n) /\ Sound(RunClose(c, ix), tx, n)
      BY <1>2, <2>1, <2>4, ExecuteIsSound, CloseIsSound
    <3> QED
      BY <2>1, <2>4, <3>1 DEF RunIx, IsSettlement
  <2>5. ASSUME IsApprove(ix), Placed(tx, n - 1, n)
        PROVE  Sound(RunIx(c, ix, tx), tx, n)
    <3>1. Sound(RunApprove(c, ix), tx, n)
      BY <1>2, <2>3, <2>5, ApproveIsSound DEF ix
    <3> QED
      BY <2>1, <2>5, <3>1, RunIxIs DEF IsApprove
  <2>6. ASSUME IsAdvance(ix), ~(Creating(tx) /\ n >= 2)
        PROVE  Sound(RunIx(c, ix, tx), tx, n)
    <3>1. RunIx(c, ix, tx) = c
      BY <2>1, <2>6, RunIxIs DEF IsAdvance
    <3> QED
      BY <2>6, <3>1 DEF Sound
  <2>7. CASE Creating(tx)
    <3>1. /\ IsAdvance(tx.instructions[1]) /\ IsCreate(tx.instructions[2])
          /\ \A k \in 3..Len(tx.instructions) :
                IsApprove(tx.instructions[k]) \/ IsSettlement(tx.instructions[k])
      BY <2>7 DEF Creating
    <3>2. CASE n = 1
      BY <2>6, <3>1, <3>2 DEF ix
    <3>3. CASE n = 2
      <4>1. Sound(RunCreate(c, ix), tx, n)
        BY <1>2, <2>1, <2>7, <3>3, CreateIsSound DEF ix
      <4>2. ix.data.op = "create_transaction"
        BY <3>1, <3>3 DEF IsCreate, ix
      <4>3. RunIx(c, ix, tx) = RunCreate(c, ix)
        BY <2>1, <4>2 DEF RunIx
      <4> QED
        BY <4>1, <4>3 DEF ix
    <3>4. CASE n >= 3
      <4>1. IsApprove(ix) \/ IsSettlement(ix)
        BY <2>3, <3>1, <3>4 DEF ix
      <4>2. Placed(tx, n - 1, n)
        BY <2>3, <3>4 DEF Placed
      <4> QED
        BY <2>4, <2>5, <4>1, <4>2 DEF ix
    <3> QED
      BY <2>3, <3>2, <3>3, <3>4 DEF ix
  <2>8. CASE ~Creating(tx)
    <3>1. Placed(tx, n - 1, n)
      BY <2>8 DEF Placed
    <3>2. CASE Settling(tx)
      BY <2>4, <3>1, <3>2 DEF Settling, ix
    <3>3. ASSUME NEW i \in 1..MaxIndex, tx = ApprovalOf(i)
          PROVE  Sound(RunIx(c, ix, tx), tx, n)
      <4>1. Approving(tx, i)
        BY <3>3, ApprovalIs
      <4>2. /\ Len(tx.instructions) = 2 /\ IsAdvance(tx.instructions[1])
            /\ IsApprove(tx.instructions[2])
        BY <4>1 DEF Approving
      <4>3. n = 1 \/ n = 2
        BY <2>3, <4>2
      <4> QED
        BY <2>5, <2>6, <2>8, <3>1, <4>2, <4>3 DEF ix
    <3> QED
      BY <2>8, <3>2, <3>3, Shapes DEF ix
  <2> QED
    BY <2>7, <2>8
<1> QED
  BY <1>1, <1>2

\* A transaction is run one instruction after another.
Runs(run, tx) ==
    /\ run[0] = Present
    /\ \A n \in 1..Len(tx.instructions) : run[n] = RunIx(run[n - 1], tx.instructions[n], tx)

\* Running a transaction is running its instructions in turn.
LEMMA RunSteps ==
    ASSUME NEW tx, Len(tx.instructions) \in Nat
    PROVE  \E run : Runs(run, tx) /\ Run(tx) = run[Len(tx.instructions)]
<1> DEFINE k == Len(tx.instructions)
           Next1(t, j) == [n \in 0..j |->
                              IF n = 0 THEN Present ELSE RunIx(t[n - 1], tx.instructions[n], tx)]
           run == CHOOSE t : t = Next1(t, k)
<1>1. Run(tx) = run[k]
  BY DEF Run, Present
<1> HIDE DEF k
<1>2. k \in Nat
  BY DEF k
<1>3. \E t : t = Next1(t, k)
  <2> DEFINE S == { j \in 0..k : \E t : t = Next1(t, j) }
  <2>1. 0 \in S
    <3> DEFINE t == [n \in 0..0 |-> Present]
    <3>1. t = Next1(t, 0)
      OBVIOUS
    <3>2. 0 \in 0..k
      BY <1>2
    <3> HIDE DEF t, Next1
    <3> QED
      BY <3>1, <3>2
  <2>2. ASSUME NEW j \in 1..k, j - 1 \in S
        PROVE  j \in S
    <3>1. PICK t : t = Next1(t, j - 1)
      BY <2>2
    <3> DEFINE u == [n \in 0..j |-> IF n = j THEN RunIx(t[j - 1], tx.instructions[j], tx) ELSE t[n]]
    <3>2. j \in Nat /\ j >= 1
      BY <1>2
    <3>3. /\ u[j] = RunIx(t[j - 1], tx.instructions[j], tx)
          /\ \A n \in 0..(j - 1) : u[n] = t[n]
      BY <3>2
    <3>4. t[0] = Present
      BY <3>1, <3>2
    <3>5. \A n \in 1..(j - 1) : t[n] = RunIx(t[n - 1], tx.instructions[n], tx)
      BY <3>1, <3>2
    <3>6. ASSUME NEW n \in 0..j
          PROVE  u[n] = IF n = 0 THEN Present ELSE RunIx(u[n - 1], tx.instructions[n], tx)
      <4> HIDE DEF u
      <4>1. CASE n = 0
        BY <3>2, <3>3, <3>4, <4>1
      <4>2. CASE n = j
        <5>1. u[n - 1] = t[j - 1] /\ n # 0
          BY <3>2, <3>3, <4>2
        <5> QED
          BY <3>3, <4>2, <5>1
      <4>3. CASE n # 0 /\ n # j
        <5>1. n \in 1..(j - 1) /\ n \in 0..(j - 1) /\ n - 1 \in 0..(j - 1)
          BY <3>2, <4>3
        <5> QED
          BY <3>3, <3>5, <4>3, <5>1
      <4> QED
        BY <4>1, <4>2, <4>3
    <3>7. u = Next1(u, j)
      BY <3>6
    <3> HIDE DEF u, Next1
    <3>8. j \in 0..k
      BY <1>2
    <3> QED
      BY <3>7, <3>8
  <2> HIDE DEF S
  <2>3. 0..k \subseteq S
    BY <1>2, <2>1, <2>2, UpTo
  <2>4. k \in S
    BY <1>2, <2>3
  <2> HIDE DEF Next1
  <2> QED
    BY <2>4 DEF S
<1>4. run = Next1(run, k)
  BY <1>3
<1> HIDE DEF run
<1>5. run[0] = Present
  BY <1>2, <1>4
<1>6. \A n \in 1..k : run[n] = RunIx(run[n - 1], tx.instructions[n], tx)
  BY <1>2, <1>4
<1>7. Runs(run, tx)
  BY <1>5, <1>6 DEF Runs, k
<1> QED
  BY <1>1, <1>7 DEF k

\* Whatever transaction runs, the accounts it leaves are sound.
LEMMA RunIsSound ==
    ASSUME IInv, NEW tx \in Bundles, Signed(tx)
    PROVE  Sound(Run(tx), tx, Len(tx.instructions))
<1> DEFINE k == Len(tx.instructions)
<1>1. k \in Nat
  <2>1. tx.instructions \in Seq(ToSet(tx.instructions))
    BY Shapes, ApprovalIs DEF Creating, Settling, Approving
  <2> QED
    BY <2>1
<1>2. PICK run : Runs(run, tx) /\ Run(tx) = run[k]
  BY <1>1, RunSteps
<1> DEFINE S == { n \in 0..k : Sound(run[n], tx, n) }
<1>3. 0 \in S
  <2>1. Sound(Present, tx, 0)
    <3>1. LedgerInv(Present)
      BY DEF IInv
    <3>2. Present.transaction_index = transaction_index /\ Present.proposals = proposals
      BY DEF Present
    <3>3. transaction_index \in Nat
      BY PresentFacts
    <3> QED
      BY <3>1, <3>2, <3>3 DEF Sound, Origin
  <2> QED
    BY <1>1, <1>2, <2>1 DEF Runs
<1>4. ASSUME NEW n \in 1..k, n - 1 \in S
      PROVE  n \in S
  <2>1. Sound(run[n - 1], tx, n - 1) /\ run[n] = RunIx(run[n - 1], tx.instructions[n], tx)
    BY <1>2, <1>4 DEF Runs
  <2>2. Sound(run[n], tx, n)
    BY <2>1, IxIsSound
  <2> QED
    BY <1>1, <2>2
<1> HIDE DEF S, k
<1>5. 0..k \subseteq S
  BY <1>1, <1>3, <1>4, UpTo
<1>6. k \in S
  BY <1>1, <1>5
<1> QED
  BY <1>2, <1>6 DEF S, k

-----------------------------------------------------------------------------
(***************************************************************************)
(* The invariant is kept.                                                  *)
(***************************************************************************)

\* What was shown stays shown.
LEMMA ShownLater ==
    ASSUME NEW S, NEW T, S \subseteq T, NEW p, NEW i, ApprovedBy(S, p, i)
    PROVE  ApprovedBy(T, p, i)
BY DEF ApprovedBy, ShownBy

\* More signatures keep sound accounts sound.
LEMMA LedgerLater ==
    ASSUME NEW STATE c, LedgerInv(c), Present' = c, signatures \subseteq signatures'
    PROVE  LedgerInv(Present)'
<1>1. c \in Chain /\ \A i \in 1..MaxIndex : IndexInv(c, i)
  BY DEF LedgerInv
<1>2. ASSUME NEW i \in 1..MaxIndex
      PROVE  IndexInv(Present, i)'
  <2>1. IndexInv(c, i)
    BY <1>1
  <2>2. /\ c.proposals[i] # Unset =>
             /\ c.proposals[i].transactionIndex = i /\ i <= c.transaction_index
             /\ ApprovedBy(signatures', c.proposals[i], i)
        /\ c.paid[i] # Unset =>
             /\ i <= c.transaction_index /\ Len(c.paid[i].approvals) >= Threshold
             /\ ApprovedBy(signatures', c.paid[i], i)
    BY <2>1, ShownLater DEF IndexInv, Approved
  <2> QED
    BY <2>2 DEF IndexInv, Approved
<1> QED
  BY <1>1, <1>2 DEF LedgerInv

\* The devices begin in the invariant.
LEMMA Initially == Init => IInv
<1> SUFFICES ASSUME Init
             PROVE  IInv
  OBVIOUS
<1>1. MaxIndex \in Nat
  BY BundleAssumption
<1>2. /\ transaction_index = 0 /\ proposals = [i \in 1..MaxIndex |-> Unset]
      /\ paid = [i \in 1..MaxIndex |-> Unset] /\ asked = [d \in Device |-> Unset]
      /\ signatures = {} /\ funds \in Funds
  BY DEF Init, Funds
<1>3. Present \in Chain
  <2>1. 0 \in 0..MaxIndex
    BY <1>1
  <2> QED
    BY <1>2, <2>1 DEF Present, Chain
<1>4. \A i \in 1..MaxIndex : IndexInv(Present, i)
  <2>1. \A i \in 1..MaxIndex : Present.proposals[i] = Unset /\ Present.paid[i] = Unset
    BY <1>2 DEF Present
  <2> QED
    BY <2>1 DEF IndexInv
<1>5. DeviceInv
  BY <1>2 DEF DeviceInv
<1> QED
  BY <1>3, <1>4, <1>5 DEF IInv, LedgerInv

\* Signing what a create gate accepts keeps the invariant.
LEMMA SignKeeps ==
    ASSUME IInv, NEW offer \in Accepted, SignBundle(offer)
    PROVE  IInv'
<1>1. /\ signatures' = signatures \cup {offer} /\ asked' = asked
      /\ transaction_index' = transaction_index /\ proposals' = proposals /\ paid' = paid
      /\ funds' = funds
  BY DEF SignBundle
<1>2. LedgerInv(Present) /\ DeviceInv
  BY DEF IInv
<1>3. LedgerInv(Present)'
  <2>1. Present' = Present
    BY <1>1 DEF Present
  <2> QED
    BY <1>1, <1>2, <2>1, LedgerLater
<1>4. offer \in Offers
  BY AcceptedFacts
<1>5. \A s : Verified(s) => Verified(s)'
  BY <1>1 DEF Verified
<1>6. \A d \in Device : asked'[d] # Unset => AnswerInv(asked[d])' /\ asked'[d].offer.device = d
  BY <1>1, <1>2 DEF DeviceInv, AnswerInv
<1>7. DeviceInv'
  BY <1>1, <1>2, <1>4, <1>5, <1>6 DEF DeviceInv
<1> QED
  BY <1>3, <1>7 DEF IInv

\* Asking the node keeps the invariant: the answer is the account as it is.
LEMMA FetchKeeps ==
    ASSUME IInv, NEW offer \in ApproveOnly, FetchProposal(offer)
    PROVE  IInv'
<1> DEFINE account == AccountAt(TargetOf(offer.tx))
           answer == [offer |-> offer, account |-> account]
<1>1. /\ asked' = [asked EXCEPT ![offer.device] = answer] /\ signatures' = signatures
      /\ transaction_index' = transaction_index /\ proposals' = proposals /\ paid' = paid
      /\ funds' = funds
  BY DEF FetchProposal, TargetOf
<1>2. LedgerInv(Present) /\ DeviceInv /\ offer.device \in Device
  BY ApproveOnlyFacts DEF IInv, Offers
<1>3. LedgerInv(Present)'
  <2>1. Present' = Present
    BY <1>1 DEF Present
  <2> QED
    BY <1>1, <1>2, <2>1, LedgerLater
<1>4. account # Unset => \E i \in 1..MaxIndex : account = proposals[i]
  BY DEF AccountAt
<1>5. AnswerInv(answer)
  <2>1. ASSUME NEW i \in 1..MaxIndex, proposals[i] # Unset
        PROVE  /\ proposals[i] \in Proposal /\ i \in 1..transaction_index
               /\ proposals[i].transactionIndex = i
    <3>1. IndexInv(Present, i)
      BY <1>2 DEF LedgerInv
    <3>2. proposals[i].transactionIndex = i
      BY <2>1, <3>1 DEF IndexInv, Present
    <3> QED
      BY <2>1, <3>2, PresentFacts
  <2>2. answer.offer = offer /\ answer.account = account
    OBVIOUS
  <2> HIDE DEF account, answer
  <2> QED
    BY <1>4, <2>1, <2>2 DEF AnswerInv
<1>9. answer.offer.device = offer.device
  OBVIOUS
<1> HIDE DEF answer
<1>6. \A d \in Device : asked[d] # Unset => AnswerInv(asked[d]) /\ asked[d].offer.device = d
  BY <1>2 DEF DeviceInv
<1>7. DOMAIN asked' = Device
      /\ \A d \in Device : asked'[d] = IF d = offer.device THEN answer ELSE asked[d]
  BY <1>1, <1>2 DEF DeviceInv
<1>8. DeviceInv'
  <2>1. \A s : Verified(s) => Verified(s)'
    BY <1>1 DEF Verified
  <2>2. \A d \in Device : asked'[d] # Unset => AnswerInv(asked[d])' /\ asked'[d].offer.device = d
    BY <1>1, <1>5, <1>6, <1>7, <1>9 DEF AnswerInv
  <2> QED
    BY <1>1, <1>2, <1>7, <2>1, <2>2 DEF DeviceInv
<1> QED
  BY <1>3, <1>8 DEF IInv

\* Pinning the address changes nothing else that a display says.
LEMMA PayloadWith ==
    ASSUME NEW payload \in Payloads, NEW pda
    PROVE  LET e == [payload EXCEPT !.expectedTransactionPda = pda] IN
           /\ e.recipients = payload.recipients /\ e.tokenMint = payload.tokenMint
           /\ e.tokenDecimals = payload.tokenDecimals
           /\ e.maxFeeLamports = payload.maxFeeLamports
           /\ e.expectedFeePayer = payload.expectedFeePayer
           /\ e.expectedTransactionPda = pda /\ e.expectedVaultIndex = Unset
           /\ e.expectedMultisigPda = Multisig /\ e.expectedVaultPda = Vault
<1>1. PICK s \in Sends : payload = PayloadOf(s)
  BY DEF Payloads
<1> QED
  BY <1>1 DEF PayloadOf, ExpectedSolanaVaultPayload

\* What the approve-only gate asks of the account.
LEMMA AccountGate ==
    ASSUME NEW payload \in Payloads, NEW account \in Proposal, account # Unset, NEW pda
    PROVE  LET proposal == fetchAndDecodeProposal(account, pda, ProposalOptions(payload))
               expected == [payload EXCEPT !.expectedTransactionPda = pda]
           IN  /\ compareProposalToExpected(proposal, expected)
                    <=> /\ ~account.executed /\ Pda(account.transactionIndex) = pda
                        /\ FlowsAgree(account.message, payload)
               /\ Pda(account.transactionIndex) = pda =>
                    /\ proposal.multisigPda = Multisig
                    /\ proposal.transactionIndex = account.transactionIndex
<1> DEFINE opts == ProposalOptions(payload)
           proposal == fetchAndDecodeProposal(account, pda, opts)
           expected == [payload EXCEPT !.expectedTransactionPda = pda]
           onChain == DecodedOnChainProposal(account, pda, opts)
<1>1. /\ account.multisig = Multisig /\ account.vaultIndex = 0 /\ account.message \in Messages
  BY DEF Proposal
<1>2. account.message.account_keys # <<>> /\ account.message.account_keys[1] = Vault
  BY <1>1, MessageFacts
<1>3. CanonicalAccount(account, pda) <=> Pda(account.transactionIndex) = pda
  BY <1>1, <1>2 DEF CanonicalAccount, Pda
<1>4. proposal = IF Pda(account.transactionIndex) = pda THEN onChain ELSE Undecodable
  BY <1>3 DEF fetchAndDecodeProposal, decodeVaultTransactionAccount
<1>5. /\ expected.recipients = payload.recipients /\ expected.tokenMint = payload.tokenMint
      /\ expected.tokenDecimals = payload.tokenDecimals
      /\ expected.maxFeeLamports = payload.maxFeeLamports
      /\ expected.expectedFeePayer = payload.expectedFeePayer
      /\ expected.expectedTransactionPda = pda /\ expected.expectedVaultIndex = Unset
      /\ expected.expectedMultisigPda = Multisig /\ expected.expectedVaultPda = Vault
  BY PayloadWith
<1>6. /\ onChain.kind = "proposal" /\ onChain.transactionPda = pda
      /\ onChain.multisigPda = Multisig /\ onChain.transactionIndex = account.transactionIndex
      /\ onChain.vaultPda = Vault /\ onChain.sender = Vault
      /\ onChain.executed = account.executed
  BY <1>1, <1>2 DEF DecodedOnChainProposal, InnerMessage, Vault
<1> HIDE DEF expected
<1>7. compareFundFlows(onChain, expected) <=> FlowsAgree(account.message, payload)
  BY <1>5, ProposalCompares
<1> HIDE DEF onChain, proposal
<1>8. CASE Pda(account.transactionIndex) = pda
  <2>1. proposal = onChain
    BY <1>4, <1>8
  <2>2. compareProposalToExpected(onChain, expected)
          <=> ~account.executed /\ compareFundFlows(onChain, expected)
    BY <1>5, <1>6 DEF compareProposalToExpected, Agrees
  <2> QED
    BY <1>6, <1>7, <1>8, <2>1, <2>2 DEF proposal, expected
<1>9. CASE Pda(account.transactionIndex) # pda
  <2>1. proposal.kind = "undecodable"
    BY <1>4, <1>9 DEF Undecodable
  <2>2. ~compareProposalToExpected(proposal, expected)
    BY <2>1 DEF compareProposalToExpected
  <2> QED
    BY <1>9, <2>2 DEF proposal, expected
<1> QED
  BY <1>8, <1>9

\* The approve gate accepts a live proposal at the target whose message the
\* same comparison accepts (decoder.ts:1519).
LEMMA ApproveGate ==
    ASSUME NEW o \in ApproveOnly, NEW account, account # Unset => account \in Proposal,
           NEW device, device = o.device
    PROVE  verifyApproveOnlyTransaction(o.tx, account, o.payload, device, Options)
             <=> /\ account # Unset /\ ~account.executed
                 /\ Pda(account.transactionIndex) = TargetOf(o.tx)
                 /\ FlowsAgree(account.message, o.payload)
<1> DEFINE decoded == decodeVaultSolanaTransaction(o.tx, Options)
           pda == decoded.transactionPda
           proposal == fetchAndDecodeProposal(account, pda, ProposalOptions(o.payload))
           expected == [o.payload EXCEPT !.expectedTransactionPda = pda]
           onChain == compareProposalToExpected(proposal, expected)
           bundle == [ExpectedSolanaVaultPayload(<<>>, Unset, Unset, Unset) EXCEPT
                      !.expectedMultisigPda = o.payload.expectedMultisigPda,
                      !.expectedTransactionPda = pda,
                      !.approveOnlyVerifiedOnChain = onChain]
<1>1. PICK i \in 1..MaxIndex : DecodedApproval(decoded, i)
  BY ApproveOnlyFacts
<1>2. o.payload \in Payloads /\ device = Members[2]
  BY ApproveOnlyFacts
<1>3. /\ o.payload.expectedTransactionPda = Unset /\ o.payload.expectedMultisigPda = Multisig
  BY <1>2, PayloadFacts
<1>4. /\ decoded.kind = "approve" /\ decoded.multisigPda = Multisig /\ pda = Pda(i)
      /\ decoded.transactionIndex = i /\ decoded.unknownOuterPrograms = {}
      /\ ToSet(decoded.approvers) = {Members[2]}
      /\ \A n \in DOMAIN decoded.approveTargets : decoded.approveTargets[n] = Pda(i)
      /\ \A n \in DOMAIN decoded.approveMultisigs : decoded.approveMultisigs[n] = Multisig
  BY <1>1 DEF DecodedApproval
<1>5. pda = TargetOf(o.tx) /\ pda # Unset
  <2>1. Unset \notin { Pda(k) : k \in 1..MaxIndex }
    BY BundleAssumption
  <2> QED
    BY <1>4, <2>1 DEF TargetOf
<1>6. /\ bundle.expectedMultisigPda = Multisig /\ bundle.expectedTransactionPda = pda
      /\ bundle.approveOnlyVerifiedOnChain = onChain
  BY <1>3 DEF ExpectedSolanaVaultPayload
<1>7. verifyApproveOnlyTransaction(o.tx, account, o.payload, device, Options)
        <=> /\ decoded.kind = "approve"
            /\ device # Unset => device \in ToSet(decoded.approvers)
            /\ onChain
            /\ decoded.multisigPda = proposal.multisigPda
            /\ decoded.transactionIndex = proposal.transactionIndex
            /\ compareDecodedToExpected(decoded, bundle)
  BY <1>3 DEF verifyApproveOnlyTransaction, ProposalVerified
<1> HIDE DEF decoded, proposal, expected, onChain, bundle
<1>8. compareDecodedToExpected(decoded, bundle) <=> onChain
  BY <1>4, <1>5, <1>6 DEF compareDecodedToExpected, ApproveAgrees, Agrees
<1>9. verifyApproveOnlyTransaction(o.tx, account, o.payload, device, Options)
        <=> /\ onChain /\ Multisig = proposal.multisigPda /\ i = proposal.transactionIndex
  BY <1>2, <1>4, <1>7, <1>8
<1>10. CASE account = Unset
  <2>1. proposal.kind = "undecodable"
    BY <1>10 DEF proposal, fetchAndDecodeProposal, Undecodable
  <2>2. ~onChain
    BY <2>1 DEF onChain, compareProposalToExpected
  <2> QED
    BY <1>9, <1>10, <2>2
<1>11. CASE account # Unset
  <2>1. /\ onChain <=> /\ ~account.executed /\ Pda(account.transactionIndex) = pda
                      /\ FlowsAgree(account.message, o.payload)
        /\ Pda(account.transactionIndex) = pda =>
              /\ proposal.multisigPda = Multisig
              /\ proposal.transactionIndex = account.transactionIndex
    BY <1>2, <1>11, AccountGate DEF onChain, proposal, expected
  <2>2. Pda(account.transactionIndex) = pda => account.transactionIndex = i
    BY <1>4, PdaInjective
  <2> QED
    BY <1>5, <1>9, <1>11, <2>1, <2>2
<1> QED
  BY <1>10, <1>11

\* Deciding on an answer, however old, keeps the invariant.
LEMMA DecideKeeps ==
    ASSUME IInv, NEW device \in Device, Decide(device)
    PROVE  IInv'
<1> DEFINE offer == asked[device].offer
           account == asked[device].account
           verified == verifyApproveOnlyTransaction(offer.tx, account, offer.payload, device, Options)
<1>1. /\ asked[device] # Unset /\ asked' = [asked EXCEPT ![device] = Unset]
      /\ signatures' = IF verified THEN signatures \cup {offer} ELSE signatures
      /\ transaction_index' = transaction_index /\ proposals' = proposals /\ paid' = paid
      /\ funds' = funds
  BY DEF Decide
<1>2. LedgerInv(Present) /\ DeviceInv
  BY DEF IInv
<1>3. LedgerInv(Present)'
  <2>1. Present' = Present
    BY <1>1 DEF Present
  <2>2. signatures \subseteq signatures'
    BY <1>1
  <2> QED
    BY <1>2, <2>1, <2>2, LedgerLater
<1>4. AnswerInv(asked[device]) /\ offer.device = device
  BY <1>1, <1>2 DEF DeviceInv
<1>5. offer \in ApproveOnly /\ offer \in Offers /\ offer.payload \in Payloads
  BY <1>4, ApproveOnlyFacts DEF AnswerInv
<1>6. ASSUME verified
      PROVE  Verified(offer)
  <2>1. account # Unset =>
           /\ account \in Proposal
           /\ account.transactionIndex \in 1..transaction_index
           /\ proposals[account.transactionIndex] # Unset =>
                 proposals[account.transactionIndex].message = account.message
    BY <1>4 DEF AnswerInv
  <2> HIDE DEF account, offer
  <2>2. /\ account # Unset /\ Pda(account.transactionIndex) = TargetOf(offer.tx)
        /\ FlowsAgree(account.message, offer.payload)
    BY <1>4, <1>5, <1>6, <2>1, ApproveGate
  <2>3. account.message \in Messages
    BY <2>1, <2>2 DEF Proposal
  <2>4. PaysWhatIsShown(account.message, offer.payload)
    BY <1>5, <2>2, <2>3, FlowsAreShown
  <2> QED
    BY <1>5, <2>1, <2>2, <2>4 DEF Verified
<1> HIDE DEF offer, account, verified
<1>7. \A s \in signatures' : s \in signatures \/ (s = offer /\ verified)
  BY <1>1
<1>8. DeviceInv'
  <2>1. \A s : Verified(s) => Verified(s)'
    BY <1>1 DEF Verified
  <2>2. \A s \in signatures' : s \in Accepted \/ Verified(s)'
    BY <1>2, <1>6, <1>7, <2>1 DEF DeviceInv
  <2>3. signatures' \subseteq Offers
    BY <1>2, <1>5, <1>7 DEF DeviceInv
  <2>4. DOMAIN asked' = Device
        /\ \A d \in Device : asked'[d] # Unset => asked'[d] = asked[d]
    BY <1>1, <1>2 DEF DeviceInv
  <2>5. \A d \in Device : asked'[d] # Unset => AnswerInv(asked[d])' /\ asked'[d].offer.device = d
    <3>1. \A d \in Device : asked[d] # Unset => AnswerInv(asked[d]) /\ asked[d].offer.device = d
      BY <1>2 DEF DeviceInv
    <3> QED
      BY <1>1, <2>4, <3>1 DEF AnswerInv
  <2> QED
    BY <2>2, <2>3, <2>4, <2>5 DEF DeviceInv
<1> QED
  BY <1>3, <1>8 DEF IInv

\* Proposals keep their messages, and an index that was used is not used again.
LEMMA LandKeeps ==
    ASSUME IInv, NEW tx \in Bundles, Land(tx)
    PROVE  IInv'
<1> DEFINE c == Run(tx)
           n == Len(tx.instructions)
<1>1. /\ Signed(tx) /\ ~c.failed
      /\ transaction_index' = c.transaction_index /\ proposals' = c.proposals /\ paid' = c.paid
      /\ funds' = c.funds /\ asked' = asked /\ signatures' = signatures
  BY DEF Land, Signed
<1>2. Sound(c, tx, n) /\ c # Failed
  <2>1. Failed.failed = TRUE
    BY DEF Failed
  <2> HIDE DEF c
  <2>2. c # Failed
    BY <1>1, <2>1
  <2> QED
    BY <1>1, <2>2, RunIsSound DEF c
<1> HIDE DEF c, n
<1>3. /\ LedgerInv(c) /\ c \in Chain /\ c.failed = FALSE /\ c.transaction_index \in Nat
      /\ transaction_index <= c.transaction_index
      /\ \A i \in 1..MaxIndex : c.proposals[i] # Unset => Origin(i, c.proposals[i].message, tx)
  BY <1>2, SoundFacts DEF Sound
<1>4. transaction_index \in Nat
  BY PresentFacts
<1>5. LedgerInv(Present)'
  <2>1. Present' = c
    <3>1. Present' = [transaction_index |-> c.transaction_index, proposals |-> c.proposals,
                      paid |-> c.paid, funds |-> c.funds, failed |-> c.failed]
      BY <1>1, <1>3 DEF Present
    <3>2. c = [transaction_index |-> c.transaction_index, proposals |-> c.proposals,
               paid |-> c.paid, funds |-> c.funds, failed |-> c.failed]
      BY <1>3 DEF Chain
    <3> QED
      BY <3>1, <3>2
  <2> QED
    BY <1>1, <1>3, <2>1, LedgerLater
\* What was there keeps its message.
<1>6. ASSUME NEW i \in 1..transaction_index, i \in 1..MaxIndex, proposals'[i] # Unset
      PROVE  proposals[i] # Unset /\ proposals'[i].message = proposals[i].message
  <2>1. ~(i > transaction_index)
    BY <1>4
  <2> QED
    BY <1>1, <1>3, <1>6, <2>1 DEF Origin
<1>7. 1..transaction_index \subseteq 1..transaction_index' /\ 1..transaction_index \subseteq 1..MaxIndex
  BY <1>1, <1>3, <1>4, PresentFacts
<1>8. DeviceInv
  BY DEF IInv
<1>9. ASSUME NEW s, Verified(s)
      PROVE  Verified(s)'
  <2>1. PICK i \in 1..transaction_index :
          /\ TargetOf(s.tx) = Pda(i)
          /\ proposals[i] # Unset => PaysWhatIsShown(proposals[i].message, s.payload)
    BY <1>9 DEF Verified
  <2>2. proposals'[i] # Unset => PaysWhatIsShown(proposals'[i].message, s.payload)
    BY <1>6, <1>7, <2>1
  <2> QED
    BY <1>7, <1>9, <2>1, <2>2 DEF Verified
<1>10. ASSUME NEW d \in Device, asked[d] # Unset
       PROVE  AnswerInv(asked[d])' /\ asked[d].offer.device = d
  <2>1. AnswerInv(asked[d]) /\ asked[d].offer.device = d
    BY <1>8, <1>10 DEF DeviceInv
  <2> DEFINE j == asked[d].account.transactionIndex
  <2>2. asked[d].account # Unset =>
           /\ asked[d].account \in Proposal /\ j \in 1..transaction_index
           /\ proposals[j] # Unset => proposals[j].message = asked[d].account.message
    BY <2>1 DEF AnswerInv
  <2>3. asked[d].account # Unset /\ proposals'[j] # Unset =>
           proposals'[j].message = asked[d].account.message
    BY <1>6, <1>7, <2>2
  <2> QED
    BY <1>1, <1>7, <2>1, <2>2, <2>3 DEF AnswerInv
<1>11. DeviceInv'
  BY <1>1, <1>8, <1>9, <1>10 DEF DeviceInv
<1> QED
  BY <1>5, <1>11 DEF IInv

\* What the vault has does not matter to the invariant.
LEMMA FundsKeep ==
    ASSUME IInv, funds' \in Funds,
           UNCHANGED <<transaction_index, proposals, paid, asked, signatures>>
    PROVE  IInv'
<1>1. LedgerInv(Present) /\ DeviceInv
  BY DEF IInv
<1>2. Present' \in Chain
  <2>1. /\ transaction_index \in 0..MaxIndex
        /\ proposals \in [1..MaxIndex -> Proposal \cup {Unset}]
        /\ paid \in [1..MaxIndex -> Receipt \cup {Unset}]
    BY PresentFacts
  <2> QED
    BY <2>1 DEF Present, Chain
<1>3. ASSUME NEW i \in 1..MaxIndex
      PROVE  IndexInv(Present, i)'
  <2>1. IndexInv(Present, i)
    BY <1>1 DEF LedgerInv
  <2>2. /\ Present.transaction_index = transaction_index /\ Present.proposals = proposals
        /\ Present.paid = paid
        /\ Present'.transaction_index = transaction_index /\ Present'.proposals = proposals
        /\ Present'.paid = paid
    BY DEF Present
  <2> QED
    BY <2>1, <2>2 DEF IndexInv, Approved
<1>4. LedgerInv(Present)'
  BY <1>2, <1>3 DEF LedgerInv
<1>5. \A s : Verified(s) => Verified(s)'
  BY DEF Verified
<1>6. \A d \in Device : asked'[d] # Unset => AnswerInv(asked[d])' /\ asked'[d].offer.device = d
  BY <1>1 DEF DeviceInv, AnswerInv
<1>7. DeviceInv'
  BY <1>1, <1>5, <1>6 DEF DeviceInv
<1> QED
  BY <1>4, <1>7 DEF IInv

\* Every step keeps the invariant.
LEMMA NextKeeps == IInv /\ [Next]_vars => IInv'
<1> SUFFICES ASSUME IInv, [Next]_vars
             PROVE  IInv'
  OBVIOUS
<1>1. ASSUME NEW offer \in Accepted, SignBundle(offer)
      PROVE  IInv'
  BY <1>1, SignKeeps
<1>2. ASSUME NEW offer \in ApproveOnly, FetchProposal(offer)
      PROVE  IInv'
  BY <1>2, FetchKeeps
<1>3. ASSUME NEW device \in Device, Decide(device)
      PROVE  IInv'
  BY <1>3, DecideKeeps
<1>4. ASSUME NEW tx \in Bundles, Land(tx)
      PROVE  IInv'
  BY <1>4, LandKeeps
<1>5. funds \in Funds
  <2>1. Present \in Chain /\ Present.funds = funds
    BY DEF IInv, LedgerInv, Present
  <2> QED
    BY <2>1, ChainFacts
<1>6. funds.lamports \in Nat /\ funds.tokens \in [TokenAccount -> Nat \cup {Unset}]
  BY <1>5, FundsFacts
<1>7. ASSUME NEW amount \in Deposits, Deposit(amount)
      PROVE  IInv'
  <2>1. amount \in Nat /\ funds' = [funds EXCEPT !.lamports = @ + amount]
    BY <1>7, BundleAssumption DEF Deposit
  <2> DEFINE n == funds.lamports + amount
  <2>2. n \in Nat
    BY <1>6, <2>1
  <2> HIDE DEF n
  <2>3. funds' = [funds EXCEPT !.lamports = n]
    BY <2>1 DEF n
  <2>4. funds' \in Funds
    BY <1>5, <2>2, <2>3 DEF Funds
  <2> QED
    BY <1>7, <2>4, FundsKeep DEF Deposit
<1>8. ASSUME NEW mint \in DOMAIN Decimals, NEW amount \in Deposits, DepositTokens(mint, amount)
      PROVE  IInv'
  <2> DEFINE a == AtaOf(Vault, mint)
             t == [funds.tokens EXCEPT ![a] = amount]
  <2>1. amount \in Nat /\ a \in TokenAccount
    BY BundleAssumption, TokenAccountsAre
  <2>2. funds' = [funds EXCEPT !.tokens = t]
    BY <1>5, <1>8 DEF DepositTokens, Funds
  <2> HIDE DEF a
  <2>3. t \in [TokenAccount -> Nat \cup {Unset}]
    BY <1>6, <2>1
  <2> HIDE DEF t
  <2>4. funds' \in Funds
    BY <1>5, <2>2, <2>3 DEF Funds
  <2> QED
    BY <1>8, <2>4, FundsKeep DEF DepositTokens
<1>9. ASSUME UNCHANGED vars
      PROVE  IInv'
  BY <1>5, <1>9, FundsKeep DEF vars
<1> QED
  BY <1>1, <1>2, <1>3, <1>4, <1>7, <1>8, <1>9 DEF Next

-----------------------------------------------------------------------------
(***************************************************************************)
(* What holds of the specification.                                        *)
(***************************************************************************)

\* The invariant: what every member that approved was shown, what the devices
\* wait for, and what the program keeps, whatever the relay displays, mixes or
\* withholds, and whenever transactions land (decoder.ts:1519, 1668).
THEOREM BundleInvariant == Spec => []IInv
<1>1. Init => IInv
  BY Initially
<1>2. IInv /\ [Next]_vars => IInv'
  BY NextKeeps
<1> QED
  BY <1>1, <1>2, PTL DEF Spec

\* The invariant contains the types.
LEMMA TypesFollow == IInv => TypeOK
<1> SUFFICES ASSUME IInv
             PROVE  TypeOK
  OBVIOUS
<1>1. transaction_index \in 0..MaxIndex
  BY PresentFacts
<1>2. ASSUME NEW i \in 1..MaxIndex
      PROVE  /\ proposals[i] # Unset \/ paid[i] # Unset => i <= transaction_index
             /\ proposals[i] # Unset =>
                   /\ proposals[i].transactionIndex = i
                   /\ ToSet(proposals[i].approvals) \subseteq Device
                   /\ IsInjective(proposals[i].approvals)
  <2>1. IndexInv(Present, i)
    BY DEF IInv, LedgerInv
  <2>2. /\ proposals[i] # Unset \/ paid[i] # Unset => i <= transaction_index
        /\ proposals[i] # Unset =>
              proposals[i].transactionIndex = i /\ IsInjective(proposals[i].approvals)
    BY <2>1 DEF IndexInv, Present, Approved, ApprovedBy
  <2>3. proposals[i] # Unset => proposals[i].approvals \in Seq(Device)
    <3>1. proposals[i] # Unset => proposals[i] \in Proposal
      BY PresentFacts
    <3> QED
      BY <3>1 DEF Proposal
  <2>4. proposals[i] # Unset => ToSet(proposals[i].approvals) \subseteq Device
    <3> SUFFICES ASSUME NEW a, a \in Seq(Device)
                 PROVE  ToSet(a) \subseteq Device
      BY <2>3
    <3> QED
      BY DEF ToSet
  <2> QED
    BY <2>2, <2>4
<1>3. \A d \in Device : asked[d] # Unset => asked[d].offer \in ApproveOnly
  BY DEF IInv, DeviceInv, AnswerInv
<1>4. signatures \subseteq Offers
  BY DEF IInv, DeviceInv
<1> QED
  BY <1>1, <1>2, <1>3, <1>4 DEF TypeOK

\* Proposals are of indexes used so far, approved by distinct members.
THEOREM BundleTypes == Spec => []TypeOK
BY BundleInvariant, TypesFollow, PTL

\* The invariant says what PaidAsShown does, by a count of the approvals.
LEMMA PaidFollows == IInv => PaidAsShown
<1> SUFFICES ASSUME IInv, NEW i \in 1..MaxIndex, paid[i] # Unset
             PROVE  /\ Cardinality(ToSet(paid[i].approvals)) >= Threshold
                    /\ \A member \in ToSet(paid[i].approvals) :
                          ShownBy(signatures, member, i, paid[i].message)
  BY DEF PaidAsShown, ShownBy
<1>1. /\ Len(paid[i].approvals) >= Threshold /\ IsInjective(paid[i].approvals)
      /\ \A member \in ToSet(paid[i].approvals) :
            ShownBy(signatures, member, i, paid[i].message)
  <2>1. IndexInv(Present, i)
    BY DEF IInv, LedgerInv
  <2> QED
    BY <2>1 DEF IndexInv, Present, Approved, ApprovedBy
<1>2. paid[i].approvals \in Seq(Device)
  <2>1. paid[i] \in Receipt
    BY PresentFacts
  <2> QED
    BY <2>1 DEF Receipt
<1>3. Cardinality(ToSet(paid[i].approvals)) = Len(paid[i].approvals)
  BY <1>1, <1>2, DistinctElements
<1> QED
  BY <1>1, <1>3

\* Every execution takes from the vault what each member that approved it was
\* shown for that very proposal (decoder.ts:1519).
THEOREM PaidTheorem == Spec => []PaidAsShown
BY BundleInvariant, PaidFollows, PTL

\* Both gates make one comparison, of the one message.
LEMMA SplitFollows == IInv => SplitVerifies
<1> SUFFICES ASSUME IInv, NEW s \in signatures, NEW i \in 1..MaxIndex,
                    proposals[i] # Unset, ~proposals[i].executed, s \in Accepted,
                    NEW ix \in ToSet(s.tx.instructions), ix.data.op = "create_transaction",
                    ix.data.message = proposals[i].message,
                    NEW o \in ApproveOnly, o.payload = s.payload, TargetOf(o.tx) = Pda(i)
             PROVE  verifyApproveOnlyTransaction(o.tx, proposals[i], o.payload, o.device, Options)
  BY DEF SplitVerifies, TargetOf
<1>1. /\ Creating(s.tx) /\ FlowsAgree(s.tx.instructions[2].data.message, s.payload)
  BY AcceptedFacts
<1>2. ix = s.tx.instructions[2]
  <2>1. /\ s.tx.instructions \in Seq(ToSet(s.tx.instructions)) /\ Len(s.tx.instructions) >= 2
        /\ IsAdvance(s.tx.instructions[1])
        /\ \A n \in 3..Len(s.tx.instructions) :
              IsApprove(s.tx.instructions[n]) \/ IsSettlement(s.tx.instructions[n])
    BY <1>1 DEF Creating
  <2>2. PICK n \in 1..Len(s.tx.instructions) : ix = s.tx.instructions[n]
    <3>1. PICK n \in DOMAIN s.tx.instructions : ix = s.tx.instructions[n]
      BY ix \in ToSet(s.tx.instructions) DEF ToSet
    <3>2. DOMAIN s.tx.instructions = 1..Len(s.tx.instructions)
      BY <2>1
    <3> QED
      BY <3>1, <3>2
  <2>3. n = 1 \/ n = 2 \/ n \in 3..Len(s.tx.instructions)
    BY <2>1
  <2>4. n # 1
    BY <2>1, <2>2 DEF IsAdvance
  <2>5. n \notin 3..Len(s.tx.instructions)
    BY <2>1, <2>2 DEF IsApprove, IsSettlement
  <2> QED
    BY <2>2, <2>3, <2>4, <2>5
<1>3. FlowsAgree(proposals[i].message, o.payload)
  BY <1>1, <1>2
<1>4. proposals[i] \in Proposal
  BY PresentFacts
<1>5. proposals[i].transactionIndex = i
  <2>1. IndexInv(Present, i)
    BY DEF IInv, LedgerInv
  <2> QED
    BY <2>1 DEF IndexInv, Present
<1> QED
  BY <1>3, <1>4, <1>5, ApproveGate

\* What the creator's device accepted in the bytes, the other device accepts
\* from the account: the two decoders agree (decoder.ts:1312).
THEOREM SplitTheorem == Spec => []SplitVerifies
BY BundleInvariant, SplitFollows, PTL

-----------------------------------------------------------------------------
(***************************************************************************)
(* Honest bundles: what the gates read from the messages of a send.        *)
(***************************************************************************)

\* A message pays one recipient and reimburses the paymaster with a fee.
ReadsAs(m, r, fee) ==
    /\ m.account_keys # <<>> /\ m.account_keys[1] = Vault
    /\ Read(m).recipients = <<r>> /\ Read(m).feeLamports = fee
    /\ Read(m).unknownInnerInstructionCount = 0

\* A payment, a reimbursement and perhaps a memo are read as that.
LEMMA PaymentAndFee ==
    ASSUME NEW m, m.account_keys # <<>>, m.account_keys[1] = Vault,
           m.address_table_lookups = <<>>,
           NEW V, m.instructions \in Seq(V), Len(m.instructions) \in {2, 3},
           NEW inner, inner = InnerMessage(0, m),
           \/ IsTokenTransfer(inner, m.instructions[1])
           \/ /\ IsNativeTransfer(inner, m.instructions[1])
              /\ Arg(inner, m.instructions[1], 2) # Paymaster,
           IsNativeTransfer(inner, m.instructions[2]),
           Arg(inner, m.instructions[2], 2) = Paymaster,
           m.instructions[2].data.amount \in Nat,
           Len(m.instructions) = 3 => IsMemo(inner, m.instructions[3], TRUE)
    PROVE  ReadsAs(m, Recipient(inner, m.instructions[1]), m.instructions[2].data.amount)
<1> DEFINE ixs == m.instructions
           Fee(x) == IsReimbursement(inner, x, Paymaster)
           Payment(x) == IsTokenTransfer(inner, x) \/ (IsNativeTransfer(inner, x) /\ ~Fee(x))
           Memo(x) == IsMemo(inner, x, TRUE)
           Unknown(x) == ~Fee(x) /\ ~Payment(x) /\ ~Memo(x)
           Fees == { n \in DOMAIN ixs : Fee(ixs[n]) }
           Pays == { n \in DOMAIN ixs : Payment(ixs[n]) }
           Unknowns == { n \in DOMAIN ixs : Unknown(ixs[n]) }
<1>1. /\ inner.accountKeys = m.account_keys /\ inner.instructions = ixs
      /\ inner.addressTableLookupCount = 0
  BY DEF InnerMessage
<1>2. /\ Paymaster # Unset
      /\ SYSTEM_PROGRAM \notin {TOKEN_PROGRAM_ID, TOKEN_2022_PROGRAM_ID, MEMO_PROGRAM_ID}
      /\ MEMO_PROGRAM_ID \notin {TOKEN_PROGRAM_ID, TOKEN_2022_PROGRAM_ID}
  BY BundleAssumption DEF IsInjective
<1>3. \A x : IsNativeTransfer(inner, x) => ~IsTokenTransfer(inner, x) /\ ~Memo(x)
  BY <1>2 DEF IsNativeTransfer, IsTokenTransfer, IsMemo
<1>4. \A x : Memo(x) => ~IsNativeTransfer(inner, x) /\ ~IsTokenTransfer(inner, x)
  BY <1>2 DEF IsNativeTransfer, IsTokenTransfer, IsMemo
<1>5. \A x : Fee(x) <=> IsNativeTransfer(inner, x) /\ Arg(inner, x, 2) = Paymaster
  BY <1>2 DEF IsReimbursement
<1>6. Payment(ixs[1]) /\ ~Fee(ixs[1])
  BY <1>3, <1>5
<1>7. Fee(ixs[2]) /\ ~Payment(ixs[2])
  BY <1>3, <1>5
<1>8. Len(ixs) = 3 => Memo(ixs[3]) /\ ~Fee(ixs[3]) /\ ~Payment(ixs[3])
  BY <1>4, <1>5
<1> HIDE DEF Fee, Payment, Memo
<1>9. /\ DOMAIN ixs = 1..Len(ixs)
      /\ \A n \in DOMAIN ixs : n = 1 \/ n = 2 \/ (n = 3 /\ Len(ixs) = 3)
      /\ 1 \in DOMAIN ixs /\ 2 \in DOMAIN ixs
  OBVIOUS
<1>10. Fees = {2} /\ Pays = {1} /\ Unknowns = {}
  BY <1>6, <1>7, <1>8, <1>9
<1> HIDE DEF ixs
<1>11. /\ Pick(ixs, {2}) = <<ixs[2]>> /\ Pick(ixs, {1}) = <<ixs[1]>>
       /\ Pick(ixs, {}) = <<>>
  <2>1. ixs \in Seq(V) /\ {1} \in SUBSET DOMAIN ixs /\ {2} \in SUBSET DOMAIN ixs
        /\ {} \in SUBSET DOMAIN ixs
    BY <1>9 DEF ixs
  <2> QED
    BY <2>1, PickedFew
<1>12. Read(m).feeLamports = Lamports(Pick(ixs, Fees))
  BY <1>1 DEF Read, classifyInnerMessage, Filter, Fee
<1> DEFINE payments == Pick(ixs, Pays)
<1>13. Read(m).recipients = [n \in DOMAIN payments |-> Recipient(inner, payments[n])]
  BY <1>1 DEF Read, classifyInnerMessage, Filter, Fee, Payment
<1>14. Read(m).unknownInnerInstructionCount = 0 + Len(Pick(ixs, Unknowns))
  BY <1>1 DEF Read, classifyInnerMessage, Filter, Fee, Payment, Memo
<1> HIDE DEF Fees, Pays, Unknowns
<1>15. Read(m).feeLamports = ixs[2].data.amount
  BY <1>10, <1>11, <1>12, LamportsOfOne DEF ixs
<1>16. Read(m).recipients = <<Recipient(inner, ixs[1])>>
  <2>1. payments = <<ixs[1]>>
    BY <1>10, <1>11
  <2> HIDE DEF payments
  <2>2. DOMAIN payments = {1} /\ payments[1] = ixs[1]
    BY <2>1
  <2>3. Read(m).recipients = [n \in {1} |-> Recipient(inner, ixs[1])]
    BY <1>13, <2>2
  <2> DEFINE r == Recipient(inner, ixs[1])
  <2>4. [n \in {1} |-> r] = <<r>>
    <3> HIDE DEF r
    <3> QED
      OBVIOUS
  <2> QED
    BY <2>3, <2>4
<1>17. Read(m).unknownInnerInstructionCount = 0
  <2>1. Len(<<>>) = 0
    OBVIOUS
  <2> QED
    BY <1>10, <1>11, <1>14, <2>1
<1> QED
  BY <1>15, <1>16, <1>17 DEF ReadsAs, ixs

\* A transfer out of the vault as the builders write it, to the account at an
\* index ...
VaultTransfer(program, to, amount) ==
    [program_id_index |-> program, account_indexes |-> <<0, to>>,
     data |-> SystemTransfer(amount)]

\* ... is read as one.
LEMMA NativeIs ==
    ASSUME NEW m, Len(m.account_keys) \in Nat, NEW p \in Nat, NEW to \in Nat, NEW amount,
           0 < Len(m.account_keys), p < Len(m.account_keys), to < Len(m.account_keys),
           m.account_keys[p + 1] = SYSTEM_PROGRAM
    PROVE  /\ IsNativeTransfer(InnerMessage(0, m), VaultTransfer(p, to, amount))
           /\ Arg(InnerMessage(0, m), VaultTransfer(p, to, amount), 2) = m.account_keys[to + 1]
           /\ VaultTransfer(p, to, amount).data.amount = amount
<1> DEFINE ix == VaultTransfer(p, to, amount)
           inner == InnerMessage(0, m)
<1>1. inner.accountKeys = m.account_keys
  BY DEF InnerMessage
<1>2. /\ ix.program_id_index = p /\ ix.account_indexes = <<0, to>>
      /\ ix.data.tag = 2 /\ ix.data.len = 12 /\ ix.data.amount = amount
  BY DEF VaultTransfer, SystemTransfer, Payload
<1>3. ix.account_indexes[1] = 0 /\ ix.account_indexes[2] = to /\ Len(ix.account_indexes) = 2
  BY <1>2
<1> HIDE DEF ix, inner
<1>4. Arg(inner, ix, 1) = m.account_keys[1] /\ Arg(inner, ix, 2) = m.account_keys[to + 1]
  BY <1>1, <1>3 DEF Arg, Key
<1>5. ArgResolves(inner, ix, 1) /\ ArgResolves(inner, ix, 2)
  BY <1>1, <1>3 DEF ArgResolves, Resolves
<1>6. Resolves(inner, ix.program_id_index) /\ Program(inner, ix) = SYSTEM_PROGRAM
  BY <1>1, <1>2 DEF Resolves, Program, Key
<1>7. IsNativeTransfer(inner, ix)
  BY <1>1, <1>2, <1>3, <1>4, <1>5, <1>6 DEF IsNativeTransfer
<1> QED
  BY <1>2, <1>4, <1>7 DEF ix, inner

\* A memo that is text is read as one.
LEMMA MemoIs ==
    ASSUME NEW m, NEW inner, inner = InnerMessage(0, m),
           NEW p \in Nat, NEW text, decodeUtf8Strict(text), NEW ix,
           ix = [program_id_index |-> p, account_indexes |-> <<>>, data |-> text],
           p < Len(m.account_keys), m.account_keys[p + 1] = MEMO_PROGRAM_ID
    PROVE  IsMemo(inner, ix, TRUE)
BY DEF InnerMessage, IsMemo, Resolves, Program, Key

\* The accounts and the instructions of a payment in lamports.
LEMMA SolBuilt ==
    ASSUME NEW s \in SendType, NEW m, m = SolMessage(s)
    PROVE  /\ Len(m.account_keys) \in {4, 5} /\ DOMAIN m.account_keys = 1..Len(m.account_keys)
           /\ m.account_keys[1] = VaultOf(s) /\ m.account_keys[2] = s.recipient
           /\ m.account_keys[3] = s.paymaster /\ m.account_keys[3 + 1] = SYSTEM_PROGRAM
           /\ m.account_keys # <<>>
           /\ Len(m.instructions) \in {2, 3}
           /\ m.instructions[1] = VaultTransfer(3, 1, s.amount)
           /\ m.instructions[2] = VaultTransfer(3, 2, s.fee)
           /\ Len(m.instructions) = 3 =>
                /\ m.instructions[3] =
                     [program_id_index |-> 4, account_indexes |-> <<>>, data |-> s.memo]
                /\ Len(m.account_keys) = 5 /\ m.account_keys[4 + 1] = MEMO_PROGRAM_ID
           /\ \A V : /\ VaultTransfer(3, 1, s.amount) \in V /\ VaultTransfer(3, 2, s.fee) \in V
                     /\ [program_id_index |-> 4, account_indexes |-> <<>>, data |-> s.memo] \in V
                     => m.instructions \in Seq(V)
<1> DEFINE v == VaultOf(s)
           pay == VaultTransfer(3, 1, s.amount)
           fee == VaultTransfer(3, 2, s.fee)
           memo == [program_id_index |-> 4, account_indexes |-> <<>>, data |-> s.memo]
           keys == <<v, s.recipient, s.paymaster, SYSTEM_PROGRAM>>
           ixs == m.instructions
<1>1. /\ Len(m.account_keys) \in {4, 5} /\ DOMAIN m.account_keys = 1..Len(m.account_keys)
      /\ m.account_keys[1] = v /\ m.account_keys[2] = s.recipient
      /\ m.account_keys[3] = s.paymaster /\ m.account_keys[4] = SYSTEM_PROGRAM
      /\ m.account_keys # <<>>
      /\ \/ ixs = <<pay, fee>>
         \/ ixs = <<pay, fee, memo>> /\ Len(m.account_keys) = 5
              /\ m.account_keys[5] = MEMO_PROGRAM_ID
  <2>1. CASE s.memo = NoMemo
    <3>1. m.account_keys = keys \o <<>> /\ ixs = <<pay, fee>> \o <<>>
      BY <2>1 DEF SolMessage, buildInnerSolMessage, VaultTransfer
    <3> HIDE DEF pay, fee, memo, v, ixs
    <3>2. m.account_keys = keys /\ ixs = <<pay, fee>>
      BY <3>1
    <3> QED
      BY <3>2
  <2>2. CASE s.memo # NoMemo
    <3>1. m.account_keys = keys \o <<MEMO_PROGRAM_ID>> /\ ixs = <<pay, fee>> \o <<memo>>
      BY <2>2 DEF SolMessage, buildInnerSolMessage, VaultTransfer
    <3> HIDE DEF pay, fee, memo, v, ixs
    <3>2. m.account_keys = <<v, s.recipient, s.paymaster, SYSTEM_PROGRAM, MEMO_PROGRAM_ID>>
      BY <3>1, FourAndOne
    <3>3. ixs = <<pay, fee, memo>>
      BY <3>1, TwoAndOne
    <3> QED
      BY <3>2, <3>3
  <2> QED
    BY <2>1, <2>2
<1> HIDE DEF pay, fee, memo, v, ixs, keys
<1>2. /\ Len(ixs) \in {2, 3} /\ ixs[1] = pay /\ ixs[2] = fee
      /\ Len(ixs) = 3 => /\ ixs[3] = memo
                         /\ Len(m.account_keys) = 5 /\ m.account_keys[5] = MEMO_PROGRAM_ID
  BY <1>1
<1>3. ASSUME NEW V, pay \in V, fee \in V, memo \in V
      PROVE  ixs \in Seq(V)
  <2>1. <<pay, fee>> \in Seq(V) /\ <<pay, fee, memo>> \in Seq(V)
    BY <1>3
  <2> QED
    BY <1>1, <2>1
<1> QED
  BY <1>1, <1>2, <1>3 DEF pay, fee, memo, v, ixs

\* What a send pays in lamports is read as that.
LEMMA SolReads ==
    ASSUME NEW s \in SendType, NEW m, m = SolMessage(s), CanBeMade(s, m)
    PROVE  ReadsAs(m, NativeRecipient(s.recipient, s.amount), s.fee)
<1> DEFINE v == VaultOf(s)
           pay == VaultTransfer(3, 1, s.amount)
           fee == VaultTransfer(3, 2, s.fee)
           memo == [program_id_index |-> 4, account_indexes |-> <<>>, data |-> s.memo]
           keys == <<v, s.recipient, s.paymaster, SYSTEM_PROGRAM>>
           ixs == m.instructions
           inner == InnerMessage(0, m)
           V == {pay, fee, memo}
<1>1. v = Vault /\ s.paymaster = Paymaster /\ s.fee \in Nat
  BY DEF VaultOf, Vault, deriveVaultAddress, deriveVaultPda, SendType
<1>2. m.address_table_lookups = <<>>
  BY DEF SolMessage, buildInnerSolMessage, VaultTransfer
<1>3. /\ Len(m.account_keys) \in {4, 5} /\ DOMAIN m.account_keys = 1..Len(m.account_keys)
      /\ m.account_keys[1] = v /\ m.account_keys[2] = s.recipient
      /\ m.account_keys[3] = s.paymaster /\ m.account_keys[4] = SYSTEM_PROGRAM
      /\ m.account_keys # <<>>
      /\ ixs \in Seq(V) /\ Len(ixs) \in {2, 3} /\ ixs[1] = pay /\ ixs[2] = fee
      /\ Len(ixs) = 3 => /\ ixs[3] = memo
                         /\ Len(m.account_keys) = 5 /\ m.account_keys[5] = MEMO_PROGRAM_ID
  BY SolBuilt
<1>4. m.account_keys[2] # m.account_keys[3]
  <2>1. IsInjective(m.account_keys)
    BY DEF CanBeMade, ValidMessage, NoDuplicateKeys
  <2>2. 2 \in DOMAIN m.account_keys /\ 3 \in DOMAIN m.account_keys
    BY <1>3
  <2> QED
    BY <2>1, <2>2 DEF IsInjective
<1>5. /\ Len(m.account_keys) \in Nat /\ 0 < Len(m.account_keys) /\ 1 < Len(m.account_keys)
      /\ 2 < Len(m.account_keys) /\ 3 < Len(m.account_keys)
      /\ m.account_keys[3 + 1] = SYSTEM_PROGRAM
      /\ m.account_keys[1 + 1] = s.recipient /\ m.account_keys[2 + 1] = Paymaster
      /\ Len(ixs) = 3 => 4 < Len(m.account_keys) /\ m.account_keys[4 + 1] = MEMO_PROGRAM_ID
  BY <1>1, <1>3
<1>6. /\ IsNativeTransfer(inner, pay) /\ Arg(inner, pay, 2) = s.recipient
      /\ pay.data.amount = s.amount
      /\ IsNativeTransfer(inner, fee) /\ Arg(inner, fee, 2) = Paymaster
      /\ fee.data.amount = s.fee
  BY <1>5, NativeIs
<1>7. Len(ixs) = 3 => IsMemo(inner, memo, TRUE)
  BY <1>5, MemoIs DEF CanBeMade
<1> HIDE DEF pay, fee, memo, inner, v, V
<1>8. Recipient(inner, pay) = NativeRecipient(s.recipient, s.amount)
  BY <1>6 DEF Recipient
<1>9. ReadsAs(m, Recipient(inner, ixs[1]), ixs[2].data.amount)
  BY <1>1, <1>2, <1>3, <1>4, <1>6, <1>7, PaymentAndFee DEF inner
<1> QED
  BY <1>3, <1>6, <1>8, <1>9

TokenSend == [send : SendType, mint : Address, decimals : Nat]

\* The account that holds the recipient's tokens.
PaidAta(t) == AtaOf(t.send.recipient, t.mint)

\* What a send pays in tokens is read as that.
LEMMA TokenReads ==
    ASSUME NEW t \in TokenSend, NEW m, m = TokenMessage(t), CanBeMade(t.send, m)
    PROVE  ReadsAs(m, SplRecipient(PaidAta(t), t.send.amount, t.mint, t.decimals, TOKEN_PROGRAM_ID),
                   t.send.fee)
<1> DEFINE s == t.send
           vaultAta == AtaOf(Vault, t.mint)
           pay == [program_id_index |-> 5, account_indexes |-> <<1, 4, 2, 0>>,
                   data |-> TransferChecked(s.amount, t.decimals)]
           fee == VaultTransfer(6, 3, s.fee)
           memo == [program_id_index |-> 7, account_indexes |-> <<>>, data |-> s.memo]
           keys == <<Vault, vaultAta, PaidAta(t), Paymaster, t.mint, TOKEN_PROGRAM_ID,
                     SYSTEM_PROGRAM, MEMO_PROGRAM_ID>>
           inner == InnerMessage(0, m)
<1>1. s.fee \in Nat
  BY DEF TokenSend, SendType
<1>2. /\ m.address_table_lookups = <<>> /\ m.account_keys = keys
      /\ m.instructions = <<pay, fee, memo>>
  BY DEF TokenMessage, buildInnerSplMessage, VaultTransfer, PaidAta
<1>3. /\ Len(m.account_keys) = 8 /\ m.account_keys # <<>> /\ m.account_keys[1] = Vault
      /\ m.account_keys[2 + 1] = PaidAta(t) /\ m.account_keys[3 + 1] = Paymaster
      /\ m.account_keys[4 + 1] = t.mint /\ m.account_keys[5 + 1] = TOKEN_PROGRAM_ID
      /\ m.account_keys[6 + 1] = SYSTEM_PROGRAM /\ m.account_keys[7 + 1] = MEMO_PROGRAM_ID
  <2> HIDE DEF pay, fee, memo, vaultAta
  <2> QED
    BY <1>2
<1>4. /\ IsNativeTransfer(inner, fee) /\ Arg(inner, fee, 2) = Paymaster
      /\ fee.data.amount = s.fee
  <2>1. /\ Len(m.account_keys) \in Nat /\ 0 < Len(m.account_keys)
        /\ 6 < Len(m.account_keys) /\ 3 < Len(m.account_keys)
        /\ m.account_keys[6 + 1] = SYSTEM_PROGRAM /\ m.account_keys[3 + 1] = Paymaster
    BY <1>3
  <2> DEFINE amount == t.send.fee
  <2> HIDE DEF amount
  <2>2. LET ix == VaultTransfer(6, 3, amount) IN
        /\ IsNativeTransfer(InnerMessage(0, m), ix)
        /\ Arg(InnerMessage(0, m), ix, 2) = m.account_keys[3 + 1]
        /\ ix.data.amount = amount
    BY <2>1, NativeIs
  <2> QED
    BY <2>1, <2>2 DEF amount
<1>5. IsMemo(inner, memo, TRUE)
  <2>1. 7 < Len(m.account_keys) /\ m.account_keys[7 + 1] = MEMO_PROGRAM_ID
    BY <1>3
  <2> QED
    BY <2>1, MemoIs DEF CanBeMade
<1>6. /\ pay.program_id_index = 5 /\ Len(pay.account_indexes) = 4
      /\ pay.account_indexes[2] = 4 /\ pay.account_indexes[3] = 2 /\ pay.account_indexes[4] = 0
      /\ pay.data.tag = 12 /\ pay.data.len = 10 /\ pay.data.amount = s.amount
      /\ pay.data.decimals = t.decimals
  BY DEF TransferChecked, Payload
<1>7. inner.accountKeys = m.account_keys
  BY DEF InnerMessage
<1> HIDE DEF pay, fee, memo, inner, s
<1>8. /\ Program(inner, pay) = TOKEN_PROGRAM_ID /\ Resolves(inner, pay.program_id_index)
      /\ \A n \in 2..4 : ArgResolves(inner, pay, n)
      /\ Arg(inner, pay, 2) = t.mint /\ Arg(inner, pay, 3) = PaidAta(t)
      /\ Arg(inner, pay, 4) = Vault
  <2>1. /\ Key(inner, 0) = Vault /\ Key(inner, 2) = PaidAta(t)
        /\ Key(inner, 4) = t.mint /\ Key(inner, 5) = TOKEN_PROGRAM_ID
    BY <1>3, <1>7 DEF Key
  <2>2. Resolves(inner, 0) /\ Resolves(inner, 2) /\ Resolves(inner, 4) /\ Resolves(inner, 5)
    BY <1>3, <1>7 DEF Resolves
  <2>3. Program(inner, pay) = TOKEN_PROGRAM_ID /\ Resolves(inner, pay.program_id_index)
    BY <1>6, <2>1, <2>2 DEF Program
  <2>4. /\ ArgResolves(inner, pay, 2) /\ ArgResolves(inner, pay, 3)
        /\ ArgResolves(inner, pay, 4)
    BY <1>6, <2>2 DEF ArgResolves
  <2>5. /\ Arg(inner, pay, 2) = t.mint /\ Arg(inner, pay, 3) = PaidAta(t)
        /\ Arg(inner, pay, 4) = Vault
    BY <1>6, <2>1 DEF Arg
  <2>6. 2..4 = {2, 3, 4}
    OBVIOUS
  <2> QED
    BY <2>3, <2>4, <2>5, <2>6
<1>9. IsTokenTransfer(inner, pay)
  BY <1>3, <1>6, <1>7, <1>8 DEF IsTokenTransfer
<1>10. ~IsNativeTransfer(inner, pay)
  <2>1. SYSTEM_PROGRAM # TOKEN_PROGRAM_ID
    BY BundleAssumption DEF IsInjective
  <2> QED
    BY <1>8, <2>1 DEF IsNativeTransfer
<1>11. Recipient(inner, pay) =
          SplRecipient(PaidAta(t), s.amount, t.mint, t.decimals, TOKEN_PROGRAM_ID)
  BY <1>6, <1>8, <1>10 DEF Recipient
<1> DEFINE V == {pay, fee, memo}
<1>12. /\ m.instructions \in Seq(V) /\ Len(m.instructions) = 3
       /\ m.instructions[1] = pay /\ m.instructions[2] = fee /\ m.instructions[3] = memo
  BY <1>2
<1> HIDE DEF V
<1>13. ReadsAs(m, Recipient(inner, m.instructions[1]), m.instructions[2].data.amount)
  BY <1>1, <1>2, <1>3, <1>4, <1>5, <1>9, <1>12, PaymentAndFee DEF inner
<1> QED
  BY <1>4, <1>11, <1>12, <1>13 DEF s

\* One decoded recipient that matches the one expected is a match.
LEMMA OneMatches ==
    ASSUME NEW r, NEW exp, RecipientMatches(r, exp)
    PROVE  RecipientsMatch(<<r>>, <<exp>>)
<1> DEFINE decoded == <<r>>
           s == <<exp>>
           Free(used, e) ==
               { n \in DOMAIN decoded : n \notin used /\ RecipientMatches(decoded[n], e) }
           Take(taken, e) ==
               LET free == Free(taken.used, e) IN
               IF free = {} THEN [taken EXCEPT !.ok = FALSE]
               ELSE [taken EXCEPT !.used = @ \cup {CHOOSE n \in free : \A m \in free : n <= m}]
           none == [used |-> {}, ok |-> TRUE]
           Step(t) == [n \in 0..1 |-> IF n = 0 THEN none ELSE Take(t[n - 1], s[n])]
           pool == CHOOSE t : t = Step(t)
<1>1. Len(s) = 1 /\ s[1] = exp /\ DOMAIN decoded = {1} /\ decoded[1] = r
  OBVIOUS
<1>2. RecipientsMatch(decoded, s) <=> pool[1].ok /\ pool[1].used = DOMAIN decoded
  BY <1>1 DEF RecipientsMatch
<1>3. Free({}, exp) = {1}
  BY <1>1
<1> HIDE DEF s, decoded, Free
<1>4. Take(none, exp) = [used |-> {1}, ok |-> TRUE]
  <2>1. (CHOOSE n \in {1} : \A m \in {1} : n <= m) = 1
    OBVIOUS
  <2> DEFINE first == CHOOSE n \in Free({}, exp) : \A m \in Free({}, exp) : n <= m
  <2>2. first = 1
    BY <1>3, <2>1
  <2>3. Take(none, exp) = IF Free({}, exp) = {} THEN [none EXCEPT !.ok = FALSE]
                          ELSE [none EXCEPT !.used = @ \cup {first}]
    OBVIOUS
  <2> HIDE DEF first
  <2>4. Take(none, exp) = [none EXCEPT !.used = @ \cup {1}]
    BY <1>3, <2>2, <2>3
  <2> QED
    BY <2>4
<1> HIDE DEF Take, none
<1>5. \E t : t = Step(t)
  <2> DEFINE t == [n \in 0..1 |-> IF n = 0 THEN none ELSE Take(none, exp)]
  <2>1. t[0] = none /\ t[1] = Take(none, exp)
    OBVIOUS
  <2>2. ASSUME NEW n \in 0..1
        PROVE  t[n] = IF n = 0 THEN none ELSE Take(t[n - 1], s[n])
    <3>1. CASE n = 0
      BY <2>1, <3>1
    <3>2. CASE n = 1
      BY <1>1, <2>1, <3>2
    <3> QED
      BY <3>1, <3>2
  <2>3. t = Step(t)
    BY <2>2
  <2> QED
    BY <2>3
<1>6. pool = Step(pool)
  BY <1>5
<1> HIDE DEF pool
<1>7. pool[0] = none /\ pool[1] = Take(pool[0], s[1])
  BY <1>6
<1> QED
  BY <1>1, <1>2, <1>4, <1>7 DEF decoded, s

\* What agrees with the display: the recipient, what it is paid in, and the fee
\* at its bound.
LEMMA FlowsPass ==
    ASSUME NEW r, NEW fee \in Nat, NEW exp, NEW view, NEW expected,
           view.recipients = <<r>>, view.feeLamports = fee,
           view.unknownInnerInstructionCount = 0, view.feePayer = Paymaster,
           expected.recipients = <<exp>>, RecipientMatches(r, exp),
           expected.maxFeeLamports = fee, expected.expectedFeePayer \in {Unset, Paymaster},
           AssetsMatch(<<r>>, expected)
    PROVE  compareFundFlows(view, expected)
<1>1. fee # Unset /\ fee # Invalid
  BY BundleAssumption DEF Invalid
<1>2. MaxFee(expected) = fee
  BY <1>1 DEF MaxFee, toBigIntOrNull
<1>3. FeeBounded(view, expected)
  BY <1>1, <1>2 DEF FeeBounded, Agrees
<1> QED
  BY <1>3, OneMatches DEF compareFundFlows

-----------------------------------------------------------------------------
(***************************************************************************)
(* Honest bundles: what their instructions are.                            *)
(***************************************************************************)

\* The accounts that a message may write, and a list of its accounts that lets
\* it write them.
Writes(m) == { m.account_keys[i] : i \in { j \in DOMAIN m.account_keys : is_writable(m, j - 1) } }

Mirrors(rest, m) ==
    /\ Pubkeys(rest) = m.account_keys
    /\ \A i \in DOMAIN m.account_keys : is_writable(m, i - 1) => rest[i].isWritable

\* The execution of a send's proposal with all accounts of its message.
IsExecution(ix, s, m) ==
    /\ OuterKind(ix) = "execute_transaction" /\ ix.data.op = "execute_transaction"
    /\ ix.data.transaction_index = IndexOf(s) /\ Len(ix.keys) \in Nat /\ Len(ix.keys) >= 3
    /\ KeyOf(ix, 1) = Multisig /\ KeyOf(ix, 2) = Pda(IndexOf(s))
    /\ IsPrefix(m.account_keys, SubSeq(Pubkeys(ix.keys), 4, Len(ix.keys)))
    /\ Writes(m) \subseteq WritableAccounts(ix)

\* The close of it by the paymaster.
IsClose(ix, s) ==
    /\ OuterKind(ix) = "close_transaction" /\ ix.data.op = "close_transaction"
    /\ ix.data.transaction_index = IndexOf(s) /\ Len(ix.keys) = 3
    /\ KeyOf(ix, 1) = Multisig /\ KeyOf(ix, 2) = Pda(IndexOf(s)) /\ KeyOf(ix, 3) = Paymaster

\* What the builder of an execution builds is one.
LEMMA ExecutionIs ==
    ASSUME NEW s \in SendType, NEW m, NEW executor, NEW V, NEW rest \in Seq(V),
           Mirrors(rest, m)
    PROVE  IsExecution(buildExecuteTransactionInstruction(s.multisig, IndexOf(s), executor, rest),
                       s, m)
<1> DEFINE ix == buildExecuteTransactionInstruction(s.multisig, IndexOf(s), executor, rest)
           first == <<Readonly(Multisig), Writable(transaction_pda(Multisig, IndexOf(s))),
                      Signer(executor)>>
           W == V \cup {first[1], first[2], first[3]}
           k == Len(rest)
<1>1. s.multisig = Multisig
  BY DEF SendType
<1>2. /\ ix.programId = PROGRAM_ID /\ ix.keys = first \o rest
      /\ ix.data = [op |-> "execute_transaction", transaction_index |-> IndexOf(s)]
  BY <1>1 DEF buildExecuteTransactionInstruction, Instruction
<1>3. transaction_pda(Multisig, IndexOf(s)) = Pda(IndexOf(s))
  BY DEF transaction_pda, Pda, deriveTransactionPda
<1>4. first[1].pubkey = Multisig /\ first[2].pubkey = Pda(IndexOf(s)) /\ Len(first) = 3
  BY <1>3 DEF Readonly, Writable, Meta
<1>5. first \in Seq(W) /\ rest \in Seq(W)
  <2>1. /\ first[1] = Readonly(Multisig) /\ first[3] = Signer(executor)
        /\ first[2] = Writable(transaction_pda(Multisig, IndexOf(s)))
    OBVIOUS
  <2> QED
    BY <2>1
<1>6. OuterKind(ix) = ix.data.op
  BY <1>2, ProgramKinds DEF MultisigIxs
<1> HIDE DEF ix, first, W
<1>7. /\ ix.keys \in Seq(W) /\ Len(ix.keys) = 3 + k /\ k \in Nat
      /\ ix.keys[1] = first[1] /\ ix.keys[2] = first[2]
      /\ \A n \in 1..k : ix.keys[3 + n] = rest[n]
  <2>1. /\ Len(ix.keys) = 3 + k /\ k \in Nat
        /\ \A p \in 1..3 : ix.keys[p] = first[p]
        /\ \A p \in 4..(3 + k) : ix.keys[p] = rest[p - 3]
    <3>1. /\ Len(first \o rest) = Len(first) + k /\ k \in Nat
          /\ \A p \in 1..Len(first) : (first \o rest)[p] = first[p]
          /\ \A p \in (Len(first) + 1)..(Len(first) + k) :
                (first \o rest)[p] = rest[p - Len(first)]
      BY <1>5, JoinedPlaces
    <3> QED
      BY <1>2, <1>4, <3>1
  <2>2. ix.keys \in Seq(W)
    BY <1>2, <1>5, JoinedElements
  <2>3. \A n \in 1..k : 3 + n \in 4..(3 + k) /\ 3 + n - 3 = n
    BY <2>1
  <2> QED
    BY <2>1, <2>2, <2>3
<1> DEFINE keys == Pubkeys(ix.keys)
           mine == SubSeq(keys, 4, Len(ix.keys))
<1>8. /\ keys = [n \in 1..(3 + k) |-> ix.keys[n].pubkey]
      /\ m.account_keys = [n \in 1..k |-> rest[n].pubkey]
  <2>1. DOMAIN ix.keys = 1..(3 + k) /\ DOMAIN rest = 1..k
    BY <1>5, <1>7
  <2>2. m.account_keys = Pubkeys(rest)
    BY DEF Mirrors
  <2> QED
    BY <2>1, <2>2 DEF Pubkeys
<1> DEFINE P == { ix.keys[n].pubkey : n \in 1..(3 + k) }
<1>9. keys \in Seq(P) /\ Len(keys) = 3 + k
  <2>1. keys \in [1..(3 + k) -> P] /\ 3 + k \in Nat
    BY <1>7, <1>8
  <2> HIDE DEF keys, P
  <2> QED
    BY <2>1
<1>10. mine \in Seq(P) /\ Len(mine) = k /\ \A n \in 1..k : mine[n] = keys[3 + n]
  <2> DEFINE l == 3 + k
  <2>1. /\ l \in Nat /\ Len(ix.keys) = l /\ Len(keys) = l /\ 4 <= l + 1
    BY <1>7, <1>9
  <2> HIDE DEF l
  <2>2. /\ SubSeq(keys, 4, l) \in Seq(P) /\ Len(SubSeq(keys, 4, l)) = l - 3
        /\ \A n \in 1..(l - 3) : SubSeq(keys, 4, l)[n] = keys[4 + n - 1]
    BY <1>9, <2>1
  <2>3. l - 3 = k
    BY <1>7 DEF l
  <2>4. \A n \in 1..k : 4 + n - 1 = 3 + n
    BY <1>7
  <2> QED
    BY <2>1, <2>2, <2>3, <2>4
<1>11. \A n \in 1..k : mine[n] = rest[n].pubkey
  BY <1>7, <1>8, <1>10
<1> HIDE DEF mine
<1>12. mine = m.account_keys
  BY <1>7, <1>8, <1>10, <1>11
<1>13. IsPrefix(m.account_keys, mine)
  BY <1>12, <1>10 DEF IsPrefix
<1>14. Writes(m) \subseteq WritableAccounts(ix)
  <2> SUFFICES ASSUME NEW i \in DOMAIN m.account_keys, is_writable(m, i - 1)
               PROVE  m.account_keys[i] \in WritableAccounts(ix)
    BY DEF Writes
  <2>1. i \in 1..k /\ m.account_keys[i] = rest[i].pubkey
    BY <1>8
  <2>2. rest[i].isWritable
    BY DEF Mirrors
  <2>3. 3 + i \in DOMAIN ix.keys /\ ix.keys[3 + i] = rest[i]
    BY <1>7, <2>1
  <2> QED
    BY <2>1, <2>2, <2>3 DEF WritableAccounts
<1>15. IsExecution(ix, s, m)
  BY <1>2, <1>4, <1>6, <1>7, <1>13, <1>14 DEF IsExecution, KeyOf, keys, mine
<1> QED
  BY <1>15 DEF ix

\* What the builder of a close builds is one.
LEMMA CloseIs ==
    ASSUME NEW s \in SendType
    PROVE  IsClose(Close(s), s)
<1> DEFINE ix == Close(s)
<1>1. s.multisig = Multisig /\ s.paymaster = Paymaster
  BY DEF SendType
<1>2. /\ ix.programId = PROGRAM_ID
      /\ ix.keys = <<Readonly(Multisig), Writable(transaction_pda(Multisig, IndexOf(s))),
                     WritableSigner(Paymaster)>>
      /\ ix.data = [op |-> "close_transaction", transaction_index |-> IndexOf(s)]
  BY <1>1 DEF Close, buildCloseTransactionInstruction, Instruction
<1>3. transaction_pda(Multisig, IndexOf(s)) = Pda(IndexOf(s))
  BY DEF transaction_pda, Pda, deriveTransactionPda
<1> HIDE DEF ix
<1>4. /\ Len(ix.keys) = 3 /\ ix.keys[1] = Readonly(Multisig)
      /\ ix.keys[2] = Writable(transaction_pda(Multisig, IndexOf(s)))
      /\ ix.keys[3] = WritableSigner(Paymaster)
  BY <1>2
<1>5. /\ KeyOf(ix, 1) = Multisig /\ KeyOf(ix, 2) = Pda(IndexOf(s)) /\ KeyOf(ix, 3) = Paymaster
  BY <1>3, <1>4 DEF KeyOf, Readonly, Writable, WritableSigner, Meta
<1>6. OuterKind(ix) = ix.data.op
  BY <1>2, ProgramKinds DEF MultisigIxs
<1>7. IsClose(ix, s)
  BY <1>2, <1>4, <1>5, <1>6 DEF IsClose
<1> QED
  BY <1>7 DEF ix


\* An approval of it by a member.
IsApprovalBy(ix, s, member) ==
    /\ IsApprove(ix) /\ KeyOf(ix, 3) = member /\ ix.data.transaction_index = IndexOf(s)

\* A creation, everybody's approval, an execution and a close, after a others.
HonestBody(b, s, m, a) ==
    LET k == Len(s.approvers) IN
    /\ b \in Seq(ToSet(b)) /\ k \in Nat \ {0} /\ Len(b) = a + k + 3
    /\ IsCreation(b[a + 1], s, m)
    /\ \A n \in 1..k : IsApprovalBy(b[a + 1 + n], s, s.approvers[n])
    /\ IsExecution(b[a + k + 2], s, m) /\ IsClose(b[a + k + 3], s)

\* The same, after what a list begins with.
Follows(b, head, s, m, a) == HonestBody(b, s, m, a) /\ \A n \in 1..a : b[n] = head[n]

\* Approvals, an execution and a close after a creation are that.
LEMMA BodyIs ==
    ASSUME NEW s \in SendType, NEW m, NEW a \in Nat, NEW V, NEW head \in Seq(V),
           Len(head) = a + 1, IsCreation(head[a + 1], s, m),
           NEW e, IsExecution(e, s, m), NEW c, IsClose(c, s)
    PROVE  Follows(head \o Approvals(s) \o <<e, c>>, head, s, m, a)
<1> DEFINE b == head \o Approvals(s) \o <<e, c>>
           k == Len(s.approvers)
           A == ToSet(Approvals(s))
           W == V \cup A \cup {e, c}
           most == head \o Approvals(s)
<1>1. s.approvers \in Seq(Device) /\ k \in Nat \ {0} /\ DOMAIN s.approvers = 1..k
  BY DEF SendType
<1>2. /\ Approvals(s) \in Seq(W) /\ Len(Approvals(s)) = k
      /\ \A n \in 1..k : Approvals(s)[n] = buildApproveTransactionInstruction(Multisig, IndexOf(s),
                                                                              s.approvers[n])
  <2>1. Approvals(s) \in Seq(A)
    BY ApprovalsAre
  <2>2. s.multisig = Multisig
    BY DEF SendType
  <2>3. Approvals(s) = [i \in 1..k |-> buildApproveTransactionInstruction(Multisig, IndexOf(s),
                                                                          s.approvers[i])]
    BY <1>1, <2>2 DEF Approvals
  <2> HIDE DEF A
  <2>4. Len(Approvals(s)) = k
    BY <1>1, <2>1, <2>3
  <2> QED
    BY <2>1, <2>3, <2>4
<1>3. head \in Seq(W) /\ <<e, c>> \in Seq(W) /\ Len(<<e, c>>) = 2
  OBVIOUS
<1> HIDE DEF A, W, k, b
<1>4. /\ most \in Seq(W) /\ Len(most) = a + 1 + k
      /\ \A n \in 1..(a + 1) : most[n] = head[n]
      /\ \A n \in 1..k : most[a + 1 + n] = Approvals(s)[n]
  <2> DEFINE apps == Approvals(s)
  <2>0. apps \in Seq(W) /\ Len(apps) = k /\ most = head \o apps
    BY <1>2
  <2> HIDE DEF apps, most
  <2>1. Joined(most, head, apps, W)
    BY <1>3, <2>0, JoinedAt
  <2> QED
    BY <1>2, <2>0, <2>1 DEF apps, Joined
<1> HIDE DEF most
<1>5. /\ b \in Seq(W) /\ Len(b) = a + k + 3
      /\ \A n \in 1..(a + 1 + k) : b[n] = most[n]
      /\ b[a + k + 2] = e /\ b[a + k + 3] = c
  <2> DEFINE p == <<e, c>>
  <2>1. b = most \o p
    BY DEF b, most
  <2>2. p \in Seq(W) /\ Len(p) = 2 /\ p[1] = e /\ p[2] = c
    BY <1>3
  <2> HIDE DEF p
  <2>3. Joined(b, most, p, W)
    BY <1>4, <2>1, <2>2, JoinedAt
  <2>4. /\ b \in Seq(W) /\ Len(b) = Len(most) + 2
        /\ \A n \in 1..Len(most) : b[n] = most[n]
        /\ b[Len(most) + 1] = p[1] /\ b[Len(most) + 2] = p[2]
    <3>1. 1 \in 1..Len(p) /\ 2 \in 1..Len(p)
      BY <2>2
    <3>2. \A n \in 1..Len(p) : b[Len(most) + n] = p[n]
      BY <2>3 DEF Joined
    <3>3. b[Len(most) + 1] = p[1] /\ b[Len(most) + 2] = p[2]
      BY <3>1, <3>2
    <3> QED
      BY <2>2, <2>3, <3>3 DEF Joined
  <2>5. /\ Len(most) + 1 = a + k + 2 /\ Len(most) + 2 = a + k + 3
        /\ k \in Nat
    BY <1>1, <1>4
  <2> QED
    BY <1>4, <2>2, <2>3, <2>4, <2>5
<1>6. b \in Seq(ToSet(b))
  BY <1>5, OwnElements
<1>7. \A n \in 1..(a + 1) : b[n] = head[n]
  BY <1>1, <1>4, <1>5
<1>8. ASSUME NEW n \in 1..k
      PROVE  IsApprovalBy(b[a + 1 + n], s, s.approvers[n])
  <2>1. a + 1 + n \in 1..(a + 1 + k) /\ s.approvers[n] \in Device
    BY <1>1
  <2>2. b[a + 1 + n] = buildApproveTransactionInstruction(Multisig, IndexOf(s), s.approvers[n])
    BY <1>2, <1>4, <1>5, <2>1
  <2>3. IsApprovalBy(buildApproveTransactionInstruction(Multisig, IndexOf(s), s.approvers[n]),
                     s, s.approvers[n])
    BY <2>1, ApproveIs DEF IsApprovalBy
  <2> QED
    BY <2>2, <2>3
<1>9. b[a + 1] = head[a + 1] /\ \A n \in 1..a : b[n] = head[n]
  BY <1>7
<1>10. HonestBody(b, s, m, a) /\ \A n \in 1..a : b[n] = head[n]
  BY <1>1, <1>5, <1>6, <1>8, <1>9 DEF HonestBody, k
<1> QED
  BY <1>10 DEF b, Follows

\* The creation of the token account of a payment.
IsAtaCreate(ix, s, mint) ==
    /\ OuterKind(ix) = "ataCreate" /\ ix.data.op = "createIdempotent"
    /\ ParsedAtaCreate(ix) =
         [funder |-> Paymaster,
          ata |-> deriveAssociatedTokenAddress(s.recipient, mint, TOKEN_PROGRAM_ID),
          owner |-> s.recipient, mint |-> mint, tokenProgram |-> TOKEN_PROGRAM_ID,
          dataOk |-> TRUE]
    /\ KeyOf(ix, 2) = AtaOf(s.recipient, mint) /\ KeyOf(ix, 3) = s.recipient
    /\ KeyOf(ix, 4) = mint

\* A bundle for a send, with the message m, a payment in lamports when mint is
\* Unset.  Before the creation are a instructions: none, the advance, or the
\* advance and the creation of a token account.
Honest(tx, s, m, mint, a) ==
    /\ tx.feePayer = Paymaster
    /\ a \in 0..2 /\ HonestBody(tx.instructions, s, m, a)
    /\ a >= 1 => IsAdvance(tx.instructions[1])
    /\ a = 2 => mint # Unset /\ IsAtaCreate(tx.instructions[2], s, mint)

\* An enterprise bundle is one, with whatever message.
LEMMA EnterpriseIs ==
    ASSUME NEW s \in SendType, NEW m, NEW V, NEW rest \in Seq(V), Mirrors(rest, m)
    PROVE  Honest(enterpriseBundle(s, m, rest), s, m, Unset, 1)
<1> DEFINE tx == enterpriseBundle(s, m, rest)
           e == buildExecuteTransactionInstruction(s.multisig, IndexOf(s), s.paymaster, rest)
           head == <<AdvanceNonce(s), Create(s, m)>>
           b == head \o Approvals(s) \o <<e, Close(s)>>
<1>1. tx.feePayer = Paymaster /\ tx.instructions = b
  BY DEF enterpriseBundle, Transaction, SendType
<1>2. /\ IsExecution(e, s, m) /\ IsClose(Close(s), s) /\ IsCreation(Create(s, m), s, m)
      /\ IsAdvance(AdvanceNonce(s))
  BY ExecutionIs, CloseIs, CreationIs, AdvanceIs
<1> HIDE DEF e
<1>3. /\ head \in Seq({AdvanceNonce(s), Create(s, m)}) /\ Len(head) = 2
      /\ head[1] = AdvanceNonce(s) /\ head[2] = Create(s, m)
  OBVIOUS
<1> HIDE DEF head
<1>4. HonestBody(b, s, m, 1) /\ \A n \in 1..1 : b[n] = head[n]
  <2> DEFINE a == 1
  <2>1. a \in Nat /\ a + 1 = 2
    OBVIOUS
  <2> HIDE DEF a
  <2>2. Len(head) = a + 1 /\ IsCreation(head[a + 1], s, m)
    BY <1>2, <1>3, <2>1
  <2>3. HonestBody(b, s, m, a) /\ \A n \in 1..a : b[n] = head[n]
    <3>1. Follows(b, head, s, m, a)
      BY <1>2, <1>3, <2>1, <2>2, BodyIs
    <3> QED
      BY <3>1 DEF Follows
  <2> QED
    BY <2>3 DEF a
<1> HIDE DEF b
<1>5. 1 \in 0..2 /\ 1 \in 1..1 /\ 1 >= 1 /\ 1 # 2
  OBVIOUS
<1>6. IsAdvance(tx.instructions[1])
  BY <1>1, <1>2, <1>3, <1>4, <1>5
<1> HIDE DEF tx
<1>7. Honest(tx, s, m, Unset, 1)
  BY <1>1, <1>4, <1>5, <1>6 DEF Honest
<1> QED
  BY <1>7 DEF tx

\* The consumer's instructions are a body without a memo.
LEMMA ConsumerBody ==
    ASSUME NEW s \in SendType, s.memo = NoMemo
    PROVE  HonestBody(ConsumerIxs(s), s, SolMessage(s), 0)
<1> DEFINE m == SolMessage(s)
           rest == SolRemaining(s)
           e == buildExecuteTransactionInstruction(s.multisig, IndexOf(s), s.approvers[1], rest)
           head == <<Create(s, m)>>
           R == ToSet(rest)
<1>1. ConsumerIxs(s) = head \o Approvals(s) \o <<e, Close(s)>>
  BY DEF ConsumerIxs
<1>2. rest \in Seq(R) /\ Mirrors(rest, m)
  <2>1. m.account_keys = <<VaultOf(s), s.recipient, s.paymaster, SYSTEM_PROGRAM>> \o <<>>
    BY DEF SolMessage, buildInnerSolMessage
  <2>2. m.account_keys = <<VaultOf(s), s.recipient, s.paymaster, SYSTEM_PROGRAM>>
    BY <2>1
  <2>3. Pubkeys(rest) = <<VaultOf(s), s.recipient, s.paymaster, SYSTEM_PROGRAM>>
    BY DEF SolRemaining, Pubkeys, Writable, Readonly, Meta
  <2>4. rest \in Seq({Writable(VaultOf(s)), Writable(s.recipient), Writable(s.paymaster),
                      Readonly(SYSTEM_PROGRAM)})
    BY DEF SolRemaining
  <2>5. \A i \in DOMAIN m.account_keys : is_writable(m, i - 1) => rest[i].isWritable
    <3>1. /\ m.num_signers = 1 /\ m.num_writable_signers = 1 /\ m.num_writable_non_signers = 2
          /\ DOMAIN m.account_keys = 1..4
      BY <2>2 DEF SolMessage, buildInnerSolMessage
    <3>2. rest[1].isWritable /\ rest[2].isWritable /\ rest[3].isWritable
      BY DEF SolRemaining, Writable, Meta
    <3> HIDE DEF m, rest
    <3> QED
      BY <3>1, <3>2 DEF is_writable
  <2> QED
    BY <2>2, <2>3, <2>4, <2>5, OwnElements DEF Mirrors
<1> HIDE DEF m, rest, R
<1>3. IsExecution(e, s, m) /\ IsClose(Close(s), s) /\ IsCreation(Create(s, m), s, m)
  BY <1>2, ExecutionIs, CloseIs, CreationIs
<1> HIDE DEF e
<1>4. head \in Seq({Create(s, m)}) /\ Len(head) = 0 + 1 /\ head[0 + 1] = Create(s, m) /\ 0 \in Nat
  OBVIOUS
<1> HIDE DEF head
<1>5. HonestBody(ConsumerIxs(s), s, m, 0)
  BY <1>1, <1>3, <1>4, BodyIs DEF Follows
<1> QED
  BY <1>5 DEF m

\* One instruction before a body.
LEMMA BodyAfter ==
    ASSUME NEW s, NEW m, NEW b, HonestBody(b, s, m, 0), NEW x
    PROVE  HonestBody(<<x>> \o b, s, m, 1) /\ (<<x>> \o b)[1] = x
<1> DEFINE u == <<x>> \o b
           one == <<x>>
           W == {x} \cup ToSet(b)
           k == Len(s.approvers)
<1>1. /\ b \in Seq(ToSet(b)) /\ k \in Nat \ {0} /\ Len(b) = k + 3
      /\ IsCreation(b[1], s, m)
      /\ \A n \in 1..k : IsApprovalBy(b[1 + n], s, s.approvers[n])
      /\ IsExecution(b[k + 2], s, m) /\ IsClose(b[k + 3], s)
  BY DEF HonestBody
<1>2. one \in Seq(W) /\ b \in Seq(W) /\ Len(one) = 1 /\ one[1] = x
  BY <1>1
<1> HIDE DEF one, W, k
<1>3. Joined(u, one, b, W)
  BY <1>2, JoinedAt DEF one
<1> HIDE DEF u
<1>4. u \in Seq(W) /\ Len(u) = k + 4 /\ \A n \in 1..(k + 3) : u[1 + n] = b[n]
  BY <1>1, <1>2, <1>3 DEF Joined
<1>5. u[1] = x
  BY <1>2, <1>3 DEF Joined
<1>6. u[2] = b[1] /\ u[k + 3] = b[k + 2] /\ u[k + 4] = b[k + 3]
  <2>1. /\ 1 \in 1..(k + 3) /\ 1 + 1 = 2
        /\ k + 2 \in 1..(k + 3) /\ 1 + (k + 2) = k + 3
        /\ k + 3 \in 1..(k + 3) /\ 1 + (k + 3) = k + 4
    BY <1>1
  <2> QED
    BY <1>4, <2>1
<1>7. ASSUME NEW n \in 1..k
      PROVE  IsApprovalBy(u[2 + n], s, s.approvers[n])
  <2>1. 1 + n \in 1..(k + 3) /\ 1 + (1 + n) = 2 + n
    BY <1>1
  <2>2. u[2 + n] = b[1 + n]
    BY <1>4, <2>1
  <2> QED
    BY <1>1, <2>2
<1>8. u \in Seq(ToSet(u))
  BY <1>4, OwnElements
<1>9. /\ 1 + k + 3 = k + 4 /\ 1 + 1 = 2 /\ 1 + k + 2 = k + 3
      /\ \A n \in 1..k : 1 + 1 + n = 2 + n
  BY <1>1
<1>10. HonestBody(u, s, m, 1)
  BY <1>1, <1>4, <1>6, <1>7, <1>8, <1>9 DEF HonestBody, k
<1> QED
  BY <1>5, <1>10 DEF u

\* The consumer's bundle, on the nonce or on a blockhash.
LEMMA ConsumerIs ==
    ASSUME NEW s \in SendType, s.memo = NoMemo
    PROVE  /\ Honest(durableSend(s), s, SolMessage(s), Unset, 1)
           /\ Honest(bundledSend(s, FALSE), s, SolMessage(s), Unset, 0)
<1> DEFINE b == ConsumerIxs(s)
           m == SolMessage(s)
           one == durableSend(s)
           two == bundledSend(s, FALSE)
<1>1. HonestBody(b, s, m, 0)
  BY ConsumerBody
<1>2. /\ one.feePayer = Paymaster /\ one.instructions = <<AdvanceNonce(s)>> \o b
      /\ two.feePayer = Paymaster /\ two.instructions = <<>> \o b
  BY DEF durableSend, bundledSend, Transaction, SendType
<1> HIDE DEF b, m, one, two
<1>3. b \in Seq(ToSet(b))
  BY <1>1 DEF HonestBody
<1>4. two.instructions = b
  BY <1>2, <1>3
<1>5. /\ HonestBody(one.instructions, s, m, 1) /\ one.instructions[1] = AdvanceNonce(s)
      /\ IsAdvance(AdvanceNonce(s))
  BY <1>1, <1>2, BodyAfter, AdvanceIs
<1>6. 0 \in 0..2 /\ 1 \in 0..2 /\ 1 >= 1 /\ ~(0 >= 1) /\ 0 # 2 /\ 1 # 2
  OBVIOUS
<1>7. Honest(one, s, m, Unset, 1)
  BY <1>2, <1>5, <1>6 DEF Honest
<1>8. Honest(two, s, m, Unset, 0)
  BY <1>1, <1>2, <1>4, <1>6 DEF Honest
<1> QED
  BY <1>7, <1>8 DEF m, one, two

\* The accounts that mirror those of a message.
Mirrored(m, n) ==
    /\ MirroredAccounts(m) \in Seq(UNION { {Writable(m.account_keys[i]), Readonly(m.account_keys[i])} :
                                            i \in 1..n })
    /\ Mirrors(MirroredAccounts(m), m)

\* ... for any list of keys.
LEMMA MirroredIs ==
    ASSUME NEW m, NEW n \in Nat, NEW V, m.account_keys \in [1..n -> V]
    PROVE  Mirrored(m, n)
<1> DEFINE rest == MirroredAccounts(m)
           R == UNION { {Writable(m.account_keys[i]), Readonly(m.account_keys[i])} : i \in 1..n }
<1>1. rest = [i \in 1..n |-> IF is_writable(m, i - 1) THEN Writable(m.account_keys[i])
                                                    ELSE Readonly(m.account_keys[i])]
  BY DEF MirroredAccounts
<1>2. rest \in [1..n -> R]
  BY <1>1
<1>3. rest \in Seq(R)
  BY <1>2
<1>4. DOMAIN rest = 1..n /\ \A i \in 1..n : rest[i].pubkey = m.account_keys[i]
  BY <1>1 DEF Readonly, Writable, Meta
<1>5. \A i \in 1..n : is_writable(m, i - 1) => rest[i].isWritable
  BY <1>1 DEF Writable, Meta
<1> HIDE DEF rest
<1>6. Pubkeys(rest) = [i \in 1..n |-> m.account_keys[i]]
  BY <1>4 DEF Pubkeys
<1>7. Pubkeys(rest) = m.account_keys /\ DOMAIN m.account_keys = 1..n
  BY <1>6
<1>8. Mirrors(rest, m)
  BY <1>5, <1>7 DEF Mirrors
<1> HIDE DEF R
<1>9. rest \in Seq(R) /\ Mirrors(rest, m)
  BY <1>3, <1>8
<1> QED
  BY <1>9 DEF rest, R, Mirrored

\* The bundle of a payment in lamports, with or without a memo.
LEMMA WholeIs ==
    ASSUME NEW s \in SendType
    PROVE  Honest(WholeBundle(s), s, SolMessage(s), Unset, 1)
<1>1. CASE s.memo = NoMemo
  BY <1>1, ConsumerIs DEF WholeBundle
<1>2. CASE s.memo # NoMemo
  <2> DEFINE m == SolMessage(s)
             rest == MirroredAccounts(m)
  <2>1. WholeBundle(s) = enterpriseBundle(s, m, rest)
    BY <1>2 DEF WholeBundle
  <2>2. m.account_keys = <<VaultOf(s), s.recipient, s.paymaster, SYSTEM_PROGRAM>> \o <<MEMO_PROGRAM_ID>>
    BY <1>2 DEF SolMessage, buildInnerSolMessage
  <2>3. m.account_keys = <<VaultOf(s), s.recipient, s.paymaster, SYSTEM_PROGRAM, MEMO_PROGRAM_ID>>
    BY <2>2, FourAndOne
  <2> DEFINE V == {VaultOf(s), s.recipient, s.paymaster, SYSTEM_PROGRAM, MEMO_PROGRAM_ID}
  <2>4. m.account_keys \in [1..5 -> V]
    BY <2>3
  <2> HIDE DEF m, V
  <2>5. Mirrored(m, 5)
    BY <2>4, MirroredIs
  <2> DEFINE R == UNION { {Writable(m.account_keys[i]), Readonly(m.account_keys[i])} : i \in 1..5 }
  <2>6. rest \in Seq(R) /\ Mirrors(rest, m)
    BY <2>5 DEF Mirrored
  <2> HIDE DEF R, rest
  <2>7. Honest(enterpriseBundle(s, m, rest), s, m, Unset, 1)
    BY <2>6, EnterpriseIs
  <2> QED
    BY <2>1, <2>7 DEF m
<1> QED
  BY <1>1, <1>2

\* A body after two instructions.
FollowsTwo(b, x, y, s, m) == HonestBody(b, s, m, 2) /\ b[1] = x /\ b[2] = y

\* One instruction after the first of a body.
LEMMA BodyWith ==
    ASSUME NEW s, NEW m, NEW b, HonestBody(b, s, m, 1), NEW x
    PROVE  FollowsTwo(<<b[1], x>> \o SubSeq(b, 2, Len(b)), b[1], x, s, m)
<1> DEFINE u == <<b[1], x>> \o SubSeq(b, 2, Len(b))
           two == <<b[1], x>>
           l == Len(b)
           tail == SubSeq(b, 2, l)
           W == {x} \cup ToSet(b)
           k == Len(s.approvers)
<1>1. /\ b \in Seq(ToSet(b)) /\ k \in Nat \ {0} /\ l = 1 + k + 3
      /\ IsCreation(b[1 + 1], s, m)
      /\ \A n \in 1..k : IsApprovalBy(b[1 + 1 + n], s, s.approvers[n])
      /\ IsExecution(b[1 + k + 2], s, m) /\ IsClose(b[1 + k + 3], s)
  BY DEF HonestBody
<1>2. b[1] \in W /\ b \in Seq(W)
  BY <1>1
<1> HIDE DEF W, k
<1>3. two \in Seq(W) /\ Len(two) = 2 /\ two[1] = b[1] /\ two[2] = x
  BY <1>2 DEF W
<1>4. tail \in Seq(W) /\ Len(tail) = l - 1 /\ \A n \in 1..(l - 1) : tail[n] = b[2 + n - 1]
  BY <1>1, <1>2
<1>5. u = two \o tail
  OBVIOUS
<1> HIDE DEF two, tail, l, u
<1>6. Joined(u, two, tail, W)
  BY <1>3, <1>4, <1>5, JoinedAt
<1>7. /\ u \in Seq(W) /\ Len(u) = l + 1 /\ u[1] = b[1] /\ u[2] = x
      /\ \A n \in 1..(l - 1) : u[2 + n] = tail[n]
  BY <1>1, <1>3, <1>4, <1>6 DEF Joined
<1>8. \A n \in 2..l : u[n + 1] = b[n]
  <2> TAKE n \in 2..l
  <2>1. n - 1 \in 1..(l - 1) /\ 2 + (n - 1) = n + 1 /\ 2 + (n - 1) - 1 = n
    BY <1>1
  <2> QED
    BY <1>4, <1>7, <2>1
<1>9. u[3] = b[2] /\ u[k + 4] = b[k + 3] /\ u[k + 5] = b[k + 4]
  <2>1. /\ 2 \in 2..l /\ 2 + 1 = 3 /\ k + 3 \in 2..l /\ (k + 3) + 1 = k + 4
        /\ k + 4 \in 2..l /\ (k + 4) + 1 = k + 5
    BY <1>1
  <2> QED
    BY <1>8, <2>1
<1>10. ASSUME NEW n \in 1..k
       PROVE  IsApprovalBy(u[3 + n], s, s.approvers[n])
  <2>1. 2 + n \in 2..l /\ (2 + n) + 1 = 3 + n /\ 1 + 1 + n = 2 + n
    BY <1>1
  <2>2. u[3 + n] = b[2 + n]
    BY <1>8, <2>1
  <2> QED
    BY <1>1, <2>1, <2>2
<1>11. u \in Seq(ToSet(u))
  BY <1>7, OwnElements
<1>12. /\ 2 + k + 3 = k + 5 /\ 2 + 1 = 3 /\ 2 + k + 2 = k + 4 /\ l + 1 = k + 5
       /\ 1 + 1 = 2 /\ 1 + k + 2 = k + 3 /\ 1 + k + 3 = k + 4
       /\ \A n \in 1..k : 2 + 1 + n = 3 + n
  BY <1>1
<1>13. HonestBody(u, s, m, 2)
  BY <1>1, <1>7, <1>9, <1>10, <1>11, <1>12 DEF HonestBody, k
<1> QED
  BY <1>7, <1>13 DEF FollowsTwo, u

\* The bundle of a payment in tokens, which creates the recipient's account.
LEMMA TokenIs ==
    ASSUME NEW t \in TokenSend
    PROVE  Honest(TokenBundle(t), t.send, TokenMessage(t), t.mint, 2)
<1> DEFINE s == t.send
           m == TokenMessage(t)
           rest == MirroredAccounts(m)
           bundle == enterpriseBundle(s, m, rest)
           b == bundle.instructions
           ata == buildCreateAtaIdempotentIx(Paymaster, PaidAta(t), s.recipient, t.mint)
           tx == TokenBundle(t)
           k == Len(s.approvers)
<1>1. s \in SendType /\ t.mint \in Address /\ t.mint # Unset
  BY BundleAssumption DEF TokenSend
<1>2. Honest(bundle, s, m, Unset, 1)
  <2> DEFINE V == ToSet(m.account_keys)
             R == UNION { {Writable(m.account_keys[i]), Readonly(m.account_keys[i])} : i \in 1..8 }
  <2>1. m.account_keys = <<Vault, AtaOf(Vault, t.mint),
                           PaidAta(t), Paymaster, t.mint, TOKEN_PROGRAM_ID, SYSTEM_PROGRAM,
                           MEMO_PROGRAM_ID>>
    BY DEF TokenMessage, buildInnerSplMessage, PaidAta
  <2>2. DOMAIN m.account_keys = 1..8
    BY <2>1
  <2>3. m.account_keys = [i \in 1..8 |-> m.account_keys[i]]
    BY <2>1
  <2> HIDE DEF m
  <2>4. m.account_keys \in [1..8 -> V]
    BY <2>2, <2>3 DEF ToSet
  <2> HIDE DEF V
  <2>5. Mirrored(m, 8)
    BY <2>4, MirroredIs
  <2>6. rest \in Seq(R) /\ Mirrors(rest, m)
    BY <2>5 DEF Mirrored
  <2> HIDE DEF R, rest, s
  <2> QED
    BY <1>1, <2>6, EnterpriseIs
<1>3. tx = [bundle EXCEPT !.instructions = <<@[1], ata>> \o SubSeq(@, 2, Len(@))]
  BY DEF TokenBundle, PaidAta
<1>4. /\ bundle.feePayer = Paymaster /\ HonestBody(b, s, m, 1) /\ IsAdvance(b[1])
      /\ tx.feePayer = Paymaster /\ tx.instructions = <<b[1], ata>> \o SubSeq(b, 2, Len(b))
  <2>1. bundle = [feePayer |-> bundle.feePayer, instructions |-> b]
    BY DEF enterpriseBundle, Transaction
  <2> HIDE DEF bundle, tx
  <2>2. /\ tx.feePayer = bundle.feePayer
        /\ tx.instructions = <<b[1], ata>> \o SubSeq(b, 2, Len(b))
    BY <1>3, <2>1
  <2>3. 1 >= 1
    OBVIOUS
  <2> QED
    BY <1>2, <2>2, <2>3 DEF Honest
<1>5. IsAtaCreate(ata, s, t.mint)
  <2>1. /\ ata.programId = ATA_PROGRAM_ID /\ ata.data = [op |-> "createIdempotent"]
        /\ ata.keys = <<WritableSigner(Paymaster), Writable(PaidAta(t)), Readonly(s.recipient),
                        Readonly(t.mint), Readonly(SYSTEM_PROGRAM), Readonly(TOKEN_PROGRAM_ID)>>
    BY DEF buildCreateAtaIdempotentIx, Instruction
  <2> HIDE DEF ata
  <2>2. OuterKind(ata) = "ataCreate"
    <3>1. /\ ATA_PROGRAM_ID # COMPUTE_BUDGET_PROGRAM_ID /\ ATA_PROGRAM_ID # SYSTEM_PROGRAM
          /\ ATA_PROGRAM_ID # PROGRAM_ID
      BY BundleAssumption DEF IsInjective
    <3> QED
      BY <2>1, <3>1 DEF OuterKind
  <2>3. /\ KeyOrUnset(ata, 1) = Paymaster /\ KeyOrUnset(ata, 2) = PaidAta(t)
        /\ KeyOrUnset(ata, 3) = s.recipient /\ KeyOrUnset(ata, 4) = t.mint
        /\ KeyOrUnset(ata, 6) = TOKEN_PROGRAM_ID
    BY <2>1 DEF KeyOrUnset, WritableSigner, Writable, Readonly, Meta
  <2>4. ata.data.op = "createIdempotent"
    BY <2>1
  <2>5. ParsedAtaCreate(ata) =
          [funder |-> Paymaster, ata |-> PaidAta(t), owner |-> s.recipient, mint |-> t.mint,
           tokenProgram |-> TOKEN_PROGRAM_ID, dataOk |-> TRUE]
    BY <2>3, <2>4 DEF ParsedAtaCreate
  <2>6. KeyOf(ata, 2) = PaidAta(t) /\ KeyOf(ata, 3) = s.recipient /\ KeyOf(ata, 4) = t.mint
    BY <2>1 DEF KeyOf, Writable, Readonly, Meta
  <2> QED
    BY <2>2, <2>4, <2>5, <2>6 DEF IsAtaCreate, PaidAta, AtaOf
<1> HIDE DEF b, bundle, ata, tx, rest, m, s, k
<1>6. HonestBody(tx.instructions, s, m, 2) /\ tx.instructions[1] = b[1] /\ tx.instructions[2] = ata
  <2>1. FollowsTwo(tx.instructions, b[1], ata, s, m)
    BY <1>4, BodyWith
  <2> QED
    BY <2>1 DEF FollowsTwo
<1>7. 2 \in 0..2 /\ 2 >= 1
  OBVIOUS
<1>8. Honest(tx, s, m, t.mint, 2)
  BY <1>1, <1>4, <1>5, <1>6, <1>7 DEF Honest
<1> QED
  BY <1>8 DEF tx, s, m

-----------------------------------------------------------------------------
(***************************************************************************)
(* What the gates read from it.                                            *)
(***************************************************************************)

\* The kind of an instruction at each place.
KindAt(tx, s, a, n) ==
    LET k == Len(s.approvers)
        kind == OuterKind(tx.instructions[n])
    IN  \/ n = 1 /\ a >= 1 /\ kind = "nonceAdvance"
        \/ n = 2 /\ a = 2 /\ kind = "ataCreate"
        \/ n = a + 1 /\ kind = "create_transaction"
        \/ n \in (a + 1 + 1)..(a + 1 + k) /\ kind = "approve_transaction"
        \/ n = a + k + 2 /\ kind = "execute_transaction"
        \/ n = a + k + 3 /\ kind = "close_transaction"

\* An honest bundle has an instruction of a known kind at each place.
LEMMA HonestPlaces ==
    ASSUME NEW s, NEW m, NEW mint, NEW a, NEW tx, Honest(tx, s, m, mint, a),
           NEW n \in 1..(a + Len(s.approvers) + 3)
    PROVE  KindAt(tx, s, a, n)
<1> DEFINE k == Len(s.approvers)
           b == tx.instructions
<1>1. a \in 0..2 /\ k \in Nat \ {0}
  BY DEF Honest, HonestBody
<1>2. a >= 1 => OuterKind(b[1]) = "nonceAdvance"
  BY DEF Honest, IsAdvance
<1>3. a = 2 => OuterKind(b[2]) = "ataCreate"
  BY DEF Honest, IsAtaCreate
<1>4. OuterKind(b[a + 1]) = "create_transaction"
  BY DEF Honest, HonestBody, IsCreation
<1>5. \A p \in 1..k : OuterKind(b[a + 1 + p]) = "approve_transaction"
  BY DEF Honest, HonestBody, IsApprovalBy, IsApprove
<1>6. OuterKind(b[a + k + 2]) = "execute_transaction" /\ OuterKind(b[a + k + 3]) = "close_transaction"
  BY DEF Honest, HonestBody, IsExecution, IsClose
<1>0. n \in 1..(a + k + 3)
  OBVIOUS
<1> HIDE DEF k, b
<1>7. \/ n = 1 /\ a >= 1
      \/ n = 2 /\ a = 2
      \/ n = a + 1
      \/ n \in (a + 1 + 1)..(a + 1 + k)
      \/ n = a + k + 2 \/ n = a + k + 3
  <2>1. n \in Int /\ k \in Int /\ 1 <= n /\ n <= a + k + 3 /\ k >= 1
    BY <1>0, <1>1
  <2>2. a = 0 \/ a = 1 \/ a = 2
    BY <1>1
  <2>3. CASE n <= a + 1
    <3>1. CASE a = 0
      <4>1. n = 1 /\ a + 1 = 1
        BY <2>1, <2>3, <3>1
      <4> QED
        BY <4>1
    <3>2. CASE a = 1
      <4>1. (n = 1 /\ a >= 1) \/ n = a + 1
        BY <2>1, <2>3, <3>2
      <4> QED
        BY <4>1
    <3>3. CASE a = 2
      <4>1. (n = 1 \/ n = 2 \/ n = 3) /\ a >= 1 /\ a + 1 = 3
        BY <2>1, <2>3, <3>3
      <4> QED
        BY <3>3, <4>1
    <3> QED
      BY <2>2, <3>1, <3>2, <3>3
  <2>4. CASE n > a + 1
    <3>1. a \in Int /\ a + 1 + 1 <= n
      BY <2>1, <2>2, <2>4
    <3>2. n <= a + 1 + k \/ n = a + k + 2 \/ n = a + k + 3
      BY <2>1, <3>1
    <3> QED
      BY <2>1, <3>1, <3>2
  <2> QED
    BY <2>1, <2>2, <2>3, <2>4
<1>8. CASE n \in (a + 1 + 1)..(a + 1 + k)
  <2>1. n - a - 1 \in 1..k /\ a + 1 + (n - a - 1) = n
    BY <1>1, <1>8
  <2>2. OuterKind(b[n]) = "approve_transaction"
    BY <1>5, <2>1
  <2> QED
    BY <1>8, <2>2 DEF KindAt, k, b
<1> QED
  BY <1>2, <1>3, <1>4, <1>6, <1>7, <1>8 DEF KindAt, k, b

\* The instructions of each kind.
HonestKinds(tx, s, a) ==
    LET k == Len(s.approvers)
        b == tx.instructions
    IN  /\ OfKind(tx, "create_transaction") = <<b[a + 1]>>
        /\ OfKind(tx, "approve_transaction") = [n \in 1..k |-> b[a + 1 + n]]
        /\ OfKind(tx, "execute_transaction") = <<b[a + k + 2]>>
        /\ OfKind(tx, "close_transaction") = <<b[a + k + 3]>>
        /\ OfKind(tx, "computeBudget") = <<>> /\ OfKind(tx, "foreign") = <<>>
        /\ a = 2 => OfKind(tx, "ataCreate") = <<b[2]>>
        /\ a # 2 => OfKind(tx, "ataCreate") = <<>>
        /\ Places(tx, "nonceAdvance") \subseteq {1}

\* They are where they were put.
LEMMA KindsAre ==
    ASSUME NEW s, NEW m, NEW mint, NEW a, NEW tx, Honest(tx, s, m, mint, a)
    PROVE  HonestKinds(tx, s, a)
<1> DEFINE k == Len(s.approvers)
           b == tx.instructions
           l == a + k + 3
           Q(n, kind) == OuterKind(b[n]) = kind
<1>1. /\ a \in 0..2 /\ k \in Nat \ {0} /\ b \in Seq(ToSet(b)) /\ Len(b) = l
      /\ DOMAIN b = 1..l
  BY DEF Honest, HonestBody
<1>2. \A n \in 1..l :
         \/ n = 1 /\ a >= 1 /\ OuterKind(b[n]) = "nonceAdvance"
         \/ n = 2 /\ a = 2 /\ OuterKind(b[n]) = "ataCreate"
         \/ n = a + 1 /\ OuterKind(b[n]) = "create_transaction"
         \/ n \in (a + 1 + 1)..(a + 1 + k) /\ OuterKind(b[n]) = "approve_transaction"
         \/ n = a + k + 2 /\ OuterKind(b[n]) = "execute_transaction"
         \/ n = a + k + 3 /\ OuterKind(b[n]) = "close_transaction"
  BY HonestPlaces DEF KindAt
<1>3. \A kind : Places(tx, kind) = { n \in 1..l : OuterKind(b[n]) = kind }
  BY <1>1 DEF Places
<1> HIDE DEF k, b
<1>4. Places(tx, "create_transaction") = {a + 1}
  BY <1>1, <1>2, <1>3 DEF l
<1>5. Places(tx, "approve_transaction") = (a + 1 + 1)..(a + 1 + k)
  <2>1. ASSUME NEW n \in 1..l, OuterKind(b[n]) = "approve_transaction"
        PROVE  n \in (a + 1 + 1)..(a + 1 + k)
    BY <1>2, <2>1
  <2>2. ASSUME NEW n \in (a + 1 + 1)..(a + 1 + k)
        PROVE  n \in 1..l /\ OuterKind(b[n]) = "approve_transaction"
    <3>1. n \in 1..l
      BY <1>1
    <3>2. n # 1 /\ n # a + 1 /\ n # a + k + 2 /\ n # a + k + 3 /\ ~(n = 2 /\ a = 2)
      BY <1>1
    <3> HIDE DEF l
    <3> QED
      BY <1>2, <3>1, <3>2
  <2> HIDE DEF l
  <2> QED
    BY <1>3, <2>1, <2>2
<1>6. /\ Places(tx, "execute_transaction") = {a + k + 2}
      /\ Places(tx, "close_transaction") = {a + k + 3}
  BY <1>1, <1>2, <1>3 DEF l
<1>7. Places(tx, "computeBudget") = {} /\ Places(tx, "foreign") = {}
  BY <1>1, <1>2, <1>3 DEF l
<1>8. /\ a = 2 => Places(tx, "ataCreate") = {2}
      /\ a # 2 => Places(tx, "ataCreate") = {}
  BY <1>1, <1>2, <1>3 DEF l
<1>9. Places(tx, "nonceAdvance") \subseteq {1}
  BY <1>1, <1>2, <1>3 DEF l
<1>10. OfKind(tx, "approve_transaction") = [n \in 1..k |-> b[a + 1 + n]]
  <2> DEFINE c == a + 1
  <2>1. c \in Nat /\ k \in Nat /\ c + k <= Len(b)
    BY <1>1
  <2>2. OfKind(tx, "approve_transaction") = Pick(b, (c + 1)..(c + k))
    BY <1>5, KindPicks DEF b
  <2> HIDE DEF c
  <2>3. Pick(b, (c + 1)..(c + k)) = [n \in 1..k |-> b[c + n]]
    BY <1>1, <2>1, PickedBlock
  <2> QED
    BY <2>2, <2>3 DEF c
<1>11. \A kind : /\ OfKind(tx, kind) = <<>> <=> Places(tx, kind) = {}
                 /\ \A n : Places(tx, kind) = {n} => OfKind(tx, kind) = <<b[n]>>
  BY <1>1, KindFacts DEF b
<1> QED
  BY <1>4, <1>6, <1>7, <1>8, <1>9, <1>10, <1>11 DEF HonestKinds, k, b

\* An honest bundle as it is parsed.
HonestView(bundle, s, m, mint) ==
    LET k == Len(s.approvers) IN
    /\ bundle.feePayer = Paymaster
    /\ \E c : bundle.creates = <<c>> /\ IsCreation(c, s, m)
    /\ k \in Nat \ {0} /\ bundle.approves \in Seq(ToSet(bundle.approves))
    /\ Len(bundle.approves) = k
    /\ \A n \in 1..k : IsApprovalBy(bundle.approves[n], s, s.approvers[n])
    /\ \E e : bundle.executes = <<e>> /\ IsExecution(e, s, m)
    /\ \E c : bundle.closes = <<c>> /\ IsClose(c, s)
    /\ bundle.foreign = <<>> /\ bundle.computeBudget = <<>>
    /\ \/ bundle.ataCreates = <<>>
       \/ /\ mint # Unset
          /\ bundle.ataCreates =
               <<[funder |-> Paymaster,
                  ata |-> deriveAssociatedTokenAddress(s.recipient, mint, TOKEN_PROGRAM_ID),
                  owner |-> s.recipient, mint |-> mint, tokenProgram |-> TOKEN_PROGRAM_ID,
                  dataOk |-> TRUE]>>
    /\ bundle.nonceAdvanceIndexes \subseteq {0}

\* The parser sees it as it was built.
LEMMA ViewIs ==
    ASSUME NEW s, NEW m, NEW mint, NEW a, NEW tx, Honest(tx, s, m, mint, a), Readable(m)
    PROVE  Parses(tx) /\ HonestView(parseBundle(tx), s, m, mint)
<1> DEFINE k == Len(s.approvers)
           b == tx.instructions
           bundle == parseBundle(tx)
           apps == [n \in 1..k |-> b[a + 1 + n]]
<1>1. HonestKinds(tx, s, a)
  BY KindsAre
<1>2. /\ a \in 0..2 /\ k \in Nat \ {0} /\ tx.feePayer = Paymaster
      /\ IsCreation(b[a + 1], s, m)
      /\ \A n \in 1..k : IsApprovalBy(b[a + 1 + n], s, s.approvers[n])
      /\ IsExecution(b[a + k + 2], s, m) /\ IsClose(b[a + k + 3], s)
      /\ a = 2 => mint # Unset /\ IsAtaCreate(b[2], s, mint)
  BY DEF Honest, HonestBody
<1>3. /\ OfKind(tx, "create_transaction") = <<b[a + 1]>>
      /\ OfKind(tx, "approve_transaction") = apps
      /\ OfKind(tx, "execute_transaction") = <<b[a + k + 2]>>
      /\ OfKind(tx, "close_transaction") = <<b[a + k + 3]>>
      /\ OfKind(tx, "computeBudget") = <<>> /\ OfKind(tx, "foreign") = <<>>
      /\ a = 2 => OfKind(tx, "ataCreate") = <<b[2]>>
      /\ a # 2 => OfKind(tx, "ataCreate") = <<>>
      /\ Places(tx, "nonceAdvance") \subseteq {1}
  BY <1>1 DEF HonestKinds
<1> HIDE DEF apps, k, b
<1>4. Parses(tx)
  <2>1. b[a + 1].data.message = m
    BY <1>2 DEF IsCreation
  <2>2. \A x : DOMAIN <<x>> = {1} /\ <<x>>[1] = x
    OBVIOUS
  <2> QED
    BY <1>3, <2>1, <2>2 DEF Parses
<1>5. /\ bundle.feePayer = Paymaster
      /\ bundle.creates = <<b[a + 1]>> /\ bundle.approves = apps
      /\ bundle.executes = <<b[a + k + 2]>> /\ bundle.closes = <<b[a + k + 3]>>
      /\ bundle.foreign = <<>>
      /\ bundle.computeBudget = Mapped(ParsedComputeBudget, OfKind(tx, "computeBudget"))
      /\ bundle.ataCreates = Mapped(ParsedAtaCreate, OfKind(tx, "ataCreate"))
      /\ bundle.nonceAdvanceIndexes = { n - 1 : n \in Places(tx, "nonceAdvance") }
  BY <1>2, <1>3 DEF parseBundle, Places
<1> HIDE DEF bundle
<1>6. bundle.computeBudget = <<>>
  BY <1>3, <1>5 DEF Mapped
<1>7. \/ bundle.ataCreates = <<>>
      \/ mint # Unset /\ bundle.ataCreates = <<ParsedAtaCreate(b[2])>>
  <2>1. CASE a = 2
    <3>1. bundle.ataCreates = [n \in DOMAIN <<b[2]>> |-> ParsedAtaCreate(<<b[2]>>[n])]
      BY <1>3, <1>5, <2>1 DEF Mapped
    <3>2. bundle.ataCreates = <<ParsedAtaCreate(b[2])>>
      BY <3>1
    <3> QED
      BY <1>2, <2>1, <3>2
  <2>2. CASE a # 2
    BY <1>3, <1>5, <2>2 DEF Mapped
  <2> QED
    BY <2>1, <2>2
<1>8. a = 2 =>
        ParsedAtaCreate(b[2]) =
          [funder |-> Paymaster,
           ata |-> deriveAssociatedTokenAddress(s.recipient, mint, TOKEN_PROGRAM_ID),
           owner |-> s.recipient, mint |-> mint, tokenProgram |-> TOKEN_PROGRAM_ID,
           dataOk |-> TRUE]
  BY <1>2 DEF IsAtaCreate
<1>9. bundle.nonceAdvanceIndexes \subseteq {0}
  BY <1>3, <1>5
<1>10. /\ bundle.approves \in Seq(ToSet(bundle.approves)) /\ Len(bundle.approves) = k
       /\ \A n \in 1..k : IsApprovalBy(bundle.approves[n], s, s.approvers[n])
  <2> DEFINE V == { b[a + 1 + n] : n \in 1..k }
  <2>1. apps \in [1..k -> V] /\ \A n \in 1..k : apps[n] = b[a + 1 + n]
    BY DEF apps
  <2> HIDE DEF V
  <2>2. apps \in Seq(V) /\ Len(apps) = k
    BY <1>2, <2>1
  <2>3. apps \in Seq(ToSet(apps))
    BY <2>2, OwnElements
  <2> QED
    BY <1>2, <1>5, <2>1, <2>2, <2>3
<1>11. bundle.ataCreates = <<>> \/ a = 2
  BY <1>3, <1>5 DEF Mapped
<1>12. HonestView(bundle, s, m, mint)
  BY <1>2, <1>5, <1>6, <1>7, <1>8, <1>9, <1>10, <1>11 DEF HonestView, k
<1> QED
  BY <1>4, <1>12 DEF bundle

-----------------------------------------------------------------------------
(***************************************************************************)
(* The gates accept it.                                                    *)
(***************************************************************************)

\* The display of a payment, in lamports when mint is Unset.
Displays(payload, s, mint, decimals) ==
    /\ payload.recipients = <<[address |-> s.recipient, amount |-> s.amount]>>
    /\ payload.recipients[1].address = s.recipient /\ payload.recipients[1].amount = s.amount
    /\ payload.tokenMint = mint /\ payload.tokenDecimals = decimals
    /\ payload.maxFeeLamports = s.fee
    /\ payload.expectedFeePayer = Unset /\ payload.expectedTransactionPda = Unset
    /\ payload.expectedVaultIndex = Unset
    /\ payload.expectedMultisigPda = Multisig /\ payload.expectedVaultPda = Vault

\* The recipient that is decoded, its token account resolved to it or not.
RecipientIs(r, s, mint, decimals) ==
    /\ r.amount = s.amount
    /\ \/ mint = Unset /\ r.asset = "native" /\ r.address = s.recipient
       \/ /\ r.asset = "spl" /\ r.mint = mint /\ r.decimals = decimals
          /\ r.tokenProgram = TOKEN_PROGRAM_ID
          /\ r.ata = deriveAssociatedTokenAddress(s.recipient, mint, TOKEN_PROGRAM_ID)

\* It is the one displayed.
LEMMA RecipientFits ==
    ASSUME NEW s \in SendType, NEW mint, NEW decimals, NEW r, RecipientIs(r, s, mint, decimals),
           NEW expected, expected.tokenMint = mint, expected.tokenDecimals = decimals
    PROVE  /\ RecipientMatches(r, [address |-> s.recipient, amount |-> s.amount])
           /\ AssetsMatch(<<r>>, expected)
<1> DEFINE exp == [address |-> s.recipient, amount |-> s.amount]
<1>1. s.amount \in Nat /\ s.amount # Unset /\ s.amount # -1
  BY BundleAssumption DEF SendType
<1>2. exp.address = s.recipient /\ exp.amount = s.amount
  OBVIOUS
<1> HIDE DEF exp
<1>3. recipientMatchesAddress(r, exp.address)
  BY <1>2 DEF RecipientIs, recipientMatchesAddress
<1>4. RecipientMatches(r, exp)
  BY <1>1, <1>2, <1>3 DEF RecipientMatches, RecipientIs, toBigIntOrNull, Invalid
<1>5. DOMAIN <<r>> = {1} /\ <<r>>[1] = r
  OBVIOUS
<1>6. AssetsMatch(<<r>>, expected)
  BY <1>5 DEF AssetsMatch, RecipientIs, Agrees
<1> QED
  BY <1>4, <1>6 DEF exp

\* The flows of a message that reads as the payment agree with its display.
LEMMA FlowsFit ==
    ASSUME NEW s \in SendType, NEW mint, NEW decimals, NEW r, RecipientIs(r, s, mint, decimals),
           NEW view, view.recipients = <<r>>, view.feeLamports = s.fee,
           view.unknownInnerInstructionCount = 0, view.feePayer = Paymaster,
           NEW expected,
           expected.recipients = <<[address |-> s.recipient, amount |-> s.amount]>>,
           expected.tokenMint = mint, expected.tokenDecimals = decimals,
           expected.maxFeeLamports = s.fee, expected.expectedFeePayer \in {Unset, Paymaster}
    PROVE  compareFundFlows(view, expected)
<1> DEFINE exp == [address |-> s.recipient, amount |-> s.amount]
<1>1. s.fee \in Nat
  BY DEF SendType
<1>2. RecipientMatches(r, exp) /\ AssetsMatch(<<r>>, expected)
  BY RecipientFits
<1> HIDE DEF exp
<1>3. expected.recipients = <<exp>>
  BY DEF exp
<1> QED
  BY <1>1, <1>2, <1>3, FlowsPass

\* The outer instructions are all of the allowed kinds.
LEMMA NothingUnknown ==
    ASSUME NEW bundle, NEW s, NEW m, NEW mint, HonestView(bundle, s, m, mint)
    PROVE  unknownOuterPrograms(bundle, Options) = {}
<1>1. bundle.foreign = <<>> /\ bundle.computeBudget = <<>> /\ bundle.feePayer = Paymaster
  BY DEF HonestView
<1>2. DOMAIN bundle.foreign = {} /\ DOMAIN bundle.computeBudget = {}
  BY <1>1
<1>3. \A n \in DOMAIN bundle.ataCreates : bundle.ataCreates[n].funder = Paymaster
  <2>1. CASE bundle.ataCreates = <<>>
    BY <2>1
  <2>2. CASE bundle.ataCreates # <<>>
    <3>1. PICK x : bundle.ataCreates = <<x>> /\ x.funder = Paymaster
      BY <2>2 DEF HonestView
    <3>2. DOMAIN bundle.ataCreates = {1} /\ bundle.ataCreates[1] = x
      BY <3>1
    <3> QED
      BY <3>1, <3>2
  <2> QED
    BY <2>1, <2>2
<1> QED
  BY <1>1, <1>2, <1>3 DEF unknownOuterPrograms

\* The enterprise comparison accepts an honest bundle (decoder.ts:1111).
LEMMA EnterpriseAccepts ==
    ASSUME NEW s \in SendType, NEW m, NEW mint, NEW decimals, NEW a, NEW tx,
           Honest(tx, s, m, mint, a), Readable(m),
           NEW r, RecipientIs(r, s, mint, decimals), ReadsAs(m, r, s.fee),
           NEW payload, Displays(payload, s, mint, decimals)
    PROVE  compareDecodedToExpected(decodeVaultSolanaTransaction(tx, Options), payload)
<1> DEFINE k == Len(s.approvers)
           bundle == parseBundle(tx)
           d == DecodedCreate(bundle, Options)
           target == Pda(IndexOf(s))
<1>1. Parses(tx) /\ HonestView(bundle, s, m, mint)
  BY ViewIs
<1> HIDE DEF bundle
<1>2. PICK c : bundle.creates = <<c>> /\ IsCreation(c, s, m)
  BY <1>1 DEF HonestView
<1>3. /\ Len(bundle.creates) = 1 /\ bundle.creates # <<>> /\ DOMAIN bundle.creates = {1}
      /\ bundle.creates[1] = c
  BY <1>2
<1>4. /\ Len(c.keys) = 5 /\ KeyOf(c, 1) = Multisig /\ KeyOf(c, 2) = target
      /\ c.data.vault_index = 0 /\ c.data.message = m
  BY <1>2 DEF IsCreation
<1>5. /\ k \in Nat \ {0} /\ DOMAIN bundle.approves = 1..k /\ bundle.feePayer = Paymaster
      /\ \A n \in 1..k : /\ Len(bundle.approves[n].keys) = 3
                         /\ KeyOf(bundle.approves[n], 2) = target
  <2>1. \A ix : IsApprovalBy(ix, s, KeyOf(ix, 3)) => Len(ix.keys) = 3 /\ KeyOf(ix, 2) = target
    BY DEF IsApprovalBy, IsApprove
  <2>2. \A ix, x : IsApprovalBy(ix, s, x) => Len(ix.keys) = 3 /\ KeyOf(ix, 2) = target
    BY <2>1 DEF IsApprovalBy
  <2>3. /\ k \in Nat \ {0} /\ bundle.approves \in Seq(ToSet(bundle.approves))
        /\ Len(bundle.approves) = k /\ bundle.feePayer = Paymaster
        /\ \A n \in 1..k : IsApprovalBy(bundle.approves[n], s, s.approvers[n])
    BY <1>1 DEF HonestView
  <2>4. DOMAIN bundle.approves = 1..k
    BY <2>3
  <2> QED
    BY <2>2, <2>3, <2>4
<1> HIDE DEF k, target
<1>6. m.account_keys # <<>> /\ m.account_keys[1] = Vault
  BY DEF ReadsAs
<1>7. Decodes(tx)
  <2>0. 3 >= 3 /\ 5 >= 3
    OBVIOUS
  <2>1. \A n \in DOMAIN bundle.approves : Len(bundle.approves[n].keys) >= 3
    BY <1>5, <2>0, Zenon
  <2>2. \A n \in DOMAIN bundle.creates :
           /\ Len(bundle.creates[n].keys) >= 3
           /\ bundle.creates[n].data.message.account_keys # <<>>
    <3> TAKE n \in DOMAIN bundle.creates
    <3>1. n = 1
      BY <1>3
    <3>2. bundle.creates[n] = c
      BY <1>3, <3>1
    <3> QED
      BY <1>4, <1>6, <2>0, <3>2
  <2>3. Len(bundle.creates) <= 1
    BY <1>3
  <2> QED
    BY <1>1, <1>3, <2>1, <2>2, <2>3 DEF Decodes, bundle
<1>8. decodeVaultSolanaTransaction(tx, Options) = d
  BY <1>3, <1>7 DEF decodeVaultSolanaTransaction, bundle
<1>9. Options.expectedRecipientOwner = Unset /\ Options.allowMemo = TRUE
  BY DEF Options, DecodeVaultSolanaOptions
<1>10. /\ d.kind = "create" /\ d.vaultIndex = c.data.vault_index
       /\ d.multisigPda = KeyOf(c, 1) /\ d.transactionPda = KeyOf(c, 2)
       /\ d.sender = m.account_keys[1]
       /\ d.approveTargets = Targets(bundle.approves)
       /\ d.executeTargets = Targets(Filter(bundle.executes, LAMBDA e : Len(e.keys) >= 2))
       /\ d.unknownOuterPrograms = unknownOuterPrograms(bundle, Options)
       /\ d.feePayer = Paymaster
  BY <1>3, <1>4, <1>5 DEF DecodedCreate, parseCreateTransactionData, InnerMessage
<1>11. /\ d.recipients = Read(m).recipients /\ d.feeLamports = Read(m).feeLamports
       /\ d.unknownInnerInstructionCount = Read(m).unknownInnerInstructionCount
  BY <1>3, <1>4, <1>5, <1>9 DEF DecodedCreate, Read, parseCreateTransactionData, ShownRecipients
<1> HIDE DEF d
<1>12. compareFundFlows(d, payload)
  <2>1. /\ d.recipients = <<r>> /\ d.feeLamports = s.fee /\ d.unknownInnerInstructionCount = 0
    BY <1>11 DEF ReadsAs
  <2>2. /\ payload.recipients = <<[address |-> s.recipient, amount |-> s.amount]>>
        /\ payload.tokenMint = mint /\ payload.tokenDecimals = decimals
        /\ payload.maxFeeLamports = s.fee /\ payload.expectedFeePayer \in {Unset, Paymaster}
    BY DEF Displays
  <2> QED
    BY <1>10, <2>1, <2>2, FlowsFit
<1>13. d.unknownOuterPrograms = {}
  BY <1>1, <1>10, NothingUnknown
<1>14. ToSet(d.approveTargets) \subseteq {target}
  <2>1. /\ DOMAIN d.approveTargets = 1..k
        /\ \A n \in 1..k : d.approveTargets[n] = target
    BY <1>5, <1>10 DEF Targets
  <2> QED
    BY <2>1 DEF ToSet
<1>15. ToSet(d.executeTargets) \subseteq {target}
  <2>1. PICK e : bundle.executes = <<e>> /\ IsExecution(e, s, m)
    BY <1>1 DEF HonestView
  <2>2. KeyOf(e, 2) = target
    BY <2>1 DEF IsExecution, target
  <2> DEFINE kept == Filter(bundle.executes, LAMBDA x : Len(x.keys) >= 2)
             I == { i \in DOMAIN <<e>> : Len(<<e>>[i].keys) >= 2 }
  <2>3. kept = Pick(<<e>>, I)
    BY <2>1 DEF Filter
  <2>4. <<e>> \in Seq({e}) /\ I \in SUBSET DOMAIN <<e>>
    OBVIOUS
  <2> HIDE DEF kept, I
  <2>5. kept \in Seq({e})
    BY <2>3, <2>4, PickedElements
  <2>6. \A n \in DOMAIN kept : kept[n] = e
    BY <2>5
  <2>7. /\ DOMAIN d.executeTargets = DOMAIN kept
        /\ \A n \in DOMAIN kept : d.executeTargets[n] = target
    BY <1>10, <2>2, <2>6 DEF Targets, kept
  <2> QED
    BY <2>7 DEF ToSet
<1>16. CreateAgrees(d, payload)
  BY <1>4, <1>6, <1>10, <1>12, <1>14, <1>15 DEF CreateAgrees, Agrees, Displays
<1>17. compareDecodedToExpected(d, payload)
  BY <1>4, <1>10, <1>13, <1>16 DEF compareDecodedToExpected, Agrees, Displays
<1> QED
  BY <1>8, <1>17

\* The recipient as the decoder reads it from the bytes.
DecodedRecipient(r, s, mint, decimals) ==
    \/ mint = Unset /\ r = NativeRecipient(s.recipient, s.amount)
    \/ /\ mint # Unset
       /\ r = SplRecipient(deriveAssociatedTokenAddress(s.recipient, mint, TOKEN_PROGRAM_ID),
                           s.amount, mint, decimals, TOKEN_PROGRAM_ID)

\* The recipient as the consumer's gate resolves it.
ResolvedTo(q, s, mint, decimals) ==
    /\ RecipientIs(q, s, mint, decimals)
    /\ q.asset = "spl" => q.ataVerified
    /\ mint # Unset =>
         /\ q.asset = "spl" /\ q.tokenProgram = TOKEN_PROGRAM_ID
         /\ q.ata = deriveAssociatedTokenAddress(s.recipient, mint, TOKEN_PROGRAM_ID)

\* A token account that is the recipient's is resolved to the recipient.
LEMMA RecipientResolves ==
    ASSUME NEW s, NEW mint, NEW decimals, NEW r, DecodedRecipient(r, s, mint, decimals)
    PROVE  /\ RecipientIs(r, s, mint, decimals)
           /\ mint = Unset => ResolvedTo(r, s, mint, decimals)
           /\ mint # Unset => \E q : /\ resolveAtaOwner(<<r>>, s.recipient, mint) = <<q>>
                                     /\ ResolvedTo(q, s, mint, decimals)
<1> DEFINE ata == deriveAssociatedTokenAddress(s.recipient, mint, TOKEN_PROGRAM_ID)
<1>1. CASE mint = Unset
  <2>1. r.asset = "native" /\ r.address = s.recipient /\ r.amount = s.amount
    BY <1>1 DEF DecodedRecipient, NativeRecipient
  <2>2. RecipientIs(r, s, mint, decimals)
    BY <1>1, <2>1 DEF RecipientIs
  <2> QED
    BY <1>1, <2>1, <2>2 DEF ResolvedTo
<1>2. CASE mint # Unset
  <2> HIDE DEF ata
  <2>1. r = [address |-> ata, ata |-> ata, ataVerified |-> Unset, amount |-> s.amount,
             asset |-> "spl", mint |-> mint, decimals |-> decimals,
             tokenProgram |-> TOKEN_PROGRAM_ID]
    BY <1>2 DEF DecodedRecipient, SplRecipient, ata
  <2> DEFINE q == [r EXCEPT !.address = s.recipient, !.ataVerified = TRUE]
  <2>2. /\ q.amount = s.amount /\ q.asset = "spl" /\ q.mint = mint /\ q.decimals = decimals
        /\ q.tokenProgram = TOKEN_PROGRAM_ID /\ q.ata = ata /\ q.ataVerified = TRUE
        /\ r.amount = s.amount /\ r.asset = "spl" /\ r.mint = mint /\ r.decimals = decimals
        /\ r.tokenProgram = TOKEN_PROGRAM_ID /\ r.ata = ata
    BY <2>1
  <2>3. resolveAtaOwner(<<r>>, s.recipient, mint) = <<q>>
    <3> DEFINE candidates == { deriveAssociatedTokenAddress(s.recipient, mint, p) :
                                 p \in {TOKEN_PROGRAM_ID, TOKEN_2022_PROGRAM_ID} }
               Shown1(x) == IF x.asset # "spl" THEN x
                            ELSE [x EXCEPT !.address = IF x.ata \in candidates THEN s.recipient
                                                       ELSE x.ata,
                                           !.ataVerified = x.ata \in candidates]
    <3>1. resolveAtaOwner(<<r>>, s.recipient, mint) = [n \in DOMAIN <<r>> |-> Shown1(<<r>>[n])]
      BY DEF resolveAtaOwner
    <3>2. ata \in candidates
      BY DEF ata
    <3> HIDE DEF candidates
    <3>3. r.ata \in candidates
      BY <2>2, <3>2
    <3>4. (r.ata \in candidates) = TRUE
      BY <3>3
    <3>5. Shown1(r) = q
      BY <2>2, <3>3, <3>4
    <3> HIDE DEF Shown1, q
    <3>6. [n \in DOMAIN <<r>> |-> Shown1(<<r>>[n])] = <<Shown1(r)>>
      OBVIOUS
    <3> QED
      BY <3>1, <3>5, <3>6
  <2> HIDE DEF q
  <2>4. RecipientIs(q, s, mint, decimals) /\ RecipientIs(r, s, mint, decimals)
    BY <2>2 DEF RecipientIs, ata
  <2>5. ResolvedTo(q, s, mint, decimals)
    BY <2>2, <2>4 DEF ResolvedTo, ata
  <2> QED
    BY <1>2, <2>3, <2>4, <2>5
<1> QED
  BY <1>1, <1>2

\* What a device asks of a bundle for the display of a payment.
Asks(params, device, s, mint, decimals) ==
    /\ params.multisigPda = Multisig /\ params.members = Members /\ params.signer = device
    /\ params.vaultIndex = 0
    /\ params.expected.recipient = s.recipient /\ params.expected.amount = s.amount
    /\ params.expected.tokenMint = mint /\ params.expected.tokenDecimals = decimals
    /\ params.maxFeeLamports = s.fee /\ params.expectedFeePayer = Paymaster

\* It asks for what it displays.
LEMMA AsksForDisplay ==
    ASSUME NEW device, NEW s, NEW mint, NEW decimals, NEW payload,
           Displays(payload, s, mint, decimals)
    PROVE  Asks(ConsumerParams(device, payload), device, s, mint, decimals)
<1>1. /\ payload.recipients[1].address = s.recipient /\ payload.recipients[1].amount = s.amount
      /\ payload.tokenMint = mint /\ payload.tokenDecimals = decimals
      /\ payload.maxFeeLamports = s.fee
  BY DEF Displays
<1> QED
  BY <1>1 DEF Asks, ConsumerParams, ConsumerSolanaBundleParams

\* The instructions of the program are for the created proposal and the device
\* is among those that approve.
LEMMA IxsAgree ==
    ASSUME NEW s \in SendType, IsInjective(s.approvers), NEW m, NEW mint, NEW decimals,
           NEW bundle, HonestView(bundle, s, m, mint),
           NEW device \in ToSet(s.approvers),
           NEW params, Asks(params, device, s, mint, decimals)
    PROVE  MultisigIxsAgree(bundle, params)
<1> DEFINE k == Len(s.approvers)
           target == Pda(IndexOf(s))
           approvers == [n \in DOMAIN bundle.approves |-> KeyOf(bundle.approves[n], 3)]
           create == bundle.creates[1]
           On(ix) == Len(ix.keys) >= 2 /\ KeyOf(ix, 1) = Multisig /\ KeyOf(ix, 2) = target
<1>1. /\ s.approvers \in Seq(Device) /\ k \in Nat \ {0} /\ DOMAIN s.approvers = 1..k
      /\ s.approvers[1] \in Device /\ ToSet(s.approvers) \subseteq Device
  BY DEF SendType, ToSet
<1>2. params.multisigPda = Multisig /\ params.signer = device /\ ToSet(params.members) = Device
  BY BundleAssumption DEF Asks
<1>3. PICK c : bundle.creates = <<c>> /\ IsCreation(c, s, m)
  BY DEF HonestView
<1>4. PICK e : bundle.executes = <<e>> /\ IsExecution(e, s, m)
  BY DEF HonestView
<1>5. PICK x : bundle.closes = <<x>> /\ IsClose(x, s)
  BY DEF HonestView
<1>6. /\ bundle.approves \in Seq(ToSet(bundle.approves)) /\ Len(bundle.approves) = k
      /\ \A n \in 1..k : IsApprovalBy(bundle.approves[n], s, s.approvers[n])
  BY DEF HonestView
<1>7. DOMAIN bundle.approves = 1..k
  BY <1>1, <1>6
<1> HIDE DEF k
<1>8. approvers = s.approvers
  <2>1. \A n \in 1..k : KeyOf(bundle.approves[n], 3) = s.approvers[n]
    BY <1>6 DEF IsApprovalBy
  <2>2. approvers = [n \in 1..k |-> s.approvers[n]]
    BY <1>7, <2>1
  <2>3. s.approvers = [n \in 1..k |-> s.approvers[n]]
    BY <1>1
  <2> QED
    BY <2>2, <2>3
<1>9. create = c /\ KeyOf(c, 1) = Multisig /\ KeyOf(c, 2) = target /\ KeyOf(c, 3) = s.approvers[1]
  BY <1>3 DEF IsCreation
<1>10. Len(bundle.executes) <= 1 /\ Len(bundle.closes) <= 1
  BY <1>4, <1>5
<1>11. \A ix \in ToSet(bundle.approves) \cup {e} \cup {x} : On(ix)
  <2>1. ASSUME NEW ix \in ToSet(bundle.approves)
        PROVE  On(ix)
    <3>1. PICK n \in 1..k : ix = bundle.approves[n]
      BY <1>7 DEF ToSet
    <3>2. IsApprovalBy(ix, s, s.approvers[n])
      BY <1>6, <3>1
    <3>3. Len(ix.keys) = 3 /\ KeyOf(ix, 1) = Multisig /\ KeyOf(ix, 2) = target
      BY <3>2 DEF IsApprovalBy, IsApprove
    <3> QED
      BY <3>3
  <2>2. On(e)
    BY <1>4 DEF IsExecution
  <2>3. On(x)
    BY <1>5 DEF IsClose
  <2> QED
    BY <2>1, <2>2, <2>3
<1>12. ToSet(bundle.approves \o bundle.executes \o bundle.closes)
         = ToSet(bundle.approves) \cup {e} \cup {x}
  <2> DEFINE W == ToSet(bundle.approves) \cup {e} \cup {x}
             A == bundle.approves
  <2>1. A \in Seq(W) /\ <<e>> \in Seq(W) /\ <<x>> \in Seq(W)
    BY <1>6
  <2> HIDE DEF W, A
  <2>2. /\ A \o <<e>> \in Seq(W) /\ ToSet(A \o <<e>>) = ToSet(A) \cup ToSet(<<e>>)
    BY <2>1, JoinedElements
  <2>3. ToSet((A \o <<e>>) \o <<x>>) = ToSet(A \o <<e>>) \cup ToSet(<<x>>)
    <3> DEFINE B == A \o <<e>>
               C == <<x>>
    <3>1. B \in Seq(W) /\ C \in Seq(W)
      BY <2>1, <2>2
    <3> HIDE DEF B, C
    <3>2. ToSet(B \o C) = ToSet(B) \cup ToSet(C)
      BY <3>1, JoinedElements
    <3> QED
      BY <3>2 DEF B, C
  <2>4. ToSet(<<e>>) = {e} /\ ToSet(<<x>>) = {x}
    BY OneElement
  <2> QED
    BY <1>4, <1>5, <2>2, <2>3, <2>4 DEF A
<1> HIDE DEF approvers, create, target
<1> QED
  BY <1>1, <1>2, <1>8, <1>9, <1>10, <1>11, <1>12 DEF MultisigIxsAgree, approvers, create

\* The payment that the device reads is the one displayed.
LEMMA InnerFits ==
    ASSUME NEW s \in SendType, NEW m, NEW mint, NEW decimals,
           NEW bundle, HonestView(bundle, s, m, mint),
           NEW r, DecodedRecipient(r, s, mint, decimals), ReadsAs(m, r, s.fee),
           NEW device, NEW params, Asks(params, device, s, mint, decimals)
    PROVE  /\ InnerAgrees(bundle, params)
           /\ \E q : /\ ConsumerRecipients(bundle, params) = <<q>>
                     /\ ResolvedTo(q, s, mint, decimals)
<1> DEFINE rs == ConsumerRecipients(bundle, params)
           classified == ConsumerClassified(bundle)
           inner == parseCreateTransactionData(bundle.creates[1].data)
           view == [recipients |-> rs, feeLamports |-> classified.feeLamports,
                    feePayer |-> bundle.feePayer,
                    unknownInnerInstructionCount |-> classified.unknownInnerInstructionCount]
           expected == [ExpectedSolanaVaultPayload(
                  <<[address |-> params.expected.recipient, amount |-> params.expected.amount]>>,
                  params.expected.tokenMint, params.expected.tokenDecimals, params.maxFeeLamports)
                 EXCEPT !.expectedFeePayer = params.expectedFeePayer]
<1>1. PICK c : bundle.creates = <<c>> /\ IsCreation(c, s, m)
  BY DEF HonestView
<1>2. /\ bundle.feePayer = Paymaster /\ bundle.creates[1] = c
      /\ c.data.vault_index = 0 /\ c.data.message = m
  BY <1>1 DEF HonestView, IsCreation
<1>3. inner.vaultIndex = 0 /\ inner.accountKeys = m.account_keys /\ inner = InnerMessage(0, m)
  BY <1>2 DEF parseCreateTransactionData, InnerMessage
<1>4. classified = Read(m)
  BY <1>2, <1>3 DEF ConsumerClassified, Read
<1>5. /\ params.multisigPda = Multisig /\ params.vaultIndex = 0
      /\ params.expected.recipient = s.recipient /\ params.expected.amount = s.amount
      /\ params.expected.tokenMint = mint /\ params.expected.tokenDecimals = decimals
      /\ params.maxFeeLamports = s.fee /\ params.expectedFeePayer = Paymaster
  BY DEF Asks
<1>6. /\ m.account_keys[1] = Vault /\ Read(m).recipients = <<r>> /\ Read(m).feeLamports = s.fee
      /\ Read(m).unknownInnerInstructionCount = 0
  BY DEF ReadsAs
<1> HIDE DEF inner, classified
<1>7. PICK q : rs = <<q>> /\ ResolvedTo(q, s, mint, decimals)
  <2>1. rs = IF mint = Unset THEN <<r>> ELSE resolveAtaOwner(<<r>>, s.recipient, mint)
    BY <1>4, <1>5, <1>6 DEF ConsumerRecipients, classified
  <2> HIDE DEF rs
  <2>2. CASE mint = Unset
    BY <2>1, <2>2, RecipientResolves
  <2>3. CASE mint # Unset
    BY <2>1, <2>3, RecipientResolves
  <2> QED
    BY <2>2, <2>3
<1>8. compareFundFlows(view, expected)
  <2>1. /\ view.recipients = rs /\ view.feeLamports = s.fee
        /\ view.unknownInnerInstructionCount = 0 /\ view.feePayer = Paymaster
    BY <1>2, <1>4, <1>6
  <2>2. /\ expected.recipients = <<[address |-> params.expected.recipient,
                                    amount |-> params.expected.amount]>>
        /\ expected.tokenMint = mint /\ expected.tokenDecimals = decimals
        /\ expected.maxFeeLamports = s.fee /\ expected.expectedFeePayer = Paymaster
    BY <1>5 DEF ExpectedSolanaVaultPayload
  <2>3. expected.recipients = <<[address |-> s.recipient, amount |-> s.amount]>>
    BY <1>5, <2>2
  <2>4. RecipientIs(q, s, mint, decimals)
    BY <1>7 DEF ResolvedTo
  <2> HIDE DEF view, expected, rs
  <2> QED
    BY <1>7, <2>1, <2>2, <2>3, <2>4, FlowsFit
<1>9. \A n \in DOMAIN rs : rs[n].asset = "spl" => rs[n].ataVerified
  <2> HIDE DEF rs
  <2>1. \A n \in DOMAIN rs : rs[n] = q
    BY <1>7
  <2> QED
    BY <1>7, <2>1 DEF ResolvedTo
<1>10. inner.accountKeys[1] = deriveVaultPda(params.multisigPda, params.vaultIndex)
  BY <1>3, <1>5, <1>6 DEF Vault
<1> HIDE DEF rs
<1>11. InnerAgrees(bundle, params)
  BY <1>3, <1>5, <1>8, <1>9, <1>10 DEF InnerAgrees, inner, classified, rs
<1> QED
  BY <1>7, <1>11 DEF rs

\* The token account that the bundle creates is the recipient's.
LEMMA AtaFits ==
    ASSUME NEW s, NEW m, NEW mint, NEW decimals,
           NEW bundle, HonestView(bundle, s, m, mint),
           NEW device, NEW params, Asks(params, device, s, mint, decimals),
           NEW q, ConsumerRecipients(bundle, params) = <<q>>, ResolvedTo(q, s, mint, decimals)
    PROVE  AtaAgrees(bundle, params)
<1>1. /\ bundle.feePayer = Paymaster /\ params.expected.recipient = s.recipient
      /\ params.expected.tokenMint = mint
  BY DEF HonestView, Asks
<1>2. CASE bundle.ataCreates = <<>>
  BY <1>2 DEF AtaAgrees, ToSet
<1>3. CASE bundle.ataCreates # <<>>
  <2>1. PICK y : /\ mint # Unset /\ bundle.ataCreates = <<y>>
                 /\ y = [funder |-> Paymaster,
                         ata |-> deriveAssociatedTokenAddress(s.recipient, mint, TOKEN_PROGRAM_ID),
                         owner |-> s.recipient, mint |-> mint,
                         tokenProgram |-> TOKEN_PROGRAM_ID, dataOk |-> TRUE]
    BY <1>3 DEF HonestView
  <2>2. /\ y.dataOk /\ y.funder = Paymaster /\ y.owner = s.recipient /\ y.mint = mint
        /\ y.tokenProgram = TOKEN_PROGRAM_ID
        /\ y.ata = deriveAssociatedTokenAddress(s.recipient, mint, TOKEN_PROGRAM_ID)
    BY <2>1
  <2>3. Len(bundle.ataCreates) <= 1 /\ ToSet(bundle.ataCreates) = {y}
    <3>1. Len(bundle.ataCreates) <= 1
      BY <2>1
    <3>2. ToSet(<<y>>) = {y}
      BY OneElement
    <3> QED
      BY <2>1, <3>1, <3>2
  <2>4. /\ q \in ToSet(ConsumerRecipients(bundle, params))
        /\ q.asset = "spl" /\ q.ata = y.ata /\ q.tokenProgram = y.tokenProgram
    <3>1. q \in ToSet(<<q>>)
      BY OneElement
    <3> QED
      BY <2>1, <2>2, <3>1 DEF ResolvedTo
  <2> QED
    BY <1>1, <2>2, <2>3, <2>4 DEF AtaAgrees
<1> QED
  BY <1>2, <1>3

\* The gate of every device that approves accepts an honest bundle (decoder.ts:1685).
LEMMA ConsumerAccepts ==
    ASSUME NEW s \in SendType, IsInjective(s.approvers),
           NEW m, NEW mint, NEW decimals, NEW a, NEW tx, Honest(tx, s, m, mint, a), Readable(m),
           NEW r, DecodedRecipient(r, s, mint, decimals), ReadsAs(m, r, s.fee),
           NEW payload, Displays(payload, s, mint, decimals),
           NEW device \in ToSet(s.approvers)
    PROVE  verifyConsumerSolanaBundle(tx, ConsumerParams(device, payload))
<1> DEFINE bundle == parseBundle(tx)
           params == ConsumerParams(device, payload)
<1>1. Parses(tx) /\ HonestView(bundle, s, m, mint)
  BY ViewIs
<1>2. Asks(params, device, s, mint, decimals)
  BY AsksForDisplay
<1>3. device \in Device /\ Paymaster \notin Device
  BY BundleAssumption DEF SendType, ToSet
<1> HIDE DEF bundle, params
<1>4. ConsumerDecodes(bundle, params)
  <2>1. PICK c : bundle.creates = <<c>> /\ IsCreation(c, s, m)
    BY <1>1 DEF HonestView
  <2>2. /\ bundle.creates[1] = c /\ Len(bundle.creates) = 1 /\ Len(c.keys) = 5
        /\ c.data.message = m /\ 5 >= 4 /\ 3 >= 3
    BY <2>1 DEF IsCreation
  <2>3. m.account_keys # <<>>
    BY DEF ReadsAs
  <2>4. \A n \in DOMAIN bundle.approves : Len(bundle.approves[n].keys) = 3
    <3>1. /\ bundle.approves \in Seq(ToSet(bundle.approves))
          /\ \A n \in 1..Len(bundle.approves) :
                IsApprovalBy(bundle.approves[n], s, s.approvers[n])
      BY <1>1 DEF HonestView
    <3> QED
      BY <3>1 DEF IsApprovalBy, IsApprove
  <2>5. \A n \in DOMAIN bundle.approves : Len(bundle.approves[n].keys) >= 3
    BY <2>2, <2>4, Zenon
  <2>6. /\ params.signer = device /\ ToSet(params.members) = Device
        /\ IsInjective(params.members)
    BY <1>2, BundleAssumption DEF Asks
  <2>7. Len(bundle.creates[1].keys) >= 4 /\ bundle.creates[1].data.message.account_keys # <<>>
    BY <2>2, <2>3
  <2> QED
    BY <1>3, <2>2, <2>5, <2>6, <2>7 DEF ConsumerDecodes
<1>5. FeePayerOk(bundle, params)
  BY <1>1, <1>2, <1>3, BundleAssumption DEF FeePayerOk, HonestView, Asks, Agrees
<1>6. OuterAllowed(bundle, params)
  <2>1. bundle.foreign = <<>> /\ bundle.nonceAdvanceIndexes \subseteq {0}
        /\ bundle.computeBudget = <<>>
    BY <1>1 DEF HonestView
  <2>2. DOMAIN bundle.computeBudget = {}
    BY <2>1
  <2> QED
    BY <2>1, <2>2 DEF OuterAllowed
<1>7. MultisigIxsAgree(bundle, params)
  BY <1>1, <1>2, IxsAgree
<1>8. PICK q : /\ ConsumerRecipients(bundle, params) = <<q>>
               /\ ResolvedTo(q, s, mint, decimals)
  BY <1>1, <1>2, InnerFits
<1>9. InnerAgrees(bundle, params)
  BY <1>1, <1>2, InnerFits
<1>10. AtaAgrees(bundle, params)
  BY <1>1, <1>2, <1>8, AtaFits
<1>11. verifyConsumerSolanaBundle(tx, params)
  BY <1>1, <1>4, <1>5, <1>6, <1>7, <1>9, <1>10 DEF verifyConsumerSolanaBundle, bundle
<1> QED
  BY <1>11 DEF params

-----------------------------------------------------------------------------
(***************************************************************************)
(* The program runs it to its end.                                         *)
(***************************************************************************)

\* The accounts while it runs, whatever the built message.
Account ==
    [multisig : {Multisig}, transactionIndex : Nat, creator : Device, payer : {Paymaster},
     vaultIndex : {0}, executed : BOOLEAN, approvals : Seq(Device), message : BuiltMessages]

Running ==
    [transaction_index : Nat, proposals : [1..MaxIndex -> Account \cup {Unset}],
     paid : [1..MaxIndex ->
               [message : BuiltMessages, approvals : Seq(Device)] \cup {Unset}],
     funds : Funds, failed : {FALSE}]

\* The proposal of the send after n of its approvals, with funds f.
Progress(c, s, m, n, f) ==
    LET p == c.proposals[IndexOf(s)] IN
    /\ c \in Running /\ c.funds = f
    /\ p \in Account /\ ~p.executed /\ p.message = m
    /\ Len(p.approvals) = n /\ \A j \in 1..n : p.approvals[j] = s.approvers[j]

\* The fields of accounts and of an account.
LEMMA RunningFacts ==
    ASSUME NEW c \in Running
    PROVE  /\ c.failed = FALSE /\ c.transaction_index \in Nat
           /\ c.proposals \in [1..MaxIndex -> Account \cup {Unset}]
           /\ c = [transaction_index |-> c.transaction_index, proposals |-> c.proposals,
                   paid |-> c.paid, funds |-> c.funds, failed |-> FALSE]
           /\ c.paid \in [1..MaxIndex ->
                            [message : BuiltMessages, approvals : Seq(Device)] \cup {Unset}]
           /\ c.funds \in Funds
  BY DEF Running

\* ... which is there.
LEMMA AccountFacts ==
    ASSUME NEW p \in Account
    PROVE  /\ p # Unset /\ p.payer = Paymaster /\ p.executed \in BOOLEAN
           /\ p.approvals \in Seq(Device) /\ p.message \in BuiltMessages
  BY BuiltAssumption DEF Account

\* An account with one more approval.
LEMMA AccountApproved ==
    ASSUME NEW p \in Account, NEW member \in Device
    PROVE  LET q == [p EXCEPT !.approvals = Append(@, member)] IN
           /\ q \in Account /\ q.executed = p.executed /\ q.message = p.message
           /\ q.approvals = Append(p.approvals, member)
<1>1. p.approvals \in Seq(Device)
  BY AccountFacts
<1> DEFINE w == Append(p.approvals, member)
<1>2. w \in Seq(Device)
  BY <1>1
<1> HIDE DEF w
<1> SUFFICES LET q == [p EXCEPT !.approvals = w] IN
             /\ q \in Account /\ q.executed = p.executed /\ q.message = p.message
             /\ q.approvals = w
  BY DEF w
<1> QED
  BY <1>2 DEF Account

\* The creation at the next index succeeds.
LEMMA HonestCreates ==
    ASSUME NEW s \in SendType, NEW m \in BuiltMessages, ValidMessage(m, Vault),
           IndexOf(s) \in 1..MaxIndex, MaxIndex \in Nat,
           NEW c \in Running, c.transaction_index + 1 = IndexOf(s),
           NEW ix, IsCreation(ix, s, m)
    PROVE  Progress(RunCreate(c, ix), s, m, 0, c.funds)
<1> DEFINE i == IndexOf(s)
           p == [multisig |-> Multisig, transactionIndex |-> i, creator |-> KeyOf(ix, 3),
                 payer |-> KeyOf(ix, 4), vaultIndex |-> ix.data.vault_index, executed |-> FALSE,
                 approvals |-> <<>>, message |-> m]
           d == [c EXCEPT !.transaction_index = i, !.proposals[i] = p]
<1>1. /\ KeyOf(ix, 2) = Pda(i) /\ KeyOf(ix, 3) \in Device /\ KeyOf(ix, 4) = Paymaster
      /\ ix.data.vault_index = 0 /\ ix.data.message = m
  BY DEF IsCreation, SendType
<1>2. deriveVaultPda(Multisig, ix.data.vault_index) = Vault
  BY <1>1 DEF Vault
<1>3. i \in Nat /\ i <= MaxIndex /\ i \in 1..MaxIndex
  OBVIOUS
<1> HIDE DEF i
<1>4. RunCreate(c, ix) = d
  BY <1>1, <1>2, <1>3 DEF RunCreate, i
<1>5. p \in Account /\ ~p.executed /\ p.message = m /\ p.approvals = <<>>
  BY <1>1, <1>3 DEF Account
<1> HIDE DEF p
<1>6. d \in Running /\ d.proposals[i] = p /\ d.funds = c.funds
  BY <1>3, <1>5 DEF Running
<1> HIDE DEF d
<1>7. Len(p.approvals) = 0 /\ \A j \in 1..0 : p.approvals[j] = s.approvers[j]
  BY <1>5
<1> QED
  BY <1>4, <1>5, <1>6, <1>7 DEF Progress, i

\* So does the approval of a member that has not approved.
LEMMA HonestApproves ==
    ASSUME NEW s \in SendType, IsInjective(s.approvers), IndexOf(s) \in 1..MaxIndex, NEW m,
           NEW n \in 1..Len(s.approvers), NEW c, NEW f, Progress(c, s, m, n - 1, f),
           NEW ix, IsApprovalBy(ix, s, s.approvers[n])
    PROVE  Progress(RunApprove(c, ix), s, m, n, f)
<1> DEFINE i == IndexOf(s)
           p == c.proposals[i]
           member == KeyOf(ix, 3)
           q == [p EXCEPT !.approvals = Append(@, member)]
           d == [c EXCEPT !.proposals[i].approvals = Append(@, member)]
<1>1. /\ s.approvers \in Seq(Device) /\ n \in Nat \ {0} /\ DOMAIN s.approvers = 1..Len(s.approvers)
      /\ member = s.approvers[n] /\ ix.data.transaction_index = i
      /\ member \in Device
  BY DEF SendType, IsApprovalBy
<1>2. /\ c \in Running /\ p \in Account /\ ~p.executed /\ p.message = m /\ c.funds = f
      /\ Len(p.approvals) = n - 1 /\ \A j \in 1..(n - 1) : p.approvals[j] = s.approvers[j]
  BY DEF Progress
<1>3. p # Unset /\ p.approvals \in Seq(Device)
  BY <1>2, AccountFacts
<1>4. member \notin ToSet(p.approvals)
  <2> SUFFICES ASSUME member \in ToSet(p.approvals) PROVE FALSE
    OBVIOUS
  <2>1. DOMAIN p.approvals = 1..(n - 1)
    BY <1>2, <1>3
  <2>2. PICK j \in 1..(n - 1) : p.approvals[j] = member
    BY <2>1 DEF ToSet
  <2>3. j # n /\ j \in DOMAIN s.approvers /\ n \in DOMAIN s.approvers
    BY <1>1
  <2>4. s.approvers[j] = s.approvers[n]
    BY <1>1, <1>2, <2>2
  <2> QED
    BY <2>3, <2>4 DEF IsInjective
<1> HIDE DEF member
<1>5. Live(c, i) /\ MayApprove(p, member)
  BY <1>1, <1>2, <1>3, <1>4 DEF Live, MayApprove
<1>6. RunApprove(c, ix) = d
  BY <1>1, <1>5 DEF RunApprove, member
<1>7. i \in 1..MaxIndex /\ c.proposals \in [1..MaxIndex -> Account \cup {Unset}]
  BY <1>2, RunningFacts
<1> HIDE DEF i
<1>8. d \in Running /\ d.proposals[i] = q /\ d.funds = f
  <2>1. q \in Account
    BY <1>1, <1>2, AccountApproved
  <2>2. d = [c EXCEPT !.proposals = [c.proposals EXCEPT ![i] = q]]
    BY <1>2, <1>7 DEF Running
  <2> HIDE DEF q, d
  <2>3. d.proposals = [c.proposals EXCEPT ![i] = q] /\ d \in Running /\ d.funds = f
    BY <1>2, <1>7, <2>1, <2>2 DEF Running
  <2> QED
    BY <1>7, <2>3
<1>9. /\ q \in Account /\ ~q.executed /\ q.message = m
      /\ q.approvals = Append(p.approvals, member)
  BY <1>1, <1>2, AccountApproved
<1> HIDE DEF q, d
<1>10. /\ Len(q.approvals) = n
       /\ \A j \in 1..n : q.approvals[j] = s.approvers[j]
  <2>1. Len(q.approvals) = Len(p.approvals) + 1
    BY <1>1, <1>3, <1>9
  <2>2. \A j \in 1..(n - 1) : q.approvals[j] = p.approvals[j]
    BY <1>1, <1>2, <1>3, <1>9
  <2>3. q.approvals[Len(p.approvals) + 1] = member
    BY <1>1, <1>3, <1>9
  <2>4. q.approvals[n] = s.approvers[n]
    BY <1>1, <1>2, <2>3
  <2>5. \A j \in 1..n : j \in 1..(n - 1) \/ j = n
    BY <1>1
  <2>6. \A j \in 1..n : q.approvals[j] = s.approvers[j]
    BY <1>2, <2>2, <2>4, <2>5
  <2> QED
    BY <1>1, <1>2, <2>1, <2>6
<1> QED
  BY <1>6, <1>8, <1>9, <1>10 DEF Progress, i

\* An account that was executed.
LEMMA AccountExecuted ==
    ASSUME NEW p \in Account
    PROVE  [p EXCEPT !.executed = TRUE] \in Account
  BY DEF Account

\* From funds f the calls of a message succeed, in a transaction.
Payable(m, f, tx) ==
    \A c : IsChain(c) /\ c.funds = f => \E g \in Funds : Calls(c, m, tx) = With(c, g)

\* Chains that run are chains, with whatever funds.
LEMMA RunningIs ==
    ASSUME NEW c \in Running
    PROVE  IsChain(c) /\ \A f \in Funds : With(c, f) \in Running
<1>1. IsChain(c)
  BY RunningFacts DEF IsChain, With
<1>2. \A f \in Funds : With(c, f) \in Running
  BY RunningFacts DEF Running, With
<1> QED
  BY <1>1, <1>2

\* After the approvals of all the execution succeeds, if its calls do ...
LEMMA HonestExecutes ==
    ASSUME NEW s \in SendType, Len(s.approvers) >= Threshold, IndexOf(s) \in 1..MaxIndex, NEW m,
           NEW c, NEW f, Progress(c, s, m, Len(s.approvers), f), NEW ix, IsExecution(ix, s, m),
           NEW tx, Payable(m, f, tx)
    PROVE  LET e == RunExecute(c, ix, tx) IN e \in Running /\ e.proposals[IndexOf(s)] \in Account
<1> DEFINE i == IndexOf(s)
           p == c.proposals[i]
           q == [p EXCEPT !.executed = TRUE]
           r == [message |-> p.message, approvals |-> p.approvals]
           d == [c EXCEPT !.proposals[i].executed = TRUE, !.paid[i] = r]
<1>1. /\ c \in Running /\ p \in Account /\ ~p.executed /\ p.message = m /\ c.funds = f
      /\ Len(p.approvals) = Len(s.approvers)
  BY DEF Progress
<1>2. /\ p # Unset /\ q \in Account
      /\ r \in [message : BuiltMessages, approvals : Seq(Device)]
  BY <1>1, AccountFacts, AccountExecuted
<1>3. /\ ix.data.transaction_index = i /\ i \in 1..MaxIndex
      /\ IsPrefix(p.message.account_keys, SubSeq(Pubkeys(ix.keys), 4, Len(ix.keys)))
  BY <1>1 DEF IsExecution
<1>4. Len(p.approvals) >= Threshold /\ Live(c, i)
  BY <1>1, <1>2, <1>3 DEF Live
<1>5. RunExecute(c, ix, tx) = Calls(d, m, tx)
  <2> HIDE DEF i
  <2> QED
    BY <1>1, <1>3, <1>4 DEF RunExecute
<1>6. /\ c.proposals \in [1..MaxIndex -> Account \cup {Unset}]
      /\ c.paid \in [1..MaxIndex -> [message : BuiltMessages, approvals : Seq(Device)] \cup {Unset}]
  BY <1>1, RunningFacts
<1> HIDE DEF i
<1>7. d \in Running /\ d.proposals[i] = q /\ d.funds = f
  <2>1. d = [c EXCEPT !.proposals = [c.proposals EXCEPT ![i] = q],
                      !.paid = [c.paid EXCEPT ![i] = r]]
    BY <1>1, <1>3, <1>6 DEF Running
  <2> HIDE DEF q, r, d
  <2>2. /\ [c.proposals EXCEPT ![i] = q] \in [1..MaxIndex -> Account \cup {Unset}]
        /\ [c.paid EXCEPT ![i] = r] \in
              [1..MaxIndex -> [message : BuiltMessages, approvals : Seq(Device)] \cup {Unset}]
        /\ [c.proposals EXCEPT ![i] = q][i] = q
    BY <1>2, <1>3, <1>6
  <2> QED
    BY <1>1, <2>1, <2>2 DEF Running
<1> HIDE DEF d, q
<1>8. PICK g \in Funds : Calls(d, m, tx) = With(d, g)
  BY <1>7, RunningIs DEF Payable
<1>9. With(d, g) \in Running /\ With(d, g).proposals = d.proposals
  BY <1>7, RunningIs, WithIs
<1> QED
  BY <1>2, <1>5, <1>7, <1>8, <1>9 DEF i

\* ... and the close by the paymaster, who paid for the account.
LEMMA HonestCloses ==
    ASSUME NEW s, IndexOf(s) \in 1..MaxIndex, NEW c \in Running,
           c.proposals[IndexOf(s)] \in Account, NEW ix, IsClose(ix, s)
    PROVE  RunClose(c, ix).failed = FALSE
<1> DEFINE i == IndexOf(s)
           p == c.proposals[i]
<1>1. p # Unset /\ p.payer = Paymaster /\ c.failed = FALSE
  BY AccountFacts, RunningFacts
<1>2. ix.data.transaction_index = i /\ KeyOf(ix, 3) = Paymaster /\ Live(c, i)
  BY <1>1 DEF IsClose, Live
<1>3. RunClose(c, ix) = [c EXCEPT !.proposals[i] = Unset]
  <2> HIDE DEF i
  <2> QED
    BY <1>1, <1>2 DEF RunClose
<1> HIDE DEF i
<1>4. [c EXCEPT !.proposals[i] = Unset].failed = FALSE
  BY <1>1 DEF Running
<1> QED
  BY <1>3, <1>4

\* The accounts now, as those of a run.
LEMMA PresentRuns ==
    ASSUME IInv
    PROVE  Present \in Running
<1>1. Messages \subseteq BuiltMessages
  BY DEF Messages, BuiltMessages
<1>2. Proposal \subseteq Account /\ Receipt \subseteq [message : BuiltMessages, approvals : Seq(Device)]
  BY <1>1 DEF Proposal, Account, Receipt
<1>3. /\ transaction_index \in Nat /\ funds \in Funds
      /\ proposals \in [1..MaxIndex -> Proposal \cup {Unset}]
      /\ paid \in [1..MaxIndex -> Receipt \cup {Unset}]
  BY PresentFacts, FundsTyped
<1>4. /\ proposals \in [1..MaxIndex -> Account \cup {Unset}]
      /\ paid \in [1..MaxIndex ->
                     [message : BuiltMessages, approvals : Seq(Device)] \cup {Unset}]
  BY <1>2, <1>3
<1> QED
  BY <1>3, <1>4 DEF Present, Running

\* The funds once the instructions before the creation have run: the lamports
\* are the same and the recipient has an account for the tokens.
Ready(f, s, mint, a) ==
    /\ f \in Funds /\ f.lamports = funds.lamports
    /\ a = 2 =>
         /\ f.tokens[AtaOf(s.recipient, mint)] # Unset
         /\ LET held == funds.tokens[AtaOf(Vault, mint)] IN
            held # Unset => f.tokens[AtaOf(Vault, mint)] = held

\* Those instructions change nothing else.
LEMMA HonestHead ==
    ASSUME IInv, NEW s \in SendType, NEW m, NEW mint, NEW a, NEW tx, Honest(tx, s, m, mint, a),
           a = 2 => mint \in DOMAIN Decimals,
           Len(tx.instructions) >= a, Len(tx.instructions) \in Nat, NEW run, Runs(run, tx)
    PROVE  \E f : Ready(f, s, mint, a) /\ run[a] = With(Present, f)
<1> DEFINE b == tx.instructions
           p == Present
<1>1. /\ a \in 0..2 /\ (a >= 1 => IsAdvance(b[1]))
      /\ a = 2 => IsAtaCreate(b[2], s, mint)
  BY DEF Honest
<1>2. run[0] = p /\ \A n \in 1..Len(b) : run[n] = RunIx(run[n - 1], b[n], tx)
  BY DEF Runs
<1>3. funds \in Funds /\ IsChain(p) /\ p = With(p, funds) /\ p.failed = FALSE /\ p.funds = funds
  <2>1. funds \in Funds /\ p \in Chain /\ p.funds = funds
    BY FundsTyped DEF IInv, LedgerInv, Present
  <2> HIDE DEF p
  <2>2. IsChain(p) /\ p.failed = FALSE
    BY <2>1, ChainIs, ChainFacts
  <2> QED
    BY <2>1, <2>2 DEF IsChain
<1> HIDE DEF b, p
<1>4. a >= 1 => run[1] = p
  <2> SUFFICES ASSUME a >= 1
               PROVE  run[1] = p
    OBVIOUS
  <2>1. 1 \in 1..Len(b) /\ 1 - 1 = 0
    BY <1>1 DEF b
  <2>2. run[1] = RunIx(p, b[1], tx)
    BY <1>2, <2>1
  <2> QED
    BY <1>1, <1>3, <2>2, RunIxIs DEF IsAdvance
<1>5. CASE a # 2
  <2>1. Ready(funds, s, mint, a)
    BY <1>3, <1>5 DEF Ready
  <2>2. run[a] = With(p, funds)
    BY <1>1, <1>2, <1>3, <1>4, <1>5
  <2> QED
    BY <2>1, <2>2 DEF p
<1>6. CASE a = 2
  <2> DEFINE ata == AtaOf(s.recipient, mint)
             old == funds.tokens
             n == IF old[ata] = Unset THEN 0 ELSE old[ata]
             t == [old EXCEPT ![ata] = n]
             g == [lamports |-> funds.lamports, tokens |-> t]
  <2>1. 2 \in 1..Len(b) /\ 2 - 1 = 1 /\ a >= 1
    BY <1>6 DEF b
  <2>2. run[2] = RunIx(p, b[2], tx)
    BY <1>2, <1>4, <2>1
  <2>3. run[2] = RunCreateAta(p, b[2])
    <3> DEFINE ix == b[2]
    <3> HIDE DEF ix
    <3>1. ix.data.op = "createIdempotent"
      BY <1>1, <1>6 DEF IsAtaCreate, ix
    <3>2. RunIx(p, ix, tx) = RunCreateAta(p, ix)
      BY <1>3, <3>1 DEF RunIx
    <3> QED
      BY <2>2, <3>2 DEF ix
  <2>4. /\ mint \in DOMAIN Decimals /\ KeyOf(b[2], 2) = ata /\ KeyOf(b[2], 3) = s.recipient
        /\ KeyOf(b[2], 4) = mint
    BY <1>1, <1>6 DEF IsAtaCreate
  <2>5. run[2] = [p EXCEPT !.funds.tokens[ata] = IF @ = Unset THEN 0 ELSE @]
    BY <2>3, <2>4 DEF RunCreateAta
  <2>6. /\ old \in [TokenAccount -> Nat \cup {Unset}] /\ funds.lamports \in Nat
        /\ ata \in TokenAccount /\ AtaOf(Vault, mint) \in TokenAccount
    <3>1. s.recipient \in Address
      BY DEF SendType
    <3> QED
      BY <1>3, <2>4, <3>1, FundsFacts, TokenAccountsAre DEF TokenAccounts
  <2>7. run[2] = [p EXCEPT !.funds.tokens = t]
    BY <1>3, <2>5 DEF IsChain, With, Funds
  <2> HIDE DEF ata, old
  <2>8. n \in Nat /\ Unset \notin Nat
    BY <2>6, BundleAssumption
  <2>9. t \in [TokenAccount -> Nat \cup {Unset}] /\ t[ata] # Unset
    <3> HIDE DEF n
    <3> QED
      BY <2>6, <2>8
  <2>10. old[AtaOf(Vault, mint)] # Unset => t[AtaOf(Vault, mint)] = old[AtaOf(Vault, mint)]
    BY <2>6
  <2> HIDE DEF t
  <2>11. g \in Funds /\ g.lamports = funds.lamports /\ g.tokens = t
    BY <2>6, <2>9, FundsMade
  <2>12. [p EXCEPT !.funds.tokens = t] = With(p, g)
    BY <1>3, ChangedIs
  <2> HIDE DEF g
  <2>13. Ready(g, s, mint, a)
    BY <2>9, <2>10, <2>11 DEF Ready, ata, old
  <2> QED
    BY <1>6, <2>7, <2>12, <2>13 DEF p
<1> QED
  BY <1>5, <1>6

\* The program runs an honest bundle to its end.
LEMMA HonestRuns ==
    ASSUME IInv, NEW s \in SendType, s.currentTransactionIndex = transaction_index,
           transaction_index < MaxIndex, IsInjective(s.approvers),
           Len(s.approvers) >= Threshold,
           NEW m \in BuiltMessages, ValidMessage(m, Vault),
           NEW mint, NEW a, NEW tx, Honest(tx, s, m, mint, a),
           a = 2 => mint \in DOMAIN Decimals, \A f : Ready(f, s, mint, a) => Payable(m, f, tx)
    PROVE  ~Run(tx).failed
<1> DEFINE b == tx.instructions
           k == Len(s.approvers)
           l == Len(b)
           i == IndexOf(s)
<1>1. /\ a \in Nat /\ k \in Nat \ {0} /\ l = a + k + 3 /\ l \in Nat
      /\ IsCreation(b[a + 1], s, m)
      /\ \A n \in 1..k : IsApprovalBy(b[a + 1 + n], s, s.approvers[n])
      /\ IsExecution(b[a + k + 2], s, m) /\ IsClose(b[a + k + 3], s)
  <2>1. a \in 0..2 /\ HonestBody(b, s, m, a)
    BY DEF Honest
  <2> HIDE DEF b
  <2> QED
    BY <2>1 DEF HonestBody
<1>2. /\ transaction_index \in Nat /\ MaxIndex \in Nat /\ i = transaction_index + 1
      /\ i \in 1..MaxIndex
  BY PresentFacts DEF IndexOf, predictNextTransactionPda
<1>3. PICK run : Runs(run, tx) /\ Run(tx) = run[l]
  BY <1>1, RunSteps
<1>4. run[0] = Present /\ \A n \in 1..l : run[n] = RunIx(run[n - 1], b[n], tx)
  BY <1>3 DEF Runs
<1>5. Present \in Running /\ Present.transaction_index = transaction_index
  BY PresentRuns DEF Present
<1> HIDE DEF k, l, i, b
\* What is before the creation.
<1>6. PICK f : Ready(f, s, mint, a) /\ run[a] = With(Present, f)
  <2>1. l >= a
    BY <1>1
  <2> QED
    BY <1>1, <1>3, <2>1, HonestHead DEF l, b
<1> DEFINE p == With(Present, f)
\* The creation.
<1>7. Progress(run[a + 1], s, m, 0, f)
  <2>1. a + 1 \in 1..l /\ (a + 1) - 1 = a
    BY <1>1
  <2>2. run[a + 1] = RunIx(p, b[a + 1], tx)
    BY <1>4, <1>6, <2>1
  <2>3. p \in Running /\ p.transaction_index = transaction_index /\ p.funds = f
    <3>1. f \in Funds
      BY <1>6 DEF Ready
    <3>2. p \in Running
      BY <1>5, <3>1, RunningIs
    <3>3. p.transaction_index = Present.transaction_index /\ p.funds = f
      BY DEF With
    <3> QED
      BY <1>5, <3>2, <3>3
  <2> HIDE DEF p
  <2>4. RunIx(p, b[a + 1], tx) = RunCreate(p, b[a + 1])
    BY <1>1, <2>3, RunIxIs, RunningFacts DEF IsCreation
  <2>5. Progress(RunCreate(p, b[a + 1]), s, m, 0, f)
    BY <1>1, <1>2, <2>3, HonestCreates DEF i
  <2> QED
    BY <2>2, <2>4, <2>5
\* The approvals.
<1>8. Progress(run[a + 1 + k], s, m, k, f)
  <2> DEFINE S == { n \in 0..k : Progress(run[a + 1 + n], s, m, n, f) }
  <2>1. 0 \in S
    BY <1>1, <1>7
  <2>2. ASSUME NEW n \in 1..k, n - 1 \in S
        PROVE  n \in S
    <3>1. a + 1 + n \in 1..l /\ (a + 1 + n) - 1 = a + 1 + (n - 1) /\ n \in 0..k
      BY <1>1
    <3> DEFINE c == run[a + 1 + (n - 1)]
               ix == b[a + 1 + n]
    <3>2. Progress(c, s, m, n - 1, f)
      BY <2>2
    <3>3. IsApprovalBy(ix, s, s.approvers[n])
      BY <1>1
    <3>4. run[a + 1 + n] = RunIx(c, ix, tx)
      BY <1>4, <3>1
    <3> HIDE DEF c, ix
    <3>5. c.failed = FALSE /\ ix.data.op = "approve_transaction"
      BY <3>2, <3>3, RunningFacts DEF Progress, IsApprovalBy, IsApprove
    <3>6. RunIx(c, ix, tx) = RunApprove(c, ix)
      BY <3>5, RunIxIs
    <3>7. Progress(RunApprove(c, ix), s, m, n, f)
      BY <1>2, <3>2, <3>3, HonestApproves DEF i, k
    <3>8. Progress(run[a + 1 + n], s, m, n, f)
      BY <3>4, <3>6, <3>7
    <3> QED
      BY <3>1, <3>8
  <2> HIDE DEF S
  <2>3. 0..k \subseteq S
    BY <1>1, <2>1, <2>2, UpTo
  <2>4. k \in S
    BY <1>1, <2>3
  <2> QED
    BY <2>4 DEF S
\* The execution.
<1> DEFINE c == run[a + 1 + k]
           d == run[a + k + 2]
<1>9. d \in Running /\ d.proposals[i] \in Account
  <2>1. a + k + 2 \in 1..l /\ (a + k + 2) - 1 = a + 1 + k
    BY <1>1
  <2> DEFINE ix == b[a + k + 2]
  <2>2. d = RunIx(c, ix, tx)
    BY <1>4, <2>1
  <2>3. Progress(c, s, m, k, f) /\ IsExecution(ix, s, m)
    BY <1>1, <1>8
  <2> HIDE DEF c, d, ix
  <2>4. c.failed = FALSE /\ ix.data.op = "execute_transaction"
    BY <2>3, RunningFacts DEF Progress, IsExecution
  <2>5. RunIx(c, ix, tx) = RunExecute(c, ix, tx)
    BY <2>4 DEF RunIx
  <2>6. RunExecute(c, ix, tx) \in Running /\ RunExecute(c, ix, tx).proposals[IndexOf(s)] \in Account
    BY <1>2, <1>6, <2>3, HonestExecutes DEF k, i
  <2> QED
    BY <2>2, <2>5, <2>6 DEF i
\* The close.
<1>10. run[l].failed = FALSE
  <2>1. l \in 1..l /\ l - 1 = a + k + 2
    BY <1>1
  <2> DEFINE ix == b[l]
  <2>2. run[l] = RunIx(d, ix, tx)
    BY <1>4, <2>1
  <2>3. IsClose(ix, s)
    BY <1>1
  <2> HIDE DEF c, d, ix
  <2>4. d.failed = FALSE /\ ix.data.op = "close_transaction"
    BY <1>9, <2>3, RunningFacts DEF IsClose
  <2>5. RunIx(d, ix, tx) = RunClose(d, ix)
    BY <2>4, RunIxIs
  <2>6. RunClose(d, ix).failed = FALSE
    BY <1>2, <1>9, <2>3, HonestCloses DEF i
  <2> QED
    BY <2>2, <2>5, <2>6
<1> QED
  BY <1>3, <1>10

-----------------------------------------------------------------------------
(***************************************************************************)
(* The calls of an honest bundle succeed, when the vault can pay.          *)
(***************************************************************************)

\* A message of the vault, in a transaction that lets it write its accounts.
Callable(m, tx) ==
    /\ m.num_signers = 1 /\ m.num_writable_signers = 1 /\ m.num_writable_non_signers \in Nat
    /\ Len(m.account_keys) \in Nat /\ DOMAIN m.account_keys = 1..Len(m.account_keys)
    /\ m.account_keys[1] = Vault
    /\ Writes(m) \subseteq WritableOf(tx)

\* The execution of an honest bundle lets the message write its accounts.
LEMMA HonestWrites ==
    ASSUME NEW s, NEW m, NEW mint, NEW a, NEW tx, Honest(tx, s, m, mint, a)
    PROVE  Writes(m) \subseteq WritableOf(tx)
<1> DEFINE b == tx.instructions
           k == Len(s.approvers)
           ix == b[a + k + 2]
<1>1. a \in 0..2 /\ HonestBody(b, s, m, a)
  BY DEF Honest
<1> HIDE DEF b
<1>2. /\ b \in Seq(ToSet(b)) /\ k \in Nat \ {0} /\ Len(b) = a + k + 3
      /\ IsExecution(ix, s, m)
  BY <1>1 DEF HonestBody
<1> HIDE DEF k
<1>3. a + k + 2 \in 1..Len(b)
  BY <1>1, <1>2
<1>4. ix \in ToSet(b)
  BY <1>2, <1>3
<1> HIDE DEF ix
<1>5. Writes(m) \subseteq WritableAccounts(ix)
  BY <1>2 DEF IsExecution
<1> QED
  BY <1>4, <1>5 DEF WritableOf, b

\* A call has its privileges.
LEMMA PrivilegedIs ==
    ASSUME NEW m, NEW tx, Callable(m, tx), NEW ix, Len(ix.account_indexes) \in Nat,
           \A j \in 1..Len(ix.account_indexes) :
              ix.account_indexes[j] \in Nat /\ ix.account_indexes[j] < Len(m.account_keys)
    PROVE  Privileged(account_metas(m, ix), tx)
<1> DEFINE w == ix.account_indexes
           metas == account_metas(m, ix)
<1>1. /\ DOMAIN metas = 1..Len(w)
      /\ \A j \in 1..Len(w) :
            /\ metas[j].pubkey = m.account_keys[w[j] + 1]
            /\ metas[j].is_signer <=> w[j] < m.num_signers
            /\ metas[j].is_writable <=> is_writable(m, w[j])
  BY DEF account_metas, is_signer
<1> HIDE DEF metas
<1>2. SignerKeys(metas) \subseteq {Vault}
  <2> SUFFICES ASSUME NEW j \in 1..Len(w), metas[j].is_signer
               PROVE  metas[j].pubkey = Vault
    BY <1>1 DEF SignerKeys
  <2>1. w[j] \in Nat /\ w[j] < 1
    BY <1>1 DEF Callable
  <2>2. w[j] + 1 = 1
    BY <2>1
  <2> QED
    BY <1>1, <2>2 DEF Callable
<1>3. WritableKeys(metas) \subseteq Writes(m)
  <2> SUFFICES ASSUME NEW j \in 1..Len(w), metas[j].is_writable
               PROVE  metas[j].pubkey \in Writes(m)
    BY <1>1 DEF WritableKeys
  <2> DEFINE i == w[j] + 1
  <2>1. i \in DOMAIN m.account_keys /\ i - 1 = w[j]
    BY DEF Callable
  <2> HIDE DEF i
  <2>2. is_writable(m, i - 1)
    BY <1>1, <2>1
  <2> QED
    BY <1>1, <2>1, <2>2 DEF Writes, i
<1> QED
  BY <1>2, <1>3 DEF Privileged, Callable, metas

\* The vault can pay what it has.
LEMMA VaultPays ==
    ASSUME NEW m, NEW tx, Callable(m, tx), NEW p \in Nat,
           m.account_keys[p + 1] = SYSTEM_PROGRAM, NEW to \in Nat, 1 <= to,
           to <= m.num_writable_non_signers, to < Len(m.account_keys),
           NEW amount \in Nat, NEW c, IsChain(c), amount <= c.funds.lamports
    PROVE  \E g \in Funds :
              /\ Call(c, m, VaultTransfer(p, to, amount), tx) = With(c, g)
              /\ g.tokens = c.funds.tokens /\ g.lamports >= c.funds.lamports - amount
<1> DEFINE ix == VaultTransfer(p, to, amount)
           metas == account_metas(m, ix)
<1>1. /\ ix.program_id_index = p /\ ix.account_indexes = <<0, to>>
      /\ ix.data.tag = 2 /\ ix.data.amount = amount
  BY DEF VaultTransfer, SystemTransfer, Payload
<1> HIDE DEF ix
<1>2. /\ Len(ix.account_indexes) = 2
      /\ ix.account_indexes[1] = 0 /\ ix.account_indexes[2] = to
  BY <1>1
<1>3. Privileged(metas, tx)
  <2>1. \A j \in 1..Len(ix.account_indexes) :
          ix.account_indexes[j] \in Nat /\ ix.account_indexes[j] < Len(m.account_keys)
    BY <1>2
  <2>2. Len(ix.account_indexes) \in Nat
    BY <1>2
  <2> QED
    BY <2>1, <2>2, PrivilegedIs
<1>4. /\ Len(metas) = 2 /\ metas[1].pubkey = Vault /\ metas[1].is_signer
      /\ metas[1].is_writable /\ metas[2].is_writable
  <2>1. /\ Len(metas) = 2
        /\ metas[1] = [pubkey |-> m.account_keys[0 + 1], is_signer |-> is_signer(m, 0),
                       is_writable |-> is_writable(m, 0)]
        /\ metas[2] = [pubkey |-> m.account_keys[to + 1], is_signer |-> is_signer(m, to),
                       is_writable |-> is_writable(m, to)]
    BY <1>2 DEF account_metas
  <2>2. is_signer(m, 0) /\ is_writable(m, 0) /\ is_writable(m, to)
    BY DEF is_signer, is_writable, Callable
  <2> HIDE DEF metas
  <2> QED
    BY <2>1, <2>2 DEF Callable
<1> HIDE DEF metas
<1>5. MayTransfer(c, metas, ix.data)
  <2>1. c.funds.lamports \in Nat
    BY FundsFacts DEF IsChain
  <2> QED
    BY <1>1, <1>4, <2>1 DEF MayTransfer
<1>6. c.failed = FALSE
  BY ChainLives
<1>7. Call(c, m, ix, tx) = Called(c, SYSTEM_PROGRAM, metas, ix.data)
  BY <1>1, <1>3, <1>6 DEF Call, metas
<1>8. Called(c, SYSTEM_PROGRAM, metas, ix.data) =
        [c EXCEPT !.funds.lamports = LamportsLeft(@, metas[2].pubkey, ix.data.amount)]
  <2>1. SYSTEM_PROGRAM # TOKEN_PROGRAM_ID /\ SYSTEM_PROGRAM # MEMO_PROGRAM_ID
    BY BundleAssumption DEF IsInjective
  <2> QED
    BY <1>5, <2>1 DEF Called
<1>9. \E g \in Funds :
        /\ Called(c, SYSTEM_PROGRAM, metas, ix.data) = With(c, g)
        /\ g.tokens = c.funds.tokens /\ g.lamports >= c.funds.lamports - ix.data.amount
  BY <1>5, <1>8, TransferMoves
<1> QED
  BY <1>1, <1>7, <1>9 DEF ix

\* The payment of a message in tokens.
TokenPayment(amount, decimals) ==
    [program_id_index |-> 5, account_indexes |-> <<1, 4, 2, 0>>,
     data |-> TransferChecked(amount, decimals)]

\* The vault has the tokens and the recipient an account for them.
HoldsTokens(tokens, recipient, mint, amount) ==
    /\ tokens[AtaOf(Vault, mint)] # Unset /\ tokens[AtaOf(recipient, mint)] # Unset
    /\ amount <= tokens[AtaOf(Vault, mint)]

\* Then it can pay them.
LEMMA VaultPaysTokens ==
    ASSUME NEW m, NEW tx, Callable(m, tx), m.num_writable_non_signers = 3,
           Len(m.account_keys) = 8, NEW mint \in DOMAIN Decimals, NEW recipient \in Address,
           m.account_keys[2] = AtaOf(Vault, mint), m.account_keys[3] = AtaOf(recipient, mint),
           m.account_keys[5] = mint, m.account_keys[6] = TOKEN_PROGRAM_ID,
           NEW amount \in Nat, NEW c, IsChain(c),
           HoldsTokens(c.funds.tokens, recipient, mint, amount)
    PROVE  \E g \in Funds :
              /\ Call(c, m, TokenPayment(amount, Decimals[mint]), tx) = With(c, g)
              /\ g.lamports = c.funds.lamports
<1> DEFINE ix == TokenPayment(amount, Decimals[mint])
           metas == account_metas(m, ix)
           tokens == c.funds.tokens
<1>1. /\ ix.program_id_index = 5 /\ ix.account_indexes = <<1, 4, 2, 0>>
      /\ ix.data.tag = 12 /\ ix.data.amount = amount /\ ix.data.decimals = Decimals[mint]
  BY DEF TokenPayment, TransferChecked, Payload
<1> HIDE DEF ix
<1>2. /\ Len(ix.account_indexes) = 4
      /\ ix.account_indexes[1] = 1 /\ ix.account_indexes[2] = 4
      /\ ix.account_indexes[3] = 2 /\ ix.account_indexes[4] = 0
  BY <1>1
<1>3. Privileged(metas, tx)
  <2>1. \A j \in 1..Len(ix.account_indexes) :
          ix.account_indexes[j] \in Nat /\ ix.account_indexes[j] < Len(m.account_keys)
    BY <1>2
  <2>2. Len(ix.account_indexes) \in Nat
    BY <1>2
  <2> QED
    BY <2>1, <2>2, PrivilegedIs
<1>4. /\ Len(metas) = 4
      /\ metas[1].pubkey = AtaOf(Vault, mint) /\ metas[1].is_writable
      /\ metas[2].pubkey = mint
      /\ metas[3].pubkey = AtaOf(recipient, mint) /\ metas[3].is_writable
      /\ metas[4].pubkey = Vault /\ metas[4].is_signer
  <2> DEFINE M(i) == [pubkey |-> m.account_keys[i + 1], is_signer |-> is_signer(m, i),
                      is_writable |-> is_writable(m, i)]
  <2>1. /\ Len(metas) = 4 /\ metas[1] = M(1) /\ metas[2] = M(4) /\ metas[3] = M(2)
        /\ metas[4] = M(0)
    BY <1>2 DEF account_metas
  <2>2. is_writable(m, 1) /\ is_writable(m, 2) /\ is_signer(m, 0)
    BY DEF is_signer, is_writable, Callable
  <2> HIDE DEF metas
  <2>3. /\ metas[1].pubkey = m.account_keys[1 + 1] /\ metas[2].pubkey = m.account_keys[4 + 1]
        /\ metas[3].pubkey = m.account_keys[2 + 1] /\ metas[4].pubkey = m.account_keys[0 + 1]
        /\ metas[1].is_writable /\ metas[3].is_writable /\ metas[4].is_signer
    BY <2>1, <2>2
  <2> QED
    BY <2>1, <2>3 DEF Callable
<1> HIDE DEF metas
<1>5. MayTransferTokens(c, metas, ix.data)
  <2>1. AtaOf(recipient, mint) \in TokenAccounts(mint)
    BY DEF TokenAccounts
  <2>2. tokens \in [TokenAccount -> Nat \cup {Unset}] /\ AtaOf(Vault, mint) \in TokenAccount
    BY FundsFacts, TokenAccountsAre DEF IsChain
  <2> HIDE DEF tokens
  <2>3. /\ tokens[AtaOf(Vault, mint)] # Unset /\ tokens[AtaOf(recipient, mint)] # Unset
        /\ amount <= tokens[AtaOf(Vault, mint)]
    BY DEF HoldsTokens, tokens
  <2>4. amount \in 0..tokens[AtaOf(Vault, mint)]
    BY <2>2, <2>3
  <2> QED
    BY <1>1, <1>4, <2>1, <2>3, <2>4 DEF MayTransferTokens, tokens
<1>6. c.failed = FALSE
  BY ChainLives
<1>7. Call(c, m, ix, tx) = Called(c, TOKEN_PROGRAM_ID, metas, ix.data)
  <2>1. m.account_keys[ix.program_id_index + 1] = TOKEN_PROGRAM_ID
    BY <1>1
  <2> QED
    BY <1>3, <1>6, <2>1 DEF Call, metas
<1>8. Called(c, TOKEN_PROGRAM_ID, metas, ix.data) =
        [c EXCEPT !.funds.tokens =
            TokensMoved(@, metas[1].pubkey, metas[3].pubkey, ix.data.amount)]
  <2>1. SYSTEM_PROGRAM # TOKEN_PROGRAM_ID /\ TOKEN_PROGRAM_ID # MEMO_PROGRAM_ID
    BY BundleAssumption DEF IsInjective
  <2> QED
    BY <1>5, <2>1 DEF Called
<1>9. \E g \in Funds :
        /\ Called(c, TOKEN_PROGRAM_ID, metas, ix.data) = With(c, g)
        /\ g.lamports = c.funds.lamports
  BY <1>5, <1>8, TokensMove
<1> QED
  BY <1>7, <1>9 DEF ix

\* A memo that is text takes nothing.
LEMMA MemoCalled ==
    ASSUME NEW m, NEW tx, Callable(m, tx), NEW p \in Nat, NEW text, decodeUtf8Strict(text),
           m.account_keys[p + 1] = MEMO_PROGRAM_ID, NEW c, IsChain(c), NEW ix,
           ix = [program_id_index |-> p, account_indexes |-> <<>>, data |-> text]
    PROVE  Call(c, m, ix, tx) = c
<1> DEFINE metas == account_metas(m, ix)
<1>1. ix.program_id_index = p /\ ix.account_indexes = <<>> /\ ix.data = text
  OBVIOUS
<1>2. Len(ix.account_indexes) = 0
  BY <1>1
<1>3. Privileged(metas, tx)
  <2>1. /\ Len(ix.account_indexes) \in Nat
        /\ \A j \in 1..Len(ix.account_indexes) :
             ix.account_indexes[j] \in Nat /\ ix.account_indexes[j] < Len(m.account_keys)
    BY <1>2
  <2> QED
    BY <2>1, PrivilegedIs
<1>4. c.failed = FALSE
  BY ChainLives
<1>5. Call(c, m, ix, tx) = Called(c, MEMO_PROGRAM_ID, metas, text)
  BY <1>1, <1>3, <1>4 DEF Call
<1>6. SYSTEM_PROGRAM # MEMO_PROGRAM_ID /\ TOKEN_PROGRAM_ID # MEMO_PROGRAM_ID
  BY BundleAssumption DEF IsInjective
<1> HIDE DEF metas
<1>7. Called(c, MEMO_PROGRAM_ID, metas, text) = c
  BY <1>6 DEF Called
<1> QED
  BY <1>5, <1>7

\* What a call leaves.
LEMMA CallLeaves ==
    ASSUME NEW c, NEW g \in Funds, NEW d, d = With(c, g)
    PROVE  IsChain(d) /\ d.funds = g /\ \A h : With(d, h) = With(c, h)
<1>1. g \in Funds => IsChain(With(c, g))
  BY WithIs
<1>2. With(c, g).funds = g
  BY WithIs
<1>3. ASSUME NEW h
      PROVE  With(With(c, g), h) = With(c, h)
  BY DEF With
<1> QED
  BY <1>1, <1>2, <1>3

\* The calls of a message of two instructions, or three.
LEMMA TwoOrThreeCalls ==
    ASSUME NEW c, IsChain(c), NEW m, Len(m.instructions) \in {2, 3}, NEW tx
    PROVE  LET t1 == Call(c, m, m.instructions[1], tx)
               t2 == Call(t1, m, m.instructions[2], tx)
           IN  /\ Len(m.instructions) = 2 => Calls(c, m, tx) = t2
               /\ Len(m.instructions) = 3 =>
                    Calls(c, m, tx) = Call(t2, m, m.instructions[3], tx)
<1> DEFINE k == Len(m.instructions)
<1>1. PICK t : Made(t, c, m, tx) /\ Calls(c, m, tx) = t[k]
  BY CallSteps
<1>2. /\ t[0] = c
      /\ \A n \in 1..k : t[n] = Call(t[n - 1], m, m.instructions[n], tx)
  BY <1>1 DEF Made
<1>3. k \in {2, 3}
  OBVIOUS
<1> HIDE DEF k
<1>4. /\ t[1] = Call(t[0], m, m.instructions[1], tx)
      /\ t[2] = Call(t[1], m, m.instructions[2], tx)
      /\ k = 3 => t[3] = Call(t[2], m, m.instructions[3], tx)
  <2>1. 1 \in 1..k /\ 2 \in 1..k /\ (k = 3 => 3 \in 1..k) /\ 1 - 1 = 0 /\ 2 - 1 = 1 /\ 3 - 1 = 2
    BY <1>3
  <2>2. t[1] = Call(t[1 - 1], m, m.instructions[1], tx)
    BY <1>2, <2>1
  <2>3. t[2] = Call(t[2 - 1], m, m.instructions[2], tx)
    BY <1>2, <2>1
  <2>4. k = 3 => t[3] = Call(t[3 - 1], m, m.instructions[3], tx)
    BY <1>2, <2>1
  <2> QED
    BY <2>1, <2>2, <2>3, <2>4
<1>5. k = 2 => Calls(c, m, tx) = t[2]
  BY <1>1
<1>6. k = 3 => Calls(c, m, tx) = t[3]
  BY <1>1
<1> QED
  BY <1>2, <1>4, <1>5, <1>6 DEF k

\* A payment in lamports, and the fee, from a vault that has them.
LEMMA SolPays ==
    ASSUME NEW s \in SendType, NEW m, m = SolMessage(s), decodeUtf8Strict(s.memo), NEW tx,
           Writes(m) \subseteq WritableOf(tx),
           NEW f \in Funds, s.amount + s.fee <= f.lamports
    PROVE  Payable(m, f, tx)
<1> DEFINE ixs == m.instructions
           pay == VaultTransfer(3, 1, s.amount)
           fee == VaultTransfer(3, 2, s.fee)
<1>1. /\ Callable(m, tx) /\ m.num_writable_non_signers = 2 /\ Len(m.account_keys) \in {4, 5}
      /\ m.account_keys[3 + 1] = SYSTEM_PROGRAM
      /\ ixs[1] = pay /\ ixs[2] = fee /\ Len(ixs) \in {2, 3}
      /\ Len(ixs) = 3 =>
           /\ ixs[3] = [program_id_index |-> 4, account_indexes |-> <<>>, data |-> s.memo]
           /\ Len(m.account_keys) = 5 /\ m.account_keys[4 + 1] = MEMO_PROGRAM_ID
  <2>1. /\ Len(m.account_keys) \in {4, 5} /\ DOMAIN m.account_keys = 1..Len(m.account_keys)
        /\ m.account_keys[1] = VaultOf(s) /\ m.account_keys[3 + 1] = SYSTEM_PROGRAM
        /\ Len(ixs) \in {2, 3} /\ ixs[1] = pay /\ ixs[2] = fee
        /\ Len(ixs) = 3 =>
             /\ ixs[3] = [program_id_index |-> 4, account_indexes |-> <<>>, data |-> s.memo]
             /\ Len(m.account_keys) = 5 /\ m.account_keys[4 + 1] = MEMO_PROGRAM_ID
    BY SolBuilt
  <2>2. /\ m.num_signers = 1 /\ m.num_writable_signers = 1 /\ m.num_writable_non_signers = 2
    BY DEF SolMessage, buildInnerSolMessage
  <2>3. VaultOf(s) = Vault
    BY DEF VaultOf, Vault, deriveVaultAddress, deriveVaultPda, SendType
  <2> HIDE DEF ixs, pay, fee
  <2> QED
    BY <2>1, <2>2, <2>3 DEF Callable
<1>2. s.amount \in Nat /\ s.fee \in Nat /\ f.lamports \in Nat
  BY FundsFacts DEF SendType
<1> HIDE DEF ixs, pay, fee
<1> SUFFICES ASSUME NEW c, IsChain(c), c.funds = f
             PROVE  \E g \in Funds : Calls(c, m, tx) = With(c, g)
  BY DEF Payable
<1> DEFINE t1 == Call(c, m, ixs[1], tx)
           t2 == Call(t1, m, ixs[2], tx)
           t3 == Call(t2, m, ixs[3], tx)
<1>3. /\ Len(ixs) = 2 => Calls(c, m, tx) = t2
      /\ Len(ixs) = 3 => Calls(c, m, tx) = t3
  BY <1>1, TwoOrThreeCalls DEF ixs
<1>4. PICK g1 \in Funds : t1 = With(c, g1) /\ g1.lamports >= f.lamports - s.amount
  <2> DEFINE n == s.amount
  <2>1. /\ n \in Nat /\ n <= c.funds.lamports /\ pay = VaultTransfer(3, 1, n)
        /\ 1 < Len(m.account_keys) /\ 1 <= m.num_writable_non_signers
        /\ m.account_keys[3 + 1] = SYSTEM_PROGRAM /\ Callable(m, tx)
    BY <1>1, <1>2 DEF pay
  <2> HIDE DEF n
  <2>2. \E g \in Funds : /\ Call(c, m, VaultTransfer(3, 1, n), tx) = With(c, g)
                         /\ g.tokens = c.funds.tokens /\ g.lamports >= c.funds.lamports - n
    BY <2>1, VaultPays
  <2> QED
    BY <1>1, <2>1, <2>2 DEF n
<1>5. IsChain(t1) /\ t1.funds = g1 /\ \A h : With(t1, h) = With(c, h)
  BY <1>4, CallLeaves
<1>6. g1.lamports \in Nat /\ s.fee <= t1.funds.lamports
  <2>1. g1.lamports \in Nat
    BY FundsFacts
  <2> QED
    BY <1>2, <1>4, <1>5, <2>1
<1> HIDE DEF t1
<1>7. PICK g2 \in Funds : t2 = With(t1, g2)
  <2> DEFINE n == s.fee
  <2>1. /\ n \in Nat /\ n <= t1.funds.lamports /\ fee = VaultTransfer(3, 2, n)
        /\ 2 < Len(m.account_keys) /\ 2 <= m.num_writable_non_signers
        /\ m.account_keys[3 + 1] = SYSTEM_PROGRAM /\ Callable(m, tx)
    BY <1>1, <1>2, <1>6 DEF fee
  <2> HIDE DEF n
  <2>2. \E g \in Funds : /\ Call(t1, m, VaultTransfer(3, 2, n), tx) = With(t1, g)
                         /\ g.tokens = t1.funds.tokens /\ g.lamports >= t1.funds.lamports - n
    BY <1>5, <2>1, VaultPays
  <2> QED
    BY <1>1, <2>1, <2>2
<1>8. IsChain(t2) /\ t2 = With(c, g2)
  BY <1>5, <1>7, CallLeaves
<1> HIDE DEF t2
<1>9. Len(ixs) = 3 => t3 = t2
  <2> SUFFICES ASSUME Len(ixs) = 3
               PROVE  t3 = t2
    OBVIOUS
  <2> DEFINE text == s.memo
             ix == ixs[3]
  <2>1. /\ ix = [program_id_index |-> 4, account_indexes |-> <<>>, data |-> text]
        /\ m.account_keys[4 + 1] = MEMO_PROGRAM_ID /\ Callable(m, tx) /\ decodeUtf8Strict(text)
    BY <1>1
  <2> HIDE DEF text, ix
  <2>2. Call(t2, m, ix, tx) = t2
    BY <1>8, <2>1, MemoCalled
  <2> QED
    BY <2>2 DEF ix
<1> QED
  BY <1>1, <1>3, <1>8, <1>9

\* A payment in tokens, and the fee in lamports.
LEMMA TokenPays ==
    ASSUME NEW t \in TokenSend, NEW m, m = TokenMessage(t), decodeUtf8Strict(t.send.memo), NEW tx,
           Writes(m) \subseteq WritableOf(tx), NEW f \in Funds,
           t.mint \in DOMAIN Decimals, t.decimals = Decimals[t.mint],
           HoldsTokens(f.tokens, t.send.recipient, t.mint, t.send.amount),
           t.send.fee <= f.lamports
    PROVE  Payable(m, f, tx)
<1> DEFINE ixs == m.instructions
           s == t.send
           pay == TokenPayment(s.amount, t.decimals)
           fee == VaultTransfer(6, 3, s.fee)
           memo == [program_id_index |-> 7, account_indexes |-> <<>>, data |-> s.memo]
           keys == <<Vault, AtaOf(Vault, t.mint), PaidAta(t), Paymaster, t.mint, TOKEN_PROGRAM_ID,
                     SYSTEM_PROGRAM, MEMO_PROGRAM_ID>>
<1>1. /\ m.account_keys = keys /\ ixs = <<pay, fee, memo>>
      /\ m.num_signers = 1 /\ m.num_writable_signers = 1 /\ m.num_writable_non_signers = 3
  BY DEF TokenMessage, buildInnerSplMessage, VaultTransfer, TokenPayment, PaidAta
<1>2. s \in SendType /\ s.amount \in Nat /\ s.fee \in Nat /\ s.recipient \in Address
  BY DEF TokenSend, SendType
<1> HIDE DEF pay, fee, memo, ixs
<1>3. Len(ixs) = 3 /\ ixs[1] = pay /\ ixs[2] = fee /\ ixs[3] = memo
  BY <1>1
<1>4. /\ Len(m.account_keys) = 8 /\ DOMAIN m.account_keys = 1..8
      /\ m.account_keys[1] = Vault /\ m.account_keys[2] = AtaOf(Vault, t.mint)
      /\ m.account_keys[3] = AtaOf(s.recipient, t.mint) /\ m.account_keys[5] = t.mint
      /\ m.account_keys[6] = TOKEN_PROGRAM_ID /\ m.account_keys[6 + 1] = SYSTEM_PROGRAM
      /\ m.account_keys[7 + 1] = MEMO_PROGRAM_ID
  <2> DEFINE x == AtaOf(Vault, t.mint)
             y == PaidAta(t)
  <2> HIDE DEF x, y
  <2>1. m.account_keys = <<Vault, x, y, Paymaster, t.mint, TOKEN_PROGRAM_ID, SYSTEM_PROGRAM,
                           MEMO_PROGRAM_ID>>
    BY <1>1 DEF x, y
  <2> QED
    BY <2>1 DEF x, y, PaidAta
<1>5. Callable(m, tx)
  BY <1>1, <1>4 DEF Callable
<1> HIDE DEF keys
<1> SUFFICES ASSUME NEW c, IsChain(c), c.funds = f
             PROVE  \E g \in Funds : Calls(c, m, tx) = With(c, g)
  BY DEF Payable
<1> DEFINE t1 == Call(c, m, ixs[1], tx)
           t2 == Call(t1, m, ixs[2], tx)
           t3 == Call(t2, m, ixs[3], tx)
<1>6. Calls(c, m, tx) = t3
  BY <1>3, TwoOrThreeCalls DEF ixs
<1>7. PICK g1 \in Funds : t1 = With(c, g1) /\ g1.lamports = f.lamports
  <2> DEFINE n == s.amount
             r == s.recipient
             mint == t.mint
  <2>1. /\ n \in Nat /\ r \in Address /\ mint \in DOMAIN Decimals
        /\ m.account_keys[2] = AtaOf(Vault, mint) /\ m.account_keys[3] = AtaOf(r, mint)
        /\ m.account_keys[5] = mint /\ HoldsTokens(c.funds.tokens, r, mint, n)
        /\ pay = TokenPayment(n, Decimals[mint])
    BY <1>2, <1>4 DEF pay
  <2> HIDE DEF n, r, mint
  <2>2. \E g \in Funds : /\ Call(c, m, TokenPayment(n, Decimals[mint]), tx) = With(c, g)
                         /\ g.lamports = c.funds.lamports
    BY <1>1, <1>4, <1>5, <2>1, VaultPaysTokens
  <2> QED
    BY <1>3, <2>1, <2>2
<1>8. IsChain(t1) /\ t1.funds = g1 /\ \A h : With(t1, h) = With(c, h)
  BY <1>7, CallLeaves
<1>9. s.fee <= t1.funds.lamports
  BY <1>7, <1>8
<1> HIDE DEF t1
<1>10. PICK g2 \in Funds : t2 = With(t1, g2)
  <2> DEFINE n == s.fee
  <2>1. /\ n \in Nat /\ n <= t1.funds.lamports /\ fee = VaultTransfer(6, 3, n)
        /\ 3 < Len(m.account_keys) /\ 3 <= m.num_writable_non_signers
    BY <1>1, <1>2, <1>4, <1>9 DEF fee
  <2> HIDE DEF n
  <2>2. \E g \in Funds : /\ Call(t1, m, VaultTransfer(6, 3, n), tx) = With(t1, g)
                         /\ g.tokens = t1.funds.tokens /\ g.lamports >= t1.funds.lamports - n
    BY <1>4, <1>5, <1>8, <2>1, VaultPays
  <2> QED
    BY <1>3, <2>1, <2>2
<1>11. IsChain(t2) /\ t2 = With(c, g2)
  BY <1>8, <1>10, CallLeaves
<1> HIDE DEF t2
<1>12. t3 = t2
  <2> DEFINE text == s.memo
             ix == ixs[3]
  <2>1. /\ ix = [program_id_index |-> 7, account_indexes |-> <<>>, data |-> text]
        /\ m.account_keys[7 + 1] = MEMO_PROGRAM_ID /\ decodeUtf8Strict(text)
    BY <1>3, <1>4 DEF memo
  <2> HIDE DEF text, ix
  <2>2. Call(t2, m, ix, tx) = t2
    BY <1>5, <1>11, <2>1, MemoCalled
  <2> QED
    BY <2>2 DEF ix
<1> QED
  BY <1>6, <1>11, <1>12

-----------------------------------------------------------------------------
(***************************************************************************)
(* No honest bundle is refused.                                            *)
(***************************************************************************)

\* What is displayed for a payment, at whatever index it is built.
LEMMA PayloadDisplays ==
    /\ \A s : Displays(PayloadOf(s), s, Unset, Unset)
    /\ \A t : Displays(TokenPayload(t), t.send, t.mint, t.decimals)
<1>1. ASSUME NEW s
      PROVE  Displays(PayloadOf(s), s, Unset, Unset)
  BY DEF PayloadOf, ExpectedSolanaVaultPayload, Displays
<1>2. ASSUME NEW t
      PROVE  Displays(TokenPayload(t), t.send, t.mint, t.decimals)
  BY DEF TokenPayload, PayloadOf, ExpectedSolanaVaultPayload, Displays
<1> QED
  BY <1>1, <1>2

\* An honest bundle passes everything that looks at it.
LEMMA HonestPasses ==
    ASSUME IInv, NEW s \in SendType, s.currentTransactionIndex = transaction_index,
           transaction_index < MaxIndex, NEW m \in BuiltMessages, CanBeMade(s, m),
           NEW mint, NEW decimals, NEW a, NEW tx, Honest(tx, s, m, mint, a),
           NEW r, DecodedRecipient(r, s, mint, decimals), ReadsAs(m, r, s.fee),
           NEW payload, Displays(payload, s, mint, decimals),
           a = 2 => mint \in DOMAIN Decimals, \A f : Ready(f, s, mint, a) => Payable(m, f, tx)
    PROVE  Passed(tx, s, payload)
<1>1. /\ IsInjective(s.approvers) /\ Len(s.approvers) >= Threshold /\ ValidMessage(m, Vault)
      /\ Readable(m)
  BY BuiltAssumption DEF CanBeMade
<1>2. RecipientIs(r, s, mint, decimals)
  BY RecipientResolves
<1>3. compareDecodedToExpected(decodeVaultSolanaTransaction(tx, Options), payload)
  BY <1>1, <1>2, EnterpriseAccepts
<1>4. \A device \in ToSet(s.approvers) :
        verifyConsumerSolanaBundle(tx, ConsumerParams(device, payload))
  BY <1>1, ConsumerAccepts
<1>5. ~Run(tx).failed
  BY <1>1, HonestRuns
<1> QED
  BY <1>3, <1>4, <1>5 DEF Passed

\* A send at the present index asks for the same as the send.
LEMMA AtPresent ==
    ASSUME NEW s \in SendType, NEW n \in Nat
    PROVE  /\ At(s, n) \in SendType /\ At(s, n).currentTransactionIndex = n
           /\ \A m : CanBeMade(At(s, n), m) <=> CanBeMade(s, m)
           /\ \A tx, payload : Passed(tx, At(s, n), payload) <=> Passed(tx, s, payload)
           /\ PayloadOf(At(s, n)) = PayloadOf(s) /\ At(s, n).memo = s.memo
<1>1. /\ At(s, n) \in SendType /\ At(s, n).currentTransactionIndex = n
      /\ At(s, n).approvers = s.approvers /\ At(s, n).memo = s.memo
      /\ At(s, n).recipient = s.recipient /\ At(s, n).amount = s.amount
      /\ At(s, n).fee = s.fee
  BY DEF SendType, At
<1> DEFINE u == At(s, n)
<1> HIDE DEF u
<1>2. \A m : CanBeMade(u, m) <=> CanBeMade(s, m)
  BY <1>1 DEF CanBeMade, u
<1>3. \A tx, payload : Passed(tx, u, payload) <=> Passed(tx, s, payload)
  BY <1>1 DEF Passed, u
<1>4. PayloadOf(u) = PayloadOf(s)
  BY <1>1 DEF PayloadOf, u
<1> QED
  BY <1>1, <1>2, <1>3, <1>4 DEF u

\* A payment in lamports that the vault has, by a bundle of either kind.
LEMMA SolPasses ==
    ASSUME IInv, NEW s \in Sends, transaction_index < MaxIndex, CanBeMade(s, SolMessage(s)),
           HasLamports(s), NEW a, a # 2,
           NEW tx, LET u == At(s, transaction_index) IN Honest(tx, u, SolMessage(u), Unset, a)
    PROVE  Passed(tx, s, PayloadOf(s))
<1> DEFINE n == transaction_index
           u == At(s, n)
           m == SolMessage(s)
           r == NativeRecipient(u.recipient, u.amount)
<1>1. s \in SendType /\ n \in Nat /\ m \in BuiltMessages
  BY SendFacts, PresentFacts DEF BuiltMessages
<1> HIDE DEF n
<1>2. /\ u \in SendType /\ u.currentTransactionIndex = n /\ CanBeMade(u, m)
      /\ SolMessage(u) = m
  BY <1>1, AtPresent, SameMessage
<1>3. PayloadOf(u) = PayloadOf(s) /\ \A x : Passed(tx, u, x) <=> Passed(tx, s, x)
  BY <1>1, AtPresent
<1>4. Honest(tx, u, m, Unset, a)
  BY <1>2 DEF n
<1>5. \A f : Ready(f, u, Unset, a) => Payable(m, f, tx)
  <2> SUFFICES ASSUME NEW f, Ready(f, u, Unset, a)
               PROVE  Payable(m, f, tx)
    OBVIOUS
  <2>1. u.amount = s.amount /\ u.fee = s.fee
    BY <1>1 DEF At, SendType
  <2>2. f \in Funds /\ u.amount + u.fee <= f.lamports
    BY <2>1 DEF Ready, HasLamports
  <2>3. decodeUtf8Strict(u.memo)
    BY <1>2 DEF CanBeMade
  <2>4. m = SolMessage(u)
    BY <1>2
  <2> HIDE DEF u, m
  <2>5. Writes(m) \subseteq WritableOf(tx)
    BY <1>4, HonestWrites
  <2> QED
    BY <1>2, <2>2, <2>3, <2>4, <2>5, SolPays
<1> HIDE DEF u, m
<1>6. ReadsAs(m, r, u.fee)
  BY <1>2, SolReads
<1>7. DecodedRecipient(r, u, Unset, Unset) /\ Displays(PayloadOf(u), u, Unset, Unset)
  BY PayloadDisplays DEF DecodedRecipient
<1> HIDE DEF r
<1>8. Passed(tx, u, PayloadOf(u))
  BY <1>1, <1>2, <1>4, <1>5, <1>6, <1>7, HonestPasses DEF n
<1> QED
  BY <1>3, <1>8

\* A payment in tokens that the vault has.
LEMMA TokenPasses ==
    ASSUME IInv, NEW t \in TokenSends, transaction_index < MaxIndex,
           CanBeMade(t.send, TokenMessage(t)), HasTokens(t)
    PROVE  Passed(TokenBundle([t EXCEPT !.send = At(@, transaction_index)]), t.send,
                  TokenPayload(t))
<1> DEFINE n == transaction_index
           s == t.send
           v == [t EXCEPT !.send = At(@, n)]
           u == At(s, n)
           m == TokenMessage(t)
           tx == TokenBundle(v)
           r == SplRecipient(PaidAta(v), u.amount, t.mint, t.decimals, TOKEN_PROGRAM_ID)
<1>1. t \in TokenSend /\ s \in SendType /\ n \in Nat /\ m \in BuiltMessages
  BY BundleAssumption, PresentFacts DEF BuiltMessages, TokenSend
<1>2. t.mint # Unset
  BY <1>1, BundleAssumption DEF TokenSend
<1> HIDE DEF n
<1>3. /\ u \in SendType /\ u.currentTransactionIndex = n /\ CanBeMade(u, m)
      /\ PayloadOf(u) = PayloadOf(s) /\ \A x : Passed(tx, u, x) <=> Passed(tx, s, x)
  BY <1>1, AtPresent
<1>4. v \in TokenSend /\ v.send = u /\ v.mint = t.mint /\ v.decimals = t.decimals
  BY <1>1, <1>3 DEF TokenSend
<1>5. /\ u.recipient = s.recipient /\ u.amount = s.amount /\ u.fee = s.fee /\ u.memo = s.memo
  BY <1>1 DEF At, SendType
<1> HIDE DEF u, v
<1>6. TokenMessage(v) = m
  BY <1>4, <1>5 DEF TokenMessage
<1>7. TokenPayload(v) = TokenPayload(t)
  BY <1>3, <1>4 DEF TokenPayload
<1> HIDE DEF m
<1>8. Honest(tx, u, m, t.mint, 2)
  BY <1>4, <1>6, TokenIs
<1>9. ReadsAs(m, r, u.fee)
  <2>1. CanBeMade(v.send, m) /\ m = TokenMessage(v)
    BY <1>3, <1>4, <1>6
  <2>2. ReadsAs(m, SplRecipient(PaidAta(v), v.send.amount, v.mint, v.decimals, TOKEN_PROGRAM_ID),
                v.send.fee)
    BY <1>4, <2>1, TokenReads
  <2> QED
    BY <1>4, <2>2
<1>10. DecodedRecipient(r, u, t.mint, t.decimals)
  BY <1>2, <1>4 DEF DecodedRecipient, PaidAta, AtaOf
<1>11. Displays(TokenPayload(v), u, t.mint, t.decimals)
  BY <1>4, PayloadDisplays
<1> HIDE DEF r, tx
<1>12. t.mint \in DOMAIN Decimals /\ t.decimals = Decimals[t.mint]
  BY DEF HasTokens
<1>13. \A f : Ready(f, u, t.mint, 2) => Payable(m, f, tx)
  <2> SUFFICES ASSUME NEW f, Ready(f, u, t.mint, 2)
               PROVE  Payable(m, f, tx)
    OBVIOUS
  <2> DEFINE vault == AtaOf(Vault, t.mint)
  <2>1. /\ f \in Funds /\ f.lamports = funds.lamports
        /\ f.tokens[AtaOf(u.recipient, t.mint)] # Unset
        /\ funds.tokens[vault] # Unset => f.tokens[vault] = funds.tokens[vault]
    BY DEF Ready
  <2>2. /\ funds.tokens[vault] # Unset /\ t.send.amount <= funds.tokens[vault]
        /\ t.send.fee <= funds.lamports
    BY DEF HasTokens
  <2>3. HoldsTokens(f.tokens, u.recipient, t.mint, u.amount)
    BY <1>5, <2>1, <2>2 DEF HoldsTokens
  <2>4. u.fee <= f.lamports
    BY <1>5, <2>1, <2>2
  <2>5. Writes(m) \subseteq WritableOf(tx)
    BY <1>8, HonestWrites
  <2>6. decodeUtf8Strict(u.memo) /\ m = TokenMessage(v)
    BY <1>3, <1>6 DEF CanBeMade
  <2> QED
    BY <1>4, <1>12, <2>1, <2>3, <2>4, <2>5, <2>6, TokenPays
<1>14. Passed(tx, u, TokenPayload(v))
  BY <1>1, <1>3, <1>8, <1>9, <1>10, <1>11, <1>12, <1>13, HonestPasses DEF n
<1>15. Passed(tx, s, TokenPayload(t))
  BY <1>3, <1>7, <1>14
<1> QED
  BY <1>15 DEF tx, v, n

\* The invariant is enough, and it is only needed for the accounts on which an
\* honest bundle runs.
LEMMA HonestFollows == IInv => HonestBundlesPass
<1> SUFFICES ASSUME IInv, transaction_index < MaxIndex
             PROVE  /\ \A s \in Sends : CanBeMade(s, SolMessage(s)) /\ HasLamports(s) =>
                         LET send == At(s, transaction_index) IN
                         /\ Passed(WholeBundle(send), s, PayloadOf(s))
                         /\ s.memo = NoMemo =>
                              Passed(bundledSend(send, FALSE), s, PayloadOf(s))
                    /\ \A t \in TokenSends : CanBeMade(t.send, TokenMessage(t)) /\ HasTokens(t) =>
                         Passed(TokenBundle([t EXCEPT !.send = At(@, transaction_index)]),
                                t.send, TokenPayload(t))
  BY DEF HonestBundlesPass
<1>1. ASSUME NEW s \in Sends, CanBeMade(s, SolMessage(s)), HasLamports(s)
      PROVE  LET send == At(s, transaction_index) IN
             /\ Passed(WholeBundle(send), s, PayloadOf(s))
             /\ s.memo = NoMemo => Passed(bundledSend(send, FALSE), s, PayloadOf(s))
  <2> DEFINE send == At(s, transaction_index)
  <2>1. send \in SendType /\ send.memo = s.memo
    BY SendFacts, PresentFacts, AtPresent
  <2>2. Honest(WholeBundle(send), send, SolMessage(send), Unset, 1)
    BY <2>1, WholeIs
  <2>3. Passed(WholeBundle(send), s, PayloadOf(s))
    BY <1>1, <2>2, SolPasses
  <2>4. ASSUME s.memo = NoMemo
        PROVE  Passed(bundledSend(send, FALSE), s, PayloadOf(s))
    <3> DEFINE tx == bundledSend(send, FALSE)
    <3>1. Honest(tx, send, SolMessage(send), Unset, 0)
      BY <2>1, <2>4, ConsumerIs
    <3> HIDE DEF tx
    <3>2. Passed(tx, s, PayloadOf(s))
      BY <1>1, <3>1, SolPasses
    <3> QED
      BY <3>2 DEF tx
  <2> QED
    BY <2>3, <2>4
<1> QED
  BY <1>1, TokenPasses

\* No honest bundle is refused: the gates of all devices that are to approve it
\* and the enterprise comparison accept it, and the program runs it to its end.
THEOREM HonestTheorem == Spec => []HonestBundlesPass
  BY BundleInvariant, HonestFollows, PTL
=============================================================================
