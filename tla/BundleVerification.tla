-------------------------- MODULE BundleVerification --------------------------
(***************************************************************************)
(* Two signing devices of one multisig, a relay and the program.           *)
(*                                                                         *)
(* The relay hands a device a transaction and what to display.  It builds  *)
(* transactions for several sends, for this index and for the next, splits *)
(* or bundles them, and may display the wrong send or put together parts   *)
(* of two.  A device signs what passes its gate; for an approve-only       *)
(* transaction it first asks its own node for the proposal.  Signed        *)
(* transactions land at any time, some never, and proposals are executed   *)
(* and reclaimed by the paymaster.  An execution makes the calls of the    *)
(* message with the privileges of the transaction and what the vault has.  *)
(***************************************************************************)
EXTENDS BundleGates

CONSTANTS
    Device,         \* the members, which are devices
    Sends,          \* what users ask for
    TokenSends,     \* token payments: [send, mint, decimals]
    Decimals,       \* of each mint
    Threshold,
    MaxIndex,       \* bounds: creations,
    MaxSignatures,  \* signatures of one device,
    Deposits,       \* what the vault is given at a time,
    MaxLamports     \* and what it has at most

VARIABLES
    transaction_index, proposals,   \* of the multisig
    paid,           \* of each index, what was executed and who had approved it
    funds,          \* the vault's lamports, and the tokens in each account or Unset
    asked,          \* of each device, the approve-only gate that waits, or Unset
    signatures      \* [device, tx, payload]: what was signed, and what was shown

vars == <<transaction_index, proposals, paid, funds, asked, signatures>>

ASend == CHOOSE s \in Sends : TRUE
Multisig == ASend.multisig
Members == ASend.members
Paymaster == ASend.paymaster
Vault == deriveVaultPda(Multisig, 0)
Pda(index) == deriveTransactionPda(Multisig, index)

AtaOf(owner, mint) == deriveAssociatedTokenAddress(owner, mint, TOKEN_PROGRAM_ID)
TokenAccounts(mint) == { AtaOf(owner, mint) : owner \in Address \cup {Vault} }
TokenAccount == UNION { TokenAccounts(mint) : mint \in DOMAIN Decimals }

At(send, index) == [send EXCEPT !.currentTransactionIndex = index]
By(send, approvers) == [send EXCEPT !.approvers = approvers]

SendType ==
    [multisig : {Multisig}, members : {Members}, currentTransactionIndex : Nat,
     approvers : Seq(Device) \ {<<>>}, recipient : Address, paymaster : {Paymaster},
     amount : Nat, fee : Nat, memo : Data \cup {NoMemo}]

\* The sends are of one multisig whose members are the devices; its paymaster
\* is none of them, the program ids differ, and what is not given is not an
\* address.
ASSUME BundleAssumption ==
    /\ Sends # {} /\ Sends \subseteq SendType
    /\ TokenSends \subseteq [send : SendType, mint : Address, decimals : Nat]
    /\ Members \in Seq(Device) /\ ToSet(Members) = Device
    /\ IsInjective(Members) /\ Len(Members) >= 2
    /\ Paymaster \in Address \ Device
    /\ Unset \notin Address \cup Nat \cup { Pda(i) : i \in 1..MaxIndex }
    /\ IsInjective(<<PROGRAM_ID, SYSTEM_PROGRAM, TOKEN_PROGRAM_ID, TOKEN_2022_PROGRAM_ID,
                     ATA_PROGRAM_ID, COMPUTE_BUDGET_PROGRAM_ID, MEMO_PROGRAM_ID>>)
    /\ Threshold \in Nat /\ MaxIndex \in Nat /\ Deposits \subseteq Nat

-----------------------------------------------------------------------------
(***************************************************************************)
(* What the relay builds, and what is displayed with it.                   *)
(***************************************************************************)

WholeBundle(send) ==
    IF send.memo = NoMemo THEN durableSend(send)
    ELSE enterpriseBundle(send, SolMessage(send), MirroredAccounts(SolMessage(send)))

\* The first member proposes and the second approves.
SplitCreate(send) == creatorTx(By(send, <<Members[1]>>), SolMessage(send))
SplitApprove(send) == approvalTx(By(send, <<Members[2]>>))
SplitExecute(send) == executeTx(send, SolMessage(send), <<>>)

\* Creates one send and approves the proposal of another index.
Mixed(send, index) ==
    LET second == By(send, <<Members[2]>>) IN
    Transaction(Paymaster, <<AdvanceNonce(send), Create(second, SolMessage(send))>>
                             \o Approvals(At(second, index)))

Reclaim(send) == Transaction(Paymaster, <<Close(send)>>)

Bundles ==
    LET indexes == 0..(MaxIndex - 1) IN
    UNION { {WholeBundle(At(s, n)), SplitCreate(At(s, n)), SplitApprove(At(s, n)),
             SplitExecute(At(s, n)), Reclaim(At(s, n))}
              \cup { Mixed(At(s, n), other) : other \in indexes \ {n} } :
            s \in Sends, n \in indexes }

PayloadOf(send) ==
    [ExpectedSolanaVaultPayload(<<[address |-> send.recipient, amount |-> send.amount]>>,
                                Unset, Unset, send.fee)
        EXCEPT !.expectedMultisigPda = Multisig, !.expectedVaultPda = Vault]

Payloads == { PayloadOf(s) : s \in Sends }

Options == DecodeVaultSolanaOptions(Unset, Unset, Unset, TRUE)

ConsumerParams(device, payload) ==
    ConsumerSolanaBundleParams(Multisig, Members, device,
        [recipient |-> payload.recipients[1].address, amount |-> payload.recipients[1].amount,
         tokenMint |-> payload.tokenMint, tokenDecimals |-> payload.tokenDecimals],
        payload.maxFeeLamports, Paymaster)

Passes(device, tx, payload) ==
    \/ verifyConsumerSolanaBundle(tx, ConsumerParams(device, payload))
    \/ LET decoded == decodeVaultSolanaTransaction(tx, Options) IN
       decoded.kind = "create" /\ compareDecodedToExpected(decoded, payload)

\* The verdicts do not depend on the state.
Offers ==
    { o \in [device : Device, tx : Bundles, payload : Payloads] : o.device \in SignersOf(o.tx) }
Accepted == { o \in Offers : Passes(o.device, o.tx, o.payload) }
ApproveOnly ==
    { o \in Offers : decodeVaultSolanaTransaction(o.tx, Options).kind = "approve" }

-----------------------------------------------------------------------------
(***************************************************************************)
(* The devices.                                                            *)
(***************************************************************************)

Init ==
    /\ transaction_index = 0
    /\ proposals = [i \in 1..MaxIndex |-> Unset]
    /\ paid = [i \in 1..MaxIndex |-> Unset]
    /\ funds = [lamports |-> 0, tokens |-> [a \in TokenAccount |-> Unset]]
    /\ asked = [d \in Device |-> Unset]
    /\ signatures = {}

MaySign(device) == Cardinality({ s \in signatures : s.device = device }) < MaxSignatures

SignBundle(offer) ==
    /\ MaySign(offer.device)
    /\ asked[offer.device] = Unset
    /\ signatures' = signatures \cup {offer}
    /\ UNCHANGED <<transaction_index, proposals, paid, funds, asked>>

AccountAt(pda) ==
    IF \E i \in 1..MaxIndex : Pda(i) = pda
      THEN proposals[CHOOSE i \in 1..MaxIndex : Pda(i) = pda] ELSE Unset

\* The device's node answers with the account as it is now.
FetchProposal(offer) ==
    /\ MaySign(offer.device)
    /\ asked[offer.device] = Unset
    /\ asked' = [asked EXCEPT ![offer.device] =
          [offer   |-> offer,
           account |-> AccountAt(decodeVaultSolanaTransaction(offer.tx, Options).transactionPda)]]
    /\ UNCHANGED <<transaction_index, proposals, paid, funds, signatures>>

Decide(device) ==
    /\ asked[device] # Unset
    /\ LET offer == asked[device].offer IN
       signatures' = IF verifyApproveOnlyTransaction(offer.tx, asked[device].account,
                                                     offer.payload, device, Options)
                       THEN signatures \cup {offer} ELSE signatures
    /\ asked' = [asked EXCEPT ![device] = Unset]
    /\ UNCHANGED <<transaction_index, proposals, paid, funds>>

-----------------------------------------------------------------------------
(***************************************************************************)
(* The program, instruction by instruction, on a record of its accounts.   *)
(***************************************************************************)

Failed == [failed |-> TRUE]
Live(chain, index) == index \in 1..MaxIndex /\ chain.proposals[index] # Unset

RunCreate(chain, ix) ==
    LET index == chain.transaction_index + 1
        message == ix.data.message
    IN  IF /\ index <= MaxIndex
           /\ KeyOf(ix, 2) = Pda(index)
           /\ KeyOf(ix, 3) \in Device
           /\ ValidMessage(message, deriveVaultPda(Multisig, ix.data.vault_index))
        THEN [chain EXCEPT
                !.transaction_index = index,
                !.proposals[index] =
                    [multisig |-> Multisig, transactionIndex |-> index,
                     creator |-> KeyOf(ix, 3), payer |-> KeyOf(ix, 4),
                     vaultIndex |-> ix.data.vault_index, executed |-> FALSE,
                     approvals |-> <<>>, message |-> message]]
        ELSE Failed

\* The variant lets a member approve again.
MayApproveAgain(proposal, member) == member \in Device /\ ~proposal.executed
MayApprove(proposal, member) ==
    member \in Device /\ ~proposal.executed /\ member \notin ToSet(proposal.approvals)

RunApprove(chain, ix) ==
    LET index == ix.data.transaction_index IN
    IF Live(chain, index) /\ MayApprove(chain.proposals[index], KeyOf(ix, 3))
      THEN [chain EXCEPT !.proposals[index].approvals = Append(@, KeyOf(ix, 3))]
      ELSE Failed

\* The privileges of a call are those of the transaction and the vault's signature.
Privileged(metas, tx) ==
    /\ SignerKeys(metas) \subseteq SignersOf(tx) \cup {Vault}
    /\ WritableKeys(metas) \subseteq WritableOf(tx)

MayTransfer(chain, metas, data) ==
    /\ data.tag = 2 /\ Len(metas) >= 2
    /\ metas[1].pubkey = Vault /\ metas[1].is_signer
    /\ metas[1].is_writable /\ metas[2].is_writable
    /\ data.amount \in 0..chain.funds.lamports

MayTransferTokens(chain, metas, data) ==
    /\ data.tag = 12 /\ Len(metas) >= 4
    /\ metas[4].pubkey = Vault /\ metas[4].is_signer
    /\ metas[1].is_writable /\ metas[3].is_writable
    /\ LET mint == metas[2].pubkey
           tokens == chain.funds.tokens
       IN  /\ mint \in DOMAIN Decimals /\ Decimals[mint] = data.decimals
           /\ metas[1].pubkey = AtaOf(Vault, mint) /\ metas[3].pubkey \in TokenAccounts(mint)
           /\ tokens[metas[1].pubkey] # Unset /\ tokens[metas[3].pubkey] # Unset
           /\ data.amount \in 0..tokens[metas[1].pubkey]

LamportsLeft(lamports, to, amount) == IF to = Vault THEN lamports ELSE lamports - amount

TokensMoved(tokens, from, to, amount) ==
    LET less == [tokens EXCEPT ![from] = @ - amount]
    IN  [less EXCEPT ![to] = @ + amount]

\* What the called programs do; the messages built here call no other.
Called(chain, program, metas, data) ==
    CASE program = SYSTEM_PROGRAM /\ MayTransfer(chain, metas, data) ->
           [chain EXCEPT !.funds.lamports = LamportsLeft(@, metas[2].pubkey, data.amount)]
      [] program = TOKEN_PROGRAM_ID /\ MayTransferTokens(chain, metas, data) ->
           [chain EXCEPT !.funds.tokens =
               TokensMoved(@, metas[1].pubkey, metas[3].pubkey, data.amount)]
      [] program = MEMO_PROGRAM_ID /\ decodeUtf8Strict(data) -> chain
      [] OTHER -> Failed

Call(chain, message, ix, tx) ==
    LET metas == account_metas(message, ix) IN
    IF ~chain.failed /\ Privileged(metas, tx)
      THEN Called(chain, message.account_keys[ix.program_id_index + 1], metas, ix.data)
      ELSE Failed

\* One call after another; the first that fails fails them all.
Calls(chain, message, tx) ==
    LET called[n \in 0..Len(message.instructions)] ==
            IF n = 0 THEN chain ELSE Call(called[n - 1], message, message.instructions[n], tx)
    IN  called[Len(message.instructions)]

\* The proposal is marked before the calls.
RunExecute(chain, ix, tx) ==
    LET index == ix.data.transaction_index
        proposal == chain.proposals[index]
    IN  IF /\ Live(chain, index)
           /\ ~proposal.executed
           /\ Len(proposal.approvals) >= Threshold
           /\ IsPrefix(proposal.message.account_keys, SubSeq(Pubkeys(ix.keys), 4, Len(ix.keys)))
        THEN Calls([chain EXCEPT
                      !.proposals[index].executed = TRUE,
                      !.paid[index] =
                          [message |-> proposal.message, approvals |-> proposal.approvals]],
                   proposal.message, tx)
        ELSE Failed

RunClose(chain, ix) ==
    LET index == ix.data.transaction_index IN
    IF Live(chain, index) /\ KeyOf(ix, 3) = chain.proposals[index].payer
      THEN [chain EXCEPT !.proposals[index] = Unset]
      ELSE Failed

\* An associated token account, unless it is there.
RunCreateAta(chain, ix) ==
    LET mint == KeyOf(ix, 4) IN
    IF mint \in DOMAIN Decimals /\ KeyOf(ix, 2) = AtaOf(KeyOf(ix, 3), mint)
      THEN [chain EXCEPT !.funds.tokens[KeyOf(ix, 2)] = IF @ = Unset THEN 0 ELSE @]
      ELSE Failed

RunIx(chain, ix, tx) ==
    IF chain.failed THEN chain
    ELSE CASE ix.data.op = "create_transaction" -> RunCreate(chain, ix)
           [] ix.data.op = "approve_transaction" -> RunApprove(chain, ix)
           [] ix.data.op = "execute_transaction" -> RunExecute(chain, ix, tx)
           [] ix.data.op = "close_transaction" -> RunClose(chain, ix)
           [] ix.data.op = "createIdempotent" -> RunCreateAta(chain, ix)
           [] OTHER -> chain

Run(tx) ==
    LET run[n \in 0..Len(tx.instructions)] ==
            IF n = 0 THEN [transaction_index |-> transaction_index, proposals |-> proposals,
                           paid |-> paid, funds |-> funds, failed |-> FALSE]
            ELSE RunIx(run[n - 1], tx.instructions[n], tx)
    IN  run[Len(tx.instructions)]

\* All of a transaction or nothing.
Land(tx) ==
    /\ \A d \in SignersOf(tx) \cap Device :
          \E s \in signatures : s.device = d /\ s.tx = tx
    /\ LET chain == Run(tx)
       IN  /\ ~chain.failed
           /\ transaction_index' = chain.transaction_index
           /\ proposals' = chain.proposals
           /\ paid' = chain.paid
           /\ funds' = chain.funds
    /\ UNCHANGED <<asked, signatures>>

\* Anybody gives the vault lamports, or a token account with tokens.
Deposit(amount) ==
    /\ funds.lamports + amount <= MaxLamports
    /\ funds' = [funds EXCEPT !.lamports = @ + amount]
    /\ UNCHANGED <<transaction_index, proposals, paid, asked, signatures>>

DepositTokens(mint, amount) ==
    /\ funds.tokens[AtaOf(Vault, mint)] = Unset
    /\ funds' = [funds EXCEPT !.tokens[AtaOf(Vault, mint)] = amount]
    /\ UNCHANGED <<transaction_index, proposals, paid, asked, signatures>>

Next ==
    \/ \E offer \in Accepted : SignBundle(offer)
    \/ \E offer \in ApproveOnly : FetchProposal(offer)
    \/ \E device \in Device : Decide(device)
    \/ \E tx \in Bundles : Land(tx)
    \/ \E amount \in Deposits : Deposit(amount)
    \/ \E mint \in DOMAIN Decimals, amount \in Deposits : DepositTokens(mint, amount)

Spec == Init /\ [][Next]_vars

-----------------------------------------------------------------------------
(***************************************************************************)
(* Properties.                                                             *)
(***************************************************************************)

\* Accounts as the program leaves them: proposals of indexes used so far,
\* with approvals of distinct members.
TypeOK ==
    /\ transaction_index \in 0..MaxIndex
    /\ \A i \in 1..MaxIndex :
          /\ proposals[i] # Unset \/ paid[i] # Unset => i <= transaction_index
          /\ proposals[i] # Unset =>
                /\ proposals[i].transactionIndex = i
                /\ ToSet(proposals[i].approvals) \subseteq Device
                /\ IsInjective(proposals[i].approvals)
    /\ \A d \in Device : asked[d] # Unset => asked[d].offer \in ApproveOnly
    /\ signatures \subseteq Offers

\* What an execution takes from the vault, computed as the program computes
\* it: the lamports its transfers give to an account.
GivesTo(message, account) ==
    LET TransferTo(ix) ==
            LET metas == account_metas(message, ix) IN
            /\ message.account_keys[ix.program_id_index + 1] = SYSTEM_PROGRAM
            /\ ix.data.tag = 2
            /\ metas[1].pubkey = Vault /\ metas[2].pubkey = account
    IN  Lamports(Filter(message.instructions, TransferTo))

PaysWhatIsShown(message, payload) ==
    /\ \A n \in DOMAIN payload.recipients :
          GivesTo(message, payload.recipients[n].address) = payload.recipients[n].amount
    /\ GivesTo(message, Paymaster) <= payload.maxFeeLamports
    /\ \A account \in ToSet(message.account_keys)
                        \ ({Paymaster} \cup { r.address : r \in ToSet(payload.recipients) }) :
          GivesTo(message, account) = 0

\* Every execution takes from the vault what each member that approved it was
\* shown for that very proposal, wherever the other parts of the signed
\* transactions came from, and whatever was created, reclaimed or executed
\* between the answer of the device's node and the approval (decoder.ts:1519).
PaidAsShown ==
    \A i \in 1..MaxIndex : paid[i] # Unset =>
        /\ Cardinality(ToSet(paid[i].approvals)) >= Threshold
        /\ \A member \in ToSet(paid[i].approvals) :
              \E s \in signatures :
                 /\ s.device = member
                 /\ Pda(i) \in UNION { ToSet(Pubkeys(ix.keys)) : ix \in ToSet(s.tx.instructions) }
                 /\ PaysWhatIsShown(paid[i].message, s.payload)

\* A proposal that its creator's device accepted in the bytes of the bundle is
\* one that the other device accepts from the account, for the same display,
\* until it is executed: the two decoders agree (decoder.ts:1312).
SplitVerifies ==
    \A s \in signatures : \A i \in 1..MaxIndex :
        /\ proposals[i] # Unset /\ ~proposals[i].executed
        /\ s \in Accepted
        /\ \E ix \in ToSet(s.tx.instructions) :
              /\ ix.data.op = "create_transaction" /\ KeyOf(ix, 2) = Pda(i)
              /\ ix.data.message = proposals[i].message
        => \A o \in ApproveOnly :
              /\ o.payload = s.payload
              /\ decodeVaultSolanaTransaction(o.tx, Options).transactionPda = Pda(i)
              => verifyApproveOnlyTransaction(o.tx, proposals[i], o.payload, o.device, Options)

TokenMessage(t) ==
    buildInnerSplMessage(Vault, AtaOf(Vault, t.mint), AtaOf(t.send.recipient, t.mint), Paymaster,
                         t.mint, t.send.amount, t.decimals, t.send.fee, t.send.memo)

BuiltMessages == { SolMessage(s) : s \in Sends } \cup { TokenMessage(t) : t \in TokenSends }

\* Data that ends too early is not what a builder writes, and an account that
\* is there is not one that is not.
ASSUME BuiltAssumption ==
    /\ \A message \in BuiltMessages : Readable(message)
    /\ Unset \notin
         [multisig : {Multisig}, transactionIndex : Nat, creator : Device, payer : {Paymaster},
          vaultIndex : {0}, executed : BOOLEAN, approvals : Seq(Device), message : BuiltMessages]

TokenBundle(t) ==
    LET bundle == enterpriseBundle(t.send, TokenMessage(t), MirroredAccounts(TokenMessage(t)))
        createAta == buildCreateAtaIdempotentIx(Paymaster,
            AtaOf(t.send.recipient, t.mint), t.send.recipient, t.mint)
    IN  [bundle EXCEPT !.instructions = <<@[1], createAta>> \o SubSeq(@, 2, Len(@))]

TokenPayload(t) ==
    [PayloadOf(t.send) EXCEPT !.tokenMint = t.mint, !.tokenDecimals = t.decimals]

\* A send that can be made: enough members approve, none of them twice, the memo
\* is text, and the program stores the message.
CanBeMade(s, message) ==
    /\ IsInjective(s.approvers) /\ Len(s.approvers) >= Threshold
    /\ decodeUtf8Strict(s.memo)
    /\ ValidMessage(message, Vault)

\* The vault has what the send takes; that it keeps the least balance an account
\* may have is left out.
HasLamports(s) == s.amount + s.fee <= funds.lamports

HasTokens(t) ==
    LET held == funds.tokens[AtaOf(Vault, t.mint)] IN
    /\ t.mint \in DOMAIN Decimals /\ Decimals[t.mint] = t.decimals
    /\ held # Unset /\ t.send.amount <= held
    /\ t.send.fee <= funds.lamports

\* Every device that approves accepts the bundle in the bytes and so does the
\* enterprise comparison, and the program runs it to its end.
Passed(bundle, s, payload) ==
    /\ \A device \in ToSet(s.approvers) :
          verifyConsumerSolanaBundle(bundle, ConsumerParams(device, payload))
    /\ compareDecodedToExpected(decodeVaultSolanaTransaction(bundle, Options), payload)
    /\ ~Run(bundle).failed

\* No honest bundle is refused: what the builders build at the present index for
\* a send that can be made and that the vault can pay, in lamports or in tokens,
\* with or without a memo, a token account or a fee at its bound, passes the gate
\* of every device that is to approve it (decoder.ts:1668), and the program runs
\* it to its end, every call of the message included (lib.rs:549).
HonestBundlesPass ==
    transaction_index < MaxIndex =>
        /\ \A s \in Sends : CanBeMade(s, SolMessage(s)) /\ HasLamports(s) =>
              LET send == At(s, transaction_index) IN
              /\ Passed(WholeBundle(send), s, PayloadOf(s))
              /\ s.memo = NoMemo => Passed(bundledSend(send, FALSE), s, PayloadOf(s))
        /\ \A t \in TokenSends : CanBeMade(t.send, TokenMessage(t)) /\ HasTokens(t) =>
              Passed(TokenBundle([t EXCEPT !.send = At(@, transaction_index)]), t.send,
                     TokenPayload(t))

=============================================================================
