----------------------------- MODULE SendBundles -----------------------------
(***************************************************************************)
(* The messages and the transactions that wallets and relays build, as the *)
(* scripts and the examples of the SDK build them.                         *)
(*                                                                         *)
(* A send is a record: the multisig and its present transaction_index, the *)
(* members that approve in their order, the recipient, the paymaster, the  *)
(* amount and the reimbursement of the paymaster, and a memo or NoMemo.    *)
(***************************************************************************)
EXTENDS BundleBuilder

\* A payment and the reimbursement, with or without a memo.
buildInnerSolMessage(vaultPda, recipient, paymaster, amountLamports, paymasterFeeLamports, memoText) ==
    LET memoKeys == IF memoText = NoMemo THEN <<>> ELSE <<MEMO_PROGRAM_ID>>
        memoIxs == IF memoText = NoMemo THEN <<>>
                   ELSE <<[program_id_index |-> 4, account_indexes |-> <<>>, data |-> memoText]>>
    IN  [num_signers |-> 1, num_writable_signers |-> 1, num_writable_non_signers |-> 2,
         account_keys |-> <<vaultPda, recipient, paymaster, SYSTEM_PROGRAM>> \o memoKeys,
         instructions |->
            <<[program_id_index |-> 3, account_indexes |-> <<0, 1>>,
               data |-> SystemTransfer(amountLamports)],
              [program_id_index |-> 3, account_indexes |-> <<0, 2>>,
               data |-> SystemTransfer(paymasterFeeLamports)]>> \o memoIxs,
         address_table_lookups |-> <<>>]

\* A token payment, the reimbursement and a memo.
buildInnerSplMessage(vaultPda, vaultAta, recipientAta, paymaster, mint, amount, decimals, reimburseLamports, memoText) ==
    [num_signers |-> 1, num_writable_signers |-> 1, num_writable_non_signers |-> 3,
     account_keys |-> <<vaultPda, vaultAta, recipientAta, paymaster, mint, TOKEN_PROGRAM_ID,
                        SYSTEM_PROGRAM, MEMO_PROGRAM_ID>>,
     instructions |->
        <<[program_id_index |-> 5, account_indexes |-> <<1, 4, 2, 0>>,
           data |-> TransferChecked(amount, decimals)],
          [program_id_index |-> 6, account_indexes |-> <<0, 3>>,
           data |-> SystemTransfer(reimburseLamports)],
          [program_id_index |-> 7, account_indexes |-> <<>>, data |-> memoText]>>,
     address_table_lookups |-> <<>>]

-----------------------------------------------------------------------------
(***************************************************************************)
(* What all the bundles have in common: create, approve by everybody who   *)
(* is to approve, execute, close.                                          *)
(***************************************************************************)

VaultOf(send) == deriveVaultAddress(send.multisig, 0)
IndexOf(send) ==
    predictNextTransactionPda(send.multisig, send.currentTransactionIndex).transactionIndex

Create(send, message) ==
    buildCreateTransactionInstruction(send.multisig, send.currentTransactionIndex, 0,
                                      message, send.approvers[1], send.paymaster)

Approvals(send) ==
    [i \in DOMAIN send.approvers |->
        buildApproveTransactionInstruction(send.multisig, IndexOf(send), send.approvers[i])]

Close(send) == buildCloseTransactionInstruction(send.multisig, IndexOf(send), send.paymaster)

AdvanceNonce(send) == nonceAdvance(deriveNonceAccount(send.multisig), send.paymaster)

SolMessage(send) ==
    buildInnerSolMessage(VaultOf(send), send.recipient, send.paymaster, send.amount, send.fee,
                         send.memo)

\* The remaining accounts of the scripts and of the bundle example: those of a
\* message without a memo.
SolRemaining(send) ==
    <<Writable(VaultOf(send)), Writable(send.recipient), Writable(send.paymaster),
      Readonly(SYSTEM_PROGRAM)>>

Transaction(feePayer, instructions) == [feePayer |-> feePayer, instructions |-> instructions]

-----------------------------------------------------------------------------
(***************************************************************************)
(* The consumer's transactions.                                            *)
(***************************************************************************)

ConsumerIxs(send) ==
    <<Create(send, SolMessage(send))>> \o Approvals(send)
      \o <<buildExecuteTransactionInstruction(send.multisig, IndexOf(send), send.approvers[1],
                                              SolRemaining(send)),
           Close(send)>>

\* On the durable nonce.
durableSend(send) == Transaction(send.paymaster, <<AdvanceNonce(send)>> \o ConsumerIxs(send))

\* On a live blockhash, with the initialization when it is the first.
bundledSend(send, includeInit) ==
    Transaction(send.paymaster,
        (IF includeInit
           THEN <<buildInitializeMultisigInstruction(send.members, Len(send.approvers), send.paymaster)>>
           ELSE <<>>) \o ConsumerIxs(send))

\* The first send, which provisions the nonce too.
firstSend(send) ==
    Transaction(send.paymaster,
        <<buildInitializeMultisigInstruction(send.members, Len(send.approvers), send.paymaster),
          buildProvisionNonceInstruction(send.multisig, send.paymaster)>> \o ConsumerIxs(send))

-----------------------------------------------------------------------------
(***************************************************************************)
(* The enterprise's: one bundle that everybody signs, or one transaction   *)
(* for each signer and one for the execution.                              *)
(***************************************************************************)

enterpriseBundle(send, message, remainingAccounts) ==
    Transaction(send.paymaster,
        <<AdvanceNonce(send), Create(send, message)>> \o Approvals(send)
          \o <<buildExecuteTransactionInstruction(send.multisig, IndexOf(send), send.paymaster,
                                                  remainingAccounts),
               Close(send)>>)

creatorTx(send, message) ==
    Transaction(send.paymaster, <<AdvanceNonce(send), Create(send, message)>> \o Approvals(send))

approvalTx(send) == Transaction(send.paymaster, <<AdvanceNonce(send)>> \o Approvals(send))

\* The metas mirror account_keys: the first are writable, the others are not.
\* The variant forgets which are.
AccountsReadonly(message) ==
    [i \in DOMAIN message.account_keys |-> Readonly(message.account_keys[i])]

MirroredAccounts(message) ==
    [i \in DOMAIN message.account_keys |->
        IF is_writable(message, i - 1) THEN Writable(message.account_keys[i])
                                       ELSE Readonly(message.account_keys[i])]

executeTx(send, message, createAta) ==
    Transaction(send.paymaster,
        createAta
          \o <<buildExecuteTransactionInstruction(send.multisig, IndexOf(send), send.paymaster,
                                                  MirroredAccounts(message)),
               Close(send)>>)

=============================================================================
