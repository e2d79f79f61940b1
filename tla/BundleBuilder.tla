---------------------------- MODULE BundleBuilder ----------------------------
(***************************************************************************)
(* The instruction builders of the client and the transactions that the    *)
(* SDK's examples and scripts assemble from them: the consumer's send, the *)
(* first send, the enterprise bundle and the transactions of the split     *)
(* flow, with their size on the wire.                                      *)
(*                                                                         *)
(* The data of an outer instruction is a record with the name of its       *)
(* operation; that of an inner instruction is a payload: its tag, length   *)
(* and what the decoder reads from it.                                     *)
(***************************************************************************)
EXTENDS MessageBuilder

CONSTANTS
    TOKEN_PROGRAM_ID, TOKEN_2022_PROGRAM_ID, ATA_PROGRAM_ID,
    COMPUTE_BUDGET_PROGRAM_ID, MEMO_PROGRAM_ID,
    RECENT_BLOCKHASHES, RENT,       \* sysvars
    PACKET_DATA_SIZE                \* of a transaction, in bytes

Signer(pubkey) == Meta(pubkey, TRUE, FALSE)
WritableSigner(pubkey) == Meta(pubkey, TRUE, TRUE)
Writable(pubkey) == Meta(pubkey, FALSE, TRUE)
Readonly(pubkey) == Meta(pubkey, FALSE, FALSE)

-----------------------------------------------------------------------------
(***************************************************************************)
(* Payloads of inner instructions.                                         *)
(***************************************************************************)

Payload(tag, len, amount, decimals, utf8) ==
    [tag |-> tag, len |-> len, amount |-> amount, decimals |-> decimals, utf8 |-> utf8]

SystemTransfer(lamports) == Payload(2, 12, lamports, 0, FALSE)
TransferChecked(amount, decimals) == Payload(12, 10, amount, decimals, FALSE)
Text(length) == Payload(0, length, 0, 0, TRUE)
NoMemo == Text(0)

-----------------------------------------------------------------------------
(***************************************************************************)
(* The builders of client.ts.                                              *)
(***************************************************************************)

predictNextTransactionPda(multisigAddress, currentTransactionIndex) ==
    [transactionAddress |-> transaction_pda(multisigAddress, currentTransactionIndex + 1),
     transactionIndex   |-> currentTransactionIndex + 1]

buildInitializeMultisigInstruction(members, threshold, payer) ==
    LET sortedMembers == sortMembers(members) IN
    Instruction(PROGRAM_ID,
        <<Writable(deriveMultisigAddress(sortedMembers, threshold)), WritableSigner(payer),
          Readonly(SYSTEM_PROGRAM)>> \o [i \in DOMAIN sortedMembers |-> Readonly(sortedMembers[i])],
        [op |-> "initialize_multisig", member_hash |-> hashMembers(sortedMembers),
         threshold |-> threshold, member_count |-> Len(sortedMembers)])

buildProvisionNonceInstruction(multisigAddress, payer) ==
    Instruction(PROGRAM_ID,
        <<Readonly(multisigAddress), Writable(deriveNonceAccount(multisigAddress)),
          WritableSigner(payer), Readonly(RECENT_BLOCKHASHES), Readonly(RENT),
          Readonly(SYSTEM_PROGRAM)>>,
        [op |-> "provision_nonce"])

buildCreateTransactionInstruction(multisigAddress, currentTransactionIndex, vaultIndex, message, creator, payer) ==
    LET next == predictNextTransactionPda(multisigAddress, currentTransactionIndex) IN
    Instruction(PROGRAM_ID,
        <<Writable(multisigAddress), Writable(next.transactionAddress), Signer(creator),
          WritableSigner(payer), Readonly(SYSTEM_PROGRAM)>>,
        [op |-> "create_transaction", vault_index |-> vaultIndex, message |-> message])

buildApproveTransactionInstruction(multisigAddress, transactionIndex, member) ==
    Instruction(PROGRAM_ID,
        <<Readonly(multisigAddress), Writable(transaction_pda(multisigAddress, transactionIndex)),
          Signer(member)>>,
        [op |-> "approve_transaction", transaction_index |-> transactionIndex])

buildExecuteTransactionInstruction(multisigAddress, transactionIndex, executor, remainingAccounts) ==
    Instruction(PROGRAM_ID,
        <<Readonly(multisigAddress), Writable(transaction_pda(multisigAddress, transactionIndex)),
          Signer(executor)>> \o remainingAccounts,
        [op |-> "execute_transaction", transaction_index |-> transactionIndex])

buildCloseTransactionInstruction(multisigAddress, transactionIndex, payer) ==
    Instruction(PROGRAM_ID,
        <<Readonly(multisigAddress), Writable(transaction_pda(multisigAddress, transactionIndex)),
          WritableSigner(payer)>>,
        [op |-> "close_transaction", transaction_index |-> transactionIndex])

\* The fee of the client's own transactions; none when it is not configured.
priorityInstructions(priorityFeeMicroLamports) ==
    IF priorityFeeMicroLamports <= 0 THEN <<>>
    ELSE <<Instruction(COMPUTE_BUDGET_PROGRAM_ID, <<>>,
                       [op |-> "setComputeUnitPrice", value |-> priorityFeeMicroLamports])>>

\* Builders of web3.js and of the examples.
nonceAdvance(noncePubkey, authorizedPubkey) ==
    Instruction(SYSTEM_PROGRAM,
        <<Writable(noncePubkey), Readonly(RECENT_BLOCKHASHES), Signer(authorizedPubkey)>>,
        [op |-> "nonceAdvance"])

buildCreateAtaIdempotentIx(payer, associatedToken, owner, mint) ==
    Instruction(ATA_PROGRAM_ID,
        <<WritableSigner(payer), Writable(associatedToken), Readonly(owner), Readonly(mint),
          Readonly(SYSTEM_PROGRAM), Readonly(TOKEN_PROGRAM_ID)>>,
        [op |-> "createIdempotent"])

-----------------------------------------------------------------------------
(***************************************************************************)
(* Sizes.                                                                  *)
(***************************************************************************)

MessageBytes(message) ==
    3 + 4 + 32 * Len(message.account_keys)
      + 4 + SumOver(InstructionBytes, message.instructions)
      + 4 + SumOver(LookupBytes, message.address_table_lookups)

DataBytes(data) ==
    CASE data.op = "initialize_multisig" -> 42
      [] data.op = "provision_nonce" -> 8
      [] data.op = "create_transaction" -> 9 + MessageBytes(data.message)
      [] data.op \in {"approve_transaction", "execute_transaction", "close_transaction"} -> 16
      [] data.op = "nonceAdvance" -> 4
      [] data.op = "createIdempotent" -> 1
      [] data.op = "setComputeUnitPrice" -> 9

\* A length is written in 7 bits a byte.
LengthBytes(n) == IF n < 128 THEN 1 ELSE 2

OuterInstructionBytes(ix) ==
    1 + LengthBytes(Len(ix.keys)) + Len(ix.keys)
      + LengthBytes(DataBytes(ix.data)) + DataBytes(ix.data)

AccountsOf(tx) ==
    {tx.feePayer} \cup UNION { {ix.programId} \cup ToSet(Pubkeys(ix.keys)) : ix \in ToSet(tx.instructions) }

SignersOf(tx) ==
    {tx.feePayer} \cup UNION { SignerKeys([i \in DOMAIN ix.keys |->
                                  [pubkey |-> ix.keys[i].pubkey, is_signer |-> ix.keys[i].isSigner]])
                               : ix \in ToSet(tx.instructions) }

WritableAccounts(ix) ==
    { ix.keys[i].pubkey : i \in { j \in DOMAIN ix.keys : ix.keys[j].isWritable } }

WritableOf(tx) ==
    {tx.feePayer} \cup UNION { WritableAccounts(ix) : ix \in ToSet(tx.instructions) }

\* A legacy transaction: signatures, header, accounts, blockhash, instructions.
WireSize(tx) ==
    LET signatures == Cardinality(SignersOf(tx))
        accounts == Cardinality(AccountsOf(tx))
    IN  LengthBytes(signatures) + 64 * signatures + 3
          + LengthBytes(accounts) + 32 * accounts + 32
          + LengthBytes(Len(tx.instructions)) + SumOver(OuterInstructionBytes, tx.instructions)

Serializes(tx) == WireSize(tx) <= PACKET_DATA_SIZE

=============================================================================
