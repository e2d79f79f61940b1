---------------------------- MODULE BundleDecoder ----------------------------
(***************************************************************************)
(* decoder.ts: what a signing device reads from the bytes of a bundle and  *)
(* from a proposal account, and the comparisons with what it displays.     *)
(*                                                                         *)
(* A verdict is a conjunction, where the code collects the mismatches: it  *)
(* is TRUE when the list would be empty.  What throws makes a bundle       *)
(* Undecodable, or a verdict FALSE.  An option that is not given is Unset. *)
(***************************************************************************)
EXTENDS SendBundles

CONSTANTS
    Unset,
    Truncated       \* the data of a create_transaction that ends too early

Agrees(expected, actual) == expected = Unset \/ actual = expected

\* An amount that is not a whole number reads as -1.
Invalid == -1
toBigIntOrNull(value) == IF value = Unset \/ value = Invalid THEN Unset ELSE value

-----------------------------------------------------------------------------
(***************************************************************************)
(* Addresses and options.                                                  *)
(***************************************************************************)

deriveAssociatedTokenAddress(owner, mint, tokenProgramId) ==
    <<"ata", owner, tokenProgramId, mint>>
deriveVaultPda(multisig, vaultIndex) == <<"vault", multisig, vaultIndex % BYTE>>
deriveTransactionPda(multisig, transactionIndex) == <<"transaction", multisig, transactionIndex>>

DecodeVaultSolanaOptions(owner, mint, allowComputeBudget, allowMemo) ==
    [expectedRecipientOwner |-> owner, expectedMint |-> mint,
     allowComputeBudget |-> allowComputeBudget, allowMemo |-> allowMemo]

DecodeProposalOptions(feePayer, owner, mint, allowMemo) ==
    [feePayer |-> feePayer, expectedRecipientOwner |-> owner, expectedMint |-> mint,
     allowMemo |-> allowMemo]

\* What a device displays, without the options that it leaves out.
ExpectedSolanaVaultPayload(recipients, tokenMint, tokenDecimals, maxFeeLamports) ==
    [recipients |-> recipients, tokenMint |-> tokenMint, tokenDecimals |-> tokenDecimals,
     maxFeeLamports |-> maxFeeLamports, expectedFeePayer |-> Unset,
     expectedTransactionPda |-> Unset, expectedMultisigPda |-> Unset,
     expectedVaultIndex |-> Unset, expectedVaultPda |-> Unset,
     approveOnlyVerifiedOnChain |-> FALSE]

NativeRecipient(address, amount) ==
    [address |-> address, ata |-> Unset, ataVerified |-> Unset, amount |-> amount,
     asset |-> "native", mint |-> Unset, decimals |-> Unset, tokenProgram |-> Unset]

SplRecipient(ata, amount, mint, decimals, tokenProgram) ==
    [address |-> ata, ata |-> ata, ataVerified |-> Unset, amount |-> amount,
     asset |-> "spl", mint |-> mint, decimals |-> decimals, tokenProgram |-> tokenProgram]

-----------------------------------------------------------------------------
(***************************************************************************)
(* The inner message.                                                      *)
(***************************************************************************)

\* The reader throws at data that ends too early.
Readable(message) == message # Truncated

decodeUtf8Strict(data) == data.utf8

\* parseTransactionMessage skips the header and counts the lookups.
InnerMessage(vaultIndex, message) ==
    [vaultIndex |-> vaultIndex, accountKeys |-> message.account_keys,
     instructions |-> message.instructions,
     addressTableLookupCount |-> Len(message.address_table_lookups)]

parseCreateTransactionData(data) == InnerMessage(data.vault_index, data.message)

Resolves(inner, index) == index < Len(inner.accountKeys)
Key(inner, index) == inner.accountKeys[index + 1]
Program(inner, ix) == Key(inner, ix.program_id_index)
Arg(inner, ix, n) == Key(inner, ix.account_indexes[n])
ArgResolves(inner, ix, n) == Resolves(inner, ix.account_indexes[n])

\* The vault is the only account a transfer may debit.
IsNativeTransfer(inner, ix) ==
    /\ Resolves(inner, ix.program_id_index)
    /\ Program(inner, ix) = SYSTEM_PROGRAM
    /\ ix.data.len = 12 /\ ix.data.tag = 2
    /\ Len(ix.account_indexes) >= 2
    /\ ArgResolves(inner, ix, 1) /\ ArgResolves(inner, ix, 2)
    /\ Arg(inner, ix, 1) = inner.accountKeys[1]

\* Token or Token-2022 TransferChecked by authority of the vault.
IsTokenTransfer(inner, ix) ==
    /\ Resolves(inner, ix.program_id_index)
    /\ Program(inner, ix) \in {TOKEN_PROGRAM_ID, TOKEN_2022_PROGRAM_ID}
    /\ ix.data.len = 10 /\ ix.data.tag = 12
    /\ Len(ix.account_indexes) >= 4
    /\ \A n \in 2..4 : ArgResolves(inner, ix, n)
    /\ Arg(inner, ix, 4) = inner.accountKeys[1]

IsMemo(inner, ix, allowMemo) ==
    /\ allowMemo
    /\ Resolves(inner, ix.program_id_index)
    /\ Program(inner, ix) = MEMO_PROGRAM_ID
    /\ ix.account_indexes = <<>>
    /\ decodeUtf8Strict(ix.data)

IsReimbursement(inner, ix, feePayer) ==
    IsNativeTransfer(inner, ix) /\ feePayer # Unset /\ Arg(inner, ix, 2) = feePayer

Recipient(inner, ix) ==
    IF IsNativeTransfer(inner, ix)
      THEN NativeRecipient(Arg(inner, ix, 2), ix.data.amount)
      ELSE SplRecipient(Arg(inner, ix, 3), ix.data.amount, Arg(inner, ix, 2), ix.data.decimals,
                        Program(inner, ix))

Lamports(ixs) == LET Amount(ix) == ix.data.amount IN SumOver(Amount, ixs)

\* Every instruction is a payment, a reimbursement, a memo or unknown.
classifyInnerMessage(inner, feePayer, allowMemo) ==
    LET Fee(ix) == IsReimbursement(inner, ix, feePayer)
        Payment(ix) == IsTokenTransfer(inner, ix) \/ (IsNativeTransfer(inner, ix) /\ ~Fee(ix))
        Memo(ix) == IsMemo(inner, ix, allowMemo)
        Unknown(ix) == ~Fee(ix) /\ ~Payment(ix) /\ ~Memo(ix)
        payments == Filter(inner.instructions, Payment)
    IN  [recipients |-> [n \in DOMAIN payments |-> Recipient(inner, payments[n])],
         feeLamports |-> Lamports(Filter(inner.instructions, Fee)),
         unknownInnerInstructionCount |->
            inner.addressTableLookupCount + Len(Filter(inner.instructions, Unknown)),
         memos |-> Len(Filter(inner.instructions, Memo))]

\* A token account is shown as its owner's when it is the owner's for the mint.
resolveAtaOwner(recipients, owner, mint) ==
    LET candidates == { deriveAssociatedTokenAddress(owner, mint, p) :
                          p \in {TOKEN_PROGRAM_ID, TOKEN_2022_PROGRAM_ID} }
        Shown(r) ==
            IF r.asset # "spl" THEN r
            ELSE [r EXCEPT !.address = IF r.ata \in candidates THEN owner ELSE r.ata,
                           !.ataVerified = r.ata \in candidates]
    IN  [n \in DOMAIN recipients |-> Shown(recipients[n])]

\* The recipients as they are shown under the options.
ShownRecipients(classified, opts) ==
    IF opts.expectedRecipientOwner # Unset /\ opts.expectedMint # Unset
      THEN resolveAtaOwner(classified.recipients, opts.expectedRecipientOwner, opts.expectedMint)
      ELSE classified.recipients

-----------------------------------------------------------------------------
(***************************************************************************)
(* The outer instructions.                                                 *)
(***************************************************************************)

MultisigIxs == {"create_transaction", "approve_transaction", "execute_transaction",
                "close_transaction"}

OuterKind(ix) ==
    CASE ix.programId = SYSTEM_PROGRAM /\ ix.data.op = "nonceAdvance" -> "nonceAdvance"
      [] ix.programId = COMPUTE_BUDGET_PROGRAM_ID -> "computeBudget"
      [] ix.programId = ATA_PROGRAM_ID -> "ataCreate"
      [] ix.programId = PROGRAM_ID /\ ix.data.op \in MultisigIxs -> ix.data.op
      [] OTHER -> "foreign"

OfKind(tx, kind) == Filter(tx.instructions, LAMBDA ix : OuterKind(ix) = kind)

ParsedComputeBudget(ix) ==
    CASE ix.data.op = "setComputeUnitLimit" -> [tag |-> 2, value |-> ix.data.value]
      [] ix.data.op = "setComputeUnitPrice" -> [tag |-> 3, value |-> ix.data.value]
      [] OTHER -> [tag |-> 0, value |-> Unset]

KeyOrUnset(ix, n) == IF n \in DOMAIN ix.keys THEN ix.keys[n].pubkey ELSE Unset

ParsedAtaCreate(ix) ==
    [funder |-> KeyOrUnset(ix, 1), ata |-> KeyOrUnset(ix, 2), owner |-> KeyOrUnset(ix, 3),
     mint |-> KeyOrUnset(ix, 4), tokenProgram |-> KeyOrUnset(ix, 6),
     dataOk |-> ix.data.op \in {"create", "createIdempotent"}]

Mapped(Op(_), ixs) == [n \in DOMAIN ixs |-> Op(ixs[n])]

\* Parses(tx) says that nothing throws.
Parses(tx) ==
    \A n \in DOMAIN OfKind(tx, "create_transaction") :
        Readable(OfKind(tx, "create_transaction")[n].data.message)

parseBundle(tx) ==
    [feePayer            |-> tx.feePayer,
     nonceAdvanceIndexes |-> { n - 1 : n \in { m \in DOMAIN tx.instructions :
                                                 OuterKind(tx.instructions[m]) = "nonceAdvance" } },
     computeBudget       |-> Mapped(ParsedComputeBudget, OfKind(tx, "computeBudget")),
     ataCreates          |-> Mapped(ParsedAtaCreate, OfKind(tx, "ataCreate")),
     creates             |-> OfKind(tx, "create_transaction"),
     approves            |-> OfKind(tx, "approve_transaction"),
     executes            |-> OfKind(tx, "execute_transaction"),
     closes              |-> OfKind(tx, "close_transaction"),
     foreign             |-> OfKind(tx, "foreign")]

KeyOf(ix, n) == ix.keys[n].pubkey

-----------------------------------------------------------------------------
(***************************************************************************)
(* decodeVaultSolanaTransaction.                                           *)
(***************************************************************************)

Undecodable == [kind |-> "undecodable"]

\* One of each tag, within its cap.
BudgetAllowed(computeBudget, n, caps) ==
    LET cb == computeBudget[n] IN
    /\ caps # Unset
    /\ cb.value # Unset
    /\ \A m \in 1..(n - 1) : computeBudget[m].tag # cb.tag
    /\ IF cb.tag = 2
         THEN caps.maxUnitLimit = Unset \/ cb.value <= caps.maxUnitLimit
         ELSE \/ caps.maxUnitPriceMicroLamports = Unset
              \/ /\ toBigIntOrNull(caps.maxUnitPriceMicroLamports) # Unset
                 /\ cb.value <= caps.maxUnitPriceMicroLamports

\* Outer instructions outside the allowlist: a signature is for all of them.
\* The fee payer, and nobody else, funds a token account.
unknownOuterPrograms(bundle, opts) ==
    { bundle.foreign[n].programId : n \in DOMAIN bundle.foreign }
      \cup { ATA_PROGRAM_ID : n \in { m \in DOMAIN bundle.ataCreates :
               bundle.ataCreates[m].funder \notin {Unset, bundle.feePayer} } }
      \cup { COMPUTE_BUDGET_PROGRAM_ID : n \in { m \in DOMAIN bundle.computeBudget :
               ~BudgetAllowed(bundle.computeBudget, m, opts.allowComputeBudget) } }

Targets(ixs) == [n \in DOMAIN ixs |-> KeyOf(ixs[n], 2)]

Decodes(tx) ==
    /\ Parses(tx)
    /\ LET bundle == parseBundle(tx) IN
       /\ Len(bundle.creates) <= 1
       /\ \A n \in DOMAIN bundle.approves : Len(bundle.approves[n].keys) >= 3
       /\ \A n \in DOMAIN bundle.creates :
             /\ Len(bundle.creates[n].keys) >= 3
             /\ bundle.creates[n].data.message.account_keys # <<>>
       /\ bundle.creates # <<>> \/ bundle.approves # <<>>

DecodedCreate(bundle, opts) ==
    LET createIx == bundle.creates[1]
        inner == parseCreateTransactionData(createIx.data)
        classified == classifyInnerMessage(inner, bundle.feePayer, opts.allowMemo)
    IN  [kind |-> "create", vaultIndex |-> inner.vaultIndex,
         multisigPda |-> KeyOf(createIx, 1), transactionPda |-> KeyOf(createIx, 2),
         creator |-> KeyOf(createIx, 3), sender |-> inner.accountKeys[1],
         recipients |-> ShownRecipients(classified, opts),
         feeLamports |-> classified.feeLamports, feePayer |-> bundle.feePayer,
         approvers |-> [n \in DOMAIN bundle.approves |-> KeyOf(bundle.approves[n], 3)],
         approveTargets |-> Targets(bundle.approves),
         executeTargets |-> Targets(Filter(bundle.executes, LAMBDA e : Len(e.keys) >= 2)),
         unknownInnerInstructionCount |-> classified.unknownInnerInstructionCount,
         unknownOuterPrograms |-> unknownOuterPrograms(bundle, opts), memos |-> classified.memos]

DecodedApprove(bundle, opts) ==
    LET first == bundle.approves[1] IN
    [kind |-> "approve", multisigPda |-> KeyOf(first, 1), transactionPda |-> KeyOf(first, 2),
     approvers |-> [n \in DOMAIN bundle.approves |-> KeyOf(bundle.approves[n], 3)],
     approveTargets |-> Targets(bundle.approves),
     approveMultisigs |-> [n \in DOMAIN bundle.approves |-> KeyOf(bundle.approves[n], 1)],
     transactionIndex |-> first.data.transaction_index,
     unknownOuterPrograms |-> unknownOuterPrograms(bundle, opts)]

decodeVaultSolanaTransaction(tx, opts) ==
    IF ~Decodes(tx) THEN Undecodable
    ELSE LET bundle == parseBundle(tx) IN
         IF bundle.creates # <<>> THEN DecodedCreate(bundle, opts) ELSE DecodedApprove(bundle, opts)

=============================================================================
