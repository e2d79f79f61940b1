----------------------------- MODULE BundleGates -----------------------------
(***************************************************************************)
(* decoder.ts, continued: the comparisons of what was decoded with what a  *)
(* device displays, and the three gates a bundle passes before it is       *)
(* signed: the enterprise's comparison, the approve-only gate and the      *)
(* consumer's.                                                             *)
(***************************************************************************)
EXTENDS BundleDecoder

\* An expected address names the recipient shown, the raw account, or the
\* owner whose token account it is.
recipientMatchesAddress(r, expectedAddress) ==
    \/ expectedAddress \in {r.address, r.ata}
    \/ /\ r.asset = "spl"
       /\ deriveAssociatedTokenAddress(expectedAddress, r.mint, r.tokenProgram) = r.ata

RecipientMatches(r, exp) ==
    /\ recipientMatchesAddress(r, exp.address)
    /\ toBigIntOrNull(exp.amount) # Unset
    /\ r.amount = exp.amount

\* Each expected recipient takes the first decoded one that matches and is
\* not taken; nothing is left over on either side.
RecipientsMatch(decoded, expected) ==
    LET Free(used, exp) ==
            { n \in DOMAIN decoded : n \notin used /\ RecipientMatches(decoded[n], exp) }
        Take(taken, exp) ==
            LET free == Free(taken.used, exp) IN
            IF free = {} THEN [taken EXCEPT !.ok = FALSE]
            ELSE [taken EXCEPT !.used = @ \cup {CHOOSE n \in free : \A m \in free : n <= m}]
        pool[n \in 0..Len(expected)] ==
            IF n = 0 THEN [used |-> {}, ok |-> TRUE] ELSE Take(pool[n - 1], expected[n])
    IN  pool[Len(expected)].ok /\ pool[Len(expected)].used = DOMAIN decoded

MaxFee(expected) ==
    IF expected.maxFeeLamports = Unset THEN 0 ELSE toBigIntOrNull(expected.maxFeeLamports)

\* The outflow to the fee payer is bounded, and goes where it is expected.
\* The variant refuses the bound itself.
FeeBelow(view, expected) ==
    /\ MaxFee(expected) # Unset
    /\ view.feeLamports < MaxFee(expected)
    /\ view.feeLamports > 0 => Agrees(expected.expectedFeePayer, view.feePayer)

FeeBounded(view, expected) ==
    /\ MaxFee(expected) # Unset
    /\ view.feeLamports <= MaxFee(expected)
    /\ view.feeLamports > 0 => Agrees(expected.expectedFeePayer, view.feePayer)

AssetsMatch(recipients, expected) ==
    \A n \in DOMAIN recipients :
        LET r == recipients[n] IN
        IF r.asset = "spl"
          THEN r.mint = expected.tokenMint /\ Agrees(expected.tokenDecimals, r.decimals)
          ELSE expected.tokenMint = Unset

compareFundFlows(view, expected) ==
    /\ view.unknownInnerInstructionCount = 0
    /\ FeeBounded(view, expected)
    /\ RecipientsMatch(view.recipients, expected.recipients)
    /\ AssetsMatch(view.recipients, expected)

-----------------------------------------------------------------------------
(***************************************************************************)
(* compareDecodedToExpected.                                               *)
(***************************************************************************)

\* All approvals of an approve-only bundle are for one proposal, the one that
\* was verified on chain.
ApproveAgrees(decoded, expected) ==
    /\ \A n \in DOMAIN decoded.approveTargets :
          /\ decoded.approveTargets[n] = decoded.transactionPda
          /\ Agrees(expected.expectedTransactionPda, decoded.approveTargets[n])
    /\ \A n \in DOMAIN decoded.approveMultisigs :
          decoded.approveMultisigs[n] = decoded.multisigPda
    /\ Agrees(expected.expectedTransactionPda, decoded.transactionPda)
    /\ expected.approveOnlyVerifiedOnChain
    /\ expected.expectedTransactionPda # Unset

\* The approvals and executions of a bundle are for the proposal it creates.
\* The variant does not look at them.
CreateAgreesWithoutTargets(decoded, expected) ==
    /\ Agrees(expected.expectedVaultIndex, decoded.vaultIndex)
    /\ Agrees(expected.expectedVaultPda, decoded.sender)
    /\ Agrees(expected.expectedTransactionPda, decoded.transactionPda)
    /\ compareFundFlows(decoded, expected)

CreateAgrees(decoded, expected) ==
    /\ Agrees(expected.expectedVaultIndex, decoded.vaultIndex)
    /\ Agrees(expected.expectedVaultPda, decoded.sender)
    /\ ToSet(decoded.approveTargets) \cup ToSet(decoded.executeTargets)
          \subseteq {decoded.transactionPda}
    /\ Agrees(expected.expectedTransactionPda, decoded.transactionPda)
    /\ compareFundFlows(decoded, expected)

compareDecodedToExpected(decoded, expected) ==
    /\ decoded.kind # "undecodable"
    /\ decoded.unknownOuterPrograms = {}
    /\ Agrees(expected.expectedMultisigPda, decoded.multisigPda)
    /\ IF decoded.kind = "approve" THEN ApproveAgrees(decoded, expected)
                                   ELSE CreateAgrees(decoded, expected)

-----------------------------------------------------------------------------
(***************************************************************************)
(* The proposal account, and the approve-only gate: the decoding before    *)
(* the device asks its node for the account, and the verdict after.        *)
(***************************************************************************)

\* The account is a proposal and is where its own fields say.
CanonicalAccount(account, transactionPda) ==
    /\ account.message.account_keys # <<>>
    /\ deriveTransactionPda(account.multisig, account.transactionIndex) = transactionPda

DecodedOnChainProposal(account, transactionPda, opts) ==
    LET inner == InnerMessage(account.vaultIndex, account.message)
        feePayer == IF opts.feePayer # Unset THEN opts.feePayer ELSE account.payer
        classified == classifyInnerMessage(inner, feePayer, opts.allowMemo)
    IN  [kind |-> "proposal", transactionPda |-> transactionPda,
         multisigPda |-> account.multisig, transactionIndex |-> account.transactionIndex,
         creator |-> account.creator, payer |-> account.payer, vaultIndex |-> account.vaultIndex,
         vaultPda |-> deriveVaultPda(account.multisig, account.vaultIndex),
         executed |-> account.executed, approvals |-> account.approvals,
         sender |-> inner.accountKeys[1], recipients |-> ShownRecipients(classified, opts),
         feeLamports |-> classified.feeLamports, feePayer |-> feePayer,
         unknownInnerInstructionCount |-> classified.unknownInnerInstructionCount,
         memos |-> classified.memos]

decodeVaultTransactionAccount(account, transactionPda, opts) ==
    IF CanonicalAccount(account, transactionPda)
      THEN DecodedOnChainProposal(account, transactionPda, opts)
      ELSE Undecodable

\* The answer of the device's node: an account of this program, or nothing.
fetchAndDecodeProposal(account, transactionPda, opts) ==
    IF account = Unset THEN Undecodable
    ELSE decodeVaultTransactionAccount(account, transactionPda, opts)

compareProposalToExpected(proposal, expected) ==
    /\ proposal.kind # "undecodable"
    /\ ~proposal.executed
    /\ Agrees(expected.expectedMultisigPda, proposal.multisigPda)
    /\ proposal.sender = proposal.vaultPda
    /\ Agrees(expected.expectedVaultIndex, proposal.vaultIndex)
    /\ Agrees(expected.expectedVaultPda, proposal.vaultPda)
    /\ Agrees(expected.expectedTransactionPda, proposal.transactionPda)
    /\ compareFundFlows(proposal, expected)

\* What is left of the gate when the account has come.
ProposalVerified(decoded, proposal, expected, expectedApprover) ==
    LET onChain == compareProposalToExpected(proposal,
                      IF expected.expectedTransactionPda # Unset THEN expected
                      ELSE [expected EXCEPT !.expectedTransactionPda = decoded.transactionPda])
        bundle == [ExpectedSolanaVaultPayload(<<>>, Unset, Unset, Unset) EXCEPT
                      !.expectedMultisigPda = expected.expectedMultisigPda,
                      !.expectedTransactionPda = decoded.transactionPda,
                      !.approveOnlyVerifiedOnChain = onChain]
    IN  /\ expectedApprover # Unset => expectedApprover \in ToSet(decoded.approvers)
        /\ onChain
        /\ decoded.multisigPda = proposal.multisigPda
        /\ decoded.transactionIndex = proposal.transactionIndex
        /\ compareDecodedToExpected(decoded, bundle)

\* Memos are allowed, as in bundles; in the variant they are not.
ProposalOptionsWithoutMemo(expected) ==
    DecodeProposalOptions(expected.expectedFeePayer, Unset, Unset, FALSE)

ProposalOptions(expected) ==
    DecodeProposalOptions(expected.expectedFeePayer, Unset, Unset, TRUE)

verifyApproveOnlyTransaction(tx, account, expected, expectedApprover, opts) ==
    LET decoded == decodeVaultSolanaTransaction(tx, opts) IN
    /\ decoded.kind = "approve"
    /\ ProposalVerified(decoded,
          fetchAndDecodeProposal(account, decoded.transactionPda, ProposalOptions(expected)),
          expected, expectedApprover)

-----------------------------------------------------------------------------
(***************************************************************************)
(* verifyConsumerSolanaBundle.                                             *)
(***************************************************************************)

ConsumerSolanaBundleParams(multisigPda, members, signer, expected, maxFeeLamports, expectedFeePayer) ==
    [multisigPda |-> multisigPda, members |-> members, signer |-> signer, vaultIndex |-> 0,
     expected |-> expected, maxFeeLamports |-> maxFeeLamports,
     expectedFeePayer |-> expectedFeePayer, maxComputeUnitLimit |-> Unset,
     maxComputeUnitPriceMicroLamports |-> Unset]

ConsumerDecodes(bundle, params) ==
    /\ params.signer \in ToSet(params.members)
    /\ IsInjective(params.members)
    /\ Len(bundle.creates) = 1
    /\ Len(bundle.creates[1].keys) >= 4
    /\ bundle.creates[1].data.message.account_keys # <<>>
    /\ \A n \in DOMAIN bundle.approves : Len(bundle.approves[n].keys) >= 3

FeePayerOk(bundle, params) ==
    /\ bundle.feePayer \notin ToSet(params.members)
    /\ Agrees(params.expectedFeePayer, bundle.feePayer)

\* At most one limit and one price, within their caps; the nonce first.
OuterAllowed(bundle, params) ==
    /\ bundle.foreign = <<>>
    /\ bundle.nonceAdvanceIndexes \subseteq {0}
    /\ \A n \in DOMAIN bundle.computeBudget :
          BudgetAllowed(bundle.computeBudget, n,
              [maxUnitLimit |-> params.maxComputeUnitLimit,
               maxUnitPriceMicroLamports |-> params.maxComputeUnitPriceMicroLamports])

\* Every instruction is for the created proposal of the device's multisig, and
\* the device is among the distinct members that approve.
MultisigIxsAgree(bundle, params) ==
    LET create == bundle.creates[1]
        approvers == [n \in DOMAIN bundle.approves |-> KeyOf(bundle.approves[n], 3)]
        OnTarget(ix) ==
            /\ Len(ix.keys) >= 2
            /\ KeyOf(ix, 1) = params.multisigPda
            /\ KeyOf(ix, 2) = KeyOf(create, 2)
    IN  /\ KeyOf(create, 1) = params.multisigPda
        /\ KeyOf(create, 3) \in ToSet(params.members)
        /\ ToSet(approvers) \subseteq ToSet(params.members)
        /\ IsInjective(approvers)
        /\ params.signer \in ToSet(approvers)
        /\ Len(bundle.executes) <= 1
        /\ Len(bundle.closes) <= 1
        /\ \A ix \in ToSet(bundle.approves \o bundle.executes \o bundle.closes) : OnTarget(ix)

ConsumerClassified(bundle) ==
    classifyInnerMessage(parseCreateTransactionData(bundle.creates[1].data), bundle.feePayer, TRUE)

ConsumerRecipients(bundle, params) ==
    IF params.expected.tokenMint = Unset THEN ConsumerClassified(bundle).recipients
    ELSE resolveAtaOwner(ConsumerClassified(bundle).recipients, params.expected.recipient,
                         params.expected.tokenMint)

InnerAgrees(bundle, params) ==
    LET inner == parseCreateTransactionData(bundle.creates[1].data)
        classified == ConsumerClassified(bundle)
        recipients == ConsumerRecipients(bundle, params)
    IN  /\ inner.vaultIndex = params.vaultIndex
        /\ inner.accountKeys[1] = deriveVaultPda(params.multisigPda, params.vaultIndex)
        /\ compareFundFlows(
              [recipients |-> recipients, feeLamports |-> classified.feeLamports,
               feePayer |-> bundle.feePayer,
               unknownInnerInstructionCount |-> classified.unknownInnerInstructionCount],
              [ExpectedSolanaVaultPayload(
                  <<[address |-> params.expected.recipient, amount |-> params.expected.amount]>>,
                  params.expected.tokenMint, params.expected.tokenDecimals, params.maxFeeLamports)
                 EXCEPT !.expectedFeePayer = params.expectedFeePayer])
        /\ \A n \in DOMAIN recipients : recipients[n].asset = "spl" => recipients[n].ataVerified

\* A token account that is created is the recipient's, at the fee payer's cost.
AtaAgrees(bundle, params) ==
    /\ Len(bundle.ataCreates) <= 1
    /\ \A ata \in ToSet(bundle.ataCreates) :
          /\ ata.dataOk
          /\ ata.funder = bundle.feePayer
          /\ ata.owner = params.expected.recipient
          /\ ata.mint = params.expected.tokenMint
          /\ \E r \in ToSet(ConsumerRecipients(bundle, params)) :
                r.asset = "spl" /\ r.ata = ata.ata /\ r.tokenProgram = ata.tokenProgram
          /\ deriveAssociatedTokenAddress(ata.owner, ata.mint, ata.tokenProgram) = ata.ata

verifyConsumerSolanaBundle(tx, params) ==
    /\ Parses(tx)
    /\ LET bundle == parseBundle(tx) IN
       /\ ConsumerDecodes(bundle, params)
       /\ FeePayerOk(bundle, params)
       /\ OuterAllowed(bundle, params)
       /\ MultisigIxsAgree(bundle, params)
       /\ InnerAgrees(bundle, params)
       /\ AtaAgrees(bundle, params)

=============================================================================
