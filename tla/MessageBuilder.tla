--------------------------- MODULE MessageBuilder ---------------------------
(***************************************************************************)
(* The helpers of the SDK (utils.ts): the addresses a client derives from  *)
(* a member list, and the proposal message it builds from instructions as  *)
(* web3.js has them: a program, accounts with the privileges asked for,    *)
(* and data.                                                               *)
(***************************************************************************)
EXTENDS ProposalMessage

CONSTANT BYTE     \* the number of values of one byte of a Uint8Array

ASSUME ByteAssumption == BYTE \in Nat \ {0}

Meta(pubkey, isSigner, isWritable) ==
    [pubkey |-> pubkey, isSigner |-> isSigner, isWritable |-> isWritable]

Instruction(programId, keys, data) ==
    [programId |-> programId, keys |-> keys, data |-> data]

AccountMeta == [pubkey : Address, isSigner : BOOLEAN, isWritable : BOOLEAN]
TransactionInstruction == [programId : Address, keys : Seq(AccountMeta), data : Data]

Pubkeys(metas) == [i \in DOMAIN metas |-> metas[i].pubkey]

-----------------------------------------------------------------------------
(***************************************************************************)
(* Member lists and addresses.                                             *)
(***************************************************************************)

validateConfig(members, threshold) ==
    /\ threshold \in 1..Len(members)
    /\ IsInjective(members)

\* Each key goes to its place in byte order, equal keys in the order given.
sortMembers(members) ==
    LET Place(i) == Cardinality({ j \in DOMAIN members :
                        \/ <<members[j], members[i]>> \in KeyLess
                        \/ members[j] = members[i] /\ j <= i })
    IN  [n \in DOMAIN members |-> members[CHOOSE i \in DOMAIN members : Place(i) = n]]

hashMembers(members) == <<"sha256", members>>

\* The threshold goes into one byte, as the vault index does.
deriveMultisigAddress(members, threshold) ==
    <<"multisig", hashMembers(sortMembers(members)), threshold % BYTE>>

deriveVaultAddress(multisigPda, vaultIndex) == <<"vault", multisigPda, vaultIndex % BYTE>>

deriveNonceAccount(multisigPda) == <<"nonce", multisigPda>>

-----------------------------------------------------------------------------
(***************************************************************************)
(* buildMessageFromInstructions.                                           *)
(***************************************************************************)

\* Every account in the order it is observed: the vault, then of each
\* instruction the program and the accounts.
Observed(vaultPda, instructions) ==
    <<Meta(vaultPda, TRUE, TRUE)>> \o
    FlattenSeq([n \in DOMAIN instructions |->
        <<Meta(instructions[n].programId, FALSE, FALSE)>> \o instructions[n].keys])

\* One entry per account, in the order of first mention, with the strongest
\* privileges of all its mentions.  The variant keeps those of the first.
FirstPrivileges(observed) ==
    Pick(observed, { i \in DOMAIN observed :
                        \A j \in 1..(i - 1) : observed[j].pubkey # observed[i].pubkey })

Entries(observed) ==
    LET first == FirstPrivileges(observed)
        mentions(key) == { i \in DOMAIN observed : observed[i].pubkey = key }
    IN  [n \in DOMAIN first |->
            Meta(first[n].pubkey,
                 \E i \in mentions(first[n].pubkey) : observed[i].isSigner,
                 \E i \in mentions(first[n].pubkey) : observed[i].isWritable)]

\* The vault is moved to the front of the writable signers.
VaultFirst(entries, vaultPda) ==
    Filter(entries, LAMBDA e : e.pubkey = vaultPda)
      \o Filter(entries, LAMBDA e : e.pubkey # vaultPda)

accountIndex(accountKeys, pubkey) == SelectInSeq(accountKeys, LAMBDA k : k = pubkey) - 1

\* Account indexes go into a Uint8Array, which keeps their lowest byte.
CompileInstruction(accountKeys, ix) ==
    [program_id_index |-> accountIndex(accountKeys, ix.programId),
     account_indexes  |-> [k \in DOMAIN ix.keys |->
                              accountIndex(accountKeys, ix.keys[k].pubkey) % BYTE],
     data             |-> ix.data]

buildMessageFromInstructions(vaultPda, instructions) ==
    LET all == Entries(Observed(vaultPda, instructions))
        writableSigners ==
            VaultFirst(Filter(all, LAMBDA e : e.isSigner /\ e.isWritable), vaultPda)
        readonlySigners == Filter(all, LAMBDA e : e.isSigner /\ ~e.isWritable)
        writableNonSigners == Filter(all, LAMBDA e : ~e.isSigner /\ e.isWritable)
        readonlyNonSigners == Filter(all, LAMBDA e : ~e.isSigner /\ ~e.isWritable)
        accountKeys == Pubkeys(writableSigners \o readonlySigners
                                 \o writableNonSigners \o readonlyNonSigners)
    IN  [num_signers              |-> Len(writableSigners) + Len(readonlySigners),
         num_writable_signers     |-> Len(writableSigners),
         num_writable_non_signers |-> Len(writableNonSigners),
         account_keys             |-> accountKeys,
         instructions             |-> [n \in DOMAIN instructions |->
                                          CompileInstruction(accountKeys, instructions[n])],
         address_table_lookups    |-> <<>>]

\* What the program does with an instruction of a stored message, in the words
\* of the caller who asked for it.
Resolved(message, ix) ==
    Instruction(message.account_keys[ix.program_id_index + 1],
                [k \in DOMAIN ix.account_indexes |->
                    LET meta == account_metas(message, ix)[k]
                    IN  Meta(meta.pubkey, meta.is_signer, meta.is_writable)],
                ix.data)

=============================================================================
