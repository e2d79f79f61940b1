-------------------------- MODULE ProposalMessage --------------------------
(***************************************************************************)
(* The data of the solana-multisig program: addresses, the proposal        *)
(* message, its validation in create_transaction, the account metas that   *)
(* execute_transaction computes from it, and the account sizes.            *)
(*                                                                         *)
(* A derived address is the tuple of its seeds.  Two different seed tuples *)
(* are therefore two different addresses, which is the collision           *)
(* resistance of sha256 and of find_program_address that the program       *)
(* relies on; the bump is a function of the seeds and is left out.         *)
(* Source indexes start at 0: slot i of account_keys is account_keys[i+1]. *)
(***************************************************************************)
EXTENDS Integers, Sequences, FiniteSets, SequencesExt

CONSTANTS
    Address,                    \* the pubkeys of the instance, derived ones included
    KeyLess,                    \* the byte order of pubkeys, as a set of pairs
    PROGRAM_ID,                 \* this program
    SYSTEM_PROGRAM,             \* the System program
    DataLen,                    \* length in bytes of each instruction payload
    MAX_MEMBERS,
    MAX_TX_ACCOUNT_KEYS,
    MAX_TX_INSTRUCTIONS,
    MAX_INSTRUCTION_ACCOUNTS,
    MAX_INSTRUCTION_DATA_LEN,
    MAX_COMBINED_ACCOUNTS,
    MAX_PROPOSAL_ACCOUNT_BYTES  \* what one CPI to the System program can allocate

ASSUME KeyOrderAssumption ==
    /\ \A a \in Address : <<a, a>> \notin KeyLess
    /\ \A a, b \in Address : a # b => <<a, b>> \in KeyLess \/ <<b, a>> \in KeyLess
    /\ \A a, b, c \in Address :
          <<a, b>> \in KeyLess /\ <<b, c>> \in KeyLess => <<a, c>> \in KeyLess

\* Instruction payloads are opaque names; only their length matters here.
Data == DOMAIN DataLen

\* The elements at the places I of a list, in order, and those that pass a test.
Pick(s, I) ==
    LET picked[n \in 0..Len(s)] ==
            IF n = 0 THEN <<>>
            ELSE IF n \in I THEN Append(picked[n - 1], s[n]) ELSE picked[n - 1]
    IN  picked[Len(s)]

Filter(s, Test(_)) == Pick(s, { i \in DOMAIN s : Test(s[i]) })

-----------------------------------------------------------------------------
(***************************************************************************)
(* Addresses.                                                              *)
(***************************************************************************)

\* sha256 over the concatenated keys: ideal, hence injective on sequences.
hash_members(members) == <<"sha256", members>>

\* The seeds of the three program derived addresses and of the nonce account,
\* which is create_with_seed(multisig, "nonce").
multisig_pda(member_hash, threshold) == <<"multisig", member_hash, threshold>>
derive_vault_pda(multisig_key, vault_index) == <<"vault", multisig_key, vault_index>>
transaction_pda(multisig_key, index) == <<"transaction", multisig_key, index>>
nonce_address(multisig_key) == <<"nonce", multisig_key>>

\* The rearrangements of a list of keys that are in byte order: what sort()
\* may return.  They are all equal, since the order is total.
Sorted(members) ==
    { s \in { [i \in 1..Len(members) |-> members[p[i]]] :
                 p \in { q \in [1..Len(members) -> 1..Len(members)] : IsInjective(q) } } :
        \A i, j \in 1..Len(members) : i < j => <<s[j], s[i]>> \notin KeyLess }

sort_members(members) == CHOOSE s \in Sorted(members) : TRUE

\* The duplicate check on a sorted list compares neighbours only.
AdjacentDistinct(s) == \A i \in 1..(Len(s) - 1) : s[i] # s[i + 1]

\* The address any client computes for a member list in any order.
derive_multisig_pda(members, threshold) ==
    multisig_pda(hash_members(sort_members(members)), threshold)

-----------------------------------------------------------------------------
(***************************************************************************)
(* The proposal message and the rules create_transaction holds it to.      *)
(***************************************************************************)

CompiledInstruction ==
    [program_id_index : Nat, account_indexes : Seq(Nat), data : Data]

MessageAddressTableLookup ==
    [account_key : Address, writable_indexes : Seq(Nat), readonly_indexes : Seq(Nat)]

TransactionMessage ==
    [num_signers              : Nat,
     num_writable_signers     : Nat,
     num_writable_non_signers : Nat,
     account_keys             : Seq(Address),
     instructions             : Seq(CompiledInstruction),
     address_table_lookups    : Seq(MessageAddressTableLookup)]

SizesOk(message) ==
    /\ Len(message.account_keys) \in 1..MAX_TX_ACCOUNT_KEYS
    /\ Len(message.instructions) \in 1..MAX_TX_INSTRUCTIONS

\* The variant lets accounts other than the vault be signers.
HeaderWithOtherSigners(message, vault) ==
    /\ message.num_signers <= Len(message.account_keys)
    /\ message.num_writable_signers \in 1..message.num_signers
    /\ message.num_writable_non_signers
          <= Len(message.account_keys) - message.num_signers
    /\ message.account_keys[1] = vault

\* The vault must be the sole signer, first in the list and writable.
HeaderOk(message, vault) ==
    /\ message.num_signers <= Len(message.account_keys)
    /\ message.num_writable_signers <= message.num_signers
    /\ message.num_writable_non_signers
          <= Len(message.account_keys) - message.num_signers
    /\ message.num_signers = 1
    /\ message.account_keys[1] = vault
    /\ message.num_writable_signers >= 1

\* The code sorts a copy and compares neighbours; Sorted lists without equal
\* neighbours are exactly the lists without duplicates (SortedDistinct).
NoDuplicateKeys(message) == IsInjective(message.account_keys)

InstructionSizesOk(message) ==
    \A n \in DOMAIN message.instructions :
        /\ Len(message.instructions[n].account_indexes) <= MAX_INSTRUCTION_ACCOUNTS
        /\ DataLen[message.instructions[n].data] <= MAX_INSTRUCTION_DATA_LEN

\* The variant admits an index one past the end.
IndexesOffByOne(message) ==
    /\ message.address_table_lookups = <<>>
    /\ \A n \in DOMAIN message.instructions :
          LET ix == message.instructions[n] IN
          /\ ix.program_id_index \in 1..(Len(message.account_keys) - 1)
          /\ \A k \in DOMAIN ix.account_indexes :
                ix.account_indexes[k] <= Len(message.account_keys)

\* Every index an instruction carries points into account_keys, and no
\* instruction names the vault (slot 0) as its program.
IndexesOk(message) ==
    LET combined_count == Len(message.account_keys) IN
    /\ message.address_table_lookups = <<>>
    /\ combined_count <= MAX_COMBINED_ACCOUNTS
    /\ \A n \in DOMAIN message.instructions :
          LET ix == message.instructions[n] IN
          /\ ix.program_id_index >= 1
          /\ ix.program_id_index < combined_count
          /\ \A k \in DOMAIN ix.account_indexes : ix.account_indexes[k] < combined_count

ValidMessage(message, vault) ==
    /\ SizesOk(message)
    /\ HeaderOk(message, vault)
    /\ NoDuplicateKeys(message)
    /\ InstructionSizesOk(message)
    /\ IndexesOk(message)

-----------------------------------------------------------------------------
(***************************************************************************)
(* The metas of a CPI, computed from the stored header.                    *)
(***************************************************************************)

is_signer(message, i) == i < message.num_signers

is_writable(message, i) ==
    \/ i < message.num_writable_signers
    \/ /\ i >= message.num_signers
       /\ i < message.num_signers + message.num_writable_non_signers

account_metas(message, ix) ==
    [k \in 1..Len(ix.account_indexes) |->
        LET i == ix.account_indexes[k] IN
        [pubkey      |-> message.account_keys[i + 1],
         is_signer   |-> is_signer(message, i),
         is_writable |-> is_writable(message, i)]]

\* The runtime merges the privileges of an account that is listed twice.
SignerKeys(metas) ==
    { metas[k].pubkey : k \in { j \in DOMAIN metas : metas[j].is_signer } }

WritableKeys(metas) ==
    { metas[k].pubkey : k \in { j \in DOMAIN metas : metas[j].is_writable } }

-----------------------------------------------------------------------------
(***************************************************************************)
(* Account sizes in bytes.                                                 *)
(***************************************************************************)

compute_multisig_space(member_count) == 8 + 4 + member_count * 32 + 1 + 8 + 1

SumOver(size(_), s) ==
    LET total[n \in 0..Len(s)] == IF n = 0 THEN 0 ELSE total[n - 1] + size(s[n])
    IN  total[Len(s)]

InstructionBytes(ix) == 1 + 4 + Len(ix.account_indexes) + 4 + DataLen[ix.data]

LookupBytes(l) == 32 + 4 + Len(l.writable_indexes) + 4 + Len(l.readonly_indexes)

compute_proposal_space(message, member_count) ==
    8 + 32 + 8 + 32 + 32 + 1 + 1 + 1 + 1
      + 4 + member_count * 32
      + 1 + 1 + 1
      + 4 + Len(message.account_keys) * 32
      + 4 + SumOver(InstructionBytes, message.instructions)
      + 4 + SumOver(LookupBytes, message.address_table_lookups)

=============================================================================
