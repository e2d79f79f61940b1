-------------------------- MODULE MCSolanaMultisig --------------------------
(***************************************************************************)
(* Instances of SolanaMultisig for TLC.                                    *)
(*                                                                         *)
(* Custody: one 2-of-3 multisig of ordinary keys, well-formed and malformed*)
(* proposals, a paymaster that funds everything.                           *)
(*                                                                         *)
(* Nested: multisig B (one key) whose vault is a member of multisig A, so  *)
(* that proposals call back into the program.                              *)
(***************************************************************************)
EXTENDS ContractRefinement

CONSTANTS k1, k2, k3, pay, memo,
          Owners      \* the members of multisig M, in byte order

-----------------------------------------------------------------------------
(***************************************************************************)
(* Building messages.                                                      *)
(***************************************************************************)

Slot(keys, a) == (CHOOSE i \in DOMAIN keys : keys[i] = a) - 1

Compile(keys, call) ==
    [program_id_index |-> Slot(keys, call[1]),
     account_indexes  |-> [i \in DOMAIN call[2] |-> Slot(keys, call[2][i])],
     data             |-> call[3]]

\* A message as clients build it: the vault first, then the other writable
\* accounts, then the read-only ones.
Message(vault, writable, readonly, calls) ==
    LET keys == <<vault>> \o writable \o readonly IN
    [num_signers |-> 1, num_writable_signers |-> 1,
     num_writable_non_signers |-> Len(writable),
     account_keys |-> keys,
     instructions |-> [i \in DOMAIN calls |-> Compile(keys, calls[i])],
     address_table_lookups |-> <<>>]

\* The byte order of addresses: their order in a list.
OrderOf(list) ==
    UNION { { <<list[i], list[j]>> : i \in 1..(j - 1) } : j \in 1..Len(list) }

-----------------------------------------------------------------------------
(***************************************************************************)
(* Custody.                                                                *)
(***************************************************************************)

TwoOwners == <<k1, k2>>
ThreeOwners == <<k1, k2, k3>>
M == multisig_pda(hash_members(Owners), 2)
vM == derive_vault_pda(M, 0)
vM1 == derive_vault_pda(M, 1)
txM(i) == transaction_pda(M, i)

CustodyOrder == <<k1, k2, k3, pay, memo, SYSTEM_PROGRAM, PROGRAM_ID, M, vM, vM1,
                  txM(1), txM(2)>>
CustodyAddress == ToSet(CustodyOrder)
CustodyKeyLess == OrderOf(CustodyOrder)

CustodyDataLen == [transfer1 |-> 12, note |-> 5, long |-> 20]
CustodyDecode == [transfer1 |-> [op |-> "transfer", lamports |-> 1],
                  note |-> [op |-> "opaque"], long |-> [op |-> "opaque"]]

PayOut == Message(vM, <<k3>>, <<SYSTEM_PROGRAM>>,
                  <<<<SYSTEM_PROGRAM, <<vM, k3>>, "transfer1">>>>)
PayAndNote == Message(vM, <<k2>>, <<SYSTEM_PROGRAM, memo>>,
                      <<<<SYSTEM_PROGRAM, <<vM, k2>>, "transfer1">>,
                        <<memo, <<vM, k2>>, "note">>>>)

\* Messages create_transaction must refuse; the first would spend the
\* paymaster's lamports with the signature of the outer transaction.
Borrow == [Message(vM, <<pay, k3>>, <<SYSTEM_PROGRAM>>,
                   <<<<SYSTEM_PROGRAM, <<pay, k3>>, "transfer1">>>>)
             EXCEPT !.num_signers = 2, !.num_writable_signers = 2,
                    !.num_writable_non_signers = 1]
ReadOnlyVault == [PayOut EXCEPT !.num_writable_signers = 0]
OtherVault == [PayOut EXCEPT !.account_keys[1] = vM1]
NoSuchProgram == [PayOut EXCEPT !.instructions[1].program_id_index = 3]
NoSuchAccount == [PayOut EXCEPT !.instructions[1].account_indexes[2] = 3]
VaultAsProgram == [PayOut EXCEPT !.instructions[1].program_id_index = 0]
VaultTwice == [PayOut EXCEPT !.account_keys[2] = vM]
WithLookup == [PayOut EXCEPT !.address_table_lookups =
                  <<[account_key |-> memo, writable_indexes |-> <<0>>,
                     readonly_indexes |-> <<>>]>>]
TooLong == [PayOut EXCEPT !.instructions[1].data = "long"]

CustodyMessages == {PayOut, PayAndNote, Borrow, ReadOnlyVault, OtherVault, NoSuchProgram,
                    NoSuchAccount, VaultAsProgram, VaultTwice, WithLookup, TooLong}
CustodyMemberLists == {Owners}
SequenceSignerSets == {{k1, k2, pay}, {k2}}
BundleSignerSets == {{k1, k2, pay}, {k3}}
CustodyPrefundable == {txM(2)}
CustodyLamports == [a \in CustodyAddress |->
                       CASE a = pay -> 4000 [] a = vM -> 2 [] a = k3 -> 2 [] OTHER -> 0]

-----------------------------------------------------------------------------
(***************************************************************************)
(* Nested.  B is a 1-of-1 multisig of k1; A has k2 and B's vault as        *)
(* members.  B's proposals act on A, A's proposals execute B's and, to no  *)
(* avail, themselves.                                                      *)
(***************************************************************************)

B == multisig_pda(hash_members(<<k1>>), 1)
vB == derive_vault_pda(B, 0)
A == multisig_pda(hash_members(<<k2, vB>>), 1)
vA == derive_vault_pda(A, 0)
C == multisig_pda(hash_members(<<k1, k2>>), 2)
txA(i) == transaction_pda(A, i)
txB(i) == transaction_pda(B, i)

NestedOrder == <<k1, k2, pay, RECENT_BLOCKHASHES, RENT, SYSTEM_PROGRAM, PROGRAM_ID, A, B, C,
                 vA, vB, txA(1), txA(2), txB(1), txB(2), nonce_address(A)>>
ReentryAddress == ToSet(NestedOrder) \ {C, txB(2), nonce_address(A)}
ServiceAddress == ToSet(NestedOrder) \ {C, txA(2), nonce_address(A)}
SetupAddress == ToSet(NestedOrder) \ {txA(1), txA(2), txB(2)}
NestedKeyLess == OrderOf(NestedOrder)

ReadOnly(m) == SubSeq(m.account_keys, 2 + m.num_writable_non_signers, Len(m.account_keys))
Writable(m) == SubSeq(m.account_keys, 1, 1 + m.num_writable_non_signers)

\* A proposal that executes a proposal: vault runs txn of multisig ms, which
\* holds message m; the data names its index.
Executes(vault, ms, txn, m, data) ==
    Message(vault, <<txn>> \o Writable(m),
            <<ms>> \o SelectSeq(ReadOnly(m), LAMBDA a : a \notin {ms, PROGRAM_ID})
                   \o <<PROGRAM_ID>>,
            << <<PROGRAM_ID, <<ms, txn, vault>> \o m.account_keys, data>> >>)

PayA == Message(vA, <<k2>>, <<SYSTEM_PROGRAM>>,
                << <<SYSTEM_PROGRAM, <<vA, k2>>, "transfer1">> >>)

\* B acting on A as a member, or as the payer of A's rent.
BApprovesA1 == Message(vB, <<txA(1)>>, <<A, PROGRAM_ID>>,
                       << <<PROGRAM_ID, <<A, txA(1), vB>>, "approve1">> >>)
BCreatesA2 == Message(vB, <<A, txA(2)>>, <<PROGRAM_ID, SYSTEM_PROGRAM>>,
                      << <<PROGRAM_ID, <<A, txA(2), vB, vB, SYSTEM_PROGRAM>>, "create2">> >>)
BClosesA1 == Message(vB, <<txA(1)>>, <<A, PROGRAM_ID>>,
                     << <<PROGRAM_ID, <<A, txA(1), vB>>, "close1">> >>)
BExecutesA1 == Executes(vB, A, txA(1), PayA, "execute1")
BInitializesC == Message(vB, <<C>>, <<SYSTEM_PROGRAM, PROGRAM_ID, k1, k2>>,
                         << <<PROGRAM_ID, <<C, vB, SYSTEM_PROGRAM, k2, k1>>, "initialize">> >>)
BProvisionsA == Message(vB, <<nonce_address(A)>>,
                        <<A, RECENT_BLOCKHASHES, RENT, SYSTEM_PROGRAM, PROGRAM_ID>>,
                        << <<PROGRAM_ID, <<A, nonce_address(A), vB, RECENT_BLOCKHASHES, RENT,
                                           SYSTEM_PROGRAM>>, "provision">> >>)

\* A executing one of B's proposals, which in turn acts on A.
AViaBApproves == Executes(vA, B, txB(1), BApprovesA1, "execute1")
AViaBCreates == Executes(vA, B, txB(1), BCreatesA2, "execute1")

\* A proposal of A, paid for by B, that has B close it while it executes.
AViaBCloses == Executes(vA, B, txB(2), BClosesA1, "execute2")
BCreatesA1 == Message(vB, <<A, txA(1)>>, <<PROGRAM_ID, SYSTEM_PROGRAM>>,
                      << <<PROGRAM_ID, <<A, txA(1), vB, vB, SYSTEM_PROGRAM>>, "create1">> >>)

\* A executing its first proposal, which may be this one.
AExecutesA1 ==
    Message(vA, <<txA(1)>>, <<A, PROGRAM_ID>>,
            << <<PROGRAM_ID, <<A, txA(1), vA, vA, txA(1), A, PROGRAM_ID>>, "execute1">> >>)

ReentryMessages == {BApprovesA1, BCreatesA2, AViaBApproves, AViaBCreates, AExecutesA1}
ServiceMessages == {PayA, BExecutesA1, BCreatesA1, BClosesA1, AViaBCloses}
SetupMessages == {BInitializesC, BProvisionsA}
ReentryData == {"approve1", "execute1", "create2"}
ServiceData == {"transfer1", "close1", "execute1", "execute2", "create1"}
SetupData == {"provision", "initialize"}

NestedDecode ==
    [transfer1  |-> [op |-> "transfer", lamports |-> 1],
     approve1   |-> [op |-> "approve_transaction", transaction_index |-> 1],
     execute1   |-> [op |-> "execute_transaction", transaction_index |-> 1],
     execute2   |-> [op |-> "execute_transaction", transaction_index |-> 2],
     close1     |-> [op |-> "close_transaction", transaction_index |-> 1],
     create1    |-> [op |-> "create_transaction", vault_index |-> 0, message |-> AViaBCloses],
     create2    |-> [op |-> "create_transaction", vault_index |-> 0, message |-> AExecutesA1],
     provision  |-> [op |-> "provision_nonce"],
     initialize |-> [op |-> "initialize_multisig", threshold |-> 2, member_count |-> 2,
                     member_hash |-> hash_members(<<k1, k2>>)]]
ReentryDecode == Restrict(NestedDecode, ReentryData)
ServiceDecode == Restrict(NestedDecode, ServiceData)
SetupDecode == Restrict(NestedDecode, SetupData)
ReentryDataLen == [d \in ReentryData |-> 9]
ServiceDataLen == [d \in ServiceData |-> 9]
SetupDataLen == [d \in SetupData |-> 9]

NestedMemberLists == {<<k1>>, <<k2, vB>>}
SetupMemberLists == {<<k1>>, <<k2, vB>>, <<vB, k2>>, <<k2, k2>>}
SetupPrefundable == {A, nonce_address(A)}
NestedSignerSets == {{k1, k2, pay}}
NestedLamports(addresses) ==
    [a \in addresses |-> CASE a = pay -> 9000 [] a = vA -> 5 [] a = vB -> 2000 [] OTHER -> 0]
ReentryLamports == NestedLamports(ReentryAddress)
ServiceLamports == NestedLamports(ServiceAddress)
SetupLamports == NestedLamports(SetupAddress)

=============================================================================
