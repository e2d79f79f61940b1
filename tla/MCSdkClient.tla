----------------------------- MODULE MCSdkClient -----------------------------
(***************************************************************************)
(* Two callers of a 1-of-2 multisig.  Accounts of a message are bounded by *)
(* 5 and a byte has 6 values: the requests are one whose accounts have     *)
(* other privileges at each mention, one whose indexes wrap and one that   *)
(* fits no packet.                                                         *)
(***************************************************************************)
EXTENDS SdkClient

CONSTANTS m1, m2, a, b, x1, x2, x3

MemberOrder == <<m1, m2, a, b, x1, x2, x3, Payer, SYSTEM_PROGRAM, MEMO_PROGRAM_ID,
                 PROGRAM_ID>>
SortedMultisig == <<"multisig", hash_members(<<m1, m2>>), 1>>
AddressOrder == MemberOrder \o <<SortedMultisig, derive_vault_pda(SortedMultisig, 0)>>
ClientOrder ==
    UNION { { <<AddressOrder[i], AddressOrder[j]>> : i \in 1..(j - 1) } : j \in DOMAIN AddressOrder }
ClientAddress == ToSet(AddressOrder)

BothMembers == <<m2, m1>>
MemberListsGiven == {<<m1, m2>>, <<m1, m1>>}
TableListsGiven == {<<m1, m2>>, <<>>}

ClientPayloads == {SystemTransfer(1), Text(4), Text(1300)}
ClientDataLen == [d \in ClientPayloads |-> d.len]

Pay == Instruction(SYSTEM_PROGRAM, <<WritableSigner(Vault), Writable(a)>>, SystemTransfer(1))
Note(metas, length) == Instruction(MEMO_PROGRAM_ID, metas, Text(length))

RequestsMade ==
    {<<Note(<<Readonly(a), Readonly(Vault)>>, 4), Pay>>,
     <<Note(<<Readonly(a), Readonly(b), Readonly(x1), Readonly(x2), Readonly(x3)>>, 4)>>,
     <<Note(<<>>, 1300)>>}

ForeignMessage ==
    buildMessageFromInstructions(Vault,
        <<Instruction(SYSTEM_PROGRAM, <<WritableSigner(Vault), Writable(b)>>, SystemTransfer(1))>>)

=============================================================================
