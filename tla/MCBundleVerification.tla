------------------------- MODULE MCBundleVerification -------------------------
(***************************************************************************)
(* A wallet and a key; one send without and one with a memo; a token send. *)
(***************************************************************************)
EXTENDS BundleVerification

CONSTANTS w, k, r1, r2, pay, coin

DeviceOrder == <<w, k, r1, r2, pay, coin>>
DeviceAddress == ToSet(DeviceOrder)
DeviceKeyLess ==
    { <<DeviceOrder[p[1]], DeviceOrder[p[2]]>> : p \in { q \in (1..6) \X (1..6) : q[1] < q[2] } }

DevicePayloads ==
    {SystemTransfer(1), SystemTransfer(2), SystemTransfer(3), Text(4), TransferChecked(5, 6)}
DeviceDataLen == [d \in DevicePayloads |-> d.len]

Send(recipient, amount, memo) ==
    [multisig |-> deriveMultisigAddress(<<w, k>>, 2), members |-> <<w, k>>,
     currentTransactionIndex |-> 0, approvers |-> <<w, k>>, recipient |-> recipient,
     paymaster |-> pay, amount |-> amount, fee |-> 1, memo |-> memo]

TwoSends == {Send(r1, 2, NoMemo), Send(r2, 3, Text(4))}
MintDecimals == [m \in {coin} |-> 6]
OneTokenSend == {[send |-> Send(r1, 5, Text(4)), mint |-> coin, decimals |-> 6]}

=============================================================================
