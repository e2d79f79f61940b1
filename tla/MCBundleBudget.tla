--------------------------- MODULE MCBundleBudget ---------------------------
(***************************************************************************)
(* The example with five signers.                                          *)
(***************************************************************************)
EXTENDS BundleBudget

CONSTANTS w1, w2, w3, w4, w5, k1, k2, k3, k4, k5

FiveWallets == <<w1, w2, w3, w4, w5>>
FiveKeys == <<k1, k2, k3, k4, k5>>
ExampleAddress == ToSet(FiveWallets \o FiveKeys)
ExampleOrder ==
    LET all == FiveWallets \o FiveKeys IN
    { <<all[p[1]], all[p[2]]>> : p \in { q \in (1..10) \X (1..10) : q[1] < q[2] } }
ExamplePayloads == {SystemTransfer(100000000), SystemTransfer(100000), Text(0), Text(16), Text(64)}
ExampleDataLen == [d \in ExamplePayloads |-> d.len]

=============================================================================
