---------------------------- MODULE BundleBudget ----------------------------
(***************************************************************************)
(* The example that measures enterprise bundles against the size of a      *)
(* packet: one case after the other, those within the caps first.          *)
(***************************************************************************)
EXTENDS SendBundles

CONSTANTS
    Wallets, Keys,      \* the wallet and the key of each signer
    Recipient, Paymaster

VARIABLE results

TestCase(M, mode, memo) == [M |-> M, mode |-> mode, memo |-> memo]

\* The cases of main(); the last two are over the caps.
Cases ==
    <<TestCase(2, "sol_dual", 0), TestCase(2, "sol_single", 0), TestCase(3, "sol_single", 0),
      TestCase(4, "sol_single", 0), TestCase(2, "sol_dual", 16), TestCase(4, "sol_single", 64),
      TestCase(3, "sol_dual", 0), TestCase(5, "sol_single", 0)>>

\* Wallet first, then key, for each signer.
approverEntries(case) ==
    FlattenSeq([i \in 1..case.M |->
        IF case.mode = "sol_dual" THEN <<Wallets[i], Keys[i]>> ELSE <<Wallets[i]>>])

SendOf(case) ==
    LET members == approverEntries(case) IN
    [multisig |-> deriveMultisigAddress(members, Len(members)), members |-> members,
     currentTransactionIndex |-> 0, approvers |-> members, recipient |-> Recipient,
     paymaster |-> Paymaster, amount |-> 100000000, fee |-> 100000, memo |-> Text(case.memo)]

smokeTest(case) ==
    LET send == SendOf(case)
        message == SolMessage(send)
        tx == enterpriseBundle(send, message, SolRemaining(send))
        complete == [i \in DOMAIN message.account_keys |-> Readonly(message.account_keys[i])]
    IN  [case |-> case,
         accountKeys |-> message.account_keys,
         remaining |-> Pubkeys(SolRemaining(send)),
         bytes |-> WireSize(tx),
         bytesIfComplete |-> WireSize(enterpriseBundle(send, message, complete)),
         ok |-> Serializes(tx)]

Init == results = <<>>

Measure ==
    /\ Len(results) < Len(Cases)
    /\ results' = Append(results, smokeTest(Cases[Len(results) + 1]))

Spec == Init /\ [][Measure]_results

-----------------------------------------------------------------------------
(***************************************************************************)
(* Properties.                                                             *)
(***************************************************************************)

\* The remaining accounts of execute_transaction include all accounts of the
\* proposal's account_keys in order (client.ts:817), as the program requires
\* (lib.rs:505): otherwise a bundle that fits does not execute.
RemainingComplete ==
    \A n \in DOMAIN results : IsPrefix(results[n].accountKeys, results[n].remaining)

=============================================================================
