# TLA+ model of SSP Solana Multisig

This directory holds a formal model of the M-of-N multisig program in
`src/programs/solana-multisig` and of the clients in `src/sdk`: TLA+ modules,
TLC configurations that check them on small instances, and proofs checked by
TLAPS that the core properties hold for every value of the constants.

## 1. The system

| Component | State | Operations | Interacts with |
|---|---|---|---|
| Addresses, sizes (`lib.rs` helpers) | none | `derive_multisig_pda`, `derive_vault_pda`, `sort_members`, `hash_members`, `compute_*_space` | every instruction |
| Proposal message | `TransactionMessage` in a proposal account | validation in `create_transaction`, account metas in `execute_transaction` | runtime (CPI) |
| On-chain program | `Multisig` and `VaultTransaction` accounts, nonce accounts, lamports | `initialize_multisig`, `create_transaction`, `approve_transaction`, `execute_transaction`, `close_transaction`, `provision_nonce` | runtime, other programs, itself by CPI |
| Solana runtime (external) | account data, lamports, signatures of a transaction | atomic bundles, privileges of a CPI, direct recursion, rent | the program |
| SDK client (`client.ts`) | an RPC connection; the index or nonce it last read | instruction builders, one-shot methods, index prediction, setup | the program, over RPC |
| Durable nonce flow | the nonce value pre-signed bundles carry | `getNonceAuthority`, `checkNonceRace`, `provisionNonce`, `setupMultisigAndNonce` | System program |
| Message builder (`utils.ts`) | none | `buildMessageFromInstructions`, `validateConfig` | program's validation |
| Decoder and verifiers (`decoder.ts`) | none | `decodeVaultSolanaTransaction`, `compareDecodedToExpected`, `verifyApproveOnlyTransaction`, `verifyConsumerSolanaBundle` | decides what a device signs |

What makes them correct, and what is hard about them:

* **On-chain program.** A vault moves only by a message that *threshold*
  different members approved, at most once, in full or not at all; nothing a
  member relied on is taken back; rent returns to whoever paid it. Hard: the
  CPIs of `execute_transaction` may call the program again, including the
  proposal that is running, a member of a multisig may be the vault of another
  one, Anchor writes cached structs back on return, and a proposal may be
  closed at any time.
* **Proposal message.** What is stored can be run, and gives no signature away
  but the vault's.
* **Addresses.** The account at an address belongs to the members the address
  was derived from; anybody may initialise it, in any order of members.
* **SDK client, nonce flow.** What a client read may be stale when its bundle
  lands: an index, a nonce value. A bundle built on it must fail as a whole and
  be rebuilt. Initializing and provisioning are open to everybody, so the nonce
  may be somebody else's.
* **Decoder.** What the device shows is what executes.

`PROJECT.json` lists under `hazards` each of these at its line.

## 2. Modules

```
ProposalMessage          data: addresses, message, metas, sizes
   SolanaMultisig        the state machine: program and runtime
      SolanaMultisigProofs      types, Spec => []TypeOK
      InductiveInvariant        the inductive invariant Inv
         SolanaMultisigSafety   Spec => []Inv and what follows from it
         ContractRefinement     the program seen as its contract
            MCSolanaMultisig    instances for TLC
            ContractProofs      Spec => ImplementsContract (with SolanaMultisigSafety)
      SequenceLemmas            induction over lists: sorts, filters, sums
         AddressProofs          addresses and account sizes
MultisigContract         the abstract promise

   MessageBuilder        utils.ts: member lists, addresses, messages
      BundleBuilder      client.ts: instruction builders; sizes on the wire
         SendBundles     the messages and transactions of scripts and examples
            BundleBudget          the example that measures them (MCBundleBudget)
            BundleDecoder         decoder.ts: what is read from bytes and accounts
               BundleGates        decoder.ts: comparisons, the three gates
                  BundleVerification   devices, relay and program together
                     MCBundleVerification
                     BundleVerificationProofs   what the devices' gates are worth
         SdkClient       client.ts: calls from await to await (MCSdkClient)
            SdkClientProofs       the helpers of utils.ts and the client
DurableNonce             setup, nonce and pre-signed sends
   DurableNonceProofs
PaymentFate              what a pre-signed send is promised
```

`MessageBuilder` and all that is built on it extend `ProposalMessage`: the
clients' messages are held against the same `ValidMessage` and `account_metas`
that the program's proofs use.

### ProposalMessage

Pure definitions. An address derived from seeds is the tuple of its seeds, so
two seed tuples never collide: that is the collision resistance of sha256 and
of `find_program_address`. The bump is a function of the seeds and is left out.
Payloads are names with a length; `Decode` (in `SolanaMultisig`) says what the
program or System reads in one. `ValidMessage` is the conjunction of the checks
`create_transaction` makes of a message, grouped as the code groups them.

### SolanaMultisig

| Variable | In the program |
|---|---|
| `multisig`, `transaction` | the accounts `Multisig` and `VaultTransaction` that exist, by address; a closed proposal is no longer in the domain |
| `nonce` | the authority of each provisioned nonce account |
| `lamports` | balances |
| `consent`, `log` | history: approvals by message, CPIs run |
| `committed` | the ledger as others see it, as of the last committed outer transaction |
| `signers` | the keys that signed the outer transaction that is open; empty if none is |
| `stack` | the frames of `execute_transaction`, with the structs Anchor cached in each |
| `ixs` | instructions used of the open outer transaction |

Each handler is an operator with the checks of its body and of its Anchor
context as conjuncts. It is used twice: by a top-level action
(`CreateTransaction`) whose signers and writable accounts are those of the
outer transaction, and by a CPI action (`CpiCreate`) whose signers and writable
accounts are those the stored message passes, vault included. A handler that
is not enabled has failed; then `Abort` is what remains, since a failing
instruction, at any depth, fails the whole outer transaction. `Abort` is enabled
in every open transaction: a client can run out of compute budget anywhere.

`execute_transaction` is a call with a loop. The action of that name does all
that precedes the loop and pushes a frame; `InvokeSigned` with the callee runs
instruction `pc` of the innermost frame; `ExitExecute` is the return, which
writes the cached proposal back unless the account was closed, and never writes
the multisig. A callee that is `execute_transaction` pushes another frame.

Abstractions. Only one outer transaction is open at a time: two that write the
same account are serialised by the runtime, and all of ours write a proposal or
a multisig. Programs other than this one and System are one action (`CpiOther`):
the runtime lets them write neither our accounts nor call us back, but a
signature they are given, the vault's included, they may pass on to System, so
the action moves any of `ForeignAmounts` from a signer to a writable account, or
nothing. Accounts such a program owns are not part of the model. Of the
instructions of System a message may contain, the transfer is modelled
(`CpiTransfer`); a message with another one (assign, create account, nonce) fails
here, where on the chain it may succeed on accounts the model does not have.
`provision_nonce` compares the two sysvar addresses it is passed; a top-level one
passes the right ones, a stored message may not. Rent is one lamport a byte plus
a constant. Every
account a top-level instruction of the bundle lists is writable in it (the
program does not and cannot check otherwise), which is the permissive choice.
`derive_address` and `derive_vault_address` return `derive_multisig_pda` and
`derive_vault_pda` and change nothing, so they are not actions.

### MultisigContract and ContractRefinement

`MultisigContract` is what the program promises those who keep funds in its
vaults, in five variables and without accounts, indexes, frames or caches:
councils, the addresses ever used, proposals, votes and payments. Its only step
is a whole bundle, which may convene councils, open, vote on, pay and remove any
number of proposals, the same one included, on these terms: councils are for
ever; an address gets one proposal, ever; a vote or a payment concerns the
message that could be read, unpaid, before the bundle, or one the bundle itself
opens at a new address; a payment has the support of the council, runs the whole
message, and is the only one of its proposal.

`ContractRefinement` maps the program to it. The mapping reads `committed` only,
so that every step but `Commit` is a stutter and everything a bundle does,
CPIs of CPIs included, is one step. The runs of a proposal are one payment; it
is complete if they are all the instructions of the message.

`BundleSoFar` is the invariant that ties the working copy of an open bundle to
the ledger the bundle started on: what it has approved, run and pushed on the
stack was open for decision there, or is at an address unused there.

### DurableNonce and PaymentFate

The paymaster sets a multisig up, a wallet anchors a send on the nonce or on a
live blockhash, builds and signs, the key signs later, the paymaster last. The
state is the multisig's index, what is at the nonce address (nothing, lamports
that somebody sent there, or a nonce with its authority and value), the setup
call that is open and the value the last one returned, the setup transactions
under way, and each send with its stage, anchor, age and index.

The setup calls are three: `setupMultisigAndNonce`, which is one transaction of
both instructions, and `initialize` and `provisionNonce`, which the nonce script
(99-125) makes one after the other of what it does not find. Each runs once: the
node simulates and the call throws when the transaction would fail
(`SetupCall`), its wait ends with a status or not at all (`SetupTimesOut`), and
its transaction may land after that or expire. Nothing sends again what was lost;
another call may be made, by a script that runs again. `SetupReturns` is what
`setupMultisigAndNonce` does after any status, a failure included: it fetches the
nonce and returns its value. Nothing compares its authority.

A wallet takes the value the account has (`Anchor`, `BuildAndSign`, as
`devnet-durable-nonce-test.ts:149` does, which throws where there is no nonce and
looks at nothing else) or the value that was returned (`BuildOnReturned`, as
`devnet-setup-endpoint-flow-test.ts` does). `checkNonceRace` and
`getNonceAuthority`, by which a caller could compare the authority, are called by
a test only, and not modelled: a send on a stranger's nonce is built and signed
here, and does not pass the simulation. `Broadcast` includes the simulation by
the node. `Land` spends the nonce whether the instructions succeed or not; they
may fail for a reason of their own (`Revert`). Strangers initialize, provision,
fund or withdraw first, or make the paymaster the authority of a nonce of theirs
(`StrangerHandsOver`), which keeps its value and brings sends signed on it to
life; the authority of a nonce may advance it outside any send. A first send may
carry both instructions of the setup; the variant of the single-transaction
script that initializes without provisioning is not modelled here.

`PaymentFate` is what a user is promised, in one variable: each bundle is a
draft, signed, paid or void; paid and void are final, no two are paid in one
step, and one that is signed and sent is settled. `Fate` maps a send to it: void
as soon as nothing can make it land any more. A blockhash that is too old, a
nonce value that is gone and an index that is taken do (`AnchorLost`, `Alive`);
an authority that is not the paymaster does not, as it may change.
`KeepsPromise` is the refinement.

### MessageBuilder, BundleBuilder, SendBundles, BundleBudget

Operators for `utils.ts`, the builders of `client.ts`, and the transactions
that the scripts and examples assemble. A byte has `BYTE` values:
`Uint8Array.from` keeps the lowest byte of an account index. Instruction data
is a record with the name of the operation and what the program, the decoder
or the size computation reads from it. `WireSize` is the size of a legacy
transaction, which is what the client's methods and the enterprise examples
send; the scripts compile the same instructions to version 0, which only their
size tells apart. `BundleBudget` replays the cases of the bundle example.

### SdkClient

Callers, each with one call of the client open. A call goes from await to
await: `createTransaction` until the account is fetched, then until its
transaction is confirmed; `createMembersAddressLookupTable` through its send,
its warm-up, its polling and its deadline; `initialize` through the fetch of
the table. `calls[c].pc` is the await that is open. A transaction in `network`
lands, fails or expires; `NoAnswer` ends the call of its caller without taking
it out of the network. The program's part is `Accepts` and `TakesEffect`:
the checks of the handlers as far as the arguments of a client can fail them.
Other clients create and close proposals of the same multisig, so that an index
that was read may be stale. `NextTransactionIndex(n)` is `n * 10 + 1`: what
`BN + BigInt(1)` computes. The model keeps that, and `CreatedIsOwn` holds
because the program refuses what results. A table's addresses are usable from
the slot after they were appended, and a node shows them at some time of its
own; two calls may derive the same table address from one finalized slot.

### BundleDecoder, BundleGates, BundleVerification

`decoder.ts`, operator by operator. The code collects mismatches in a list; here
a verdict is the conjunction that is TRUE when the list is empty. A `throw`
makes a bundle `Undecodable` or a verdict FALSE, as the `try` blocks do. Bytes
are not modelled: a record is read back as it was written, except for data that
ends early (`Truncated`) and amounts that are no numbers (`Invalid`).

`BundleVerification` puts the gates between a relay and the program. The relay
offers every bundle that the SDK's builders make for the users' sends, at every
index, whole or split, and bundles mixed of parts of two sends, with any display.
A device signs what the consumer gate or the enterprise comparison accepts; for
an approve-only transaction it first asks its node for the account
(`FetchProposal`) and decides on the answer later (`Decide`), while the ledger
moves. A transaction lands when its signers have signed it, runs instruction by
instruction, and takes effect in full or not at all. An execution makes its calls
one by one (`Calls`), and each may fail: for a privilege the transaction does not
give (`Privileged`: a signer that neither signed nor is the vault, an account
that no instruction lists as writable), or for funds. The called programs are
external and modelled as far as the builders' messages call them: System's
transfer, SPL Token's `transferChecked` between the associated accounts of a mint,
Memo and, at the top level, the idempotent creation of a token account; anything
else fails. `funds` is what the vault has in lamports and what the token accounts
hold, and anybody may add to it. The accounts of an execution mirror the message
(`MirroredAccounts`, `enterprise-split-smoke.ts:402`), each as writable as the
message has it. Token bundles are not among those the relay offers; they are
built and run inside `HonestBundlesPass`. `GivesTo` computes what an
execution pays from the stored message by the program's `account_metas`, not by
the decoder's classification, so that `PaidAsShown` compares two readings.

The device's options allow a memo. That is the caller's choice:
`verifyApproveOnlyTransaction` passes on the `proposalOptions` it is given
(`decoder.ts:1565`), which allow none unless they say so, and a caller who leaves
them out refuses from the account what it may have accepted from the bytes.
`SplitVerifies` and `HonestBundlesPass` speak of callers who allow it.

What the gates do, and do not, look at: bundles that carry `initialize_multisig`
or `provision_nonce` count as foreign and are refused by both create gates, so
the first-send bundle of the scripts is not one for these gates; the account
that pays a proposal's rent is not compared with anything; the enterprise
comparison does not look at `close_transaction`. None of these moves funds of
the vault.

## 3. Runs

The runs of the program are in `MCSolanaMultisig`. They need no fairness: every
property is a safety property, and the liveness of a proposal rests on people
(approving, paying) for whom the code justifies no fairness. The clients wait
for the cluster and for time, and there liveness is checked, under the fairness
below. Deadlock is checked in every run but `NonceFlow` and `SetupDoc`, where all sends
end, and `Device`, where the bound on signatures stops the devices.

| Run | Instance | Shows |
|---|---|---|
| `Setup` | multisigs of `<<k1>>`, `<<k2, vB>>`, `<<vB, k2>>`, `<<k2, k2>>`; claimed hash and count taken from another list; prefunded addresses; a vault's proposals that initialise a multisig and provision a nonce | no balance below zero; an account sits at the address of its members in whatever order they are given, with a reachable threshold |
| `Bundle` | 2-of-3, up to 5 instructions in one outer transaction, two good and nine malformed messages | custody, all or nothing, approvals always fit the account, stored messages resolve, debits are authorised; the contract |
| `Sequence` | 2-of-2, two proposals, two instructions a transaction, several signer sets | over many transactions: custody, indexes used once, run once, rent a deposit of its payer, nothing taken back; the contract |
| `Reentry` | B = `<<k1>>`, A = `<<k2, vault of B>>`; proposals that execute themselves or act on the multisig executing them; nesting up to 4 | run once, the write-back is harmless, nothing taken back |
| `Services` | the same two multisigs; proposals that execute, create and close proposals of A, the executing one included; nesting up to 3 | all or nothing under nesting; the contract; the invariants `Inv` and `BundleSoFar` its proof rests on |
| `RecursionDoc` | as `Reentry` | violation: `ARCHITECTURE.md:154` says `create_transaction` cannot recurse from within execute |
| `NonceFlow` | two sends, two setup transactions under way, a window of two ticks, two acts of strangers or of the nonce's authority | a nonce value is spent once; paid bundles have the indexes given out, one each; a setup that landed whole is ours for good; `PaymentFate` |
| `SetupDoc` | one send, one setup call under way, two acts of strangers | violation: `client.ts:1038` says the nonce value that `setupMultisigAndNonce` returns can be used at once; it may be a stranger's |
| `Client` | two callers, one multisig of two members that exists or not, two indexes, two transactions in the network; requests whose account has other privileges at each mention, whose indexes wrap, and that fits no packet | what is created is its caller's; the stored message resolves to what was asked; a returned table is usable; every call ends |
| `Device` | a wallet and a key with threshold 2, a send without and one with a memo, a token send, two indexes, two signatures a device, a vault that has nothing until it is given 7 | what is executed is what each approver was shown, for that proposal; the two decoders agree; honest bundles that the vault can pay pass and run, call by call |
| `IndexDoc` | as `Client` | violation: `client.ts:656` says the counter must be coerced before one is added to it; `client.ts:487` adds to it as it is |
| `MemoDoc` | the eight cases of the bundle example | violation: `client.ts:817` says an execution lists all accounts of the message; the example (228) leaves out the Memo program |

The bounds are `MaxIxs` (instructions of one outer transaction), `MaxDepth`
(nested frames; the runtime's own limit is an invocation depth of 5, hence 4
frames of ours), `U64_MAX` (proposals of one multisig) and the `MAX_*`
constants of the program, made small so that messages just above and below
each are among those proposed. Two proposals are what index reuse and nesting
need; three members are what a duplicate approval needs to reach a threshold of
two with a member to spare; two instructions are what a partial run needs.

In `NonceFlow` two sends are what a race for one nonce value or one index needs;
a window of two lets a blockhash be old and valid once; two setup transactions
are one whose caller stopped waiting and the next one; two acts (`MaxMeddling`)
let a stranger initialize and provision, provision and withdraw, or provision and
hand over. In
`Client` the program's limit of accounts is 5 and a byte has 6 values: the vault,
the program and five others are one more than the limit and wrap in a byte, as
257 accounts would. In `Device` two indexes are what mixing and reclaiming
need. `Deposits` gives the vault 7 at once, and `MaxLamports` keeps it at that:
what the two sends take with their fees. Before the deposit every execution fails
in its first call, and after the dearer send the same send again fails between
its payment and its fee. `ForeignAmounts` is one lamport in `Bundle` and
`Sequence`, where balances are compared, and empty where nothing looks at them.

Fairness. `NonceFlow`: time passes (`Tick`), and a bundle that stays valid is
processed (`Land`, weakly fair: nothing but an expiry or a spent nonce disables
it); that the cluster processes it is assumed of the cluster, not of this code.
Scripts, wallets, keys and strangers may stop at any time and setup transactions
may be lost, so a send that is not signed by all promises nothing, and nothing
promises that a setup completes: no code in the repository tries again.
`Client`: slots pass, and each await settles with an answer or an error,
as requests with a timeout do (`WF` on `CallSettles(c)`); the polling loop of the
table ends by its deadline. Nothing is assumed of the node's view, of the landing
of transactions or of other clients.

Every property has a mutant in `PROJECT.json`: a variant of a definition of the
model, defined beside it, that breaks the property the way a plausible mistake
in the program would.

Findings. In `createTransactionFromMessage` the index is predicted as
`BN + BigInt(1)`, a string: from the second proposal on the one-shot methods
`createTransaction` and `createTransactionFromMessage` send to a wrong address
and the program refuses (`IndexDoc`; `CreatedIsOwn` shows that nothing worse
comes of it). The builders are not affected: `predictNextTransactionPda` coerces.
The bundle example measures bundles with a memo that would not execute, and with
the missing account its boundary case no longer fits (`MemoDoc`).
`setupMultisigAndNonce` waits for a status and does not look at it: when a
stranger initializes and provisions between its simulation and its landing, it
returns as if it had succeeded, with a value of the stranger's nonce
(`SetupDoc`). A send on that value needs a signature the paymaster cannot give,
so it is stuck but never paid wrongly. `ARCHITECTURE.md:154` says more than the
code does, without harm: a recursive create keeps its effect because the
read-only context never writes the cached multisig back
(`ForwardUnlessRolledBack`). So does `client.ts:850`, which says of the close
builder that a proposal must be executed before it is closed: the program closes
any proposal for its payer, as its own comment says (`lib.rs:667`), and the
approvals that are lost never count for another message (`NoRecycledProposal`).

## 4. Proofs

Proved by TLAPS, for all constants that satisfy the assumptions below, hence
for any number of members, proposals, instructions, nesting depth and signers:

| Theorem | States |
|---|---|
| `TypeCorrect` | `Spec => []TypeOK` |
| `Invariant` | `Spec => []Inv`, the inductive invariant |
| `CustodyTheorem` | `Spec => []ThresholdConsent` |
| `OnceInOrderTheorem` | `Spec => []RunsOnceInOrder` |
| `AtomicityTheorem` | `Spec => []AllOrNothing` |
| `FreshCacheTheorem` | `Spec => []CacheIsFresh` |
| `NoRecyclingTheorem` | `Spec => []NoRecycledProposal` |
| `ResolutionTheorem` | `Spec => []StoredMessageResolves` |
| `ForwardTheorem` | `Spec => ForwardUnlessRolledBack` |
| `DebitsTheorem` | `Spec => DebitsAreAuthorized` |
| `StakeTheorem` | `Spec => StakesAreKept` |
| `SoFarTheorem` | `Spec => []BundleSoFar` |
| `ContractTheorem` | `Spec => ImplementsContract` |
| `DurableNonceProofs!TypeCorrect` | `Spec => []TypeOK` of `DurableNonce` |
| `SpentOnce` | `Spec => []NonceSpentOnce` |
| `PaidInOrder` | `Spec => []PaidByIndex` |
| `OwnSetup` | `Spec => []SetupIsOurs` |
| `PromiseKept` | `Spec => Promised!Undecided /\ [][Promised!Decide]_fates` |
| `CanonicalTheorem` | `Spec => []CanonicalAddress` |
| `RoomTheorem` | `Spec => []EveryApprovalFits` |
| `SortedUnique`, `SortedPermuted` | a list of keys has one rearrangement in byte order |
| `SortMembersSorts` | the SDK's `sortMembers` returns it |
| `BuiltFaithfully` | what the program resolves from `buildMessageFromInstructions` is what was asked for |
| `ClientInvariant` | `Spec => []ClientInv`, the inductive invariant of `SdkClient` |
| `ClientTypes` | `Spec => []TypeOK` of `SdkClient` |
| `CreatedTheorem` | `Spec => []CreatedIsOwn` |
| `FaithfulTheorem` | `Spec => []MessageFaithful` |
| `TableTheorem` | `Spec => []TableIsReady` |
| `BundleInvariant` | `Spec => []IInv`, the inductive invariant of `BundleVerification` |
| `BundleTypes` | `Spec => []TypeOK` of `BundleVerification` |
| `PaidTheorem` | `Spec => []PaidAsShown` |
| `SplitTheorem` | `Spec => []SplitVerifies` |
| `HonestTheorem` | `Spec => []HonestBundlesPass` |

Assumptions (`KeyOrderAssumption`, `ConstantsAssumption`, `DecodeAssumption`, `SignersAssumption`;
for `DurableNonce` only `SetupAssumption`: the paymaster is not the stranger, the
window and the bounds are numbers; for `SdkClient` `ClientAssumption`: callers give
lists, instructions and messages of the SDK's types, and a message that the
program accepts has no more accounts than a byte has values, 64 and 256 in the
code; for `BundleVerification` `BundleAssumption`: the sends, in lamports or in
tokens, are of one multisig, whose members are the devices, each once and two at
least, and the paymaster none; deposits are numbers; the program ids differ from each other; and
`BuiltAssumption`: instruction data that a builder writes is complete, and an
account that is there is not one that is not):
the byte order of keys is a strict total order, the parameters have their
types, no outer transaction is without a signer, and none is signed for the
address of a proposal, which has no private key; a payload decodes to arguments
of the right types. TLC evaluates them in every run. That a derived
address is its tuple of seeds is part of the definitions.

The argument. None of the properties is inductive: custody speaks of the log,
and the step that extends the log knows only its frame. `Inv` adds what ties
them together, for the working copy with the current stack and for the
committed ledger with no frame:

* `LiveInv`: a live proposal sits at an address its multisig has claimed and
  holds a valid message; together with the counter that only grows, a new
  proposal never lands on an address anything was recorded for (`FreshIndex`);
* `ApprovalInv`: the approvals of a live proposal are of different members and
  each is in `consent`, so that their number is at most the number of
  consenting members (`ApprovalsAreConsent`);
* `ConsentInv`, `LogInv`, `OrderInv`: what was approved and run at an address
  concerns the message that is there, and what was run had consent;
* `StackInv`: the frame invariant. A frame's cached proposal is what the
  account holds if there still is one, it is marked executed, it has consent,
  and exactly the instructions before its `pc` are in the log. Being marked
  executed *in the account* is what excludes a second frame for the same
  address, an approval and a second run: this is where the flush before the
  first CPI is needed;
* `DoneInv`: what no frame is executing was run in full or not at all.

`SolanaMultisigSafety` has a lemma for what each kind of step does to these
parts (`CreateStep`, `ApproveStep`, `CloseStep`, `PushStep`, `InvokeStep`,
`ExitStep`), one for each handler, and one each for top-level and CPI steps.

Deposits. `StakesAreKept` compares sums: what a payer has in its wallet and in
the proposals it paid for, as many as there are. `DepositInv` adds what makes them sums at all:
finitely many live proposals, counters within the largest index, signers that are
among those assumed. A creation puts into the account what it takes from the
wallet (`CreateStake`), or finds it there already; a close returns all of it to
the payer (`CloseStake`); nothing else touches a proposal's lamports
(`QuietStake`, `ApproveQuiet`, `ExecuteQuiet`). `SequenceLemmas` has the sums:
`SumCompared` and `SumTakeOut`, by induction on the size of the set.

The refinement. `ContractProofs` shows that `BundleSoFar` is invariant, handler
by handler like `Inv`: a proposal that is approved or executed is not executed
in the working copy, hence was not when the bundle started, and the address of
one that is created was unused then (`FreshIndex`). At a `Commit`, `Inv` on both
ledgers, `AllOrNothing` and `BundleSoFar` give each conjunct of the contract's
`Bundle` (`CouncilsKept`, `ProposalsKept`, `VotesKept`, `PaymentsKept`).

The nonce flow. `NonceInv` adds to the types that every value the nonce has had,
the one that was returned and those sends were built on included, is below the
next one (`ValuesInOrder`), and that the nonce is past a value a processed bundle
was anchored on (`SpentIsGone`): an authority may change and an account come
back, but a value does not. `IndexInv` adds that a bundle was built for an index
at most one ahead of the multisig's, that one with the setup is for the first, and
that the nonce exists only after the multisig does; `SetupIsOurs` is inductive
with it, as only an authority hands a nonce over or withdraws it and the
paymaster does neither. `PromiseKept` shows step by step that `Fate` moves only
as `PaymentFate` allows: once a blockhash is old, a nonce value gone
(`AnchorStaysLost`) or an index taken (`IndexStaysVoid`), it is so for ever, which
is what makes void final; and one step moves one bundle (`OneMoves`).

Sequences. What a fold, a filter or a sort computes for every list needs
induction over the list. The library's induction theorems take an operator and
cannot be instantiated; `SequenceLemmas` derives a form that can: every set of
numbers that is not empty has a least one (`LeastNumber`, from the library's
minimum over finite subsets), hence a set that has 0 and with each number the
next has all of them (`InductiveSet`, `UpTo`). `StepByStep` gives a recursive
function on `0..k` its value at each step. From these follow what `Pick` keeps,
`FlattenSeq` joins and `SumOver` adds, that a key order has one sorted
rearrangement, and that distinct elements count.

Addresses and sizes. `AddressInv` adds that a multisig's members are in byte
order and are those its address hashes, and that the space of a proposal was
computed for all of them. A stranger's list is a rearrangement, and sorting it
gives the members (`SortedPermuted`).

The message builder. `Layout` says where each entry goes: the four groups are
disjoint, the header counts them, and an account's index tells its group, which
is what the program reads the privileges from. With `AccountIndexFinds` and an
index that fits a byte, `BuiltFaithfully` follows.

The client. `NetworkInv` says that each transaction on its way was built by a
call of the kind its operation tells, and that the caller that still waits for
it is in that very call and waits for no other: an answer never completes a
different call. `LedgerInv` numbers the accepted creations and ties each proposal
to its creation. A creation lands only at the index it derived its address from,
so the call that returns has it (`CreatedStep`). `CallOk` follows a table: a call
that is confirmed has its addresses in the table, a slot later they can be used,
and what others extend takes nothing away (`ExtendedTable`, `Growth`).

The devices. `PaidAsShown` relates an execution to what was on a screen, one or
two transactions and any number of blocks earlier; `BundleVerificationProofs`
follows it back in three parts.

* What a gate accepts has a shape (`Shapes`, `AcceptedFacts`): of all that the
  relay offers, mixed bundles included, the create gates accept only a nonce
  advance, one creation and then approvals and a settlement, all of the proposal
  created (`CreateAgrees` compares their targets), and the approve gate only an
  approval whose target is the address that was fetched.
* The comparison means what the program does: if the decoder's view of a message
  agrees with the display (`FlowsAgree`), then the lamports the program's
  transfers move are those displayed, the fee at most the bound and nothing else
  (`PaysWhatIsShown`). The greedy matching of recipients uses up each decoded one
  exactly once, which is where `Picks` and its lemmas come from.
* The ledger keeps it true: a proposal's message never changes while it is there
  and its index is never used again (`IndexInv`). So what a device compared in an
  old answer is still what the account holds, if it is there at all
  (`AnswerInv`, `Verified`), and a creation that ran is of an index nobody had
  used, so that an approval in the same transaction is of that very proposal.

`LandKeeps` carries the invariant through a transaction instruction by
instruction: `Run` is a recursive function over the list, and what one
instruction preserves (`RunCreate`, `RunApprove`, `RunExecute`, `RunClose`) the
whole does, by `UpTo`. For `SplitVerifies` the gate of an account and the gate of
bytes are shown to make one and the same comparison on one and the same message
(`ApproveGate`).

`HonestBundlesPass` is the other side: gates that refuse everything would satisfy
all of the above. Its theorem holds for every send that can be made: any number of
approvers that reaches the threshold, any amount and fee, in lamports or in tokens,
with or without a memo, with or without the nonce advance. `CanBeMade` asks what
the devices cannot give: that nobody approves twice, that the memo is text, and
that the program stores the message; `HasLamports` and `HasTokens` ask that the
vault has what the send takes. The third excludes a payment in lamports to
the paymaster itself, whose account the message would list twice, and which the
decoder would take for a reimbursement.

* `Honest` says what the builders build: at most an advance and the creation of
  a token account, then the creation, the approvals in the order of the approvers,
  the execution and the close (`WholeIs`, `ConsumerIs`, `TokenIs`). `ViewIs` is
  what `parseBundle` makes of it, for any number of approvals (`KindsAre` says at
  which place each kind of instruction is).
* `SolReads` and `TokenReads` say what the decoder reads from the message: the
  payment, the fee as a reimbursement and nothing unknown. `RecipientResolves`
  turns a token account into its owner. `EnterpriseAccepts` and `ConsumerAccepts`
  go through the conjuncts of the two verdicts.
* `HonestRuns` runs it from the present accounts of the program, which the
  invariant types: what precedes the creation changes nothing (`HonestHead`), the
  creation is at the next index, after n approvals the proposal has those of the
  first n approvers (`Progress`, by `UpTo`), which reach the threshold, the
  execution makes its calls, and the close finds the paymaster as the payer.
* The calls are two or three (`TwoOrThreeCalls`): a payment, a memo or none, and
  the fee. `HonestWrites` says that the bundle lists as writable what the message
  has writable, and `PrivilegedIs` that no call then asks for more than the bundle
  and the vault's signature give. `VaultPays` and `VaultPaysTokens` are the calls
  of System and of SPL Token, which leave enough for the next one (`CallLeaves`);
  `SolPays` and `TokenPays` put them together. That the funds stay numbers through
  whatever lands is part of the invariant (`CallsMove`, `FundsTyped`).

Only model-checked: the last conjunct of `KeepsPromise` (what is signed and sent
is settled) and `CallsEnd` of `SdkClient`: liveness under fairness is beyond the
prover. The expected violations are runs.

## 5. Not modelled

* Fees, compute budget, rent collection and the rule that a nonce advances at
  most once a slot: the program and the SDK neither read nor handle them.
* The least balance the runtime asks of an account: an execution that leaves the
  vault, or a recipient that is new, with lamports but fewer than that fails on
  the chain. Nor has the paymaster of `BundleVerification` a balance. So
  `HonestBundlesPass` speaks of a vault that keeps enough or nothing and of a
  paymaster that can pay the rent of a proposal; what an `init` takes is in
  `SolanaMultisig`.
* Other instructions of System in a stored message than the transfer, and
  accounts that other programs own.
* `checkNonceRace` and `getNonceAuthority`: only a test calls them. Rotation of the
  nonce's authority by the paymaster (`nonceAuthorize`): no code in the
  repository sends it. `AuthorityAdvances` is the authority's other right.
* The bundle of the single-transaction script that initializes the multisig
  without provisioning it: `SendBundles` builds it, `DurableNonce` does not send it.
* Forks: `fetchAndDecodeProposal` may read at commitment `processed`. All modules
  have one ledger.
* Bytes: borsh, base64 and base58 are read back as written; what ends too early
  or is not a number is modelled. Collisions of hashes are excluded.
* Priority fees are one instruction of fixed size; websockets, retries inside
  web3.js and the text of errors are left out.
* The remaining scripts and examples (balances, SPL set-up, Jupiter's format,
  decoupled initialisation, mainnet smoke): single runs against a network, whose
  steps are those of the modelled methods.
* IDL, CI, deployment: generated code or I/O around the system.
