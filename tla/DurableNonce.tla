---------------------------- MODULE DurableNonce ----------------------------
(***************************************************************************)
(* Setting a multisig up and sending from it, with the durable nonce.      *)
(*                                                                         *)
(* The paymaster initializes the multisig and provisions its nonce         *)
(* account, in one transaction or in two.  A wallet reads the nonce and    *)
(* the transaction index, builds a bundle and signs it; the key signs much *)
(* later, the paymaster last.  In between, other bundles land, blockhashes *)
(* grow old, a setup whose caller stopped waiting may still land, and      *)
(* other people use the permissionless instructions.                       *)
(*                                                                         *)
(* A bundle is anchored: on a live blockhash, which grows too old, or on   *)
(* the nonce, whose every value is spent by the one transaction that uses  *)
(* it, whether its other instructions succeed or not.                      *)
(***************************************************************************)
EXTENDS Integers, FiniteSets

CONSTANTS
    Send,           \* the sends of the wallets, each with one bundle
    Paymaster,      \* the relay's fee payer
    Stranger,       \* everybody else who can pay a fee
    WINDOW,         \* the age at which a blockhash is too old
    MaxSetups,      \* bound: the setup transactions that are on their way at once
    MaxMeddling     \* bound: what strangers and the paymaster do on their own

Nobody == "nobody"

ASSUME SetupAssumption ==
    /\ Paymaster # Stranger
    /\ Nobody \notin {Paymaster, Stranger}
    /\ WINDOW \in Nat \ {0}
    /\ MaxSetups \in Nat
    /\ MaxMeddling \in Nat

VARIABLES
    transaction_index,  \* of the multisig; NoMultisig before it exists
    nonce_account,      \* what is at the nonce address
    next_nonce,         \* a value the nonce never had
    relay,              \* the call the paymaster's script is in, or idle
    returned,           \* the nonce value setupMultisigAndNonce returned; 0 before
    setup_wire,         \* the setup transactions that may still land
    send,               \* the bundle of each send
    setup_landed,       \* init and provisioning landed in one transaction
    meddling

chain == <<transaction_index, nonce_account, next_nonce, setup_landed>>
caller == <<relay, returned>>
vars == <<chain, caller, setup_wire, send, meddling>>

NoMultisig == -1
Initialized == transaction_index # NoMultisig

Absent == [state |-> "absent", authority |-> Nobody, nonce |-> 0]
Lamports == [state |-> "lamports", authority |-> Nobody, nonce |-> 0]
Nonce(authority, value) == [state |-> "nonce", authority |-> authority, nonce |-> value]

SetupKinds == {"setup", "initialize", "provision"}

Unbuilt == [stage |-> "idle", anchor |-> "live", nonce |-> 0, age |-> 0, index |-> 0,
            with_setup |-> FALSE]

Init ==
    /\ transaction_index = NoMultisig
    /\ nonce_account = Absent
    /\ next_nonce = 1
    /\ relay = "idle"
    /\ returned = 0
    /\ setup_wire = {}
    /\ send = [s \in Send |-> Unbuilt]
    /\ setup_landed = FALSE
    /\ meddling = 0

-----------------------------------------------------------------------------
(***************************************************************************)
(* The nonce account.                                                      *)
(***************************************************************************)

\* The System program creates an account only where there is no lamport.
Provisionable == nonce_account.state = "absent"

Provisioned(authority) ==
    /\ nonce_account' = Nonce(authority, next_nonce)
    /\ next_nonce' = next_nonce + 1

Advanced ==
    /\ nonce_account' = Nonce(nonce_account.authority, next_nonce)
    /\ next_nonce' = next_nonce + 1

-----------------------------------------------------------------------------
(***************************************************************************)
(* Setting up: setupMultisigAndNonce makes one transaction of both         *)
(* instructions; a script may also initialize a multisig that it does not  *)
(* find, and provision a nonce where it finds no account.  Every call runs *)
(* once and nothing sends again what was lost.                             *)
(***************************************************************************)

\* Whether a setup transaction succeeds: every instruction of it must.  The
\* variant is a setup that drops the provisioning when it cannot be had.
SetupIgnoresNonce(kind) ==
    \/ kind = "setup" /\ ~Initialized
    \/ kind = "initialize" /\ ~Initialized
    \/ kind = "provision" /\ Initialized /\ Provisionable

SetupExecutable(kind) ==
    \/ kind = "setup" /\ ~Initialized /\ Provisionable
    \/ kind = "initialize" /\ ~Initialized
    \/ kind = "provision" /\ Initialized /\ Provisionable

SetupEffect(kind) ==
    /\ transaction_index' = IF kind = "provision" THEN transaction_index ELSE 0
    /\ IF kind # "initialize" /\ Provisionable THEN Provisioned(Paymaster)
                                               ELSE UNCHANGED <<nonce_account, next_nonce>>
    /\ setup_landed' = (setup_landed \/ kind = "setup")

\* A call takes a blockhash, signs and sends.  The node simulates it first: of
\* a transaction that would fail nothing is sent and the call throws, so that
\* what a script saw of the accounts before it called is looked at again here.
SetupCall(kind) ==
    /\ relay = "idle"
    /\ Cardinality(setup_wire) < MaxSetups
    /\ SetupExecutable(kind)
    /\ setup_wire' = setup_wire \cup {[kind |-> kind, age |-> 0, awaited |-> TRUE]}
    /\ relay' = kind
    /\ UNCHANGED <<chain, returned, send, meddling>>

\* The transaction is processed, as one that fails if somebody was faster.
\* Whoever waits for its status is told.
SetupLands(m) ==
    /\ m \in setup_wire
    /\ setup_wire' = setup_wire \ {m}
    /\ IF SetupExecutable(m.kind) THEN SetupEffect(m.kind) ELSE UNCHANGED chain
    /\ relay' = IF m.awaited THEN IF m.kind = "setup" THEN "confirmed" ELSE "idle" ELSE relay
    /\ UNCHANGED <<returned, send, meddling>>

\* A status, be it that of a failure, ends the wait of setupMultisigAndNonce:
\* it fetches whatever is at the nonce address and returns its value, or
\* throws if that is no nonce.
SetupReturns ==
    /\ relay = "confirmed"
    /\ relay' = "idle"
    /\ returned' = IF nonce_account.state = "nonce" THEN nonce_account.nonce ELSE returned
    /\ UNCHANGED <<chain, setup_wire, send, meddling>>

\* No status in time: the call throws, its transaction may be on its way still.
SetupTimesOut ==
    /\ relay \in SetupKinds
    /\ relay' = "idle"
    /\ setup_wire' = { [m EXCEPT !.awaited = FALSE] : m \in setup_wire }
    /\ UNCHANGED <<chain, returned, send, meddling>>

-----------------------------------------------------------------------------
(***************************************************************************)
(* A send: anchor, build, sign twice, broadcast, land.                     *)
(***************************************************************************)

Stage(s) == send[s].stage
SignedStages == {"wallet_signed", "key_signed", "sent"}

\* The wallet reads the value of the nonce, whoever its authority is, and gives
\* up where there is none; or it does without and takes a live blockhash.
Anchor(s) ==
    /\ Stage(s) = "idle"
    /\ \/ /\ nonce_account.state = "nonce"
          /\ send' = [send EXCEPT ![s] = [@ EXCEPT !.stage = "anchored", !.anchor = "durable",
                                                   !.nonce = nonce_account.nonce]]
       \/ /\ nonce_account.state # "nonce"
          /\ send' = [send EXCEPT ![s].stage = "given_up"]
       \/ send' = [send EXCEPT ![s].stage = "anchored"]
    /\ UNCHANGED <<chain, caller, setup_wire, meddling>>

\* The index the next proposal gets.  The variant is one too far.
PredictTwoAhead(currentTransactionIndex) == currentTransactionIndex + 2

predictNextTransactionPda(currentTransactionIndex) == currentTransactionIndex + 1

\* The wallet reads the index, builds create, approve, approve, execute and
\* close for the next proposal, and signs at once.  A first send on a blockhash
\* may carry init and provision too; what is there already it does not ask.
BuildAndSign(s) ==
    /\ Stage(s) = "anchored"
    /\ \/ /\ Initialized
          /\ send' = [send EXCEPT ![s].stage = "wallet_signed",
                         ![s].index = predictNextTransactionPda(transaction_index)]
       \/ /\ send[s].anchor = "live"
          /\ send' = [send EXCEPT ![s].stage = "wallet_signed",
                         ![s].index = predictNextTransactionPda(0), ![s].with_setup = TRUE]
       \/ /\ ~Initialized
          /\ send' = [send EXCEPT ![s].stage = "given_up"]
    /\ UNCHANGED <<chain, caller, setup_wire, meddling>>

\* After setupMultisigAndNonce the wallet takes the value that it returned, for
\* the first proposal of a multisig that has none yet.
BuildOnReturned(s) ==
    /\ Stage(s) = "idle"
    /\ returned # 0
    /\ transaction_index = 0
    /\ send' = [send EXCEPT ![s] = [@ EXCEPT !.stage = "wallet_signed", !.anchor = "durable",
                  !.nonce = returned, !.index = predictNextTransactionPda(0)]]
    /\ UNCHANGED <<chain, caller, setup_wire, meddling>>

\* The key adds its signature to the bundle as it is.  The variant is a key
\* that builds the bundle again, for the index that is next by then.
KeyRebuilds(s) ==
    /\ Stage(s) = "wallet_signed"
    /\ Initialized
    /\ send' = [send EXCEPT ![s].stage = "key_signed",
                   ![s].index = predictNextTransactionPda(transaction_index)]
    /\ UNCHANGED <<chain, caller, setup_wire, meddling>>

KeySign(s) ==
    /\ Stage(s) = "wallet_signed"
    /\ send' = [send EXCEPT ![s].stage = "key_signed"]
    /\ UNCHANGED <<chain, caller, setup_wire, meddling>>

\* The anchor is lost for good: a blockhash too old, a value that is spent.
AnchorLost(s) ==
    IF send[s].anchor = "live" THEN send[s].age >= WINDOW
                               ELSE send[s].nonce # nonce_account.nonce

\* What the runtime asks of the anchor before it runs a transaction at all: of
\* a nonce also that its authority signed, and that is the paymaster or nobody.
AnchorHolds(s) ==
    /\ ~AnchorLost(s)
    /\ send[s].anchor = "durable" => nonce_account.authority = Paymaster

\* What the instructions ask: the multisig is there, or is not there yet, and
\* the next index is the one the bundle was built for.  The variant creates
\* the proposal at whatever index is next.
AnyIndexFits(s) ==
    IF send[s].with_setup
      THEN ~Initialized /\ Provisionable
      ELSE Initialized

IndexFits(s) ==
    IF send[s].with_setup
      THEN ~Initialized /\ Provisionable
      ELSE Initialized /\ send[s].index = transaction_index + 1

Landable(s) == AnchorHolds(s) /\ IndexFits(s)

\* The paymaster signs last and sends; the node simulates the bundle first, and
\* a script whose bundle would fail ends there.
Broadcast(s) ==
    /\ Stage(s) = "key_signed"
    /\ send' = [send EXCEPT ![s].stage = IF Landable(s) THEN "sent" ELSE "given_up"]
    /\ UNCHANGED <<chain, caller, setup_wire, meddling>>

Pay(s) ==
    /\ IndexFits(s)
    /\ send' = [send EXCEPT ![s].stage = "paid"]
    /\ transaction_index' = IF send[s].with_setup THEN 1 ELSE transaction_index + 1
    /\ setup_landed' = (setup_landed \/ send[s].with_setup)

\* An instruction fails, say because the vault is short of lamports by now.
Revert(s) ==
    /\ send' = [send EXCEPT ![s].stage = "failed"]
    /\ UNCHANGED <<transaction_index, setup_landed>>

\* The nonce is spent whatever becomes of the instructions.  The variant is a
\* bundle that names a nonce value but does not advance the nonce.
NonceKept(s) ==
    IF send[s].with_setup /\ send'[s].stage = "paid"
      THEN Provisioned(Paymaster)
      ELSE UNCHANGED <<nonce_account, next_nonce>>

NonceAfter(s) ==
    \/ /\ send[s].anchor = "durable"
       /\ Advanced
    \/ /\ send[s].anchor = "live"
       /\ IF send[s].with_setup /\ send'[s].stage = "paid"
            THEN Provisioned(Paymaster)
            ELSE UNCHANGED <<nonce_account, next_nonce>>

Land(s) ==
    /\ Stage(s) = "sent"
    /\ AnchorHolds(s)
    /\ Pay(s) \/ Revert(s)
    /\ NonceAfter(s)
    /\ UNCHANGED <<caller, setup_wire, meddling>>

-----------------------------------------------------------------------------
(***************************************************************************)
(* What others do.                                                         *)
(***************************************************************************)

\* Blockhashes grow old, and a transaction on one that is too old is gone.
Older(m) == [m EXCEPT !.age = m.age + 1]

Ages(s) ==
    /\ Stage(s) \in SignedStages
    /\ send[s].anchor = "live"
    /\ send[s].age < WINDOW

Tick ==
    /\ setup_wire # {} \/ \E s \in Send : Ages(s)
    /\ setup_wire' = { Older(m) : m \in { k \in setup_wire : k.age + 1 < WINDOW } }
    /\ send' = [s \in Send |-> IF Ages(s) THEN Older(send[s]) ELSE send[s]]
    /\ UNCHANGED <<chain, caller, meddling>>

Meddle ==
    /\ meddling < MaxMeddling
    /\ meddling' = meddling + 1
    /\ UNCHANGED <<caller, setup_wire, send, setup_landed>>

\* The instructions are permissionless: a stranger may be first.
StrangerInitializes ==
    /\ Meddle
    /\ ~Initialized
    /\ transaction_index' = 0
    /\ UNCHANGED <<nonce_account, next_nonce>>

StrangerProvisions ==
    /\ Meddle
    /\ Initialized
    /\ Provisionable
    /\ Provisioned(Stranger)
    /\ UNCHANGED transaction_index

StrangerFunds ==
    /\ Meddle
    /\ nonce_account.state = "absent"
    /\ nonce_account' = Lamports
    /\ UNCHANGED <<transaction_index, next_nonce>>

StrangerWithdraws ==
    /\ Meddle
    /\ nonce_account.authority = Stranger
    /\ nonce_account' = Absent
    /\ UNCHANGED <<transaction_index, next_nonce>>

\* Its authority may make somebody else the authority; the value stays.
StrangerHandsOver ==
    /\ Meddle
    /\ nonce_account.authority = Stranger
    /\ nonce_account' = [nonce_account EXCEPT !.authority = Paymaster]
    /\ UNCHANGED <<transaction_index, next_nonce>>

\* Its authority may advance the nonce outside any bundle.
AuthorityAdvances ==
    /\ Meddle
    /\ nonce_account.state = "nonce"
    /\ Advanced
    /\ UNCHANGED transaction_index

Next ==
    \/ \E kind \in SetupKinds : SetupCall(kind)
    \/ SetupReturns
    \/ SetupTimesOut
    \/ \E m \in setup_wire : SetupLands(m)
    \/ \E s \in Send :
          \/ Anchor(s)
          \/ BuildAndSign(s)
          \/ BuildOnReturned(s)
          \/ KeySign(s)
          \/ Broadcast(s)
          \/ Land(s)
    \/ Tick
    \/ StrangerInitializes
    \/ StrangerProvisions
    \/ StrangerFunds
    \/ StrangerWithdraws
    \/ StrangerHandsOver
    \/ AuthorityAdvances

\* Time passes, and the cluster processes a bundle that stays valid.  Scripts,
\* wallets, keys and strangers may stop at any time, and a transaction of the
\* setup may be lost.
Fairness ==
    /\ WF_vars(Tick)
    /\ \A s \in Send : WF_vars(Land(s))

Spec == Init /\ [][Next]_vars /\ Fairness

-----------------------------------------------------------------------------
(***************************************************************************)
(* Properties.                                                             *)
(***************************************************************************)

Accounts ==
    [state : {"absent", "lamports", "nonce"},
     authority : {Nobody, Paymaster, Stranger}, nonce : Nat]

Bundles ==
    [stage : {"idle", "anchored", "paid", "failed", "given_up"} \cup SignedStages,
     anchor : {"live", "durable"}, nonce : Nat, age : 0..WINDOW, index : Nat,
     with_setup : BOOLEAN]

\* The index of the next proposal, of a multisig that may not exist yet.
NextIndex == IF Initialized THEN transaction_index + 1 ELSE 1

\* The type invariant; nobody builds for an index beyond the next.
TypeOK ==
    /\ transaction_index \in Nat \cup {NoMultisig}
    /\ nonce_account \in Accounts
    /\ nonce_account.state # "nonce" => nonce_account \in {Absent, Lamports}
    /\ next_nonce \in Nat
    /\ relay \in SetupKinds \cup {"idle", "confirmed"}
    /\ returned \in Nat
    /\ setup_wire \subseteq [kind : SetupKinds, age : 0..(WINDOW - 1), awaited : BOOLEAN]
    /\ send \in [Send -> Bundles]
    /\ \A s \in Send : send[s].index <= NextIndex
    /\ setup_landed \in BOOLEAN
    /\ meddling \in 0..MaxMeddling

Paid == { s \in Send : Stage(s) = "paid" }
Processed == { s \in Send : Stage(s) \in {"paid", "failed"} }

\* No value of the nonce is used by two processed bundles, successful or not:
\* the wallets of several sends read the same value (devnet-durable-nonce-test.ts:149) and the
\* key of each signs whenever it likes.
NonceSpentOnce ==
    \A s, u \in Processed :
        send[s].anchor = "durable" /\ send[u].anchor = "durable"
            /\ send[s].nonce = send[u].nonce => s = u

\* The paid bundles have the indexes 1 to transaction_index, one each: however
\* stale the index was that its wallet read (client.ts:665), a bundle is paid
\* only as the proposal it was built for.
PaidByIndex ==
    /\ \A s, u \in Paid : send[s].index = send[u].index => s = u
    /\ { send[s].index : s \in Paid } = 1..transaction_index

\* After init and provision landed in one transaction (client.ts:1037) the
\* nonce is the paymaster's, whatever was called again and strangers tried.
SetupIsOurs ==
    setup_landed =>
        Initialized /\ nonce_account.state = "nonce" /\ nonce_account.authority = Paymaster

\* What setupMultisigAndNonce returned is a value of the paymaster's nonce: the
\* caller can use it at once (client.ts:1038).  Its wait ends with any status
\* (client.ts:1091), so it may return the nonce of a stranger who was faster.
ReturnedNonceIsOurs ==
    returned # 0 /\ nonce_account.nonce = returned => nonce_account.authority = Paymaster

\* The fate of a bundle: void once nothing can make it land any more.
Alive(s) == ~AnchorLost(s) /\ IndexFits(s)

Fate(s) ==
    CASE Stage(s) = "paid" -> "paid"
      [] Stage(s) \in {"failed", "given_up"} -> "void"
      [] Stage(s) \in SignedStages /\ ~Alive(s) -> "void"
      [] Stage(s) = "sent" /\ Alive(s) -> "signed"
      [] OTHER -> "draft"

fates == [s \in Send |-> Fate(s)]
Promised == INSTANCE PaymentFate WITH fate <- fates

\* A bundle signed ahead of time is paid at most once, does not come back to
\* life, and is settled once everybody has signed and it is sent.
KeepsPromise == Promised!Promise

=============================================================================
