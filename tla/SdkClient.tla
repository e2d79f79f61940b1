------------------------------ MODULE SdkClient ------------------------------
(***************************************************************************)
(* SolanaMultisigClient: callers that share one multisig, each with one    *)
(* call of the client open at a time.  A call runs from await to await;    *)
(* between two of its awaits the other callers, other programs' users, the *)
(* RPC node and the cluster move.                                          *)
(*                                                                         *)
(* A transaction that was sent is in the network until the cluster takes   *)
(* it, or it expires with its blockhash.  Its caller may stop waiting for  *)
(* it before it lands.                                                     *)
(***************************************************************************)
EXTENDS BundleBuilder

CONSTANTS
    Caller,
    None,
    Payer,              \* the wallet of every client, and its fee payer
    Members, Threshold, \* of the multisig the callers use
    MemberLists, TableLists,    \* the lists they give to initialize and to a table
    Creators,
    Requests,           \* the instructions they ask createTransaction for
    Foreign,            \* a message proposed by a client that builds its own bundles
    Indexes,            \* the proposals they approve and execute
    RecentSlots,        \* finalized slots a table address is derived from
    ALT_PROGRAM_ID,
    IX_BUFFER_SIZE,     \* patchIxEncoderBufferSize
    MAX_TABLE_ADDRESSES,
    MaxIndex, MaxInFlight   \* bounds

VARIABLES
    multisig,   \* the multisig account, or None
    proposals,  \* the proposal account of each index, or None
    accepted,   \* every creation the program accepted, in order
    tables,     \* the address lookup tables
    network,    \* transactions on their way
    calls       \* the open or last call of each caller

vars == <<multisig, proposals, accepted, tables, network, calls>>

Multisig == deriveMultisigAddress(Members, Threshold)
Vault == deriveVaultAddress(Multisig, 0)

MultisigConfig == [members : Seq(Address), threshold : Nat, transactionIndex : 0..MaxIndex]

VaultTransactionData ==
    [multisig : Address, transactionIndex : 1..MaxIndex, creator : Address, executed : BOOLEAN,
     approvals : Seq(Address), message : TransactionMessage, payer : Address]

\* Callers give lists, instructions and messages of the SDK's types, the
\* addresses they derive are pubkeys, and a byte numbers the accounts of any
\* message that the program accepts.
ASSUME ClientAssumption ==
    /\ Members \in Seq(Address) /\ Threshold \in Nat
    /\ Multisig \in Address /\ Vault \in Address
    /\ SYSTEM_PROGRAM \in Address /\ Creators \subseteq Address
    /\ MemberLists \cup TableLists \subseteq Seq(Address)
    /\ Requests \subseteq Seq(TransactionInstruction)
    /\ Foreign \in TransactionMessage
    /\ None \notin MultisigConfig
    /\ MaxIndex \in Nat /\ MaxInFlight \in Nat
    /\ MAX_TX_ACCOUNT_KEYS \in 0..BYTE

-----------------------------------------------------------------------------
(***************************************************************************)
(* Address lookup tables: addresses appended in the present slot cannot be *)
(* used before the next one, and a node may not have seen them yet.        *)
(***************************************************************************)

TableAt(recentSlot) == <<"table", Payer, recentSlot>>
TableAddress == { TableAt(s) : s \in RecentSlots }

NoTable == [addresses |-> <<>>, start |-> 0, fresh |-> FALSE, seen |-> 0]

Usable(table) ==
    ToSet(IF table.fresh THEN SubSeq(table.addresses, 1, table.start) ELSE table.addresses)

\* Creating a table that exists changes nothing; extending it appends.
Extended(table, addresses) ==
    [table EXCEPT !.addresses = @ \o addresses,
                  !.start = IF table.fresh THEN @ ELSE Len(table.addresses),
                  !.fresh = TRUE]

\* getAddressLookupTable: what the node has seen, or null.
View(table) == SubSeq(table.addresses, 1, table.seen)

-----------------------------------------------------------------------------
(***************************************************************************)
(* Calls.                                                                  *)
(***************************************************************************)

Idle == [method |-> "none", pc |-> "returned"]
Ended(c) == calls[c].pc \in {"returned", "threw"}

Becomes(c, call) == calls' = [calls EXCEPT ![c] = call]
Throws(c) == Becomes(c, [method |-> "none", pc |-> "threw"])

Init ==
    /\ \/ multisig = None
       \/ multisig = [members |-> sortMembers(Members), threshold |-> Threshold,
                      transactionIndex |-> 0]
    /\ proposals = [i \in 1..MaxIndex |-> None]
    /\ accepted = <<>>
    /\ tables = [t \in TableAddress |-> NoTable]
    /\ network = {}
    /\ calls = [c \in Caller |-> Idle]

\* The transaction of one of the client's own methods.
Own(ix) == [feePayer |-> Payer, instructions |-> priorityInstructions(1) \o <<ix>>]

\* The encoder's buffer holds the arguments, and the packet the transaction.
EncoderHolds(ix) == DataBytes(ix.data) - 8 <= IX_BUFFER_SIZE
Submittable(ix) == EncoderHolds(ix) /\ Serializes(Own(ix))

Submit(c, ix, lookups, call) ==
    /\ Cardinality(network) < MaxInFlight
    /\ network' = network \cup
          {[ix |-> ix, lookups |-> lookups, waiting |-> c,
            request |-> IF call.method = "createTransaction" THEN call.request ELSE None]}
    /\ Becomes(c, [call EXCEPT !.pc = "sent"])

NoLookups == [table |-> None, keys |-> {}]

\* .rpc(): it throws when the client was constructed without a wallet, and
\* when the transaction is too long to be encoded or sent.
Rpc(c, ix, call) ==
    \/ Throws(c) /\ UNCHANGED network
    \/ Submittable(ix) /\ Submit(c, ix, NoLookups, call)

-----------------------------------------------------------------------------
(***************************************************************************)
(* createTransaction and createTransactionFromMessage.                     *)
(***************************************************************************)

createTransactionFromMessage(c, request, message, creator) ==
    /\ Ended(c)
    /\ Becomes(c, [method |-> "createTransaction", pc |-> "fetching", request |-> request,
                   message |-> message, creator |-> creator,
                   transactionIndex |-> 0])
    /\ UNCHANGED <<multisig, proposals, accepted, tables, network>>

MessageFor == [request \in Requests |-> buildMessageFromInstructions(Vault, request)]

createTransaction(c, request, creator) ==
    createTransactionFromMessage(c, request, MessageFor[request], creator)

\* The account's counter is a BN at run time.  Adding a BigInt to it writes
\* a 1 after its digits, and the result is read as a number.
NextTransactionIndex(counter) == counter * 10 + 1

\* getMultisig answered with the account.
FetchMultisig(c) ==
    /\ calls[c].pc = "fetching"
    /\ multisig # None
    /\ LET call == calls[c]
           index == NextTransactionIndex(multisig.transactionIndex)
       IN  Rpc(c,
               buildCreateTransactionInstruction(Multisig, index - 1, 0, call.message,
                                                 call.creator, call.creator),
               [call EXCEPT !.transactionIndex = index])
    /\ UNCHANGED <<multisig, proposals, accepted, tables>>

-----------------------------------------------------------------------------
(***************************************************************************)
(* approveTransaction and executeTransaction: one await each.              *)
(***************************************************************************)

approveTransaction(c, index, member) ==
    /\ Ended(c)
    /\ Rpc(c, buildApproveTransactionInstruction(Multisig, index, member),
           [method |-> "approveTransaction", pc |-> "sent"])
    /\ UNCHANGED <<multisig, proposals, accepted, tables>>

executeTransaction(c, index, executor, remainingAccounts) ==
    /\ Ended(c)
    /\ Rpc(c,
           buildExecuteTransactionInstruction(Multisig, index, executor, remainingAccounts),
           [method |-> "executeTransaction", pc |-> "sent"])
    /\ UNCHANGED <<multisig, proposals, accepted, tables>>

getTransaction(index) == proposals[index]

-----------------------------------------------------------------------------
(***************************************************************************)
(* createMembersAddressLookupTable.                                        *)
(***************************************************************************)

TableContents(members) == sortMembers(members) \o <<SYSTEM_PROGRAM>>

createMembersAddressLookupTable(c, members, recentSlot) ==
    /\ Ended(c)
    /\ IF members = <<>>
         THEN /\ Throws(c)
              /\ UNCHANGED network
         ELSE Submit(c,
                Instruction(ALT_PROGRAM_ID, <<Writable(TableAt(recentSlot)), WritableSigner(Payer)>>,
                    [op |-> "extendLookupTable", addresses |-> TableContents(members)]),
                NoLookups,
                [method |-> "createTable", pc |-> "sent", members |-> members,
                 table |-> TableAt(recentSlot), waited |-> 0])
    /\ UNCHANGED <<multisig, proposals, accepted, tables>>

ReadStartSlot(c) ==
    /\ calls[c].pc = "confirmed"
    /\ Becomes(c, [calls[c] EXCEPT !.pc = "warming"])
    /\ UNCHANGED <<multisig, proposals, accepted, tables, network>>

\* The slot is past startSlot + 1.  The variant does not wait.
NoWarmUp(call) == call.waited >= 0
WarmedUp(call) == call.waited > 1

EndWarmUp(c) ==
    /\ calls[c].pc = "warming" /\ WarmedUp(calls[c])
    /\ Becomes(c, [calls[c] EXCEPT !.pc = "polling"])
    /\ UNCHANGED <<multisig, proposals, accepted, tables, network>>

PollTable(c) ==
    /\ calls[c].pc = "polling"
    /\ Len(View(tables[calls[c].table])) = Len(TableContents(calls[c].members))
    /\ Becomes(c, [calls[c] EXCEPT !.pc = "returned"])
    /\ UNCHANGED <<multisig, proposals, accepted, tables, network>>

\* Ten seconds of polling.  The variant polls for ever.
NoDeadline(call) == call.pc = "idle"
DeadlinePasses(call) == call.pc = "polling"

GiveUp(c) ==
    /\ DeadlinePasses(calls[c])
    /\ Throws(c)
    /\ UNCHANGED <<multisig, proposals, accepted, tables, network>>

-----------------------------------------------------------------------------
(***************************************************************************)
(* initialize.                                                             *)
(***************************************************************************)

initialize(c, members, threshold, membersAlt) ==
    /\ Ended(c)
    /\ Becomes(c, [method |-> "initialize", members |-> members, threshold |-> threshold,
                   table |-> membersAlt,
                   pc |-> IF validateConfig(members, threshold) THEN "compiling" ELSE "threw"])
    /\ UNCHANGED <<multisig, proposals, accepted, tables, network>>

\* getAddressLookupTable answered: the compiler takes from the table every
\* key that is in it.
FetchTable(c) ==
    /\ calls[c].pc = "compiling"
    /\ LET call == calls[c]
           view == View(tables[call.table])
       IN  /\ view # <<>>
           /\ Submit(c,
                buildInitializeMultisigInstruction(call.members, call.threshold, Payer),
                [table |-> call.table,
                 keys |-> ToSet(TableContents(call.members)) \cap ToSet(view)],
                call)
    /\ UNCHANGED <<multisig, proposals, accepted, tables>>

-----------------------------------------------------------------------------
(***************************************************************************)
(* The cluster.  The effects are those of the program (SolanaMultisig has  *)
(* them in full); other clients send their own transactions.               *)
(***************************************************************************)

Account(ix, n) == ix.keys[n].pubkey

\* The proposal account is the one of the next index.  The variant takes any.
AcceptsAnyAddress(ix) ==
    /\ multisig # None
    /\ multisig.transactionIndex < MaxIndex
    /\ Account(ix, 3) \in ToSet(multisig.members)
    /\ ValidMessage(ix.data.message, deriveVaultAddress(Account(ix, 1), ix.data.vault_index))

AcceptsCreate(ix) ==
    /\ multisig # None
    /\ multisig.transactionIndex < MaxIndex
    /\ Account(ix, 2) = transaction_pda(Account(ix, 1), multisig.transactionIndex + 1)
    /\ Account(ix, 3) \in ToSet(multisig.members)
    /\ ValidMessage(ix.data.message, deriveVaultAddress(Account(ix, 1), ix.data.vault_index))

Created(ix, request) ==
    LET index == multisig.transactionIndex + 1
        proposal == [multisig |-> Account(ix, 1), transactionIndex |-> index,
                     creator |-> Account(ix, 3), executed |-> FALSE, approvals |-> <<>>,
                     message |-> ix.data.message, payer |-> Account(ix, 4)]
    IN  /\ multisig' = [multisig EXCEPT !.transactionIndex = index]
        /\ proposals' = [proposals EXCEPT ![index] = proposal]
        /\ accepted' = Append(accepted, [request |-> request, message |-> ix.data.message,
                                         creator |-> Account(ix, 3)])

ProposalOf(ix) ==
    IF ix.data.transaction_index \in 1..MaxIndex THEN proposals[ix.data.transaction_index] ELSE None

\* The variant counts an approval twice.
ApprovesTwice(ix) ==
    /\ multisig # None /\ ProposalOf(ix) # None
    /\ Account(ix, 3) \in ToSet(multisig.members)
    /\ ~ProposalOf(ix).executed

AcceptsApproval(ix) ==
    /\ multisig # None /\ ProposalOf(ix) # None
    /\ Account(ix, 3) \in ToSet(multisig.members)
    /\ ~ProposalOf(ix).executed
    /\ Account(ix, 3) \notin ToSet(ProposalOf(ix).approvals)

AcceptsExecution(ix) ==
    /\ multisig # None /\ ProposalOf(ix) # None
    /\ ~ProposalOf(ix).executed
    /\ Len(ProposalOf(ix).approvals) >= multisig.threshold
    /\ IsPrefix(ProposalOf(ix).message.account_keys,
                SubSeq(Pubkeys(ix.keys), 4, Len(ix.keys)))

AcceptsInitialize(ix, lookups) ==
    /\ multisig = None
    /\ Len(ix.keys) - 3 <= MAX_MEMBERS
    /\ lookups.keys \subseteq Usable(tables[lookups.table])

AcceptsExtension(ix) ==
    Len(tables[Account(ix, 1)].addresses) + Len(ix.data.addresses) <= MAX_TABLE_ADDRESSES

Accepts(tx) ==
    CASE tx.ix.data.op = "create_transaction" -> AcceptsCreate(tx.ix)
      [] tx.ix.data.op = "approve_transaction" -> AcceptsApproval(tx.ix)
      [] tx.ix.data.op = "execute_transaction" -> AcceptsExecution(tx.ix)
      [] tx.ix.data.op = "initialize_multisig" -> AcceptsInitialize(tx.ix, tx.lookups)
      [] tx.ix.data.op = "extendLookupTable" -> AcceptsExtension(tx.ix)

\* What an accepted transaction changes.
TakesEffect(tx) ==
    LET ix == tx.ix IN
    \/ /\ ix.data.op = "create_transaction"
       /\ Created(ix, tx.request)
       /\ UNCHANGED tables
    \/ /\ ix.data.op = "approve_transaction"
       /\ proposals' = [proposals EXCEPT ![ix.data.transaction_index].approvals =
                                            Append(@, Account(ix, 3))]
       /\ UNCHANGED <<multisig, accepted, tables>>
    \/ /\ ix.data.op = "execute_transaction"
       /\ proposals' = [proposals EXCEPT ![ix.data.transaction_index].executed = TRUE]
       /\ UNCHANGED <<multisig, accepted, tables>>
    \/ /\ ix.data.op = "initialize_multisig"
       /\ multisig' = [members |-> SubSeq(Pubkeys(ix.keys), 4, Len(ix.keys)),
                       threshold |-> ix.data.threshold, transactionIndex |-> 0]
       /\ UNCHANGED <<proposals, accepted, tables>>
    \/ /\ ix.data.op = "extendLookupTable"
       /\ tables' = [tables EXCEPT ![Account(ix, 1)] = Extended(@, ix.data.addresses)]
       /\ UNCHANGED <<multisig, proposals, accepted>>

\* The caller that still waits gets its answer.  Approvals, executions and
\* initialize tell it no more than that.
Answered(c, method) ==
    CASE method = "createTransaction" -> Becomes(c, [calls[c] EXCEPT !.pc = "returned"])
      [] method = "createTable" -> Becomes(c, [calls[c] EXCEPT !.pc = "confirmed"])
      [] OTHER -> Becomes(c, Idle)

Land(tx) ==
    /\ tx \in network
    /\ Accepts(tx)
    /\ network' = network \ {tx}
    /\ TakesEffect(tx)
    /\ IF tx.waiting = None THEN UNCHANGED calls
                            ELSE Answered(tx.waiting, calls[tx.waiting].method)

\* It fails in preflight or on chain, or expires.  initialize does not look
\* at the result that confirmTransaction reports.
Fail(tx) ==
    /\ tx \in network
    /\ network' = network \ {tx}
    /\ \/ tx.waiting = None /\ UNCHANGED calls
       \/ tx.waiting # None /\ Throws(tx.waiting)
       \/ /\ tx.waiting # None /\ calls[tx.waiting].method = "initialize"
          /\ ~Accepts(tx)
          /\ Answered(tx.waiting, "initialize")
    /\ UNCHANGED <<multisig, proposals, accepted, tables>>

\* An account that is fetched is missing, or a request fails or is not
\* answered in time.  What was sent may land all the same.
NoAnswer(c) ==
    /\ calls[c].pc \in {"fetching", "compiling", "sent"}
    /\ network' = { [tx EXCEPT !.waiting = IF @ = c THEN None ELSE @] : tx \in network }
    /\ Throws(c)
    /\ UNCHANGED <<multisig, proposals, accepted, tables>>

NewSlot ==
    /\ tables' = [t \in TableAddress |-> [tables[t] EXCEPT !.fresh = FALSE,
                                                         !.start = Len(tables[t].addresses)]]
    /\ calls' = [c \in Caller |->
                    IF calls[c].pc = "warming" /\ ~WarmedUp(calls[c])
                      THEN [calls[c] EXCEPT !.waited = @ + 1] ELSE calls[c]]
    /\ UNCHANGED <<multisig, proposals, accepted, network>>

NodeSees(t) ==
    /\ tables' = [tables EXCEPT ![t].seen = Len(tables[t].addresses)]
    /\ UNCHANGED <<multisig, proposals, accepted, network, calls>>

ForeignCreate(creator) ==
    LET ix == buildCreateTransactionInstruction(Multisig, multisig.transactionIndex, 0, Foreign,
                                                creator, creator)
    IN  /\ multisig # None
        /\ AcceptsCreate(ix)
        /\ Created(ix, None)
        /\ UNCHANGED <<tables, network, calls>>

ForeignClose(index) ==
    /\ proposals[index] # None
    /\ proposals' = [proposals EXCEPT ![index] = None]
    /\ UNCHANGED <<multisig, accepted, tables, network, calls>>

-----------------------------------------------------------------------------
(***************************************************************************)
(* The specification.                                                      *)
(***************************************************************************)

\* The metas a caller passes on to an execution: those of one message.
ForeignAccounts ==
    [i \in DOMAIN Foreign.account_keys |-> Readonly(Foreign.account_keys[i])]

\* A bound: callers set up a multisig that does not exist, or propose before
\* any table was built.  The calls that are open then go on either way.
MaySetUp == multisig = None
MayPropose == \A t \in TableAddress : tables[t] = NoTable

CallMade(c) ==
    \/ /\ MayPropose
       /\ \/ \E request \in Requests, creator \in Creators :
                createTransaction(c, request, creator)
          \/ \E creator \in Creators :
                createTransactionFromMessage(c, None, Foreign, creator)
          \/ \E index \in Indexes, member \in Creators :
                approveTransaction(c, index, member)
          \/ \E index \in Indexes, executor \in Creators :
                executeTransaction(c, index, executor, ForeignAccounts)
    \/ /\ MaySetUp
       /\ \/ \E members \in TableLists, recentSlot \in RecentSlots :
                createMembersAddressLookupTable(c, members, recentSlot)
          \/ \E members \in MemberLists, membersAlt \in TableAddress :
                initialize(c, members, Threshold, membersAlt)

CallGoesOn(c) == FetchMultisig(c) \/ FetchTable(c) \/ PollTable(c)

\* What a call does without the help of others.
CallSettles(c) == ReadStartSlot(c) \/ EndWarmUp(c) \/ GiveUp(c) \/ NoAnswer(c)

Cluster ==
    \/ \E tx \in network : Land(tx) \/ Fail(tx)
    \/ NewSlot
    \/ \E t \in TableAddress : NodeSees(t)
    \/ MayPropose /\ \E creator \in Creators : ForeignCreate(creator)
    \/ \E index \in 1..MaxIndex : ForeignClose(index)

Next == (\E c \in Caller : CallMade(c) \/ CallGoesOn(c) \/ CallSettles(c)) \/ Cluster

\* Slots go on; a request that is not answered fails, and timers run out.
Fairness ==
    /\ WF_vars(NewSlot)
    /\ \A c \in Caller : WF_vars(CallSettles(c))

Spec == Init /\ [][Next]_vars /\ Fairness

-----------------------------------------------------------------------------
(***************************************************************************)
(* Properties.                                                             *)
(***************************************************************************)

\* The accounts stay those of one program: a counter that numbers every
\* accepted creation, and approvals of distinct members.
TypeOK ==
    /\ multisig \in MultisigConfig \cup {None}
    /\ multisig # None => multisig.transactionIndex = Len(accepted)
    /\ \A i \in 1..MaxIndex : proposals[i] # None =>
          /\ proposals[i] \in VaultTransactionData
          /\ proposals[i].transactionIndex = i /\ i <= Len(accepted)
          /\ IsInjective(proposals[i].approvals)
          /\ ToSet(proposals[i].approvals) \subseteq ToSet(multisig.members)
    /\ Cardinality(network) <= MaxInFlight

\* The index that createTransactionFromMessage returns names the caller's own
\* message for good, whatever was created, timed out, landed late or was
\* closed meanwhile (client.ts:475).
CreatedIsOwn ==
    \A c \in Caller :
        LET call == calls[c] IN
        call.method = "createTransaction" /\ call.pc = "returned" =>
            /\ call.transactionIndex \in DOMAIN accepted
            /\ accepted[call.transactionIndex].message = call.message
            /\ accepted[call.transactionIndex].creator = call.creator
            /\ getTransaction(call.transactionIndex) # None =>
                  getTransaction(call.transactionIndex).message = call.message

\* What the program resolves from a stored message is what createTransaction
\* was asked for: each instruction's program, accounts and data, and each
\* account with the privileges of all its mentions (utils.ts:165).
MessageFaithful ==
    \A n \in DOMAIN accepted : accepted[n].request # None =>
        LET request == accepted[n].request
            message == accepted[n].message
            mentions(key) == { m \in UNION { ToSet(request[i].keys) : i \in DOMAIN request } : m.pubkey = key }
            Merged(meta) ==
                IF meta.pubkey = Vault THEN WritableSigner(Vault)
                ELSE Meta(meta.pubkey, \E m \in mentions(meta.pubkey) : m.isSigner,
                          \E m \in mentions(meta.pubkey) : m.isWritable)
        IN  /\ Len(message.instructions) = Len(request)
            /\ \A i \in DOMAIN request :
                  Resolved(message, message.instructions[i]) =
                      [request[i] EXCEPT !.keys = [k \in DOMAIN @ |-> Merged(@[k])]]

\* A table that was returned serves initialize at once: all its members and
\* the System program can be looked up in this very slot (client.ts:236).
TableIsReady ==
    \A c \in Caller :
        calls[c].method = "createTable" /\ calls[c].pc = "returned" =>
            ToSet(TableContents(calls[c].members)) \subseteq Usable(tables[calls[c].table])

\* Every call returns or throws, though answers are lost and a node never
\* reports a table, or reports one that a second caller extended.
CallsEnd == \A c \in Caller : ~Ended(c) ~> Ended(c)

\* A creation that nobody overtakes aims at transaction_index + 1, whatever
\* type the counter has at run time (client.ts:656).
CreatesNext ==
    [][\A tx \in network' \ network :
          tx.ix.data.op = "create_transaction" /\ tx.waiting # None =>
              Account(tx.ix, 2) = transaction_pda(Multisig, multisig.transactionIndex + 1)]_vars

=============================================================================
