--------------------------- MODULE SolanaMultisig ---------------------------
(***************************************************************************)
(* The on-chain multisig program, run by the Solana runtime.               *)
(*                                                                         *)
(* One outer Solana transaction is open at a time (two transactions that   *)
(* write the same account never overlap).  It is a bundle of instructions  *)
(* that commits as a whole or not at all: the variables multisig .. log    *)
(* are the working copy the bundle reads and writes, committed is the      *)
(* ledger everybody else sees, Commit publishes the working copy and Abort *)
(* throws it away.                                                         *)
(*                                                                         *)
(* execute_transaction is the one handler that is not a single step: it    *)
(* pushes a frame, and each instruction of the stored message is one CPI   *)
(* of that frame.  A CPI may call any handler of this program again, this  *)
(* one included, signed by the vault.  A frame holds the account structs   *)
(* Anchor deserialized when it was entered, which is what makes a stale    *)
(* write possible.                                                         *)
(***************************************************************************)
EXTENDS ProposalMessage

CONSTANTS
    Messages,         \* the messages clients propose
    Decode,           \* what this program or System reads in a payload
    MemberLists,      \* the member lists clients initialize a multisig with
    VaultIndexes,     \* the vault indexes clients use
    SignerSets,       \* the sets of keys that may sign one outer transaction
    Prefundable,      \* the addresses somebody may send a lamport to
    InitialLamports,  \* balances before the program is used
    RECENT_BLOCKHASHES, RENT,  \* the sysvars of provision_nonce
    ForeignAmounts,   \* bound: what another program may move of a signer's lamports
    U64_MAX,          \* largest transaction_index
    MaxIxs,           \* bound: instructions of one outer transaction
    MaxDepth          \* bound: nested execute_transaction frames

ASSUME ConstantsAssumption ==
    /\ Messages \subseteq TransactionMessage
    /\ MemberLists \subseteq Seq(Address)
    /\ VaultIndexes \subseteq Nat
    /\ SignerSets \subseteq SUBSET Address
    /\ {} \notin SignerSets
    /\ InitialLamports \in [Address -> Nat]
    /\ ForeignAmounts \subseteq Nat
    /\ {U64_MAX, MAX_MEMBERS, MAX_TX_ACCOUNT_KEYS, MAX_TX_INSTRUCTIONS,
        MAX_PROPOSAL_ACCOUNT_BYTES} \subseteq Nat
    /\ MaxIxs \in Nat /\ MaxDepth \in Nat
    /\ Prefundable \subseteq Address
    /\ DataLen \in [Data -> Nat]

\* The payloads of the instructions this model gives a meaning to.
ASSUME DecodeAssumption ==
    /\ DOMAIN Decode = Data
    /\ \A d \in Data :
          /\ Decode[d].op = "transfer" => Decode[d].lamports \in Nat
          /\ Decode[d].op = "create_transaction" =>
                Decode[d].vault_index \in Nat /\ Decode[d].message \in Messages
          /\ Decode[d].op \in {"approve_transaction", "execute_transaction",
                               "close_transaction"} =>
                Decode[d].transaction_index \in Nat
          /\ Decode[d].op = "initialize_multisig" =>
                Decode[d].threshold \in Nat /\ Decode[d].member_count \in Nat

\* A program-derived address has no private key: the address of a proposal never
\* signs an outer transaction.
ASSUME SignersAssumption ==
    \A ms \in Address, i \in 1..U64_MAX : \A keys \in SignerSets :
        transaction_pda(ms, i) \notin keys

VARIABLES
    multisig,     \* Multisig accounts, by address
    transaction,  \* live VaultTransaction accounts, by address
    nonce,        \* authority of each provisioned nonce account, by address
    lamports,     \* balance of every address
    consent,      \* history: who approved which message of which proposal
    log,          \* history: the CPIs run for proposals, in order
    committed,    \* the ledger as of the last committed outer transaction
    signers,      \* keys that signed the open outer transaction; {} if none is open
    stack,        \* frames of execute_transaction, innermost last
    ixs           \* instructions processed so far in the open outer transaction

ledgerVars == <<multisig, transaction, nonce, lamports, consent, log>>
vars == <<multisig, transaction, nonce, lamports, consent, log,
          committed, signers, stack, ixs>>

Ledger == [multisig |-> multisig, transaction |-> transaction, nonce |-> nonce,
           lamports |-> lamports, consent |-> consent, log |-> log]

Init ==
    /\ multisig = <<>>
    /\ transaction = <<>>
    /\ nonce = <<>>
    /\ lamports = InitialLamports
    /\ consent = {}
    /\ log = <<>>
    /\ committed = Ledger
    /\ signers = {}
    /\ stack = <<>>
    /\ ixs = 0

-----------------------------------------------------------------------------
(***************************************************************************)
(* The runtime's services (external).                                      *)
(***************************************************************************)

\* The rent-exempt minimum grows with the size; one lamport per byte here.
Rent(bytes) == 128 + bytes

Moved(from, to, amount) ==
    [lamports EXCEPT ![from] = @ - amount, ![to] = @ + amount]

\* What is missing for rent exemption; an address may have been funded before.
Missing(acct, bytes) ==
    IF Rent(bytes) > lamports[acct] THEN Rent(bytes) - lamports[acct] ELSE 0

CanFundUnchecked(payer, acct, bytes) == TRUE
CanFund(payer, acct, bytes) == lamports[payer] >= Missing(acct, bytes)

\* Anchor's init: the payer tops the address up, System allocates it.
AnchorInit(acct, payer, bytes, sig, wr) ==
    /\ acct \in Address
    /\ bytes \in 0..MAX_PROPOSAL_ACCOUNT_BYTES
    /\ payer \in sig
    /\ {acct, payer} \subseteq wr
    /\ acct # payer
    /\ CanFund(payer, acct, bytes)
    /\ lamports' = Moved(payer, acct, Missing(acct, bytes))

\* A function with one more, or one less, point.
With(f, x, v) == [y \in DOMAIN f \cup {x} |-> IF y = x THEN v ELSE f[y]]
Without(f, x) == [y \in DOMAIN f \ {x} |-> f[y]]

-----------------------------------------------------------------------------
(***************************************************************************)
(* The handlers.  sig and wr are the accounts the instruction passes as    *)
(* signers and as writable; a handler that is not enabled fails, and the   *)
(* outer transaction can then only Abort.                                  *)
(***************************************************************************)

\* The accounts passed as members are the ones the address was derived from.
HashUnbound(sorted_members, member_hash) == TRUE
HashBound(sorted_members, member_hash) == hash_members(sorted_members) = member_hash

\* member_count is a u8, so members.len() as u8 never truncates.
initialize_multisig(ms, payer, members, member_hash, threshold, member_count, sig, wr) ==
    /\ ms = multisig_pda(member_hash, threshold)
    /\ ms \notin DOMAIN multisig
    /\ AnchorInit(ms, payer, compute_multisig_space(member_count), sig, wr)
    /\ Len(members) = member_count
    /\ threshold > 0 /\ threshold <= Len(members)
    /\ Len(members) <= MAX_MEMBERS
    /\ \E sorted_members \in Sorted(members) :
          /\ AdjacentDistinct(sorted_members)
          /\ HashBound(sorted_members, member_hash)
          /\ multisig' = With(multisig, ms,
                [members |-> sorted_members, threshold |-> threshold,
                 transaction_index |-> 0])
    /\ UNCHANGED <<transaction, nonce, consent>>

\* The index a proposal claims.  The variant counts the live proposals.
NextIndexByCount(ms) ==
    1 + Cardinality({ txn \in DOMAIN transaction : transaction[txn].multisig = ms })
NextIndex(ms) == multisig[ms].transaction_index + 1

\* The space Anchor allocates.  The variant reserves threshold approvals.
SpaceForThreshold(ms, message) == compute_proposal_space(message, multisig[ms].threshold)
SpaceFor(ms, message) == compute_proposal_space(message, Len(multisig[ms].members))

create_transaction(ms, txn, creator, payer, vault_index, message, sig, wr) ==
    /\ ms \in DOMAIN multisig
    /\ ms \in wr
    /\ creator \in sig
    /\ LET new_index == NextIndex(ms)
           space == SpaceFor(ms, message)
       IN
       /\ new_index <= U64_MAX
       /\ txn = transaction_pda(ms, new_index)
       /\ txn \notin DOMAIN transaction
       /\ AnchorInit(txn, payer, space, sig, wr)
       /\ creator \in ToSet(multisig[ms].members)
       /\ ValidMessage(message, derive_vault_pda(ms, vault_index))
       /\ multisig' = [multisig EXCEPT ![ms].transaction_index = new_index]
       /\ transaction' = With(transaction, txn,
             [multisig |-> ms, transaction_index |-> new_index,
              creator |-> creator, payer |-> payer, vault_index |-> vault_index,
              executed |-> FALSE, approvals |-> <<>>, message |-> message,
              space |-> space])
    /\ UNCHANGED <<nonce, consent>>

\* The seeds constraint and the two checks approve, execute and close share.
BoundTo(ms, txn, transaction_index, wr) ==
    /\ ms \in DOMAIN multisig
    /\ txn \in DOMAIN transaction
    /\ txn \in wr
    /\ txn = transaction_pda(ms, transaction_index)
    /\ transaction[txn].multisig = ms
    /\ transaction[txn].transaction_index = transaction_index

\* Bytes the struct serializes to; Anchor's exit fails when they do not fit.
SerializedLen(t) == compute_proposal_space(t.message, Len(t.approvals))

\* Each member counts once, and only before execution.
ApprovesAgain(txn, member) == TRUE
NotYetApproved(txn, member) == member \notin ToSet(transaction[txn].approvals)
AlwaysOpen(txn) == TRUE
OpenForApproval(txn) == ~transaction[txn].executed

approve_transaction(ms, txn, member, transaction_index, sig, wr) ==
    /\ BoundTo(ms, txn, transaction_index, wr)
    /\ member \in sig
    /\ OpenForApproval(txn)
    /\ member \in ToSet(multisig[ms].members)
    /\ NotYetApproved(txn, member)
    /\ LET t == [transaction[txn] EXCEPT !.approvals = Append(@, member)] IN
       /\ SerializedLen(t) <= t.space
       /\ transaction' = [transaction EXCEPT ![txn] = t]
    /\ consent' = consent \cup {[member |-> member, transaction |-> txn,
                                 message |-> transaction[txn].message]}
    /\ UNCHANGED <<multisig, nonce, lamports>>

\* exit() writes the struct through before the first CPI; the variant leaves it
\* in the cache until the handler returns.
KeptInCache(txn, marked) == transaction
Flushed(txn, marked) == [transaction EXCEPT ![txn] = marked]

\* The variant lets one approval less through.
AlmostEnough(ms, txn) == Len(transaction[txn].approvals) + 1 >= multisig[ms].threshold
EnoughApprovals(ms, txn) == Len(transaction[txn].approvals) >= multisig[ms].threshold

\* Everything before the CPI loop: the executed flag is written through to the
\* account, and the frame keeps the structs the Context deserialized.  caller
\* is the stack the frame is pushed on.
execute_transaction(ms, txn, executor, transaction_index, remaining, sig, wr, caller) ==
    /\ BoundTo(ms, txn, transaction_index, wr)
    /\ executor \in sig
    /\ Len(caller) < MaxDepth
    /\ ~transaction[txn].executed
    /\ EnoughApprovals(ms, txn)
    /\ LET marked == [transaction[txn] EXCEPT !.executed = TRUE]
           account_keys == marked.message.account_keys
       IN
       /\ transaction' = Flushed(txn, marked)
       /\ Len(account_keys) <= MAX_COMBINED_ACCOUNTS
       /\ Len(remaining) >= Len(account_keys)
       /\ \A i \in DOMAIN account_keys : remaining[i] = account_keys[i]
       /\ stack' = Append(caller,
             [multisig |-> ms, transaction |-> txn, pc |-> 1,
              signers |-> sig, writable |-> wr,
              cached_multisig |-> multisig[ms], cached |-> marked])
    /\ UNCHANGED <<multisig, nonce, lamports, consent>>

AnybodyCloses(txn, payer) == TRUE
HasOnePayer(txn, payer) == transaction[txn].payer = payer

\* has_one = payer, close = payer: every lamport of the account goes to the
\* payer and the account is gone.  executed is not required.
close_transaction(ms, txn, payer, transaction_index, sig, wr) ==
    /\ BoundTo(ms, txn, transaction_index, wr)
    /\ payer \in sig
    /\ payer \in wr
    /\ HasOnePayer(txn, payer)
    /\ lamports' = Moved(txn, payer, lamports[txn])
    /\ transaction' = Without(transaction, txn)
    /\ UNCHANGED <<multisig, nonce, consent>>

\* create_account_with_seed refuses an address that holds lamports.  The base
\* signs with the seeds of the multisig, rebuilt from its members.
provision_nonce(ms, nonce_account, payer, sig, wr) ==
    LET rent_lamports == Rent(80) IN
    /\ ms \in DOMAIN multisig
    /\ ms = multisig_pda(hash_members(multisig[ms].members), multisig[ms].threshold)
    /\ nonce_account = nonce_address(ms)
    /\ nonce_account \in Address
    /\ payer \in sig
    /\ {nonce_account, payer} \subseteq wr
    /\ lamports[nonce_account] = 0
    /\ lamports[payer] >= rent_lamports
    /\ lamports' = Moved(payer, nonce_account, rent_lamports)
    /\ nonce' = With(nonce, nonce_account, payer)
    /\ UNCHANGED <<multisig, transaction, consent>>

-----------------------------------------------------------------------------
(***************************************************************************)
(* Instructions of the outer transaction.                                  *)
(***************************************************************************)

\* The next top-level instruction; its handler is the rest of the action.
TopLevel ==
    /\ signers # {}
    /\ stack = <<>>
    /\ ixs < MaxIxs
    /\ ixs' = ixs + 1
    /\ UNCHANGED <<log, committed, signers>>

\* The caller claims a hash and a count, which need not fit the accounts.
InitializeMultisig ==
    /\ TopLevel
    /\ \E members, claimed \in MemberLists, payer \in signers,
          threshold \in 0..(MAX_MEMBERS + 1) :
       \E member_count \in {Len(members), Len(claimed)} :
          LET member_hash == hash_members(claimed)
              ms == multisig_pda(member_hash, threshold)
          IN initialize_multisig(ms, payer, members, member_hash, threshold,
                                 member_count, signers, {ms, payer})
    /\ UNCHANGED stack

\* The client computed the proposal address from an index it read earlier.
CreateTransaction ==
    /\ TopLevel
    /\ \E ms \in DOMAIN multisig, creator, payer \in signers, message \in Messages,
          vault_index \in VaultIndexes, index \in 1..U64_MAX :
          LET txn == transaction_pda(ms, index) IN
          create_transaction(ms, txn, creator, payer, vault_index, message,
                             signers, {ms, txn, payer})
    /\ UNCHANGED stack

ApproveTransaction ==
    /\ TopLevel
    /\ \E ms \in DOMAIN multisig, txn \in DOMAIN transaction,
          member \in signers, index \in 1..U64_MAX :
          approve_transaction(ms, txn, member, index, signers, {txn})
    /\ UNCHANGED stack

\* Anybody may execute, with whatever accounts.  The bundle marks writable
\* every account it lists, so only the message decides what a CPI may write.
ExecuteTransaction ==
    /\ TopLevel
    /\ \E ms \in DOMAIN multisig, txn \in DOMAIN transaction,
          executor \in signers, index \in 1..U64_MAX,
          remaining \in {m.account_keys : m \in Messages} :
          execute_transaction(ms, txn, executor, index, remaining, signers,
                              {txn} \cup ToSet(remaining), <<>>)

CloseTransaction ==
    /\ TopLevel
    /\ \E ms \in DOMAIN multisig, txn \in DOMAIN transaction,
          payer \in signers, index \in 1..U64_MAX :
          close_transaction(ms, txn, payer, index, signers, {txn, payer})
    /\ UNCHANGED stack

ProvisionNonce ==
    /\ TopLevel
    /\ \E ms \in DOMAIN multisig, payer \in signers :
          LET nonce_account == nonce_address(ms) IN
          provision_nonce(ms, nonce_account, payer, signers, {nonce_account, payer})
    /\ UNCHANGED stack

\* A plain System transfer: somebody sends a lamport to an empty address.
Prefund ==
    /\ TopLevel
    /\ \E from \in signers, to \in Prefundable :
          /\ lamports[from] >= 1
          /\ lamports[to] = 0
          /\ lamports' = Moved(from, to, 1)
    /\ UNCHANGED <<multisig, transaction, nonce, consent, stack>>

-----------------------------------------------------------------------------
(***************************************************************************)
(* The CPI loop of execute_transaction, one instruction per step.          *)
(***************************************************************************)

Instruction(f) == f.cached.message.instructions[f.pc]
Metas(f) == account_metas(f.cached.message, Instruction(f))
Arg(f, k) == Metas(f)[k].pubkey
Payload(f) == Decode[Instruction(f).data]
ProgramOf(f) == f.cached.message.account_keys[Instruction(f).program_id_index + 1]

\* The one key the program can sign for: the vault the proposal targets.
VaultOf(f) == derive_vault_pda(f.multisig, f.cached.vault_index)

\* The runtime's rule for a CPI: no privilege the caller does not have, save
\* the signature of the address whose seeds it supplies.
Privileged(f) ==
    /\ SignerKeys(Metas(f)) \subseteq f.signers \cup {VaultOf(f)}
    /\ WritableKeys(Metas(f)) \subseteq f.writable

InBounds(f) ==
    LET static_count == Len(f.cached.message.account_keys) IN
    /\ Instruction(f).program_id_index < static_count
    /\ \A k \in DOMAIN Instruction(f).account_indexes :
          Instruction(f).account_indexes[k] < static_count

\* The caller's frame once the CPI has returned.
Resumed == [stack EXCEPT ![Len(stack)].pc = @ + 1]

\* The innermost frame invokes its next instruction, which is for program_id.
InvokeSigned(program_id) ==
    /\ stack # <<>>
    /\ Last(stack).pc <= Len(Last(stack).cached.message.instructions)
    /\ InBounds(Last(stack))
    /\ ProgramOf(Last(stack)) = program_id
    /\ Privileged(Last(stack))
    /\ log' = Append(log, [multisig    |-> Last(stack).multisig,
                           transaction |-> Last(stack).transaction,
                           message     |-> Last(stack).cached.message,
                           pc          |-> Last(stack).pc])
    /\ UNCHANGED <<committed, signers, ixs>>

\* A CPI into this program: handler op with at least n accounts.
InvokeSelf(op, n) ==
    /\ InvokeSigned(PROGRAM_ID)
    /\ Payload(Last(stack)).op = op
    /\ Len(Metas(Last(stack))) >= n

\* Lamports leave an account that signs, for another that is writable.  The
\* program's own accounts and nonce accounts are no source: only the program
\* that owns an account, or System for one without data, takes lamports from it.
Debits(f, from, to, amount) ==
    /\ from \in SignerKeys(Metas(f))
    /\ {from, to} \subseteq WritableKeys(Metas(f))
    /\ from \notin DOMAIN multisig \cup DOMAIN transaction \cup DOMAIN nonce
    /\ lamports[from] >= amount
    /\ lamports' = Moved(from, to, amount)

\* Of System only the transfer is modelled; its other instructions fail.
CpiTransfer ==
    /\ InvokeSigned(SYSTEM_PROGRAM)
    /\ LET f == Last(stack) IN
       /\ Payload(f).op = "transfer"
       /\ Len(Metas(f)) >= 2
       /\ Debits(f, Arg(f, 1), Arg(f, 2), Payload(f).lamports)
    /\ stack' = Resumed
    /\ UNCHANGED <<multisig, transaction, nonce, consent>>

\* Any other program: it cannot write accounts of this program, nor call back
\* into it (the runtime only allows direct recursion), but the signatures it is
\* given it may pass on to System.
CpiOther ==
    /\ \E program_id \in Address \ {PROGRAM_ID, SYSTEM_PROGRAM} : InvokeSigned(program_id)
    /\ LET f == Last(stack) IN
       \/ UNCHANGED lamports
       \/ \E from \in SignerKeys(Metas(f)), to \in WritableKeys(Metas(f)),
             amount \in ForeignAmounts : Debits(f, from, to, amount)
    /\ stack' = Resumed
    /\ UNCHANGED <<multisig, transaction, nonce, consent>>

CpiInitialize ==
    /\ InvokeSelf("initialize_multisig", 3)
    /\ LET f == Last(stack) IN
       /\ Arg(f, 3) = SYSTEM_PROGRAM
       /\ initialize_multisig(Arg(f, 1), Arg(f, 2),
             [k \in 1..(Len(Metas(f)) - 3) |-> Arg(f, k + 3)],
             Payload(f).member_hash, Payload(f).threshold, Payload(f).member_count,
             SignerKeys(Metas(f)), WritableKeys(Metas(f)))
    /\ stack' = Resumed

CpiCreate ==
    /\ InvokeSelf("create_transaction", 5)
    /\ LET f == Last(stack) IN
       /\ Arg(f, 5) = SYSTEM_PROGRAM
       /\ create_transaction(Arg(f, 1), Arg(f, 2), Arg(f, 3), Arg(f, 4),
             Payload(f).vault_index, Payload(f).message,
             SignerKeys(Metas(f)), WritableKeys(Metas(f)))
    /\ stack' = Resumed

CpiApprove ==
    /\ InvokeSelf("approve_transaction", 3)
    /\ LET f == Last(stack) IN
       approve_transaction(Arg(f, 1), Arg(f, 2), Arg(f, 3),
             Payload(f).transaction_index,
             SignerKeys(Metas(f)), WritableKeys(Metas(f)))
    /\ stack' = Resumed

CpiExecute ==
    /\ InvokeSelf("execute_transaction", 3)
    /\ LET f == Last(stack) IN
       execute_transaction(Arg(f, 1), Arg(f, 2), Arg(f, 3),
             Payload(f).transaction_index,
             [k \in 1..(Len(Metas(f)) - 3) |-> Arg(f, k + 3)],
             SignerKeys(Metas(f)), WritableKeys(Metas(f)), Resumed)

CpiClose ==
    /\ InvokeSelf("close_transaction", 3)
    /\ LET f == Last(stack) IN
       close_transaction(Arg(f, 1), Arg(f, 2), Arg(f, 3),
             Payload(f).transaction_index,
             SignerKeys(Metas(f)), WritableKeys(Metas(f)))
    /\ stack' = Resumed

CpiProvision ==
    /\ InvokeSelf("provision_nonce", 6)
    /\ LET f == Last(stack) IN
       /\ Arg(f, 4) = RECENT_BLOCKHASHES
       /\ Arg(f, 5) = RENT
       /\ Arg(f, 6) = SYSTEM_PROGRAM
       /\ provision_nonce(Arg(f, 1), Arg(f, 2), Arg(f, 3),
             SignerKeys(Metas(f)), WritableKeys(Metas(f)))
    /\ stack' = Resumed

\* The loop has run every instruction; the variant stops one short.
LoopEndsEarly(f) == f.pc >= Len(f.cached.message.instructions)
LoopEnds(f) == f.pc > Len(f.cached.message.instructions)

\* The variants are an Anchor context that declares the multisig writable and
\* writes it back, and one that writes a closed proposal back.
MultisigWrittenBack(f) == [multisig EXCEPT ![f.multisig] = f.cached_multisig]
MultisigOnExit(f) == multisig
ProposalRevived(f) == With(transaction, f.transaction, f.cached)
ProposalOnExit(f) ==
    IF f.transaction \in DOMAIN transaction
    THEN [transaction EXCEPT ![f.transaction] = f.cached]
    ELSE transaction

\* The accounts Anchor writes back when execute_transaction returns: the
\* cached proposal, unless a CPI closed the account; never the multisig, which
\* the Context declares read-only.
ExitExecute ==
    /\ stack # <<>>
    /\ LoopEnds(Last(stack))
    /\ transaction' = ProposalOnExit(Last(stack))
    /\ multisig' = MultisigOnExit(Last(stack))
    /\ stack' = Front(stack)
    /\ UNCHANGED <<nonce, lamports, consent, log, committed, signers, ixs>>

-----------------------------------------------------------------------------
(***************************************************************************)
(* The outer transaction.                                                  *)
(***************************************************************************)

BeginTransaction ==
    /\ signers = {}
    /\ signers' \in SignerSets
    /\ UNCHANGED <<ledgerVars, committed, stack, ixs>>

Commit ==
    /\ signers # {}
    /\ stack = <<>>
    /\ ixs > 0
    /\ committed' = Ledger
    /\ signers' = {}
    /\ ixs' = 0
    /\ UNCHANGED <<ledgerVars, stack>>

\* A failed check, a failed CPI, or the compute budget: nothing happened.
Abort ==
    /\ signers # {}
    /\ multisig' = committed.multisig
    /\ transaction' = committed.transaction
    /\ nonce' = committed.nonce
    /\ lamports' = committed.lamports
    /\ consent' = committed.consent
    /\ log' = committed.log
    /\ signers' = {}
    /\ stack' = <<>>
    /\ ixs' = 0
    /\ UNCHANGED committed

Next ==
    \/ BeginTransaction
    \/ InitializeMultisig
    \/ CreateTransaction
    \/ ApproveTransaction
    \/ ExecuteTransaction
    \/ CloseTransaction
    \/ ProvisionNonce
    \/ Prefund
    \/ CpiTransfer
    \/ CpiOther
    \/ CpiInitialize
    \/ CpiCreate
    \/ CpiApprove
    \/ CpiExecute
    \/ CpiClose
    \/ CpiProvision
    \/ ExitExecute
    \/ Commit
    \/ Abort

Spec == Init /\ [][Next]_vars

-----------------------------------------------------------------------------
(***************************************************************************)
(* Types.                                                                  *)
(***************************************************************************)

MultisigAccount ==
    [members : Seq(Address), threshold : Nat, transaction_index : Nat]

VaultTransaction ==
    [multisig : Address, transaction_index : Nat, creator : Address,
     payer : Address, vault_index : Nat, executed : BOOLEAN,
     approvals : Seq(Address), message : Messages, space : Nat]

Consent == [member : Address, transaction : Address, message : Messages]
Run == [multisig : Address, transaction : Address, message : Messages, pc : Nat \ {0}]

StackFrame ==
    [multisig : Address, transaction : Address, pc : Nat \ {0},
     signers : SUBSET Address, writable : SUBSET Address,
     cached_multisig : MultisigAccount, cached : VaultTransaction]

LedgerTypeOK(L) ==
    /\ DOMAIN L.multisig \subseteq Address
    /\ \A ms \in DOMAIN L.multisig : L.multisig[ms] \in MultisigAccount
    /\ DOMAIN L.transaction \subseteq Address
    /\ \A txn \in DOMAIN L.transaction : L.transaction[txn] \in VaultTransaction
    /\ DOMAIN L.nonce \subseteq Address
    /\ \A a \in DOMAIN L.nonce : L.nonce[a] \in Address
    /\ L.lamports \in [Address -> Nat]
    /\ L.consent \subseteq Consent
    /\ L.log \in Seq(Run)

\* The type invariant.  No balance is ever negative, in the working copy or in
\* the committed ledger.
TypeOK ==
    /\ LedgerTypeOK(Ledger)
    /\ LedgerTypeOK(committed)
    /\ signers \in SUBSET Address
    /\ stack \in Seq(StackFrame)
    /\ ixs \in Nat

-----------------------------------------------------------------------------
(***************************************************************************)
(* Safety.                                                                 *)
(***************************************************************************)

\* Who has approved this very message at this proposal address.
Consenting(L, ms, txn, message) ==
    { m \in ToSet(L.multisig[ms].members) :
        [member |-> m, transaction |-> txn, message |-> message] \in L.consent }

\* Custody: a CPI is run with the vault's signature only if at least threshold
\* different members of the multisig approved, at that address, exactly the
\* message being run.  It fails if approvals can be counted twice, survive a
\* close, or be attached to a message that was not there when they were given.
ThresholdConsent ==
    \A n \in DOMAIN log :
        Cardinality(Consenting(Ledger, log[n].multisig, log[n].transaction,
                               log[n].message))
            >= multisig[log[n].multisig].threshold

\* Each instruction of a proposal is run at most once, in message order, over
\* the whole life of the chain: re-entering execute_transaction from a CPI, or
\* a proposal re-created at the address of a closed one, never runs it again.
RunsOnceInOrder ==
    \A a, b \in DOMAIN log :
        a < b /\ log[a].transaction = log[b].transaction => log[a].pc < log[b].pc

\* The instructions a ledger has run for a proposal address.
Ran(L, txn) == { L.log[n].pc : n \in { k \in DOMAIN L.log : L.log[k].transaction = txn } }

\* A committed outer transaction has run all the instructions of a proposal or
\* none: a live proposal says executed exactly when all its instructions were
\* run, and what was run and closed since was run in full.
AllOrNothing ==
    /\ \A txn \in DOMAIN committed.transaction :
          LET t == committed.transaction[txn] IN
          Ran(committed, txn) = IF t.executed THEN 1..Len(t.message.instructions) ELSE {}
    /\ \A n \in DOMAIN committed.log :
          Ran(committed, committed.log[n].transaction)
             = 1..Len(committed.log[n].message.instructions)

\* While a proposal executes, the account and the struct Anchor cached for it
\* agree, whatever the CPIs did to this program's accounts: the write-back on
\* exit neither erases an approval nor revives a closed proposal.
CacheIsFresh ==
    \A k \in DOMAIN stack :
        stack[k].transaction \in DOMAIN transaction =>
            transaction[stack[k].transaction] = stack[k].cached

\* Every approval ever given at the address of a live proposal was given for
\* the message that is there now: closing a proposal does not free its index.
NoRecycledProposal ==
    \A c \in consent :
        c.transaction \in DOMAIN transaction =>
            transaction[c.transaction].message = c.message

\* A multisig lives at the address any client derives from its members, given
\* in any order, and its threshold; its members are different and can reach
\* the threshold.
CanonicalAddress ==
    \A ms \in DOMAIN multisig :
        LET members == multisig[ms].members IN
        /\ \A p \in Bijection(DOMAIN members, DOMAIN members) :
              derive_multisig_pda([i \in DOMAIN members |-> members[p[i]]],
                                  multisig[ms].threshold) = ms
        /\ multisig[ms].threshold \in 1..Cardinality(ToSet(members))

\* The space allocated at create is enough for every member's approval: no
\* member is ever turned away because the account is full.
EveryApprovalFits ==
    \A txn \in DOMAIN transaction :
        LET t == transaction[txn] IN
        \A m \in ToSet(multisig[t.multisig].members) \ ToSet(t.approvals) :
            SerializedLen([t EXCEPT !.approvals = Append(@, m)]) <= t.space

\* What the program stores can be executed as far as its structure goes: every
\* instruction resolves its program and its accounts, and the vault, and only
\* the vault, is passed as a signer, writable.
StoredMessageResolves ==
    \A txn \in DOMAIN transaction :
        LET t == transaction[txn] IN
        \A n \in DOMAIN t.message.instructions :
            LET ix == t.message.instructions[n]
                vault == derive_vault_pda(t.multisig, t.vault_index)
            IN
            /\ ix.program_id_index + 1 \in DOMAIN t.message.account_keys
            /\ \A k \in DOMAIN ix.account_indexes :
                  LET slot == ix.account_indexes[k] IN
                  /\ slot + 1 \in DOMAIN t.message.account_keys
                  /\ (t.message.account_keys[slot + 1] = vault)
                        = is_signer(t.message, slot)
                  /\ is_signer(t.message, slot) => is_writable(t.message, slot)

-----------------------------------------------------------------------------
(***************************************************************************)
(* What the documentation says and the program does not do.                *)
(***************************************************************************)

\* The architecture document: a recursive create_transaction from within
\* execute conflicts with the read-only multisig.  Then the counter of a
\* multisig stands still while one of its proposals executes.
NoRecursiveCreate ==
    \A k \in DOMAIN stack :
        multisig[stack[k].multisig].transaction_index
            = stack[k].cached_multisig.transaction_index

-----------------------------------------------------------------------------
(***************************************************************************)
(* What a step may never do.                                               *)
(***************************************************************************)

\* Except when a failed outer transaction is rolled back, nothing a member
\* relied on is taken back: members and threshold are fixed, the index counter
\* never decreases, and a proposal keeps its message, vault and payer, its
\* approvals and its executed flag until it is closed, after which no proposal
\* has that index again.
OnlyForward ==
    /\ \A ms \in DOMAIN multisig :
          /\ ms \in DOMAIN multisig'
          /\ multisig'[ms].members = multisig[ms].members
          /\ multisig'[ms].threshold = multisig[ms].threshold
          /\ multisig'[ms].transaction_index >= multisig[ms].transaction_index
    /\ \A txn \in DOMAIN transaction \cap DOMAIN transaction' :
          LET t == transaction[txn]
              u == transaction'[txn]
          IN
          /\ u.message = t.message
          /\ u.vault_index = t.vault_index
          /\ u.payer = t.payer
          /\ u.creator = t.creator
          /\ IsPrefix(t.approvals, u.approvals)
          /\ t.executed => u.executed /\ u.approvals = t.approvals
    /\ \A txn \in DOMAIN transaction' \ DOMAIN transaction :
          LET u == transaction'[txn] IN
          u.transaction_index > multisig[u.multisig].transaction_index

RolledBack == signers' = {} /\ committed' = committed

ForwardUnlessRolledBack == [][RolledBack \/ OnlyForward]_vars

\* Signer-borrow prevention.  Whoever loses lamports agreed to it: outside a
\* CPI it signed the outer transaction; inside one it is the vault of a
\* proposal being executed, never the paymaster or the executor whose
\* signature the outer transaction carries.  A closed proposal pays out.
DebitAuthorized(a) ==
    \/ stack = <<>> /\ a \in signers
    \/ stack # <<>> /\ a = VaultOf(Last(stack))
    \/ a \in DOMAIN transaction /\ a \notin DOMAIN transaction'

DebitsAreAuthorized ==
    [][RolledBack \/ \A a \in Address : lamports'[a] < lamports[a] => DebitAuthorized(a)]_vars

\* What p has: its wallet, and the accounts of the live proposals it paid for.
Stake(L, p) ==
    L.lamports[p] + SumFunctionOnSet(L.lamports,
        { txn \in DOMAIN L.transaction : L.transaction[txn].payer = p })

\* The rent of a proposal is a deposit.  Opening, approving, executing and
\* closing proposals costs nobody a lamport, whoever does it and in whatever
\* order: what the payer put into the account is the payer's until close hands
\* it back.  Whose stake shrinks agreed to something else: it signed for a
\* multisig, a nonce account or a transfer, or its own proposal spends it.
StakesAreKept ==
    [][RolledBack \/ \A p \in Address \ DOMAIN transaction :
          Stake(Ledger, p)' < Stake(Ledger, p) =>
              DebitAuthorized(p) /\ UNCHANGED transaction]_vars

=============================================================================
