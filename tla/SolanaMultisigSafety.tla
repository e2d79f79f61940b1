------------------------ MODULE SolanaMultisigSafety ------------------------
(***************************************************************************)
(* Inv is inductive, and what follows from it.                             *)
(*                                                                         *)
(* The lemmas of the first part are about ledgers and stacks given piece   *)
(* by piece, so that a CPI into this program is two of them in a row: the  *)
(* CPI itself (log and program counter), then what the handler does.       *)
(***************************************************************************)
EXTENDS InductiveInvariant, SolanaMultisigProofs, SequenceLemmas

-----------------------------------------------------------------------------
(***************************************************************************)
(* Claims and consent last.                                                *)
(***************************************************************************)

\* The pieces of a well-typed state.
Typed(m, t, c, l, S) ==
    /\ \A ms \in DOMAIN m : m[ms] \in MultisigAccount
    /\ \A txn \in DOMAIN t : t[txn] \in VaultTransaction
    /\ c \subseteq Consent
    /\ l \in Seq(Run)
    /\ S \in Seq(StackFrame)

\* Multisigs only appear and only count up.
Grows(m, m2) ==
    /\ \A ms \in DOMAIN m2 : m2[ms] \in MultisigAccount
    /\ \A ms \in DOMAIN m :
          /\ ms \in DOMAIN m2
          /\ m2[ms].members = m[ms].members
          /\ m2[ms].threshold = m[ms].threshold
          /\ m2[ms].transaction_index >= m[ms].transaction_index

\* Different multisigs or indexes, different proposal addresses.
LEMMA PdaInjective ==
    ASSUME NEW a, NEW b, NEW i, NEW j, transaction_pda(a, i) = transaction_pda(b, j)
    PROVE  a = b /\ i = j
BY DEF transaction_pda

\* A claimed address stays claimed.
LEMMA ClaimedLasts ==
    ASSUME NEW m, NEW m2, NEW ms, NEW txn, Grows(m, m2), Claimed(m, ms, txn),
           \A a \in DOMAIN m : m[a] \in MultisigAccount
    PROVE  Claimed(m2, ms, txn)
BY DEF Claimed, Grows, MultisigAccount

\* A list has finitely many elements.
LEMMA ToSetFinite ==
    ASSUME NEW s \in Seq(Address)
    PROVE  IsFiniteSet(ToSet(s))
<1>1. s \in Surjection(1..Len(s), ToSet(s))
  BY DEF Surjection, ToSet
<1>2. IsFiniteSet(1..Len(s))
  BY FS_Interval
<1> QED
  BY <1>1, <1>2, FS_Surjection

\* Consent once given is not lost by other multisigs or other consents.
LEMMA ConsentedLasts ==
    ASSUME NEW m, NEW m2, NEW c, NEW c2, NEW ms \in DOMAIN m, NEW txn, NEW message,
           m[ms] \in MultisigAccount, Grows(m, m2), c \subseteq c2,
           Consented(m, c, ms, txn, message)
    PROVE  Consented(m2, c2, ms, txn, message)
<1> DEFINE before == { k \in ToSet(m[ms].members) :
              [member |-> k, transaction |-> txn, message |-> message] \in c }
           after == { k \in ToSet(m2[ms].members) :
              [member |-> k, transaction |-> txn, message |-> message] \in c2 }
<1>1. before \subseteq after /\ after \subseteq ToSet(m[ms].members)
  BY DEF Grows
<1>2. IsFiniteSet(ToSet(m[ms].members))
  BY ToSetFinite DEF MultisigAccount
<1>3. IsFiniteSet(after)
  BY <1>1, <1>2, FS_Subset
<1>4. IsFiniteSet(before)
  BY <1>1, <1>3, FS_Subset
<1>5. Cardinality(before) <= Cardinality(after)
  BY <1>1, <1>3, FS_Subset
<1>6. Cardinality(before) \in Nat /\ Cardinality(after) \in Nat
  BY <1>3, <1>4, FS_CardinalityType
<1>7. Cardinality(before) >= m[ms].threshold
  BY DEF Consented
<1>8. m2[ms].threshold = m[ms].threshold /\ m[ms].threshold \in Nat
  BY DEF Grows, MultisigAccount
<1>9. Cardinality(after) >= m2[ms].threshold
  <2> HIDE DEF before, after
  <2> QED BY <1>5, <1>6, <1>7, <1>8
<1> QED
  BY <1>9 DEF Consented

\* threshold approvals on a live proposal are the consent of threshold members.
LEMMA ApprovalsAreConsent ==
    ASSUME NEW m, NEW t, NEW c, NEW txn \in DOMAIN t, t[txn] \in VaultTransaction,
           m[t[txn].multisig] \in MultisigAccount, ApprovalInv(m, t, c),
           Len(t[txn].approvals) >= m[t[txn].multisig].threshold
    PROVE  Consented(m, c, t[txn].multisig, txn, t[txn].message)
<1> DEFINE s == t[txn].approvals
           members == m[t[txn].multisig].members
           T == { k \in ToSet(members) :
              [member |-> k, transaction |-> txn, message |-> t[txn].message] \in c }
<1>1. s \in Seq(Address) /\ members \in Seq(Address)
      /\ m[t[txn].multisig].threshold \in Nat
  BY DEF VaultTransaction, MultisigAccount
<1>2. \A i \in 1..Len(s) : s[i] \in T
  BY <1>1 DEF ApprovalInv
<1>3. s \in Injection(1..Len(s), T)
  <2>1. IsInjective(s)
    BY DEF ApprovalInv
  <2> HIDE DEF s, T
  <2>2. s \in [1..Len(s) -> T]
    BY <1>1, <1>2
  <2> QED BY <2>1, <2>2 DEF Injection
<1>4. IsFiniteSet(ToSet(members))
  BY <1>1, ToSetFinite
<1>5. T \subseteq ToSet(members)
  OBVIOUS
<1>6. IsFiniteSet(T)
  BY <1>4, <1>5, FS_Subset
<1>7. Cardinality(1..Len(s)) <= Cardinality(T)
  <2> HIDE DEF s, T
  <2> QED BY <1>3, <1>6, FS_Injection
<1>8. Cardinality(1..Len(s)) = Len(s) /\ Len(s) \in Nat
  <2>1. Len(s) \in Nat
    BY <1>1
  <2> HIDE DEF s
  <2>2. Cardinality(1..Len(s)) = IF 1 > Len(s) THEN 0 ELSE Len(s) - 1 + 1
    BY <2>1, FS_Interval, 1 \in Int, Len(s) \in Int
  <2> QED BY <2>1, <2>2
<1>9. Cardinality(T) \in Nat
  BY <1>6, FS_CardinalityType
<1>10. Cardinality(T) >= m[t[txn].multisig].threshold
  <2>1. Len(s) >= m[t[txn].multisig].threshold
    OBVIOUS
  <2> HIDE DEF s, T
  <2> QED BY <1>1, <1>7, <1>8, <1>9, <2>1
<1> QED
  BY <1>10 DEF Consented

-----------------------------------------------------------------------------
(***************************************************************************)
(* What the handlers do to LedgerInv.                                      *)
(***************************************************************************)

\* A frame does not notice that multisigs appear or count up, that others
\* consent, or that proposals other than its own change.
LEMMA FrameKept ==
    ASSUME NEW m, NEW t, NEW c, NEW l, NEW m2, NEW t2, NEW c2, NEW f,
           \A ms \in DOMAIN m : m[ms] \in MultisigAccount,
           Grows(m, m2), c \subseteq c2, FrameInv(m, t, c, l, f),
           f.transaction \in DOMAIN t2 => t2[f.transaction] = f.cached
    PROVE  FrameInv(m2, t2, c2, l, f)
<1>1. Claimed(m2, f.multisig, f.transaction)
  BY ClaimedLasts DEF FrameInv
<1>2. Consented(m2, c2, f.multisig, f.transaction, f.cached.message)
  BY ConsentedLasts DEF FrameInv, Claimed
<1> QED
  BY <1>1, <1>2 DEF FrameInv

\* The same for an entry of the log.
LEMMA EntryKept ==
    ASSUME NEW m, NEW t, NEW c, NEW l, NEW m2, NEW t2, NEW c2,
           \A ms \in DOMAIN m : m[ms] \in MultisigAccount,
           Grows(m, m2), c \subseteq c2, LogInv(m, t, c, l),
           \A n \in DOMAIN l : l[n].transaction \in DOMAIN t2 =>
              /\ t2[l[n].transaction].executed
              /\ t2[l[n].transaction].message = l[n].message
    PROVE  LogInv(m2, t2, c2, l)
<1> SUFFICES ASSUME NEW n \in DOMAIN l
             PROVE  /\ Claimed(m2, l[n].multisig, l[n].transaction)
                    /\ Consented(m2, c2, l[n].multisig, l[n].transaction, l[n].message)
  BY DEF LogInv
<1>1. /\ Claimed(m, l[n].multisig, l[n].transaction)
      /\ Consented(m, c, l[n].multisig, l[n].transaction, l[n].message)
  BY DEF LogInv
<1>2. Claimed(m2, l[n].multisig, l[n].transaction)
  BY <1>1, ClaimedLasts
<1>3. Consented(m2, c2, l[n].multisig, l[n].transaction, l[n].message)
  BY <1>1, ConsentedLasts DEF Claimed
<1> QED
  BY <1>2, <1>3

\* initialize_multisig, and whatever leaves proposals and consent alone.
LEMMA MultisigStep ==
    ASSUME NEW m, NEW t, NEW c, NEW l, NEW S, NEW m2,
           Typed(m, t, c, l, S), LedgerInv(m, t, c, l, S), Grows(m, m2)
    PROVE  LedgerInv(m2, t, c, l, S)
<1>0. \A ms \in DOMAIN m : m[ms] \in MultisigAccount
  BY DEF Typed
<1>1. LiveInv(m2, t)
  BY <1>0 DEF LedgerInv, LiveInv, Grows, MultisigAccount
<1>2. ApprovalInv(m2, t, c)
  BY DEF LedgerInv, LiveInv, ApprovalInv, Grows
<1>3. ConsentInv(m2, t, c)
  <2>1. ASSUME NEW k \in c
        PROVE  \E ms \in DOMAIN m2 : Claimed(m2, ms, k.transaction)
    <3>1. PICK ms \in DOMAIN m : Claimed(m, ms, k.transaction)
      BY DEF LedgerInv, ConsentInv
    <3>2. Claimed(m2, ms, k.transaction)
      BY <1>0, <3>1, ClaimedLasts
    <3> QED BY <3>2 DEF Claimed
  <2> QED BY <2>1 DEF LedgerInv, ConsentInv
<1>4. LogInv(m2, t, c, l)
  <2>1. LogInv(m, t, c, l) /\ c \subseteq c
    BY DEF LedgerInv
  <2>2. \A n \in DOMAIN l : l[n].transaction \in DOMAIN t =>
            /\ t[l[n].transaction].executed
            /\ t[l[n].transaction].message = l[n].message
    BY <2>1 DEF LogInv
  <2> QED BY <1>0, <2>1, <2>2, EntryKept
<1>5. StackInv(m2, t, c, l, S)
  <2>1. ASSUME NEW k \in DOMAIN S PROVE FrameInv(m2, t, c, l, S[k])
    <3>1. FrameInv(m, t, c, l, S[k]) /\ c \subseteq c
      BY DEF LedgerInv, StackInv
    <3>2. S[k].transaction \in DOMAIN t => t[S[k].transaction] = S[k].cached
      BY <3>1 DEF FrameInv
    <3> QED BY <1>0, <3>1, <3>2, FrameKept
  <2> QED BY <2>1 DEF LedgerInv, StackInv
<1> QED
  BY <1>1, <1>2, <1>3, <1>4, <1>5 DEF LedgerInv

\* An index above the counter has no proposal, consent, log entry or frame.
LEMMA FreshIndex ==
    ASSUME NEW m, NEW t, NEW c, NEW l, NEW S,
           Typed(m, t, c, l, S), LedgerInv(m, t, c, l, S), NEW ms \in DOMAIN m
    PROVE  LET txn == transaction_pda(ms, m[ms].transaction_index + 1) IN
           /\ \A a : ~Claimed(m, a, txn)
           /\ txn \notin DOMAIN t
           /\ \A k \in c : k.transaction # txn
           /\ \A n \in DOMAIN l : l[n].transaction # txn
           /\ \A k \in DOMAIN S : S[k].transaction # txn
<1> DEFINE txn == transaction_pda(ms, m[ms].transaction_index + 1)
<1>1. m[ms].transaction_index \in Nat
  BY DEF Typed, MultisigAccount
<1>2. ASSUME NEW a, Claimed(m, a, txn) PROVE FALSE
  <2>1. PICK i \in 1..m[a].transaction_index : txn = transaction_pda(a, i)
    BY <1>2 DEF Claimed
  <2>2. a = ms /\ i = m[ms].transaction_index + 1
    BY <2>1, PdaInjective
  <2> QED BY <1>1, <2>1, <2>2
<1>3. ASSUME NEW x \in DOMAIN t PROVE Claimed(m, t[x].multisig, x)
  BY DEF LedgerInv, LiveInv, Claimed
<1>4. txn \notin DOMAIN t
  BY <1>2, <1>3
<1>5. \A k \in c : k.transaction # txn
  <2> HIDE DEF txn
  <2> QED BY <1>2 DEF LedgerInv, ConsentInv
<1>6. \A n \in DOMAIN l : l[n].transaction # txn
  <2> HIDE DEF txn
  <2> QED BY <1>2 DEF LedgerInv, LogInv
<1>7. \A k \in DOMAIN S : S[k].transaction # txn
  <2> HIDE DEF txn
  <2> QED BY <1>2 DEF LedgerInv, StackInv, FrameInv
<1> QED
  BY <1>2, <1>4, <1>5, <1>6, <1>7

\* account is an open proposal at txn, the next address of ms.
Appears(m, t, m2, t2, ms, txn, account) ==
    /\ ms \in DOMAIN m
    /\ Grows(m, m2)
    /\ m2[ms].transaction_index = m[ms].transaction_index + 1
    /\ txn = transaction_pda(ms, m[ms].transaction_index + 1)
    /\ account \in VaultTransaction
    /\ account.multisig = ms
    /\ account.transaction_index = m[ms].transaction_index + 1
    /\ account.executed = FALSE
    /\ account.approvals = <<>>
    /\ ValidMessage(account.message, derive_vault_pda(ms, account.vault_index))
    /\ DOMAIN t2 = DOMAIN t \cup {txn}
    /\ t2[txn] = account
    /\ \A x \in DOMAIN t \ {txn} : t2[x] = t[x]

\* create_transaction: a proposal without approvals appears at the next index.
LEMMA CreateStep ==
    ASSUME NEW m, NEW t, NEW c, NEW l, NEW S, NEW m2, NEW t2, NEW ms, NEW txn,
           NEW account, Typed(m, t, c, l, S), LedgerInv(m, t, c, l, S),
           Appears(m, t, m2, t2, ms, txn, account)
    PROVE  LedgerInv(m2, t2, c, l, S)
<1> USE DEF Appears
<1>0. \A a \in DOMAIN m : m[a] \in MultisigAccount
  BY DEF Typed
<1>1. /\ txn \notin DOMAIN t
      /\ \A k \in c : k.transaction # txn
      /\ \A n \in DOMAIN l : l[n].transaction # txn
      /\ \A k \in DOMAIN S : S[k].transaction # txn
  BY FreshIndex
<1>2. /\ DOMAIN t2 = DOMAIN t \cup {txn}
      /\ t2[txn] = account
      /\ \A x \in DOMAIN t : t2[x] = t[x]
  BY <1>1
<1>3. LedgerInv(m2, t, c, l, S)
  BY MultisigStep
<1>4. LiveInv(m2, t2)
  <2>1. LiveInv(m2, t)
    BY <1>3 DEF LedgerInv
  <2>2. m2[ms].transaction_index \in Nat /\ m[ms].transaction_index \in Nat /\ ms \in DOMAIN m2
    BY <1>0 DEF Grows, MultisigAccount
  <2> QED BY <1>2, <2>1, <2>2 DEF LiveInv
<1>5. ApprovalInv(m2, t2, c)
  <2>1. ApprovalInv(m2, t, c)
    BY <1>3 DEF LedgerInv
  <2>2. DOMAIN t2[txn].approvals = {}
    BY <1>2
  <2>3. IsInjective(t2[txn].approvals)
    BY <2>2 DEF IsInjective
  <2> QED BY <1>2, <2>1, <2>2, <2>3 DEF ApprovalInv
<1>6. ConsentInv(m2, t2, c)
  BY <1>1, <1>2, <1>3 DEF LedgerInv, ConsentInv
<1>7. LogInv(m2, t2, c, l)
  BY <1>1, <1>2, <1>3 DEF LedgerInv, LogInv
<1>8. StackInv(m2, t2, c, l, S)
  <2>1. ASSUME NEW k \in DOMAIN S PROVE FrameInv(m2, t2, c, l, S[k])
    <3>1. FrameInv(m2, t, c, l, S[k])
      BY <1>3 DEF LedgerInv, StackInv
    <3> QED BY <1>1, <1>2, <3>1 DEF FrameInv
  <2> QED BY <1>3, <2>1 DEF LedgerInv, StackInv
<1>9. DoneInv(t2, l, S)
  BY <1>1, <1>2, <1>3 DEF LedgerInv, DoneInv
<1> QED
  BY <1>3, <1>4, <1>5, <1>6, <1>7, <1>8, <1>9 DEF LedgerInv

\* A proposal that is not executed has no frame and nothing in the log.
LEMMA NotExecuted ==
    ASSUME NEW m, NEW t, NEW c, NEW l, NEW S, LedgerInv(m, t, c, l, S),
           NEW txn \in DOMAIN t, ~t[txn].executed
    PROVE  /\ \A k \in DOMAIN S : S[k].transaction # txn
           /\ \A n \in DOMAIN l : l[n].transaction # txn
<1>1. \A k \in DOMAIN S : FrameInv(m, t, c, l, S[k])
  BY DEF LedgerInv, StackInv
<1>2. \A k \in DOMAIN S : S[k].transaction # txn
  BY <1>1 DEF FrameInv
<1>3. \A n \in DOMAIN l : l[n].transaction # txn
  BY DEF LedgerInv, LogInv
<1> QED
  BY <1>2, <1>3

\* approve_transaction: one more member, who was not on the list, consents.
LEMMA ApproveStep ==
    ASSUME NEW m, NEW t, NEW c, NEW l, NEW S, NEW t2, NEW c2, NEW member \in Address,
           Typed(m, t, c, l, S), LedgerInv(m, t, c, l, S),
           NEW txn \in DOMAIN t, ~t[txn].executed,
           member \in ToSet(m[t[txn].multisig].members),
           member \notin ToSet(t[txn].approvals),
           DOMAIN t2 = DOMAIN t, \A x \in DOMAIN t \ {txn} : t2[x] = t[x],
           t2[txn] = [t[txn] EXCEPT !.approvals = Append(@, member)],
           c \subseteq c2, NEW given \in c2, c2 \subseteq c \cup {given},
           given = [member |-> member, transaction |-> txn, message |-> t[txn].message]
    PROVE  LedgerInv(m, t2, c2, l, S)
<1> DEFINE u == t2[txn]
           s == t[txn].approvals
<1>0. /\ \A a \in DOMAIN m : m[a] \in MultisigAccount
      /\ Grows(m, m) /\ c \subseteq c2
  BY DEF Typed, Grows, MultisigAccount
<1>1. /\ \A k \in DOMAIN S : S[k].transaction # txn
      /\ \A n \in DOMAIN l : l[n].transaction # txn
  BY NotExecuted
<1>2. s \in Seq(Address) /\ t[txn] \in VaultTransaction
  BY DEF Typed, VaultTransaction
<1>3. /\ u.approvals = Append(s, member) /\ u.multisig = t[txn].multisig
      /\ u.transaction_index = t[txn].transaction_index
      /\ u.vault_index = t[txn].vault_index
      /\ u.message = t[txn].message /\ u.executed = t[txn].executed
  BY <1>2 DEF VaultTransaction
<1>4. DOMAIN t2 = DOMAIN t /\ t2[txn] = u /\ \A x \in DOMAIN t \ {txn} : t2[x] = t[x]
  OBVIOUS
<1>5. LiveInv(m, t2)
  BY <1>3, <1>4 DEF LedgerInv, LiveInv
<1>6. ApprovalInv(m, t2, c2)
  <2>1. ApprovalInv(m, t, c)
    BY DEF LedgerInv
  <2>2. ASSUME NEW x \in DOMAIN t \ {txn}
        PROVE  /\ IsInjective(t2[x].approvals)
               /\ \A i \in DOMAIN t2[x].approvals :
                    /\ t2[x].approvals[i] \in ToSet(m[t2[x].multisig].members)
                    /\ [member |-> t2[x].approvals[i], transaction |-> x,
                        message |-> t2[x].message] \in c2
    BY <1>0, <1>4, <2>1 DEF ApprovalInv
  <2>3. /\ DOMAIN u.approvals = 1..(Len(s) + 1)
        /\ u.approvals[Len(s) + 1] = member
        /\ \A i \in 1..Len(s) : u.approvals[i] = s[i]
        /\ DOMAIN s = 1..Len(s) /\ Len(s) \in Nat
    BY <1>2, <1>3
  <2>4. \A i \in 1..Len(s) : s[i] # member
    BY <2>3 DEF ToSet
  <2>5. IsInjective(u.approvals)
    <3>1. IsInjective(s)
      BY <2>1 DEF ApprovalInv
    <3> HIDE DEF s
    <3>2. \A i, j \in 1..Len(s) : s[i] = s[j] => i = j
      BY <2>3, <3>1 DEF IsInjective
    <3> QED BY <2>3, <2>4, <3>2 DEF IsInjective
  <2>6. ASSUME NEW i \in DOMAIN u.approvals
        PROVE  /\ u.approvals[i] \in ToSet(m[u.multisig].members)
               /\ [member |-> u.approvals[i], transaction |-> txn,
                   message |-> u.message] \in c2
    <3>1. CASE i = Len(s) + 1
      BY <1>3, <2>3, <3>1
    <3>2. CASE i \in 1..Len(s)
      <4>1. /\ s[i] \in ToSet(m[t[txn].multisig].members)
            /\ [member |-> s[i], transaction |-> txn, message |-> t[txn].message] \in c
        BY <2>1, <2>3, <3>2 DEF ApprovalInv
      <4> QED BY <1>0, <1>3, <2>3, <3>2, <4>1
    <3> QED BY <2>3, <3>1, <3>2
  <2> QED BY <1>4, <2>2, <2>5, <2>6 DEF ApprovalInv
<1>7. ConsentInv(m, t2, c2)
  <2>1. ConsentInv(m, t, c)
    BY DEF LedgerInv
  <2>2. Claimed(m, t[txn].multisig, txn) /\ t[txn].multisig \in DOMAIN m
    BY DEF LedgerInv, LiveInv, Claimed
  <2>3. \A x \in DOMAIN t : t2[x].message = t[x].message
    BY <1>3, <1>4
  <2> QED BY <1>4, <2>1, <2>2, <2>3 DEF ConsentInv
<1>8. LogInv(m, t2, c2, l)
  <2>1. LogInv(m, t, c, l)
    BY DEF LedgerInv
  <2>2. \A n \in DOMAIN l : l[n].transaction \in DOMAIN t2 =>
            /\ t2[l[n].transaction].executed
            /\ t2[l[n].transaction].message = l[n].message
    BY <1>1, <1>4, <2>1 DEF LogInv
  <2> QED BY <1>0, <2>1, <2>2, EntryKept
<1>9. StackInv(m, t2, c2, l, S)
  <2>1. ASSUME NEW k \in DOMAIN S PROVE FrameInv(m, t2, c2, l, S[k])
    <3>1. FrameInv(m, t, c, l, S[k])
      BY DEF LedgerInv, StackInv
    <3>2. S[k].transaction \in DOMAIN t2 => t2[S[k].transaction] = S[k].cached
      BY <1>1, <1>4, <3>1 DEF FrameInv
    <3> QED BY <1>0, <3>1, <3>2, FrameKept
  <2> QED BY <2>1 DEF LedgerInv, StackInv
<1>10. DoneInv(t2, l, S)
  BY <1>1, <1>3, <1>4 DEF LedgerInv, DoneInv
<1> QED
  BY <1>5, <1>6, <1>7, <1>8, <1>9, <1>10 DEF LedgerInv

\* close_transaction: a proposal goes, whatever its state.
LEMMA CloseStep ==
    ASSUME NEW m, NEW t, NEW c, NEW l, NEW S, NEW t2, NEW txn,
           LedgerInv(m, t, c, l, S), t2 = Without(t, txn)
    PROVE  LedgerInv(m, t2, c, l, S)
<1>1. DOMAIN t2 \subseteq DOMAIN t /\ \A x \in DOMAIN t2 : t2[x] = t[x]
  BY DEF Without
<1>2. LiveInv(m, t2)
  BY <1>1 DEF LedgerInv, LiveInv
<1>3. ApprovalInv(m, t2, c)
  BY <1>1 DEF LedgerInv, ApprovalInv
<1>4. ConsentInv(m, t2, c)
  BY <1>1 DEF LedgerInv, ConsentInv
<1>5. LogInv(m, t2, c, l)
  BY <1>1 DEF LedgerInv, LogInv
<1>6. StackInv(m, t2, c, l, S)
  <2>1. ASSUME NEW k \in DOMAIN S PROVE FrameInv(m, t2, c, l, S[k])
    <3>1. FrameInv(m, t, c, l, S[k])
      BY DEF LedgerInv, StackInv
    <3> QED BY <1>1, <3>1 DEF FrameInv
  <2> QED BY <2>1 DEF LedgerInv, StackInv
<1>7. DoneInv(t2, l, S)
  BY <1>1 DEF LedgerInv, DoneInv
<1> QED
  BY <1>2, <1>3, <1>4, <1>5, <1>6, <1>7 DEF LedgerInv

\* A CPI: the innermost frame logs its next instruction and moves on.
LEMMA InvokeStep ==
    ASSUME NEW m, NEW t, NEW c, NEW l, NEW S, NEW l2, NEW S2,
           Typed(m, t, c, l, S), LedgerInv(m, t, c, l, S),
           NEW f, NEW f2, NEW e \in Run, S # <<>>, f = S[Len(S)],
           f.pc <= Len(f.cached.message.instructions),
           e.multisig = f.multisig, e.transaction = f.transaction,
           e.message = f.cached.message, e.pc = f.pc,
           f2.multisig = f.multisig, f2.transaction = f.transaction,
           f2.cached = f.cached, f2.pc = f.pc + 1,
           DOMAIN l2 = 1..(Len(l) + 1), l2[Len(l) + 1] = e,
           \A n \in 1..Len(l) : l2[n] = l[n],
           DOMAIN S2 = DOMAIN S, S2[Len(S)] = f2,
           \A k \in DOMAIN S \ {Len(S)} : S2[k] = S[k]
    PROVE  LedgerInv(m, t, c, l2, S2)
<1>1. /\ l \in Seq(Run) /\ Len(l) \in Nat /\ DOMAIN l = 1..Len(l)
      /\ DOMAIN l2 = 1..(Len(l) + 1) /\ l2[Len(l) + 1] = e
      /\ \A n \in 1..Len(l) : l2[n] = l[n]
  BY DEF Typed
<1>2. /\ S \in Seq(StackFrame) /\ Len(S) \in Nat \ {0} /\ DOMAIN S = 1..Len(S)
      /\ DOMAIN S2 = DOMAIN S /\ S2[Len(S)] = f2 /\ f \in StackFrame
      /\ \A k \in DOMAIN S \ {Len(S)} : S2[k] = S[k]
  BY DEF Typed
<1>3. /\ f2.multisig = f.multisig /\ f2.transaction = f.transaction
      /\ f2.cached = f.cached /\ f2.pc = f.pc + 1 /\ f.pc \in Nat \ {0}
  BY <1>2 DEF StackFrame
<1>4. FrameInv(m, t, c, l, f)
  BY <1>2 DEF LedgerInv, StackInv
<1>5. \A k \in DOMAIN S \ {Len(S)} : S[k].transaction # f.transaction
  BY <1>2 DEF LedgerInv, StackInv
<1>6. \A x : Executing(S2, x) <=> Executing(S, x)
  BY SMTT(30), <1>2, <1>3 DEF Executing
<1>7. LogInv(m, t, c, l2)
  <2>1. LogInv(m, t, c, l)
    BY DEF LedgerInv
  <2>2. /\ Claimed(m, e.multisig, e.transaction)
        /\ Consented(m, c, e.multisig, e.transaction, e.message)
        /\ e.transaction \in DOMAIN t =>
              t[e.transaction].executed /\ t[e.transaction].message = e.message
    BY <1>4 DEF FrameInv
  <2> QED BY <1>1, <2>1, <2>2 DEF LogInv
<1>8. OrderInv(l2)
  <2>1. OrderInv(l)
    BY DEF LedgerInv
  <2>2. \A n \in 1..Len(l) : l[n].transaction = e.transaction =>
           l[n].pc < e.pc /\ l[n].message = e.message
    BY <1>1, <1>4 DEF FrameInv
  <2> QED BY <1>1, <2>1, <2>2 DEF OrderInv
<1>9. StackInv(m, t, c, l2, S2)
  <2>1. FrameInv(m, t, c, l2, f2)
    <3>1. \A n \in DOMAIN l2 : l2[n].transaction = f2.transaction =>
             l2[n].pc < f2.pc /\ l2[n].message = f2.cached.message
      <4>1. ASSUME NEW n \in 1..Len(l) PROVE l[n].pc \in Nat
        <5>1. l[n] \in Run
          BY <1>1
        <5> QED BY <5>1 DEF Run
      <4> QED BY <1>1, <1>3, <1>4, <4>1 DEF FrameInv
    <3>2. ASSUME NEW p \in 1..(f2.pc - 1)
          PROVE  \E n \in DOMAIN l2 : l2[n].transaction = f2.transaction /\ l2[n].pc = p
      <4>1. CASE p = f.pc
        <5>1. Len(l) + 1 \in DOMAIN l2
          BY <1>1
        <5> QED BY <1>1, <1>3, <4>1, <5>1
      <4>2. CASE p \in 1..(f.pc - 1)
        <5>1. PICK n \in DOMAIN l : l[n].transaction = f.transaction /\ l[n].pc = p
          BY <1>4, <4>2 DEF FrameInv
        <5>2. n \in DOMAIN l2 /\ l2[n] = l[n]
          BY <1>1
        <5> QED BY <1>3, <5>1, <5>2
      <4> QED BY <1>3, <4>1, <4>2
    <3>3. f2.pc <= Len(f2.cached.message.instructions) + 1
      <4> DEFINE len == Len(f.cached.message.instructions)
      <4>1. len \in Int
        BY <1>2, ConstantsAssumption DEF StackFrame, VaultTransaction, TransactionMessage
      <4>2. f.pc <= len /\ f2.cached = f.cached
        BY <1>3
      <4> HIDE DEF len
      <4>3. f2.pc <= len + 1
        BY <1>3, <4>1, <4>2
      <4> QED BY <4>2, <4>3 DEF len
    <3> QED BY <1>3, <1>4, <3>1, <3>2, <3>3 DEF FrameInv
  <2>2. ASSUME NEW k \in DOMAIN S \ {Len(S)} PROVE FrameInv(m, t, c, l2, S2[k])
    <3>1. FrameInv(m, t, c, l, S[k]) /\ S2[k] = S[k]
      BY <1>2 DEF LedgerInv, StackInv
    <3>2. S[k].transaction # e.transaction
      BY <1>5
    <3>3. \A n \in DOMAIN l2 : l2[n].transaction = S[k].transaction =>
             l2[n].pc < S[k].pc /\ l2[n].message = S[k].cached.message
      BY <1>1, <3>1, <3>2 DEF FrameInv
    <3>4. \A n \in DOMAIN l : n \in DOMAIN l2 /\ l2[n] = l[n]
      BY <1>1
    <3>5. ASSUME NEW p \in 1..(S[k].pc - 1)
          PROVE  \E n \in DOMAIN l2 : l2[n].transaction = S[k].transaction /\ l2[n].pc = p
      <4>1. PICK n \in DOMAIN l : l[n].transaction = S[k].transaction /\ l[n].pc = p
        BY <3>1 DEF FrameInv
      <4> QED BY <3>4, <4>1
    <3> QED BY <3>1, <3>3, <3>5 DEF FrameInv
  <2>3. \A j, k \in DOMAIN S2 : S2[j].transaction = S2[k].transaction => j = k
    <3>1. \A k \in DOMAIN S : S2[k].transaction = S[k].transaction
      BY <1>2, <1>3
    <3> QED BY <1>2, <3>1 DEF LedgerInv, StackInv
  <2> QED BY <1>2, <2>1, <2>2, <2>3 DEF StackInv
<1>10. DoneInv(t, l2, S2)
  <2>1. DoneInv(t, l, S)
    BY DEF LedgerInv
  <2>2. Executing(S2, e.transaction)
    BY <1>2, <1>3 DEF Executing
  <2>3. ASSUME NEW n \in DOMAIN l2, ~Executing(S2, l2[n].transaction)
        PROVE  /\ l2[n].pc <= Len(l2[n].message.instructions)
               /\ \A p \in 1..Len(l2[n].message.instructions) :
                     \E k \in DOMAIN l2 : l2[k].transaction = l2[n].transaction /\ l2[k].pc = p
    <3>1. n \in DOMAIN l /\ l2[n] = l[n] /\ ~Executing(S, l[n].transaction)
      BY <1>1, <1>6, <2>2, <2>3
    <3>2. /\ l[n].pc <= Len(l[n].message.instructions)
          /\ \A p \in 1..Len(l[n].message.instructions) :
                \E k \in DOMAIN l : l[k].transaction = l[n].transaction /\ l[k].pc = p
      BY <2>1, <3>1 DEF DoneInv
    <3>3. \A k \in DOMAIN l : k \in DOMAIN l2 /\ l2[k] = l[k]
      BY <1>1
    <3> QED BY SMTT(30), <3>1, <3>2, <3>3
  <2>4. ASSUME NEW x \in DOMAIN t, t[x].executed, ~Executing(S2, x)
        PROVE  \E n \in DOMAIN l2 : l2[n].transaction = x
    <3>1. PICK n \in DOMAIN l : l[n].transaction = x
      BY <1>6, <2>1, <2>4 DEF DoneInv
    <3> QED BY <1>1, <3>1
  <2> QED BY <2>3, <2>4 DEF DoneInv
<1> QED
  BY <1>7, <1>8, <1>9, <1>10 DEF LedgerInv

\* execute_transaction up to its CPIs: a proposal that was not executed is
\* marked and gets a frame.
LEMMA PushStep ==
    ASSUME NEW m, NEW t, NEW c, NEW l, NEW S, NEW t2, NEW S2, NEW f,
           Typed(m, t, c, l, S), LedgerInv(m, t, c, l, S),
           NEW txn \in DOMAIN t, ~t[txn].executed,
           Len(t[txn].approvals) >= m[t[txn].multisig].threshold,
           f.multisig = t[txn].multisig, f.transaction = txn, f.pc = 1,
           f.cached.multisig = t[txn].multisig,
           f.cached.transaction_index = t[txn].transaction_index,
           f.cached.vault_index = t[txn].vault_index,
           f.cached.approvals = t[txn].approvals,
           f.cached.message = t[txn].message,
           f.cached.executed,
           DOMAIN t2 = DOMAIN t, t2[txn] = f.cached,
           \A x \in DOMAIN t \ {txn} : t2[x] = t[x],
           DOMAIN S2 = 1..(Len(S) + 1), S2[Len(S) + 1] = f,
           \A k \in 1..Len(S) : S2[k] = S[k]
    PROVE  LedgerInv(m, t2, c, l, S2)
<1>0. /\ \A a \in DOMAIN m : m[a] \in MultisigAccount
      /\ Grows(m, m) /\ c \subseteq c
      /\ t[txn] \in VaultTransaction
      /\ DOMAIN S = 1..Len(S) /\ Len(S) \in Nat
  BY DEF Typed, Grows, MultisigAccount
<1>1. /\ \A k \in DOMAIN S : S[k].transaction # txn
      /\ \A n \in DOMAIN l : l[n].transaction # txn
  BY NotExecuted
<1>2. /\ f.cached.multisig = t[txn].multisig
      /\ f.cached.transaction_index = t[txn].transaction_index
      /\ f.cached.vault_index = t[txn].vault_index
      /\ f.cached.approvals = t[txn].approvals
      /\ f.cached.message = t[txn].message
      /\ f.cached.executed
  OBVIOUS
<1>3. LiveInv(m, t2)
  BY <1>2 DEF LedgerInv, LiveInv
<1>4. ApprovalInv(m, t2, c)
  <2>1. ApprovalInv(m, t, c)
    BY DEF LedgerInv
  <2>2. \A x \in DOMAIN t : /\ t2[x].approvals = t[x].approvals
                            /\ t2[x].multisig = t[x].multisig
                            /\ t2[x].message = t[x].message
    BY <1>2
  <2> QED BY <2>1, <2>2 DEF ApprovalInv
<1>5. ConsentInv(m, t2, c)
  BY <1>2 DEF LedgerInv, ConsentInv
<1>6. LogInv(m, t2, c, l)
  BY <1>1 DEF LedgerInv, LogInv
<1>7. StackInv(m, t2, c, l, S2)
  <2>1. FrameInv(m, t2, c, l, f)
    <3>1. /\ Claimed(m, f.multisig, txn)
          /\ ValidMessage(f.cached.message,
                          derive_vault_pda(f.multisig, f.cached.vault_index))
          /\ m[t[txn].multisig] \in MultisigAccount
      BY <1>0, <1>2 DEF LedgerInv, LiveInv, Claimed
    <3>2. Consented(m, c, f.multisig, f.transaction, f.cached.message)
      BY <1>0, <1>2, <3>1, ApprovalsAreConsent DEF LedgerInv
    <3>3. f.pc <= Len(f.cached.message.instructions) + 1 /\ 1..(f.pc - 1) = {}
      <4>1. Len(f.cached.message.instructions) \in Nat
        <5>1. t[txn].message \in TransactionMessage
          BY <1>0, ConstantsAssumption DEF VaultTransaction
        <5>2. t[txn].message.instructions \in Seq(CompiledInstruction)
          BY <5>1 DEF TransactionMessage
        <5>3. Len(t[txn].message.instructions) \in Nat
          BY <5>2
        <5> QED BY <1>2, <5>3
      <4> QED BY <4>1
    <3> QED BY <1>1, <1>2, <3>1, <3>2, <3>3 DEF FrameInv
  <2>2. ASSUME NEW k \in 1..Len(S) PROVE FrameInv(m, t2, c, l, S2[k])
    <3>1. FrameInv(m, t, c, l, S[k]) /\ S[k].transaction # txn /\ S2[k] = S[k]
      BY <1>0, <1>1 DEF LedgerInv, StackInv
    <3>2. S[k].transaction \in DOMAIN t2 => t2[S[k].transaction] = S[k].cached
      BY <3>1 DEF FrameInv
    <3> QED BY <1>0, <3>1, <3>2, FrameKept
  <2>3. \A j, k \in DOMAIN S2 : S2[j].transaction = S2[k].transaction => j = k
    BY <1>0, <1>1 DEF LedgerInv, StackInv
  <2> QED BY <1>0, <2>1, <2>2, <2>3 DEF StackInv
<1>8. DoneInv(t2, l, S2)
  <2>1. \A x : Executing(S2, x) <=> Executing(S, x) \/ x = txn
    BY <1>0 DEF Executing
  <2> QED BY <1>1, <2>1 DEF LedgerInv, DoneInv
<1> QED
  BY <1>3, <1>4, <1>5, <1>6, <1>7, <1>8 DEF LedgerInv

\* The return of execute_transaction: every instruction was run, and writing
\* the cached proposal back changes nothing.
LEMMA ExitStep ==
    ASSUME NEW m, NEW t, NEW c, NEW l, NEW S, NEW t2, NEW S2, NEW f,
           Typed(m, t, c, l, S), LedgerInv(m, t, c, l, S),
           S # <<>>, f = S[Len(S)], f.pc > Len(f.cached.message.instructions),
           DOMAIN t2 = DOMAIN t, \A x \in DOMAIN t : t2[x] = t[x],
           DOMAIN S2 = 1..(Len(S) - 1), \A k \in 1..(Len(S) - 1) : S2[k] = S[k]
    PROVE  LedgerInv(m, t2, c, l, S2)
<1>0. /\ DOMAIN S = 1..Len(S) /\ Len(S) \in Nat \ {0} /\ f \in StackFrame
      /\ DOMAIN l = 1..Len(l)
  BY DEF Typed
<1>1. FrameInv(m, t, c, l, f)
  BY <1>0 DEF LedgerInv, StackInv
<1>2. LiveInv(m, t2) /\ ConsentInv(m, t2, c) /\ LogInv(m, t2, c, l)
  BY DEF LedgerInv, LiveInv, ConsentInv, LogInv
<1>3. ApprovalInv(m, t2, c)
  BY DEF LedgerInv, ApprovalInv
<1>4. StackInv(m, t2, c, l, S2)
  <2>1. ASSUME NEW k \in DOMAIN S2 PROVE FrameInv(m, t2, c, l, S2[k])
    <3>1. FrameInv(m, t, c, l, S[k]) /\ S2[k] = S[k]
      BY <1>0 DEF LedgerInv, StackInv
    <3> QED BY <3>1 DEF FrameInv
  <2> QED BY SMTT(30), <1>0, <2>1 DEF LedgerInv, StackInv
<1>5. DoneInv(t2, l, S2)
  <2> DEFINE len == Len(f.cached.message.instructions)
  <2>0. len \in Nat \ {0} /\ f.pc = len + 1
    <3>1. len \in 1..MAX_TX_INSTRUCTIONS /\ f.pc <= len + 1
      BY <1>1 DEF FrameInv, ValidMessage, SizesOk
    <3>2. f.pc \in Nat /\ f.pc > len
      BY <1>0 DEF StackFrame
    <3> HIDE DEF len
    <3> QED BY <3>1, <3>2, ConstantsAssumption
  <2>1. \A x : Executing(S, x) => Executing(S2, x) \/ x = f.transaction
    BY <1>0 DEF Executing
  <2>2. /\ \A p \in 1..len : \E n \in DOMAIN l : l[n].transaction = f.transaction /\ l[n].pc = p
        /\ \A n \in DOMAIN l : l[n].transaction = f.transaction =>
              l[n].pc < len + 1 /\ l[n].message = f.cached.message
    <3>1. f.pc - 1 = len
      <4> HIDE DEF len
      <4> QED BY <2>0
    <3> QED BY <1>1, <2>0, <3>1 DEF FrameInv
  <2>3. ASSUME NEW n \in DOMAIN l, ~Executing(S2, l[n].transaction)
        PROVE  /\ l[n].pc <= Len(l[n].message.instructions)
               /\ \A p \in 1..Len(l[n].message.instructions) :
                     \E k \in DOMAIN l : l[k].transaction = l[n].transaction /\ l[k].pc = p
    <3>1. CASE l[n].transaction = f.transaction
      <4>1. l[n].pc \in Nat
        <5>1. l[n] \in Run
          BY <1>0 DEF Typed
        <5> QED BY <5>1 DEF Run
      <4>2. l[n].message = f.cached.message /\ l[n].pc < len + 1
        BY <2>2, <3>1
      <4>3. l[n].pc <= len
        <5> HIDE DEF len
        <5> QED BY <2>0, <4>1, <4>2
      <4> QED BY <2>2, <3>1, <4>2, <4>3
    <3>2. CASE l[n].transaction # f.transaction
      BY <2>1, <2>3, <3>2 DEF LedgerInv, DoneInv
    <3> QED BY <3>1, <3>2
  <2>4. ASSUME NEW x \in DOMAIN t2, t2[x].executed, ~Executing(S2, x)
        PROVE  \E n \in DOMAIN l : l[n].transaction = x
    <3>1. CASE x = f.transaction
      <4>1. 1 \in 1..len
        <5> HIDE DEF len
        <5> QED BY <2>0
      <4> QED BY <2>2, <3>1, <4>1
    <3>2. CASE x # f.transaction
      BY <2>1, <2>4, <3>2 DEF LedgerInv, DoneInv
    <3> QED BY <3>1, <3>2
  <2> QED BY <2>3, <2>4 DEF DoneInv
<1> QED
  BY <1>2, <1>3, <1>4, <1>5 DEF LedgerInv

-----------------------------------------------------------------------------
(***************************************************************************)
(* The handlers.  L is the log, S the frames, as they are when the handler *)
(* starts: those of the state at top level, one run further in a CPI.      *)
(***************************************************************************)

\* A handler starts from a well-typed ledger on which Inv's parts hold.
Start(L, S) ==
    /\ AccountsTypeOK
    /\ L \in Seq(Run)
    /\ S \in Seq(StackFrame)
    /\ LedgerInv(multisig, transaction, consent, L, S)

Finish(L, S) == LedgerInv(multisig', transaction', consent', L, S)

\* The invariant gives the types of the parts of the ledger and of the frames.
LEMMA StartTyped ==
    ASSUME NEW L, NEW S, Start(L, S)
    PROVE  /\ Typed(multisig, transaction, consent, L, S)
           /\ LedgerInv(multisig, transaction, consent, L, S)
BY DEF Start, Typed, AccountsTypeOK

\* A handler that changes only nonces and balances.
LEMMA OtherSafe ==
    ASSUME NEW L, NEW S, Start(L, S), UNCHANGED <<multisig, transaction, consent>>
    PROVE  Finish(L, S)
BY DEF Start, Finish

\* initialize_multisig preserves the ledger's invariant: a new multisig has
\* claimed no index, so nothing stored refers to it.
LEMMA InitializeSafe ==
    ASSUME NEW L, NEW S, Start(L, S), AccountsTypeOK', NEW ms, NEW payer, NEW members,
           NEW member_hash, NEW threshold, NEW member_count, NEW sig, NEW wr,
           initialize_multisig(ms, payer, members, member_hash, threshold,
                               member_count, sig, wr)
    PROVE  Finish(L, S)
<1>1. /\ Typed(multisig, transaction, consent, L, S)
      /\ LedgerInv(multisig, transaction, consent, L, S)
  BY StartTyped
<1>2. ms \notin DOMAIN multisig /\ transaction' = transaction /\ consent' = consent
      /\ \E r : multisig' = With(multisig, ms, r)
  BY DEF initialize_multisig
<1>3. Grows(multisig, multisig')
  <2>1. \A a \in DOMAIN multisig : a \in DOMAIN multisig' /\ multisig'[a] = multisig[a]
    BY <1>2 DEF With
  <2>2. \A a \in DOMAIN multisig : multisig[a].transaction_index \in Nat
    BY DEF Start, AccountsTypeOK, MultisigAccount
  <2> QED BY <2>1, <2>2 DEF Grows, AccountsTypeOK
<1>4. LedgerInv(multisig', transaction, consent, L, S)
  BY <1>1, <1>3, MultisigStep
<1> QED
  BY <1>2, <1>4 DEF Finish

\* create_transaction preserves the ledger's invariant: the index it claims was
\* never claimed before.
LEMMA CreateSafe ==
    ASSUME NEW L, NEW S, Start(L, S), AccountsTypeOK', NEW ms, NEW txn, NEW creator,
           NEW payer, NEW vault_index, NEW message, NEW sig, NEW wr,
           create_transaction(ms, txn, creator, payer, vault_index, message, sig, wr)
    PROVE  Finish(L, S)
<1> DEFINE space == SpaceFor(ms, message)
           account == [multisig |-> ms, transaction_index |-> NextIndex(ms),
                       creator |-> creator, payer |-> payer,
                       vault_index |-> vault_index, executed |-> FALSE,
                       approvals |-> <<>>, message |-> message, space |-> space]
<1>1. /\ Typed(multisig, transaction, consent, L, S)
      /\ LedgerInv(multisig, transaction, consent, L, S)
  BY StartTyped
<1>2. /\ ms \in DOMAIN multisig
      /\ txn = transaction_pda(ms, NextIndex(ms))
      /\ ValidMessage(message, derive_vault_pda(ms, vault_index))
      /\ multisig' = [multisig EXCEPT ![ms].transaction_index = NextIndex(ms)]
      /\ transaction' = With(transaction, txn, account)
      /\ consent' = consent
  BY DEF create_transaction
<1>3. NextIndex(ms) = multisig[ms].transaction_index + 1
  BY DEF NextIndex
<1>4. Grows(multisig, multisig')
      /\ multisig'[ms].transaction_index = multisig[ms].transaction_index + 1
  <2>1. \A a \in DOMAIN multisig : multisig[a] \in MultisigAccount
    BY DEF Start, AccountsTypeOK
  <2>2. \A a \in DOMAIN multisig' : multisig'[a] \in MultisigAccount
    BY DEF AccountsTypeOK
  <2> QED BY <1>2, <1>3, <2>1, <2>2 DEF Grows, MultisigAccount
<1>5. /\ account.multisig = ms
      /\ account.transaction_index = multisig[ms].transaction_index + 1
      /\ account.executed = FALSE /\ account.approvals = <<>>
      /\ account.message = message /\ account.vault_index = vault_index
  BY <1>3
<1> HIDE DEF account
<1>6. /\ DOMAIN transaction' = DOMAIN transaction \cup {txn}
      /\ transaction'[txn] = account
      /\ \A x \in DOMAIN transaction \ {txn} : transaction'[x] = transaction[x]
  BY <1>2 DEF With
<1>7. account \in VaultTransaction
  BY <1>6 DEF AccountsTypeOK
<1>8. LedgerInv(multisig', transaction', consent, L, S)
  <2>1. /\ ms \in DOMAIN multisig
        /\ txn = transaction_pda(ms, multisig[ms].transaction_index + 1)
        /\ ValidMessage(account.message, derive_vault_pda(ms, account.vault_index))
    BY <1>2, <1>3, <1>5
  <2>2. Appears(multisig, transaction, multisig', transaction', ms, txn, account)
    BY <1>4, <1>5, <1>6, <1>7, <2>1 DEF Appears
  <2> QED BY <1>1, <2>2, CreateStep
<1> QED
  BY <1>2, <1>8 DEF Finish

\* approve_transaction preserves the ledger's invariant: the proposal is not
\* executed, so no frame has it cached and nothing was run for it.
LEMMA ApproveSafe ==
    ASSUME NEW L, NEW S, Start(L, S), NEW ms, NEW txn, NEW member \in Address,
           NEW transaction_index, NEW sig, NEW wr,
           approve_transaction(ms, txn, member, transaction_index, sig, wr)
    PROVE  Finish(L, S)
<1> DEFINE given == [member |-> member, transaction |-> txn,
                     message |-> transaction[txn].message]
           u == [transaction[txn] EXCEPT !.approvals = Append(@, member)]
<1>1. /\ Typed(multisig, transaction, consent, L, S)
      /\ LedgerInv(multisig, transaction, consent, L, S)
  BY StartTyped
<1>2. /\ txn \in DOMAIN transaction
      /\ ~transaction[txn].executed
      /\ member \in ToSet(multisig[transaction[txn].multisig].members)
      /\ member \notin ToSet(transaction[txn].approvals)
  BY DEF approve_transaction, BoundTo, OpenForApproval, NotYetApproved
<1>3. /\ transaction' = [transaction EXCEPT ![txn] = u]
      /\ consent' = consent \cup {given}
      /\ multisig' = multisig
  BY DEF approve_transaction
<1>4. /\ DOMAIN transaction' = DOMAIN transaction
      /\ \A x \in DOMAIN transaction \ {txn} : transaction'[x] = transaction[x]
      /\ transaction'[txn] = u
  BY <1>2, <1>3
<1>5. consent \subseteq consent' /\ given \in consent' /\ consent' \subseteq consent \cup {given}
  BY <1>3
<1>6. LedgerInv(multisig, transaction', consent', L, S)
  BY <1>1, <1>2, <1>4, <1>5, ApproveStep
<1> QED
  BY <1>3, <1>6 DEF Finish

\* execute_transaction up to its CPI loop preserves the ledger's invariant: the
\* new frame has the consent its approvals record, and nothing was run yet.
LEMMA ExecuteSafe ==
    ASSUME NEW L, NEW S, Start(L, S), NEW ms, NEW txn, NEW executor,
           NEW transaction_index, NEW remaining, NEW sig, NEW wr,
           execute_transaction(ms, txn, executor, transaction_index, remaining,
                               sig, wr, S)
    PROVE  Finish(L, stack')
<1> DEFINE marked == [transaction[txn] EXCEPT !.executed = TRUE]
           f == [multisig |-> ms, transaction |-> txn, pc |-> 1,
                 signers |-> sig, writable |-> wr,
                 cached_multisig |-> multisig[ms], cached |-> marked]
<1>1. /\ Typed(multisig, transaction, consent, L, S)
      /\ LedgerInv(multisig, transaction, consent, L, S)
  BY StartTyped
<1>2. /\ txn \in DOMAIN transaction /\ transaction[txn].multisig = ms
      /\ ~transaction[txn].executed
      /\ Len(transaction[txn].approvals) >= multisig[transaction[txn].multisig].threshold
  BY DEF execute_transaction, BoundTo, EnoughApprovals
<1>0. /\ transaction' = [transaction EXCEPT ![txn] = marked]
      /\ stack' = Append(S, f)
      /\ UNCHANGED <<multisig, consent>>
  BY DEF execute_transaction, Flushed
<1>3. /\ marked.multisig = transaction[txn].multisig
      /\ marked.transaction_index = transaction[txn].transaction_index
      /\ marked.vault_index = transaction[txn].vault_index
      /\ marked.approvals = transaction[txn].approvals
      /\ marked.message = transaction[txn].message
      /\ marked.executed
  <2>1. transaction[txn] \in VaultTransaction
    BY <1>2 DEF Start, AccountsTypeOK
  <2> QED BY <2>1 DEF VaultTransaction
<1> HIDE DEF marked
<1>4. f.multisig = ms /\ f.transaction = txn /\ f.pc = 1 /\ f.cached = marked
  OBVIOUS
<1> HIDE DEF f
<1>5. /\ DOMAIN transaction' = DOMAIN transaction
      /\ \A x \in DOMAIN transaction \ {txn} : transaction'[x] = transaction[x]
      /\ transaction'[txn] = f.cached
  BY <1>0, <1>2, <1>4
<1>6. /\ DOMAIN stack' = 1..(Len(S) + 1) /\ stack'[Len(S) + 1] = f
      /\ \A k \in 1..Len(S) : stack'[k] = S[k]
  BY <1>0 DEF Start
<1>7. LedgerInv(multisig, transaction', consent, L, stack')
  <2>1. f.multisig = transaction[txn].multisig /\ f.transaction = txn /\ f.pc = 1
    BY <1>2, <1>4
  <2>2. /\ f.cached.multisig = transaction[txn].multisig
        /\ f.cached.transaction_index = transaction[txn].transaction_index
        /\ f.cached.vault_index = transaction[txn].vault_index
        /\ f.cached.approvals = transaction[txn].approvals
        /\ f.cached.message = transaction[txn].message
        /\ f.cached.executed
    BY <1>3, <1>4
  <2> QED BY <1>1, <1>2, <1>5, <1>6, <2>1, <2>2, PushStep
<1> QED
  BY <1>0, <1>7 DEF Finish

\* close_transaction preserves the ledger's invariant: what remains was there.
LEMMA CloseSafe ==
    ASSUME NEW L, NEW S, Start(L, S), NEW ms, NEW txn, NEW payer,
           NEW transaction_index, NEW sig, NEW wr,
           close_transaction(ms, txn, payer, transaction_index, sig, wr)
    PROVE  Finish(L, S)
<1>1. /\ transaction' = Without(transaction, txn)
      /\ UNCHANGED <<multisig, consent>>
  BY DEF close_transaction
<1> QED
  BY <1>1, CloseStep DEF Start, Finish

-----------------------------------------------------------------------------
(***************************************************************************)
(* Inv is inductive.                                                       *)
(***************************************************************************)

\* A CPI hands its handler a ledger with the call in the log and the caller's
\* frame moved on.
LEMMA InvokeSafe ==
    ASSUME Inv, NEW program_id, InvokeSigned(program_id)
    PROVE  Start(log', Resumed)
<1> DEFINE f == Last(stack)
           e == [multisig |-> f.multisig, transaction |-> f.transaction,
                 message |-> f.cached.message, pc |-> f.pc]
           f2 == [f EXCEPT !.pc = @ + 1]
<1>1. TypeOK /\ AccountsTypeOK /\ log \in Seq(Run) /\ stack \in Seq(StackFrame)
  BY TypeParts DEF Inv
<1>2. /\ f \in StackFrame /\ f = stack[Len(stack)] /\ Len(stack) \in Nat \ {0}
      /\ log' \in Seq(Run) /\ Resumed \in Seq(StackFrame)
  BY <1>1, InvokeType
<1>3. Typed(multisig, transaction, consent, log, stack)
  BY <1>1 DEF Typed, AccountsTypeOK
<1>4. LedgerInv(multisig, transaction, consent, log, stack)
  BY DEF Inv
<1>5. stack # <<>> /\ f.pc <= Len(f.cached.message.instructions)
  BY DEF InvokeSigned
<1>6. /\ e.multisig = f.multisig /\ e.transaction = f.transaction
      /\ e.message = f.cached.message /\ e.pc = f.pc
  OBVIOUS
<1>7. /\ f2.multisig = f.multisig /\ f2.transaction = f.transaction
      /\ f2.cached = f.cached /\ f2.pc = f.pc + 1
  BY <1>2 DEF StackFrame
<1>8. log' = Append(log, e)
  BY DEF InvokeSigned
<1>9. Resumed = [stack EXCEPT ![Len(stack)] = f2]
  BY <1>2 DEF Resumed
<1> HIDE DEF e, f2, f
<1>10. /\ DOMAIN log' = 1..(Len(log) + 1) /\ log'[Len(log) + 1] = e
       /\ \A n \in 1..Len(log) : log'[n] = log[n]
       /\ e \in Run
  <2>1. Len(log) \in Nat /\ DOMAIN log' = 1..(Len(log) + 1)
    BY <1>1, <1>8
  <2>2. log'[Len(log) + 1] = e /\ \A n \in 1..Len(log) : log'[n] = log[n]
    BY <1>1, <1>8
  <2>3. log'[Len(log) + 1] \in Run
    BY <1>2, <2>1
  <2> QED BY <2>1, <2>2, <2>3
<1>11. /\ DOMAIN Resumed = DOMAIN stack /\ Resumed[Len(stack)] = f2
       /\ \A k \in DOMAIN stack \ {Len(stack)} : Resumed[k] = stack[k]
  BY <1>1, <1>2, <1>9
<1>12. LedgerInv(multisig, transaction, consent, log', Resumed)
  BY SMTT(30), <1>2, <1>3, <1>4, <1>5, <1>6, <1>7, <1>10, <1>11, InvokeStep
<1> QED
  BY <1>1, <1>2, <1>12 DEF Start

\* The working copy keeps the invariant in every instruction of the outer
\* transaction.
LEMMA TopLevelSafe ==
    ASSUME Inv, TypeOK',
           \/ InitializeMultisig \/ CreateTransaction \/ ApproveTransaction
           \/ ExecuteTransaction \/ CloseTransaction \/ ProvisionNonce \/ Prefund
    PROVE  Finish(log', stack') /\ committed' = committed
<1>1. AccountsTypeOK' /\ signers \subseteq Address
  BY TypeParts DEF Inv
<1>2. Start(log, stack)
  BY TypeParts DEF Inv, Start
<1>3. TopLevel
  BY DEF InitializeMultisig, CreateTransaction, ApproveTransaction,
         ExecuteTransaction, CloseTransaction, ProvisionNonce, Prefund
<1>4. log' = log /\ committed' = committed
  BY <1>3 DEF TopLevel
<1>5. CASE InitializeMultisig
  <2>1. Finish(log, stack)
    BY <1>1, <1>2, <1>5, InitializeSafe DEF InitializeMultisig
  <2> QED BY <1>4, <1>5, <2>1 DEF InitializeMultisig
<1>6. CASE CreateTransaction
  <2>1. Finish(log, stack)
    BY <1>1, <1>2, <1>6, CreateSafe DEF CreateTransaction
  <2> QED BY <1>4, <1>6, <2>1 DEF CreateTransaction
<1>7. CASE ApproveTransaction
  <2>1. Finish(log, stack)
    BY <1>1, <1>2, <1>7, ApproveSafe DEF ApproveTransaction
  <2> QED BY <1>4, <1>7, <2>1 DEF ApproveTransaction
<1>8. CASE ExecuteTransaction
  <2>1. stack = <<>>
    BY <1>3 DEF TopLevel
  <2>2. Start(log, <<>>)
    BY <1>2, <2>1
  <2>3. Finish(log, stack')
    BY <1>8, <2>2, ExecuteSafe DEF ExecuteTransaction
  <2> QED BY <1>4, <2>3
<1>9. CASE CloseTransaction
  <2>1. Finish(log, stack)
    BY <1>2, <1>9, CloseSafe DEF CloseTransaction
  <2> QED BY <1>4, <1>9, <2>1 DEF CloseTransaction
<1>10. CASE ProvisionNonce
  <2>1. UNCHANGED <<multisig, transaction, consent, stack>>
    BY <1>10 DEF ProvisionNonce, provision_nonce
  <2>2. Finish(log, stack)
    BY <1>2, <2>1, OtherSafe
  <2> QED BY <1>4, <2>1, <2>2
<1>11. CASE Prefund
  <2>1. UNCHANGED <<multisig, transaction, consent, stack>>
    BY <1>11 DEF Prefund
  <2>2. Finish(log, stack)
    BY <1>2, <2>1, OtherSafe
  <2> QED BY <1>4, <2>1, <2>2
<1> QED
  BY <1>5, <1>6, <1>7, <1>8, <1>9, <1>10, <1>11

\* The same in every CPI.
LEMMA CpiSafe ==
    ASSUME Inv, TypeOK',
           \/ CpiTransfer \/ CpiOther \/ CpiInitialize \/ CpiCreate \/ CpiApprove
           \/ CpiExecute \/ CpiClose \/ CpiProvision
    PROVE  Finish(log', stack') /\ committed' = committed
<1> DEFINE f == Last(stack)
<1>1. AccountsTypeOK' /\ TypeOK
  BY TypeParts DEF Inv
<1>2. PICK program_id : InvokeSigned(program_id)
  BY DEF CpiTransfer, CpiOther, CpiInitialize, CpiCreate, CpiApprove, CpiExecute,
         CpiClose, CpiProvision, InvokeSelf
<1>3. Start(log', Resumed)
  BY <1>2, InvokeSafe
<1>4. committed' = committed
  BY <1>2 DEF InvokeSigned
<1>5. CASE CpiTransfer \/ CpiOther \/ CpiProvision
  <2>1. UNCHANGED <<multisig, transaction, consent>> /\ stack' = Resumed
    BY <1>5 DEF CpiTransfer, CpiOther, CpiProvision, provision_nonce
  <2>2. Finish(log', Resumed)
    BY <1>3, <2>1, OtherSafe
  <2> QED BY <1>4, <2>1, <2>2
<1>6. CASE CpiInitialize
  <2>1. Finish(log', Resumed)
    BY <1>1, <1>3, <1>6, InitializeSafe DEF CpiInitialize
  <2> QED BY <1>4, <1>6, <2>1 DEF CpiInitialize
<1>7. CASE CpiCreate
  <2>1. Finish(log', Resumed)
    BY <1>1, <1>3, <1>7, CreateSafe DEF CpiCreate
  <2> QED BY <1>4, <1>7, <2>1 DEF CpiCreate
<1>8. CASE CpiApprove
  <2>1. Arg(f, 3) \in Address
    BY <1>1, <1>2, <1>8, InvokeType DEF CpiApprove, InvokeSelf
  <2>2. Finish(log', Resumed)
    BY <1>3, <1>8, <2>1, ApproveSafe DEF CpiApprove
  <2> QED BY <1>4, <1>8, <2>2 DEF CpiApprove
<1>9. CASE CpiExecute
  <2>1. Finish(log', stack')
    BY <1>3, <1>9, ExecuteSafe DEF CpiExecute
  <2> QED BY <1>4, <2>1
<1>10. CASE CpiClose
  <2>1. Finish(log', Resumed)
    BY <1>3, <1>10, CloseSafe DEF CpiClose
  <2> QED BY <1>4, <1>10, <2>1 DEF CpiClose
<1> QED
  BY <1>5, <1>6, <1>7, <1>8, <1>9, <1>10

\* The same when execute_transaction returns.
LEMMA ExitSafe ==
    ASSUME Inv, ExitExecute
    PROVE  Finish(log', stack') /\ committed' = committed
<1> DEFINE f == Last(stack)
<1>1. /\ AccountsTypeOK /\ log \in Seq(Run) /\ stack \in Seq(StackFrame)
      /\ LedgerInv(multisig, transaction, consent, log, stack)
  BY TypeParts DEF Inv
<1>2. Typed(multisig, transaction, consent, log, stack)
  BY <1>1 DEF Typed, AccountsTypeOK
<1>3. /\ stack # <<>> /\ f = stack[Len(stack)] /\ Len(stack) \in DOMAIN stack
      /\ f.pc > Len(f.cached.message.instructions)
  BY <1>1 DEF ExitExecute, LoopEnds, Last
<1>4. f.transaction \in DOMAIN transaction => transaction[f.transaction] = f.cached
  BY <1>1, <1>3 DEF LedgerInv, StackInv, FrameInv
<1> HIDE DEF f
<1>5. transaction' = IF f.transaction \in DOMAIN transaction
                     THEN [transaction EXCEPT ![f.transaction] = f.cached]
                     ELSE transaction
  BY DEF f, ExitExecute, ProposalOnExit
<1>6. /\ DOMAIN transaction' = DOMAIN transaction
      /\ \A x \in DOMAIN transaction : transaction'[x] = transaction[x]
  BY <1>4, <1>5
<1>7. stack' = SubSeq(stack, 1, Len(stack) - 1)
  BY DEF ExitExecute, Front
<1>8. /\ DOMAIN stack' = 1..(Len(stack) - 1)
      /\ \A k \in 1..(Len(stack) - 1) : stack'[k] = stack[k]
  BY <1>1, <1>3, <1>7
<1>9. LedgerInv(multisig, transaction', consent, log, stack')
  BY <1>1, <1>2, <1>3, <1>6, <1>8, ExitStep
<1> QED
  BY <1>9 DEF ExitExecute, MultisigOnExit, Finish

\* Nothing has happened on the initial ledger.
LEMMA InitSafe == Init => Inv
<1> SUFFICES ASSUME Init PROVE Inv
  OBVIOUS
<1>1. TypeOK
  BY ConstantsAssumption DEF Init, TypeOK, LedgerTypeOK, Ledger
<1>2. LedgerInv(<<>>, <<>>, {}, <<>>, <<>>)
  BY DEF LedgerInv, LiveInv, ApprovalInv, ConsentInv, LogInv, OrderInv, StackInv, DoneInv
<1>3. /\ committed.multisig = <<>> /\ committed.transaction = <<>>
      /\ committed.consent = {} /\ committed.log = <<>>
  BY DEF Init, Ledger
<1> QED
  BY <1>1, <1>2, <1>3 DEF Inv, Init

\* Every step preserves the invariant.
LEMMA InvStep == Inv /\ [Next]_vars => Inv'
<1> SUFFICES ASSUME Inv, [Next]_vars PROVE Inv'
  OBVIOUS
<1>1. TypeOK'
  BY TypeStep DEF Inv
<1>2. ASSUME Finish(log', stack'), committed' = committed PROVE Inv'
  BY <1>1, <1>2 DEF Finish, Inv
<1>3. CASE \/ InitializeMultisig \/ CreateTransaction \/ ApproveTransaction
           \/ ExecuteTransaction \/ CloseTransaction \/ ProvisionNonce \/ Prefund
  BY <1>1, <1>2, <1>3, TopLevelSafe
<1>4. CASE \/ CpiTransfer \/ CpiOther \/ CpiInitialize \/ CpiCreate \/ CpiApprove
           \/ CpiExecute \/ CpiClose \/ CpiProvision
  BY <1>1, <1>2, <1>4, CpiSafe
<1>5. CASE ExitExecute
  BY <1>2, <1>5, ExitSafe
<1>6. CASE BeginTransaction
  BY <1>1, <1>6 DEF BeginTransaction, ledgerVars, Inv
<1>7. CASE Commit
  BY <1>1, <1>7 DEF Commit, ledgerVars, Ledger, Inv
<1>8. CASE Abort
  BY <1>1, <1>8 DEF Abort, Inv
<1>9. CASE UNCHANGED vars
  BY <1>1, <1>9 DEF vars, Inv
<1> QED
  BY <1>3, <1>4, <1>5, <1>6, <1>7, <1>8, <1>9 DEF Next

\* The invariant holds in every reachable state.
THEOREM Invariant == Spec => []Inv
BY InitSafe, InvStep, PTL DEF Spec

-----------------------------------------------------------------------------
(***************************************************************************)
(* What the invariant implies.                                             *)
(***************************************************************************)

\* Custody: no instruction runs with the vault's signature without threshold
\* members having approved exactly that message at that address.
THEOREM CustodyTheorem == Spec => []ThresholdConsent
<1>1. Inv => ThresholdConsent
  BY DEF Inv, LedgerInv, LogInv, Consented, ThresholdConsent, Consenting, Ledger
<1> QED
  BY <1>1, Invariant, PTL

\* No instruction of a proposal ever runs twice or out of order, whatever the
\* proposals call back into the program.
THEOREM OnceInOrderTheorem == Spec => []RunsOnceInOrder
<1>1. Inv => RunsOnceInOrder
  BY DEF Inv, LedgerInv, OrderInv, RunsOnceInOrder
<1> QED
  BY <1>1, Invariant, PTL

\* What execute_transaction writes back on return is what is stored.
THEOREM FreshCacheTheorem == Spec => []CacheIsFresh
<1>1. Inv => CacheIsFresh
  BY DEF Inv, LedgerInv, StackInv, FrameInv, CacheIsFresh
<1> QED
  BY <1>1, Invariant, PTL

\* Closing a proposal never lets its approvals count for another message.
THEOREM NoRecyclingTheorem == Spec => []NoRecycledProposal
<1>1. Inv => NoRecycledProposal
  BY DEF Inv, LedgerInv, ConsentInv, NoRecycledProposal
<1> QED
  BY <1>1, Invariant, PTL

\* The invariant accounts for every run of a committed ledger.
LEMMA RunInFull ==
    ASSUME Inv
    PROVE  AllOrNothing
<1> DEFINE t == committed.transaction
           l == committed.log
<1>1. /\ LogInv(committed.multisig, t, committed.consent, l)
      /\ DoneInv(t, l, <<>>)
  BY DEF Inv, LedgerInv
<1>2. l \in Seq(Run) /\ \A x \in DOMAIN t : t[x] \in VaultTransaction
  BY DEF Inv, TypeOK, LedgerTypeOK
<1>3. \A x : ~Executing(<<>>, x)
  BY DEF Executing
<1>4. ASSUME NEW n \in DOMAIN l
      PROVE  Ran(committed, l[n].transaction) = 1..Len(l[n].message.instructions)
  <2>1. \A k \in DOMAIN l : l[k].pc \in Nat \ {0}
    <3> SUFFICES ASSUME NEW k \in DOMAIN l PROVE l[k].pc \in Nat \ {0}
      OBVIOUS
    <3>1. l[k] \in Run
      BY <1>2
    <3> QED BY <3>1 DEF Run
  <2> DEFINE len == Len(l[n].message.instructions)
  <2>2. len \in Nat
    <3>1. l[n].message \in TransactionMessage
      <4>1. l[n] \in Run
        BY <1>2
      <4> QED BY <4>1, ConstantsAssumption DEF Run
    <3>2. l[n].message.instructions \in Seq(CompiledInstruction)
      BY <3>1 DEF TransactionMessage
    <3> QED BY <3>2
  <2>3. \A p \in 1..len : \E k \in DOMAIN l : l[k].transaction = l[n].transaction /\ l[k].pc = p
    BY <1>1, <1>3 DEF DoneInv
  <2>4. \A k \in DOMAIN l : l[k].transaction = l[n].transaction => l[k].message = l[n].message
    <3>1. OrderInv(l)
      BY DEF Inv, LedgerInv
    <3> QED BY <1>2, <3>1 DEF OrderInv
  <2>5. ASSUME NEW k \in DOMAIN l, l[k].transaction = l[n].transaction
        PROVE  l[k].pc \in 1..len
    <3>1. l[k].message = l[n].message /\ ~Executing(<<>>, l[k].transaction)
      BY <1>3, <2>4, <2>5
    <3>2. l[k].pc <= Len(l[k].message.instructions)
      BY <1>1, <3>1 DEF DoneInv
    <3> QED BY <2>1, <2>2, <3>1, <3>2
  <2> HIDE DEF len
  <2>6. Ran(committed, l[n].transaction) = 1..len
    BY <2>3, <2>5 DEF Ran
  <2> QED BY <2>6 DEF len
<1>5. ASSUME NEW x \in DOMAIN t
      PROVE  Ran(committed, x) = IF t[x].executed THEN 1..Len(t[x].message.instructions)
                                                  ELSE {}
  <2>1. CASE t[x].executed
    <3>1. PICK n \in DOMAIN l : l[n].transaction = x
      BY <1>1, <1>3, <2>1 DEF DoneInv
    <3>2. l[n].message = t[x].message
      BY <1>1, <3>1 DEF LogInv
    <3> QED BY <1>4, <2>1, <3>1, <3>2
  <2>2. CASE ~t[x].executed
    <3>1. \A n \in DOMAIN l : l[n].transaction # x
      BY <1>1, <2>2 DEF LogInv
    <3> QED BY <2>2, <3>1 DEF Ran
  <2> QED BY <2>1, <2>2
<1> QED
  BY <1>4, <1>5 DEF AllOrNothing

\* On the committed ledger a proposal was run in full or not at all.
THEOREM AtomicityTheorem == Spec => []AllOrNothing
BY RunInFull, Invariant, PTL

\* A stored message has the vault as its only signer, and every index of its
\* instructions resolves.
THEOREM ResolutionTheorem == Spec => []StoredMessageResolves
<1>1. ASSUME Inv PROVE StoredMessageResolves
  <2> SUFFICES ASSUME NEW txn \in DOMAIN transaction,
                      NEW n \in DOMAIN transaction[txn].message.instructions
               PROVE  LET t == transaction[txn]
                          ix == t.message.instructions[n]
                          vault == derive_vault_pda(t.multisig, t.vault_index)
                      IN /\ ix.program_id_index + 1 \in DOMAIN t.message.account_keys
                         /\ \A k \in DOMAIN ix.account_indexes :
                               LET slot == ix.account_indexes[k] IN
                               /\ slot + 1 \in DOMAIN t.message.account_keys
                               /\ (t.message.account_keys[slot + 1] = vault)
                                     = is_signer(t.message, slot)
                               /\ is_signer(t.message, slot) => is_writable(t.message, slot)
    BY DEF StoredMessageResolves
  <2> DEFINE message == transaction[txn].message
             keys == message.account_keys
             vault == derive_vault_pda(transaction[txn].multisig,
                                       transaction[txn].vault_index)
             ix == message.instructions[n]
  <2>1. ValidMessage(message, vault)
    BY <1>1 DEF Inv, LedgerInv, LiveInv
  <2>2. message \in TransactionMessage
    <3>1. transaction[txn] \in VaultTransaction
      BY <1>1 DEF Inv, TypeOK, LedgerTypeOK, Ledger
    <3> QED BY <3>1, ConstantsAssumption DEF VaultTransaction
  <2> HIDE DEF vault, message
  <2>3. keys \in Seq(Address) /\ Len(keys) \in Nat /\ DOMAIN keys = 1..Len(keys)
        /\ ix \in CompiledInstruction
    <3>1. n \in DOMAIN message.instructions
      BY DEF message
    <3> QED BY <2>2, <3>1 DEF TransactionMessage
  <2>4. ix.program_id_index \in Nat /\ ix.program_id_index < Len(keys)
    BY <2>1, <2>3 DEF ValidMessage, IndexesOk, CompiledInstruction, message
  <2>5. ASSUME NEW k \in DOMAIN ix.account_indexes
        PROVE  LET slot == ix.account_indexes[k] IN
               /\ slot + 1 \in DOMAIN keys
               /\ (keys[slot + 1] = vault) = is_signer(message, slot)
               /\ is_signer(message, slot) => is_writable(message, slot)
    <3> DEFINE slot == ix.account_indexes[k]
    <3>1. slot \in Nat /\ slot < Len(keys)
      <4>1. n \in DOMAIN message.instructions
        BY DEF message
      <4> QED BY <2>1, <2>3, <4>1 DEF ValidMessage, IndexesOk, CompiledInstruction
    <3>2. /\ message.num_signers = 1 /\ keys[1] = vault
          /\ message.num_writable_signers \in Nat /\ message.num_writable_signers >= 1
      BY <2>1, <2>2 DEF ValidMessage, HeaderOk, TransactionMessage
    <3>3. IsInjective(keys)
      BY <2>1 DEF ValidMessage, NoDuplicateKeys
    <3> HIDE DEF slot, keys
    <3>4. slot + 1 \in DOMAIN keys /\ 1 \in DOMAIN keys
      BY <2>3, <3>1
    <3>5. keys[slot + 1] = vault <=> slot = 0
      BY <3>1, <3>2, <3>3, <3>4 DEF IsInjective
    <3>6. is_signer(message, slot) <=> slot = 0
      BY <3>1, <3>2 DEF is_signer
    <3>7. slot = 0 => is_writable(message, slot)
      BY <3>2 DEF is_writable
    <3>8. (keys[slot + 1] = vault) \in BOOLEAN /\ is_signer(message, slot) \in BOOLEAN
      BY DEF is_signer
    <3>9. (keys[slot + 1] = vault) = is_signer(message, slot)
      BY <3>5, <3>6, <3>8
    <3> QED BY <3>4, <3>6, <3>7, <3>9 DEF slot
  <2>6. ix.program_id_index + 1 \in DOMAIN keys
    BY <2>3, <2>4
  <2> QED
    BY <2>5, <2>6 DEF vault, message
<1> QED
  BY <1>1, Invariant, PTL

-----------------------------------------------------------------------------
(***************************************************************************)
(* What no step does.                                                      *)
(***************************************************************************)

\* A list is a prefix of itself and of itself with one more element.
LEMMA PrefixOfAppend ==
    ASSUME NEW s \in Seq(Address), NEW x \in Address
    PROVE  IsPrefix(s, s) /\ IsPrefix(s, Append(s, x))
<1>1. Len(Append(s, x)) = Len(s) + 1 /\ Len(s) \in Nat
  OBVIOUS
<1>2. SubSeq(Append(s, x), 1, Len(s)) = SubSeq(s, 1, Len(s))
  BY <1>1
<1> QED
  BY <1>1, <1>2 DEF IsPrefix

\* A step that changes no multisig and at most removes proposals only moves
\* forward.
LEMMA ForwardIfOnlyRemoved ==
    ASSUME TypeOK, multisig' = multisig,
           DOMAIN transaction' \subseteq DOMAIN transaction,
           \A txn \in DOMAIN transaction' : transaction'[txn] = transaction[txn]
    PROVE  OnlyForward
<1>1. \A ms \in DOMAIN multisig : multisig[ms].transaction_index \in Nat
  BY DEF TypeOK, LedgerTypeOK, Ledger, MultisigAccount
<1>2. \A txn \in DOMAIN transaction : transaction[txn].approvals \in Seq(Address)
  BY DEF TypeOK, LedgerTypeOK, Ledger, VaultTransaction
<1>3. \A txn \in DOMAIN transaction :
         IsPrefix(transaction[txn].approvals, transaction[txn].approvals)
  BY DEF IsPrefix, TypeOK, LedgerTypeOK, Ledger, VaultTransaction
<1> QED
  BY <1>1, <1>3 DEF OnlyForward

\* initialize_multisig takes nothing back.
LEMMA InitializeForward ==
    ASSUME TypeOK, NEW ms, NEW payer, NEW members, NEW member_hash, NEW threshold,
           NEW member_count, NEW sig, NEW wr,
           initialize_multisig(ms, payer, members, member_hash, threshold,
                               member_count, sig, wr)
    PROVE  OnlyForward
<1>1. ms \notin DOMAIN multisig /\ transaction' = transaction
      /\ \E r : multisig' = With(multisig, ms, r)
  BY DEF initialize_multisig
<1>2. \A a \in DOMAIN multisig : a \in DOMAIN multisig' /\ multisig'[a] = multisig[a]
  BY <1>1 DEF With
<1>3. \A a \in DOMAIN multisig : multisig[a].transaction_index \in Nat
  BY DEF TypeOK, LedgerTypeOK, Ledger, MultisigAccount
<1>4. \A txn \in DOMAIN transaction :
         IsPrefix(transaction[txn].approvals, transaction[txn].approvals)
  BY DEF IsPrefix, TypeOK, LedgerTypeOK, Ledger, VaultTransaction
<1> QED
  BY <1>1, <1>2, <1>3, <1>4 DEF OnlyForward

\* create_transaction takes nothing back, and its proposal has a new index.
LEMMA CreateForward ==
    ASSUME TypeOK, NEW ms, NEW txn, NEW creator, NEW payer, NEW vault_index,
           NEW message, NEW sig, NEW wr,
           create_transaction(ms, txn, creator, payer, vault_index, message, sig, wr)
    PROVE  OnlyForward
<1> DEFINE space == SpaceFor(ms, message)
           account == [multisig |-> ms, transaction_index |-> NextIndex(ms),
                       creator |-> creator, payer |-> payer,
                       vault_index |-> vault_index, executed |-> FALSE,
                       approvals |-> <<>>, message |-> message, space |-> space]
<1>1. /\ ms \in DOMAIN multisig /\ txn \notin DOMAIN transaction
      /\ multisig' = [multisig EXCEPT ![ms].transaction_index = NextIndex(ms)]
      /\ transaction' = With(transaction, txn, account)
  BY DEF create_transaction
<1>2. account.multisig = ms /\ account.transaction_index = NextIndex(ms)
  OBVIOUS
<1> HIDE DEF account
<1>3. \A a \in DOMAIN multisig : multisig[a] \in MultisigAccount
  BY DEF TypeOK, LedgerTypeOK, Ledger
<1>4. \A a \in DOMAIN multisig :
          /\ a \in DOMAIN multisig'
          /\ multisig'[a].members = multisig[a].members
          /\ multisig'[a].threshold = multisig[a].threshold
          /\ multisig'[a].transaction_index >= multisig[a].transaction_index
  BY <1>1, <1>3 DEF NextIndex, MultisigAccount
<1>5. /\ DOMAIN transaction' = DOMAIN transaction \cup {txn}
      /\ transaction'[txn] = account
      /\ \A x \in DOMAIN transaction : transaction'[x] = transaction[x]
  BY <1>1 DEF With
<1>6. account.transaction_index > multisig[account.multisig].transaction_index
  BY <1>1, <1>2, <1>3 DEF NextIndex, MultisigAccount
<1>7. \A x \in DOMAIN transaction :
         IsPrefix(transaction[x].approvals, transaction[x].approvals)
  BY DEF IsPrefix, TypeOK, LedgerTypeOK, Ledger, VaultTransaction
<1> QED
  BY <1>4, <1>5, <1>6, <1>7 DEF OnlyForward

\* approve_transaction only appends to the approvals of an open proposal.
LEMMA ApproveForward ==
    ASSUME TypeOK, NEW ms, NEW txn, NEW member \in Address, NEW transaction_index,
           NEW sig, NEW wr,
           approve_transaction(ms, txn, member, transaction_index, sig, wr)
    PROVE  OnlyForward
<1> DEFINE s == transaction[txn].approvals
           u == [transaction[txn] EXCEPT !.approvals = Append(@, member)]
<1>1. /\ txn \in DOMAIN transaction /\ ~transaction[txn].executed
      /\ transaction' = [transaction EXCEPT ![txn] = u]
      /\ multisig' = multisig
  BY DEF approve_transaction, BoundTo, OpenForApproval
<1>2. transaction[txn] \in VaultTransaction
  BY <1>1 DEF TypeOK, LedgerTypeOK, Ledger
<1>3. /\ u.message = transaction[txn].message
      /\ u.vault_index = transaction[txn].vault_index
      /\ u.payer = transaction[txn].payer /\ u.creator = transaction[txn].creator
      /\ u.approvals = Append(s, member)
  BY <1>2 DEF VaultTransaction
<1>4. IsPrefix(s, u.approvals)
  <2>1. s \in Seq(Address)
    BY <1>2 DEF VaultTransaction
  <2> HIDE DEF s
  <2> QED BY <1>3, <2>1, PrefixOfAppend
<1> HIDE DEF u
<1>5. /\ DOMAIN transaction' = DOMAIN transaction
      /\ \A x \in DOMAIN transaction \ {txn} : transaction'[x] = transaction[x]
      /\ transaction'[txn] = u
  BY <1>1
<1>6. \A a \in DOMAIN multisig : multisig[a].transaction_index \in Nat
  BY DEF TypeOK, LedgerTypeOK, Ledger, MultisigAccount
<1>7. \A x \in DOMAIN transaction :
         IsPrefix(transaction[x].approvals, transaction[x].approvals)
  BY DEF IsPrefix, TypeOK, LedgerTypeOK, Ledger, VaultTransaction
<1>8. multisig' = multisig /\ ~transaction[txn].executed
  BY <1>1
<1>9. \A x \in DOMAIN transaction :
          /\ transaction'[x].message = transaction[x].message
          /\ transaction'[x].vault_index = transaction[x].vault_index
          /\ transaction'[x].payer = transaction[x].payer
          /\ transaction'[x].creator = transaction[x].creator
  BY <1>3, <1>5
<1>10. \A x \in DOMAIN transaction :
          IsPrefix(transaction[x].approvals, transaction'[x].approvals)
  BY <1>4, <1>5, <1>7
<1>11. \A x \in DOMAIN transaction :
          transaction[x].executed => transaction'[x] = transaction[x]
  BY <1>5, <1>8
<1> QED
  BY <1>5, <1>6, <1>8, <1>9, <1>10, <1>11 DEF OnlyForward

\* execute_transaction only sets the executed flag.
LEMMA ExecuteForward ==
    ASSUME TypeOK, NEW ms, NEW txn, NEW executor, NEW transaction_index, NEW remaining,
           NEW sig, NEW wr, NEW caller,
           execute_transaction(ms, txn, executor, transaction_index, remaining,
                               sig, wr, caller)
    PROVE  OnlyForward
<1> DEFINE u == [transaction[txn] EXCEPT !.executed = TRUE]
<1>1. /\ txn \in DOMAIN transaction /\ ~transaction[txn].executed
      /\ transaction' = [transaction EXCEPT ![txn] = u]
      /\ multisig' = multisig
  BY DEF execute_transaction, BoundTo, Flushed
<1>2. transaction[txn] \in VaultTransaction
  BY <1>1 DEF TypeOK, LedgerTypeOK, Ledger
<1>3. /\ u.message = transaction[txn].message
      /\ u.vault_index = transaction[txn].vault_index
      /\ u.payer = transaction[txn].payer /\ u.creator = transaction[txn].creator
      /\ u.approvals = transaction[txn].approvals
  BY <1>2 DEF VaultTransaction
<1> HIDE DEF u
<1>4. /\ DOMAIN transaction' = DOMAIN transaction
      /\ \A x \in DOMAIN transaction \ {txn} : transaction'[x] = transaction[x]
      /\ transaction'[txn] = u
  BY <1>1
<1>5. \A a \in DOMAIN multisig : multisig[a].transaction_index \in Nat
  BY DEF TypeOK, LedgerTypeOK, Ledger, MultisigAccount
<1>6. \A x \in DOMAIN transaction :
         IsPrefix(transaction[x].approvals, transaction[x].approvals)
  BY DEF IsPrefix, TypeOK, LedgerTypeOK, Ledger, VaultTransaction
<1>7. multisig' = multisig /\ ~transaction[txn].executed
  BY <1>1
<1> QED
  BY <1>3, <1>4, <1>5, <1>6, <1>7 DEF OnlyForward

\* close_transaction only removes a proposal.
LEMMA CloseForward ==
    ASSUME TypeOK, NEW ms, NEW txn, NEW payer, NEW transaction_index, NEW sig, NEW wr,
           close_transaction(ms, txn, payer, transaction_index, sig, wr)
    PROVE  OnlyForward
BY ForwardIfOnlyRemoved DEF close_transaction, Without

\* No member is ever let down by a step, save when a failed outer transaction is
\* rolled back.
THEOREM ForwardTheorem == Spec => ForwardUnlessRolledBack
<1>1. ASSUME Inv, [Next]_vars PROVE [RolledBack \/ OnlyForward]_vars
  <2>0. TypeOK
    BY <1>1 DEF Inv
  <2>1. CASE \/ InitializeMultisig \/ CpiInitialize
    BY <2>0, <2>1, InitializeForward DEF InitializeMultisig, CpiInitialize
  <2>2. CASE \/ CreateTransaction \/ CpiCreate
    BY <2>0, <2>2, CreateForward DEF CreateTransaction, CpiCreate
  <2>3. CASE ApproveTransaction
    <3>1. signers \subseteq Address
      BY <2>0 DEF TypeOK
    <3> QED BY <2>0, <2>3, <3>1, ApproveForward DEF ApproveTransaction
  <2>4. CASE CpiApprove
    <3>1. Arg(Last(stack), 3) \in Address
      BY <2>0, <2>4, InvokeType DEF CpiApprove, InvokeSelf
    <3> QED BY <2>0, <2>4, <3>1, ApproveForward DEF CpiApprove
  <2>5. CASE \/ ExecuteTransaction \/ CpiExecute
    BY <2>0, <2>5, ExecuteForward DEF ExecuteTransaction, CpiExecute
  <2>6. CASE \/ CloseTransaction \/ CpiClose
    BY <2>0, <2>6, CloseForward DEF CloseTransaction, CpiClose
  <2>7. CASE \/ ProvisionNonce \/ Prefund \/ CpiTransfer \/ CpiOther \/ CpiProvision
             \/ BeginTransaction \/ Commit
    <3>1. UNCHANGED <<multisig, transaction>>
      BY <2>7 DEF ProvisionNonce, Prefund, CpiTransfer, CpiOther, CpiProvision,
                  provision_nonce, BeginTransaction, Commit, ledgerVars
    <3> QED BY <2>0, <3>1, ForwardIfOnlyRemoved
  <2>8. CASE ExitExecute
    <3> DEFINE f == Last(stack)
    <3>1. f.transaction \in DOMAIN transaction => transaction[f.transaction] = f.cached
      <4>1. stack \in Seq(StackFrame) /\ stack # <<>>
        BY <2>0, <2>8 DEF TypeOK, ExitExecute
      <4>2. Len(stack) \in DOMAIN stack
        BY <4>1
      <4> QED BY <1>1, <4>2 DEF Inv, LedgerInv, StackInv, FrameInv, Last
    <3> HIDE DEF f
    <3>2. transaction' = IF f.transaction \in DOMAIN transaction
                         THEN [transaction EXCEPT ![f.transaction] = f.cached]
                         ELSE transaction
      BY <2>8 DEF f, ExitExecute, ProposalOnExit
    <3>3. multisig' = multisig
      BY <2>8 DEF ExitExecute, MultisigOnExit
    <3>4. DOMAIN transaction' \subseteq DOMAIN transaction
          /\ \A x \in DOMAIN transaction' : transaction'[x] = transaction[x]
      BY <3>1, <3>2
    <3> QED BY <2>0, <3>3, <3>4, ForwardIfOnlyRemoved
  <2>9. CASE Abort
    BY <2>9 DEF Abort, RolledBack
  <2>10. CASE UNCHANGED vars
    BY <2>10
  <2> QED
    BY <1>1, <2>1, <2>2, <2>3, <2>4, <2>5, <2>6, <2>7, <2>8, <2>9, <2>10 DEF Next
<1> QED
  BY <1>1, Invariant, PTL DEF Spec, ForwardUnlessRolledBack

\* Only the source of a transfer loses lamports.
LEMMA MovedDebits ==
    ASSUME lamports \in [Address -> Nat], NEW from \in Address, NEW to \in Address,
           NEW amount \in Nat, NEW a \in Address,
           Moved(from, to, amount)[a] < lamports[a]
    PROVE  a = from
BY DEF Moved

\* Creating an account costs its payer, and nobody else.
LEMMA AnchorInitDebits ==
    ASSUME TypeOK, NEW acct, NEW payer, NEW bytes, NEW sig, NEW wr,
           AnchorInit(acct, payer, bytes, sig, wr), sig \subseteq Address,
           NEW a \in Address, lamports'[a] < lamports[a]
    PROVE  a \in sig
<1>1. /\ acct \in Address /\ payer \in sig /\ bytes \in Nat
      /\ lamports' = Moved(payer, acct, Missing(acct, bytes))
  BY ConstantsAssumption DEF AnchorInit
<1>2. lamports \in [Address -> Nat]
  BY DEF TypeOK, LedgerTypeOK, Ledger
<1>3. Missing(acct, bytes) \in Nat
  BY <1>1, <1>2 DEF Missing, Rent
<1>4. payer \in Address
  BY <1>1
<1> QED
  BY <1>1, <1>2, <1>3, <1>4, MovedDebits

\* provision_nonce costs its payer.
LEMMA ProvisionDebits ==
    ASSUME TypeOK, NEW ms, NEW nonce_account, NEW payer, NEW sig, NEW wr,
           provision_nonce(ms, nonce_account, payer, sig, wr), sig \subseteq Address,
           NEW a \in Address, lamports'[a] < lamports[a]
    PROVE  a \in sig
<1>1. /\ nonce_account \in Address /\ payer \in sig /\ Rent(80) \in Nat
      /\ lamports' = Moved(payer, nonce_account, Rent(80))
  BY DEF provision_nonce, Rent
<1>2. lamports \in [Address -> Nat] /\ payer \in Address
  BY <1>1 DEF TypeOK, LedgerTypeOK, Ledger
<1> QED
  BY <1>1, <1>2, MovedDebits

\* close_transaction empties the account it removes.
LEMMA CloseDebits ==
    ASSUME TypeOK, NEW ms, NEW txn, NEW payer, NEW transaction_index, NEW sig, NEW wr,
           close_transaction(ms, txn, payer, transaction_index, sig, wr),
           sig \subseteq Address, NEW a \in Address, lamports'[a] < lamports[a]
    PROVE  a \in DOMAIN transaction /\ a \notin DOMAIN transaction'
<1>1. /\ txn \in DOMAIN transaction /\ payer \in sig
      /\ lamports' = Moved(txn, payer, lamports[txn])
      /\ transaction' = Without(transaction, txn)
  BY DEF close_transaction, BoundTo
<1>2. lamports \in [Address -> Nat] /\ txn \in Address /\ payer \in Address
  BY <1>1 DEF TypeOK, LedgerTypeOK, Ledger
<1>3. lamports[txn] \in Nat
  BY <1>2
<1>4. a = txn
  BY <1>1, <1>2, <1>3, MovedDebits
<1> QED
  BY <1>1, <1>4 DEF Without

\* The only signature a CPI carries is the vault's, whoever signed the outer
\* transaction.
LEMMA SoleSigner ==
    ASSUME Inv, NEW program_id, InvokeSigned(program_id)
    PROVE  /\ SignerKeys(Metas(Last(stack))) \subseteq {VaultOf(Last(stack))}
           /\ SignerKeys(Metas(Last(stack))) \subseteq Address
           /\ stack # <<>>
<1> DEFINE f == Last(stack)
           message == f.cached.message
           indexes == Instruction(f).account_indexes
<1>1. TypeOK
  BY DEF Inv
<1>2. /\ stack \in Seq(StackFrame) /\ Len(stack) \in Nat \ {0}
      /\ f \in StackFrame /\ f = stack[Len(stack)]
      /\ SignerKeys(Metas(f)) \in SUBSET Address
  BY <1>1, InvokeType
<1>3. FrameInv(multisig, transaction, consent, log, f)
  BY <1>2 DEF Inv, LedgerInv, StackInv
<1>4. message.num_signers = 1 /\ message.account_keys[1] = VaultOf(f)
  BY <1>3 DEF FrameInv, ValidMessage, HeaderOk, VaultOf
<1>5. indexes \in Seq(Nat)
  <2>1. f.pc \in 1..Len(message.instructions)
    BY <1>2 DEF StackFrame, InvokeSigned
  <2>2. message \in TransactionMessage
    BY <1>2, ConstantsAssumption DEF StackFrame, VaultTransaction
  <2>3. Instruction(f) \in CompiledInstruction
    BY <2>1, <2>2 DEF Instruction, TransactionMessage
  <2> QED BY <2>3 DEF CompiledInstruction
<1>6. SignerKeys(Metas(f)) \subseteq {VaultOf(f)}
  <2> SUFFICES ASSUME NEW key \in SignerKeys(Metas(f)) PROVE key = VaultOf(f)
    OBVIOUS
  <2>1. PICK j \in DOMAIN Metas(f) : Metas(f)[j].is_signer /\ key = Metas(f)[j].pubkey
    BY DEF SignerKeys
  <2>2. j \in 1..Len(indexes)
    BY <2>1 DEF Metas, account_metas
  <2>3. /\ is_signer(message, indexes[j])
        /\ key = message.account_keys[indexes[j] + 1]
    BY <2>1, <2>2 DEF Metas, account_metas
  <2>4. indexes[j] \in Nat
    BY <1>5, <2>2
  <2> HIDE DEF f, message, indexes
  <2>5. indexes[j] = 0
    BY <1>4, <2>3, <2>4 DEF is_signer
  <2> QED BY <1>4, <2>3, <2>5
<1> QED
  BY <1>2, <1>6 DEF InvokeSigned

\* Whoever loses lamports in a step agreed to it.
LEMMA DebitsStep ==
    ASSUME Inv, [Next]_vars
    PROVE  [RolledBack \/ \A a \in Address :
               lamports'[a] < lamports[a] => DebitAuthorized(a)]_vars
<1> DEFINE Agreed == \A a \in Address : lamports'[a] < lamports[a] => DebitAuthorized(a)
<1>1. [RolledBack \/ Agreed]_vars
  <2>0. TypeOK /\ lamports \in [Address -> Nat] /\ signers \subseteq Address
    BY DEF Inv, TypeOK, LedgerTypeOK, Ledger
  <2>1. ASSUME lamports' = lamports PROVE Agreed
    BY <2>0, <2>1
  <2>2. ASSUME TopLevel, \A a \in Address : lamports'[a] < lamports[a] => a \in signers
        PROVE  Agreed
    BY <2>2 DEF TopLevel, DebitAuthorized
  <2>3. ASSUME NEW program_id, InvokeSigned(program_id),
               \A a \in Address : lamports'[a] < lamports[a] =>
                   a \in SignerKeys(Metas(Last(stack)))
        PROVE  Agreed
    BY <2>3, SoleSigner DEF DebitAuthorized
  <2>4. CASE \/ InitializeMultisig
    <3>1. \A a \in Address : lamports'[a] < lamports[a] => a \in signers
      BY ZenonT(30), <2>0, <2>4, AnchorInitDebits DEF InitializeMultisig, initialize_multisig
    <3> QED BY <2>2, <2>4, <3>1 DEF InitializeMultisig
  <2>5. CASE CreateTransaction
    <3>1. \A a \in Address : lamports'[a] < lamports[a] => a \in signers
      BY <2>0, <2>5, AnchorInitDebits DEF CreateTransaction, create_transaction
    <3> QED BY <2>2, <2>5, <3>1 DEF CreateTransaction
  <2>6. CASE ApproveTransaction \/ ExecuteTransaction \/ CpiApprove \/ CpiExecute
             \/ ExitExecute \/ BeginTransaction \/ Commit
    <3>1. lamports' = lamports
      BY ZenonT(30), <2>6 DEF ApproveTransaction, approve_transaction, ExecuteTransaction,
         execute_transaction, CpiApprove, CpiExecute, ExitExecute,
         BeginTransaction, Commit, ledgerVars
    <3> QED BY <2>1, <3>1
  <2>7. CASE CloseTransaction
    BY <2>0, <2>7, CloseDebits DEF CloseTransaction, DebitAuthorized
  <2>8. CASE ProvisionNonce
    <3>1. \A a \in Address : lamports'[a] < lamports[a] => a \in signers
      BY <2>0, <2>8, ProvisionDebits DEF ProvisionNonce
    <3> QED BY <2>2, <2>8, <3>1 DEF ProvisionNonce
  <2>9. CASE Prefund
    <3>1. PICK from \in signers, to \in Prefundable : lamports' = Moved(from, to, 1)
      BY <2>9 DEF Prefund
    <3>2. from \in Address /\ to \in Address /\ 1 \in Nat
      BY <2>0, ConstantsAssumption
    <3>3. \A a \in Address : lamports'[a] < lamports[a] => a \in signers
      BY <2>0, <3>1, <3>2, MovedDebits
    <3> QED BY <2>2, <2>9, <3>3 DEF Prefund
  <2>10. CASE CpiTransfer
    <3> DEFINE f == Last(stack)
    <3>1. /\ InvokeSigned(SYSTEM_PROGRAM) /\ Payload(f).op = "transfer"
          /\ Len(Metas(f)) >= 2 /\ Arg(f, 1) \in SignerKeys(Metas(f))
          /\ lamports' = Moved(Arg(f, 1), Arg(f, 2), Payload(f).lamports)
      BY <2>10 DEF CpiTransfer, Debits
    <3>2. /\ Arg(f, 1) \in Address /\ Arg(f, 2) \in Address
          /\ Payload(f).lamports \in Nat
      BY <2>0, <3>1, InvokeType, DecodeAssumption DEF Payload
    <3>3. \A a \in Address : lamports'[a] < lamports[a] => a = Arg(f, 1)
      <4> HIDE DEF f
      <4> QED BY <2>0, <3>1, <3>2, MovedDebits
    <3> QED BY <2>3, <3>1, <3>3
  <2>11. CASE CpiInitialize
    <3>1. InvokeSigned(PROGRAM_ID)
      BY <2>11 DEF CpiInitialize, InvokeSelf
    <3>2. SignerKeys(Metas(Last(stack))) \subseteq Address
      BY <3>1, SoleSigner
    <3>3. \A a \in Address : lamports'[a] < lamports[a] => a \in SignerKeys(Metas(Last(stack)))
      BY <2>0, <2>11, <3>2, AnchorInitDebits DEF CpiInitialize, initialize_multisig
    <3> QED BY <2>3, <3>1, <3>3
  <2>12. CASE CpiCreate
    <3>1. InvokeSigned(PROGRAM_ID)
      BY <2>12 DEF CpiCreate, InvokeSelf
    <3>2. SignerKeys(Metas(Last(stack))) \subseteq Address
      BY <3>1, SoleSigner
    <3>3. \A a \in Address : lamports'[a] < lamports[a] => a \in SignerKeys(Metas(Last(stack)))
      BY <2>0, <2>12, <3>2, AnchorInitDebits DEF CpiCreate, create_transaction
    <3> QED BY <2>3, <3>1, <3>3
  <2>13. CASE CpiClose
    <3>1. InvokeSigned(PROGRAM_ID)
      BY <2>13 DEF CpiClose, InvokeSelf
    <3>2. SignerKeys(Metas(Last(stack))) \subseteq Address
      BY <3>1, SoleSigner
    <3> QED BY <2>0, <2>13, <3>2, CloseDebits DEF CpiClose, DebitAuthorized
  <2>14. CASE CpiProvision
    <3>1. InvokeSigned(PROGRAM_ID)
      BY <2>14 DEF CpiProvision, InvokeSelf
    <3>2. SignerKeys(Metas(Last(stack))) \subseteq Address
      BY <3>1, SoleSigner
    <3>3. \A a \in Address : lamports'[a] < lamports[a] => a \in SignerKeys(Metas(Last(stack)))
      BY <2>0, <2>14, <3>2, ProvisionDebits DEF CpiProvision
    <3> QED BY <2>3, <3>1, <3>3
  <2>15. CASE CpiOther
    <3> DEFINE f == Last(stack)
    <3>1. PICK program_id : InvokeSigned(program_id)
      BY <2>15 DEF CpiOther
    <3>2. CASE UNCHANGED lamports
      BY <2>1, <3>2
    <3>3. CASE \E from \in SignerKeys(Metas(f)), to \in WritableKeys(Metas(f)),
                   amount \in ForeignAmounts : Debits(f, from, to, amount)
      <4>1. PICK from \in SignerKeys(Metas(f)), to \in WritableKeys(Metas(f)),
                 amount \in ForeignAmounts : Debits(f, from, to, amount)
        BY <3>3
      <4>2. from \in Address /\ to \in Address /\ amount \in Nat
        BY <2>0, <3>1, <4>1, InvokeType, ConstantsAssumption
      <4>3. lamports' = Moved(from, to, amount)
        BY <4>1 DEF Debits
      <4>4. \A a \in Address : lamports'[a] < lamports[a] => a = from
        <5> HIDE DEF f
        <5> QED BY <2>0, <4>2, <4>3, MovedDebits
      <4> QED BY <2>3, <3>1, <4>1, <4>4
    <3> QED BY <2>15, <3>2, <3>3 DEF CpiOther
  <2>16. CASE Abort
    BY <2>16 DEF Abort, RolledBack
  <2>17. CASE UNCHANGED vars
    BY <2>17
  <2> HIDE DEF Agreed
  <2> QED
    BY <2>4, <2>5, <2>6, <2>7, <2>8, <2>9, <2>10, <2>11, <2>12, <2>13, <2>14,
       <2>16, <2>17, <2>15 DEF Next
<1> QED
  BY <1>1

\* Signer-borrow prevention: the paymaster and the executor never pay for what
\* a proposal does; only the vault does, and only for what its members approved.
THEOREM DebitsTheorem == Spec => DebitsAreAuthorized
BY DebitsStep, Invariant, PTL DEF Spec, DebitsAreAuthorized

-----------------------------------------------------------------------------
(***************************************************************************)
(* Deposits: what a payer has in its wallet and in its live proposals.     *)
(***************************************************************************)

\* The live proposals p paid for.
PaidBy(L, p) == { txn \in DOMAIN L.transaction : L.transaction[txn].payer = p }

\* A ledger whose deposits can be summed up.
Counted(L) ==
    /\ L.lamports \in [Address -> Nat]
    /\ DOMAIN L.transaction \subseteq Address
    /\ IsFiniteSet(DOMAIN L.transaction)

\* A stake is a wallet and a sum over finitely many proposals.
LEMMA StakeType ==
    ASSUME NEW L, Counted(L), NEW p \in Address
    PROVE  /\ PaidBy(L, p) \subseteq Address /\ IsFiniteSet(PaidBy(L, p))
           /\ SumFunctionOnSet(L.lamports, PaidBy(L, p)) \in Nat
           /\ Stake(L, p) = L.lamports[p] + SumFunctionOnSet(L.lamports, PaidBy(L, p))
<1>1. PaidBy(L, p) \in SUBSET DOMAIN L.transaction
  BY DEF PaidBy
<1>2. PaidBy(L, p) \subseteq Address /\ IsFiniteSet(PaidBy(L, p))
  BY <1>1, FS_Subset DEF Counted
<1>3. \A x \in PaidBy(L, p) : L.lamports[x] \in Nat /\ L.lamports[x] <= L.lamports[x]
  BY <1>2 DEF Counted
<1>4. SumFunctionOnSet(L.lamports, PaidBy(L, p)) \in Nat
  BY <1>2, <1>3, SumCompared
<1> QED
  BY <1>2, <1>4 DEF Stake, PaidBy

\* While the same proposals are live, a stake shrinks only if the wallet or one
\* of the proposals is debited.
LEMMA StakeHeld ==
    ASSUME NEW L, NEW K, Counted(L), Counted(K), NEW p \in Address,
           PaidBy(K, p) = PaidBy(L, p), L.lamports[p] <= K.lamports[p],
           \A txn \in DOMAIN L.transaction : L.lamports[txn] <= K.lamports[txn]
    PROVE  Stake(L, p) <= Stake(K, p)
<1> DEFINE D == PaidBy(L, p)
           SL == SumFunctionOnSet(L.lamports, D)
           SK == SumFunctionOnSet(K.lamports, D)
<1>1. /\ D \subseteq Address /\ IsFiniteSet(D)
      /\ Stake(L, p) = L.lamports[p] + SL /\ Stake(K, p) = K.lamports[p] + SK
  BY StakeType
<1>2. \A x \in D : /\ L.lamports[x] \in Nat /\ K.lamports[x] \in Nat
                   /\ L.lamports[x] <= K.lamports[x]
  BY DEF PaidBy, Counted
<1>3. SL \in Nat /\ SK \in Nat /\ SL <= SK
  BY <1>1, <1>2, SumCompared
<1>4. L.lamports[p] \in Nat /\ K.lamports[p] \in Nat
  BY DEF Counted
<1> HIDE DEF SL, SK
<1> QED
  BY <1>1, <1>3, <1>4

\* Opening a proposal moves lamports from the payer's wallet into its deposits.
LEMMA StakeOpened ==
    ASSUME NEW L, NEW K, Counted(L), Counted(K), NEW p \in Address, NEW txn \in Address,
           NEW payer \in Address, NEW amount \in Nat, payer # txn,
           txn \notin DOMAIN L.transaction, payer \notin DOMAIN L.transaction,
           PaidBy(K, p) = IF p = payer THEN PaidBy(L, p) \cup {txn} ELSE PaidBy(L, p),
           K.lamports = [L.lamports EXCEPT ![payer] = @ - amount, ![txn] = @ + amount]
    PROVE  Stake(L, p) <= Stake(K, p)
<1>1. L.lamports \in [Address -> Nat] /\ K.lamports \in [Address -> Nat]
  BY DEF Counted
<1>2. \A a \in Address \ {payer} : L.lamports[a] <= K.lamports[a]
  BY <1>1
<1>3. CASE p # payer
  <2>1. PaidBy(K, p) = PaidBy(L, p) /\ L.lamports[p] <= K.lamports[p]
    BY <1>2, <1>3
  <2>2. \A x \in DOMAIN L.transaction : L.lamports[x] <= K.lamports[x]
    BY <1>2 DEF Counted
  <2> QED
    BY <2>1, <2>2, StakeHeld
<1>4. CASE p = payer
  <2> DEFINE D == PaidBy(L, p)
             SL == SumFunctionOnSet(L.lamports, D)
             SK == SumFunctionOnSet(K.lamports, D)
  <2>1. /\ D \subseteq Address /\ IsFiniteSet(D)
        /\ Stake(L, p) = L.lamports[p] + SL
        /\ IsFiniteSet(D \cup {txn})
        /\ Stake(K, p) = K.lamports[p] + SumFunctionOnSet(K.lamports, D \cup {txn})
    BY <1>4, StakeType
  <2>2. \A x \in D \cup {txn} : K.lamports[x] \in Nat
    BY <1>1, <2>1
  <2>3. (D \cup {txn}) \ {txn} = D
    BY DEF PaidBy
  <2>4. SumFunctionOnSet(K.lamports, D \cup {txn}) = K.lamports[txn] + SK
    <3> DEFINE E == D \cup {txn}
    <3>1. IsFiniteSet(E) /\ txn \in E /\ \A x \in E : K.lamports[x] \in Nat
      BY <2>1, <2>2
    <3>2. E \ {txn} = D
      BY <2>3
    <3> HIDE DEF E
    <3>3. SumFunctionOnSet(K.lamports, E) = K.lamports[txn] + SumFunctionOnSet(K.lamports, E \ {txn})
      BY <3>1, SumTakeOut
    <3> QED
      BY <3>2, <3>3 DEF E
  <2>5. \A x \in D : /\ L.lamports[x] \in Nat /\ K.lamports[x] \in Nat
                     /\ L.lamports[x] <= K.lamports[x]
    BY <1>1, <1>2, <2>1 DEF PaidBy
  <2>6. SL \in Nat /\ SK \in Nat /\ SL <= SK
    BY <2>1, <2>5, SumCompared
  <2>7. /\ L.lamports[p] \in Nat /\ L.lamports[txn] \in Nat
        /\ K.lamports[p] = L.lamports[p] - amount
        /\ K.lamports[txn] = L.lamports[txn] + amount
    BY <1>1, <1>4
  <2> HIDE DEF SL, SK
  <2> QED
    BY <2>1, <2>4, <2>6, <2>7
<1> QED
  BY <1>3, <1>4

\* Closing it moves what the account holds back into the wallet.
LEMMA StakeClosed ==
    ASSUME NEW L, NEW K, Counted(L), Counted(K), NEW p \in Address,
           NEW txn \in DOMAIN L.transaction, p # txn,
           NEW payer \in Address, L.transaction[txn].payer = payer,
           payer \notin DOMAIN L.transaction,
           PaidBy(K, p) = PaidBy(L, p) \ {txn},
           K.lamports = [L.lamports EXCEPT ![txn] = @ - L.lamports[txn],
                                           ![payer] = @ + L.lamports[txn]]
    PROVE  Stake(L, p) <= Stake(K, p)
<1>1. L.lamports \in [Address -> Nat] /\ K.lamports \in [Address -> Nat] /\ txn \in Address
  BY DEF Counted
<1>2. payer # txn
  OBVIOUS
<1>3. \A a \in Address \ {txn} : L.lamports[a] <= K.lamports[a]
  BY <1>1, <1>2
<1> DEFINE D == PaidBy(L, p)
           C == D \ {txn}
           SL == SumFunctionOnSet(L.lamports, C)
           SK == SumFunctionOnSet(K.lamports, C)
<1>4. /\ D \subseteq Address /\ IsFiniteSet(D) /\ IsFiniteSet(C)
      /\ Stake(L, p) = L.lamports[p] + SumFunctionOnSet(L.lamports, D)
      /\ Stake(K, p) = K.lamports[p] + SK
  <2>1. /\ D \subseteq Address /\ IsFiniteSet(D)
        /\ Stake(L, p) = L.lamports[p] + SumFunctionOnSet(L.lamports, D)
    BY StakeType
  <2>2. /\ IsFiniteSet(PaidBy(K, p))
        /\ Stake(K, p) = K.lamports[p] + SumFunctionOnSet(K.lamports, PaidBy(K, p))
    BY StakeType
  <2> QED
    BY <2>1, <2>2
<1>5. \A x \in C : /\ L.lamports[x] \in Nat /\ K.lamports[x] \in Nat
                   /\ L.lamports[x] <= K.lamports[x]
  BY <1>1, <1>3, <1>4
<1>6. SL \in Nat /\ SK \in Nat /\ SL <= SK
  BY <1>4, <1>5, SumCompared
<1>7. CASE p # payer
  <2>1. txn \notin D /\ C = D
    BY <1>7 DEF PaidBy
  <2>2. L.lamports[p] \in Nat /\ K.lamports[p] \in Nat /\ L.lamports[p] <= K.lamports[p]
    BY <1>1, <1>3
  <2>3. SumFunctionOnSet(L.lamports, D) = SL
    BY <2>1
  <2> HIDE DEF SL, SK
  <2> QED
    BY <1>4, <1>6, <2>2, <2>3
<1>8. CASE p = payer
  <2>1. txn \in D
    BY <1>8 DEF PaidBy
  <2>2. \A x \in D : L.lamports[x] \in Nat
    BY <1>1, <1>4
  <2>3. SumFunctionOnSet(L.lamports, D) = L.lamports[txn] + SL
    BY <1>4, <2>1, <2>2, SumTakeOut
  <2>4. /\ L.lamports[p] \in Nat /\ L.lamports[txn] \in Nat
        /\ K.lamports[p] = L.lamports[p] + L.lamports[txn]
    BY <1>1, <1>2, <1>8
  <2> HIDE DEF SL, SK
  <2> QED
    BY <1>4, <1>6, <2>3, <2>4
<1> QED
  BY <1>7, <1>8

\* Where no proposal appears and no counter moves, what was counted still is.
LEMMA CountedKept ==
    ASSUME DepositInv, multisig' = multisig, DOMAIN transaction' \subseteq DOMAIN transaction
    PROVE  CountInv(Ledger)'
<1>1. IsFiniteSet(DOMAIN transaction')
  BY FS_Subset DEF DepositInv, CountInv, Ledger
<1> QED
  BY <1>1 DEF DepositInv, CountInv, Ledger

\* A new multisig starts counting at 0.
LEMMA InitializeCounted ==
    ASSUME TypeOK, DepositInv, NEW ms, NEW payer, NEW members, NEW member_hash, NEW threshold,
           NEW member_count, NEW sig, NEW wr,
           initialize_multisig(ms, payer, members, member_hash, threshold, member_count, sig, wr)
    PROVE  CountInv(Ledger)'
<1>1. /\ transaction' = transaction
      /\ \E account : /\ multisig' = With(multisig, ms, account)
                      /\ account.transaction_index = 0
  BY DEF initialize_multisig
<1>2. U64_MAX \in Nat
  BY ConstantsAssumption
<1> QED
  BY <1>1, <1>2 DEF DepositInv, CountInv, Ledger, With

\* A new proposal is one more, and its index is one its multisig may give out.
LEMMA CreateCounted ==
    ASSUME TypeOK, DepositInv, NEW ms, NEW txn, NEW creator, NEW payer, NEW vault_index,
           NEW message, NEW sig, NEW wr,
           create_transaction(ms, txn, creator, payer, vault_index, message, sig, wr)
    PROVE  CountInv(Ledger)'
<1>1. /\ ms \in DOMAIN multisig /\ NextIndex(ms) <= U64_MAX
      /\ multisig' = [multisig EXCEPT ![ms].transaction_index = NextIndex(ms)]
      /\ DOMAIN transaction' = DOMAIN transaction \cup {txn}
  BY DEF create_transaction, With
<1>2. IsFiniteSet(DOMAIN transaction')
  BY <1>1, FS_AddElement DEF DepositInv, CountInv, Ledger
<1>3. \A a \in DOMAIN multisig : multisig[a] \in MultisigAccount
  BY DEF TypeOK, LedgerTypeOK, Ledger
<1>4. ASSUME NEW a \in DOMAIN multisig'
      PROVE  multisig'[a].transaction_index <= U64_MAX
  <2>1. CASE a = ms
    BY <1>1, <1>3, <2>1 DEF MultisigAccount
  <2>2. CASE a # ms
    BY <1>1, <2>2 DEF DepositInv, CountInv, Ledger
  <2> QED
    BY <2>1, <2>2
<1> QED
  BY <1>2, <1>4 DEF CountInv, Ledger

\* DepositInv is kept by every step from a safe state.
LEMMA DepositStep == Inv /\ DepositInv /\ [Next]_vars => DepositInv'
<1> SUFFICES ASSUME Inv, DepositInv, [Next]_vars PROVE DepositInv'
  OBVIOUS
<1>0. TypeOK
  BY DEF Inv
<1>1. ASSUME CountInv(Ledger)', committed' = committed, signers' = signers
      PROVE  DepositInv'
  BY <1>1 DEF DepositInv
<1>2. CASE InitializeMultisig \/ CreateTransaction
  <2>1. CountInv(Ledger)'
    BY ZenonT(30), <1>0, <1>2, InitializeCounted, CreateCounted
       DEF InitializeMultisig, CreateTransaction
  <2> QED
    BY <1>1, <1>2, <2>1 DEF InitializeMultisig, CreateTransaction, TopLevel
<1>3. CASE CpiInitialize \/ CpiCreate
  <2>1. CountInv(Ledger)'
    BY ZenonT(30), <1>0, <1>3, InitializeCounted, CreateCounted DEF CpiInitialize, CpiCreate
  <2> QED
    BY <1>1, <1>3, <2>1 DEF CpiInitialize, CpiCreate, InvokeSelf, InvokeSigned
<1>4. ASSUME multisig' = multisig, DOMAIN transaction' \subseteq DOMAIN transaction,
             committed' = committed, signers' = signers
      PROVE  DepositInv'
  BY <1>1, <1>4, CountedKept
<1>5. CASE ApproveTransaction \/ CpiApprove
  BY <1>4, <1>5 DEF ApproveTransaction, CpiApprove, approve_transaction, TopLevel,
                    InvokeSelf, InvokeSigned
<1>6. CASE ExecuteTransaction \/ CpiExecute
  BY <1>4, <1>6 DEF ExecuteTransaction, CpiExecute, execute_transaction, Flushed, TopLevel,
                    InvokeSelf, InvokeSigned
<1>7. CASE CloseTransaction \/ CpiClose
  BY <1>4, <1>7 DEF CloseTransaction, CpiClose, close_transaction, Without, TopLevel,
                    InvokeSelf, InvokeSigned
<1>8. CASE ProvisionNonce \/ CpiProvision
  BY <1>4, <1>8 DEF ProvisionNonce, CpiProvision, provision_nonce, TopLevel,
                    InvokeSelf, InvokeSigned
<1>9. CASE Prefund \/ CpiTransfer \/ CpiOther
  BY <1>4, <1>9 DEF Prefund, CpiTransfer, CpiOther, TopLevel, InvokeSigned
<1>10. CASE ExitExecute
  BY <1>4, <1>10 DEF ExitExecute, MultisigOnExit, ProposalOnExit
<1>11. CASE BeginTransaction
  BY <1>11 DEF BeginTransaction, ledgerVars, DepositInv, CountInv, Ledger
<1>12. CASE Commit
  BY <1>12 DEF Commit, ledgerVars, DepositInv, CountInv, Ledger
<1>13. CASE Abort
  BY <1>13 DEF Abort, DepositInv, CountInv, Ledger
<1>14. CASE UNCHANGED vars
  BY <1>14 DEF vars, DepositInv, CountInv, Ledger
<1> QED
  BY <1>2, <1>3, <1>5, <1>6, <1>7, <1>8, <1>9, <1>10, <1>11, <1>12, <1>13, <1>14 DEF Next

\* The signatures that can authorize a debit are never a proposal's: an outer
\* transaction is signed by keys, a CPI by a vault.
LEMMA AuthorizedKey ==
    ASSUME Inv, DepositInv, NEW a, \/ a \in signers
                                   \/ stack # <<>> /\ a = VaultOf(Last(stack))
    PROVE  a \notin DOMAIN transaction
<1> SUFFICES ASSUME a \in DOMAIN transaction PROVE FALSE
  OBVIOUS
<1> DEFINE ms == transaction[a].multisig
           i == transaction[a].transaction_index
<1>1. /\ ms \in DOMAIN multisig /\ i \in 1..multisig[ms].transaction_index
      /\ a = transaction_pda(ms, i)
  BY DEF Inv, LedgerInv, LiveInv
<1>2. ms \in Address /\ multisig[ms].transaction_index \in Nat
  BY <1>1 DEF Inv, TypeOK, LedgerTypeOK, Ledger, MultisigAccount
<1>3. i \in 1..U64_MAX
  <2>1. multisig[ms].transaction_index <= U64_MAX /\ U64_MAX \in Nat
    BY <1>1, ConstantsAssumption DEF DepositInv, CountInv, Ledger
  <2> HIDE DEF ms, i
  <2> QED
    BY <1>1, <1>2, <2>1
<1> HIDE DEF ms, i
<1>4. a \notin signers
  BY <1>1, <1>2, <1>3, SignersAssumption DEF DepositInv
<1>5. a # VaultOf(Last(stack))
  BY <1>1 DEF VaultOf, derive_vault_pda, transaction_pda
<1> QED
  BY <1>4, <1>5

\* The ledger before a step and after it can be summed up.
LEMMA LedgerCounted ==
    ASSUME TypeOK, DepositInv
    PROVE  Counted(Ledger)
BY DEF TypeOK, LedgerTypeOK, DepositInv, CountInv, Counted, Ledger

\* Opening a proposal leaves every stake as it is, or larger.
LEMMA CreateStake ==
    ASSUME TypeOK, Counted(Ledger), Counted(Ledger'), NEW ms, NEW txn, NEW creator, NEW payer,
           NEW vault_index, NEW message, NEW sig, NEW wr,
           create_transaction(ms, txn, creator, payer, vault_index, message, sig, wr),
           sig \subseteq Address, \A a \in sig : a \notin DOMAIN transaction,
           NEW p \in Address
    PROVE  Stake(Ledger, p) <= Stake(Ledger', p)
<1> DEFINE amount == Missing(txn, SpaceFor(ms, message))
<1>1. /\ txn \in Address /\ payer \in sig /\ payer # txn /\ txn \notin DOMAIN transaction
      /\ SpaceFor(ms, message) \in 0..MAX_PROPOSAL_ACCOUNT_BYTES
      /\ lamports' = Moved(payer, txn, amount)
      /\ \E t : t.payer = payer /\ transaction' = With(transaction, txn, t)
  BY DEF create_transaction, AnchorInit
<1>2. amount \in Nat
  <2>1. lamports[txn] \in Nat
    BY <1>1 DEF TypeOK, LedgerTypeOK, Ledger
  <2>2. SpaceFor(ms, message) \in Nat
    BY <1>1, ConstantsAssumption
  <2> QED
    BY <2>1, <2>2 DEF Missing, Rent
<1> HIDE DEF amount
<1>3. payer \in Address /\ payer \notin DOMAIN transaction
  BY <1>1
<1>4. PaidBy(Ledger', p)
        = IF p = payer THEN PaidBy(Ledger, p) \cup {txn} ELSE PaidBy(Ledger, p)
  BY <1>1 DEF PaidBy, Ledger, With
<1>5. Ledger'.lamports = [Ledger.lamports EXCEPT ![payer] = @ - amount, ![txn] = @ + amount]
  BY <1>1 DEF Ledger, Moved
<1>6. Ledger.transaction = transaction
  BY DEF Ledger
<1> QED
  BY <1>1, <1>2, <1>3, <1>4, <1>5, <1>6, StakeOpened

\* So does closing one.
LEMMA CloseStake ==
    ASSUME TypeOK, Counted(Ledger), Counted(Ledger'), NEW ms, NEW txn, NEW payer,
           NEW transaction_index, NEW sig, NEW wr,
           close_transaction(ms, txn, payer, transaction_index, sig, wr),
           sig \subseteq Address, \A a \in sig : a \notin DOMAIN transaction,
           NEW p \in Address \ DOMAIN transaction
    PROVE  Stake(Ledger, p) <= Stake(Ledger', p)
<1>1. /\ txn \in DOMAIN transaction /\ payer \in sig /\ transaction[txn].payer = payer
      /\ lamports' = Moved(txn, payer, lamports[txn])
      /\ transaction' = Without(transaction, txn)
  BY DEF close_transaction, BoundTo, HasOnePayer
<1>2. payer \in Address /\ payer \notin DOMAIN transaction /\ p # txn
  BY <1>1
<1>3. PaidBy(Ledger', p) = PaidBy(Ledger, p) \ {txn}
  BY <1>1 DEF PaidBy, Ledger, Without
<1>4. Ledger'.lamports = [Ledger.lamports EXCEPT ![txn] = @ - Ledger.lamports[txn],
                                                 ![payer] = @ + Ledger.lamports[txn]]
  BY <1>1 DEF Ledger, Moved
<1>5. Ledger.transaction = transaction
  BY DEF Ledger
<1> QED
  BY <1>1, <1>2, <1>3, <1>4, <1>5, StakeClosed

\* A step that touches no lamports and no payer touches no stake.
LEMMA QuietStake ==
    ASSUME Counted(Ledger), Counted(Ledger'), lamports' = lamports,
           DOMAIN transaction' = DOMAIN transaction,
           \A txn \in DOMAIN transaction : transaction'[txn].payer = transaction[txn].payer,
           NEW p \in Address
    PROVE  Stake(Ledger, p) <= Stake(Ledger', p)
<1>1. PaidBy(Ledger', p) = PaidBy(Ledger, p)
  BY DEF PaidBy, Ledger
<1>2. \A a \in Address : Ledger.lamports[a] <= Ledger'.lamports[a]
  BY DEF Counted, Ledger
<1> QED
  BY <1>1, <1>2, StakeHeld DEF Counted

\* Approving moves no lamports and leaves the payers as they are.
LEMMA ApproveQuiet ==
    ASSUME TypeOK, NEW ms, NEW txn, NEW member, NEW transaction_index, NEW sig, NEW wr,
           approve_transaction(ms, txn, member, transaction_index, sig, wr)
    PROVE  /\ lamports' = lamports /\ DOMAIN transaction' = DOMAIN transaction
           /\ \A a \in DOMAIN transaction : transaction'[a].payer = transaction[a].payer
<1> DEFINE t == [transaction[txn] EXCEPT !.approvals = Append(@, member)]
<1>1. /\ txn \in DOMAIN transaction /\ lamports' = lamports
      /\ transaction' = [transaction EXCEPT ![txn] = t]
  BY DEF approve_transaction, BoundTo
<1>2. t.payer = transaction[txn].payer
  <2>1. transaction[txn] \in VaultTransaction
    BY <1>1 DEF TypeOK, LedgerTypeOK, Ledger
  <2> QED
    BY <2>1 DEF VaultTransaction
<1> HIDE DEF t
<1> QED
  BY <1>1, <1>2

\* So does what execute_transaction does before its CPIs.
LEMMA ExecuteQuiet ==
    ASSUME TypeOK, NEW ms, NEW txn, NEW executor, NEW transaction_index, NEW remaining,
           NEW sig, NEW wr, NEW caller,
           execute_transaction(ms, txn, executor, transaction_index, remaining, sig, wr, caller)
    PROVE  /\ lamports' = lamports /\ DOMAIN transaction' = DOMAIN transaction
           /\ \A a \in DOMAIN transaction : transaction'[a].payer = transaction[a].payer
<1> DEFINE marked == [transaction[txn] EXCEPT !.executed = TRUE]
<1>1. /\ txn \in DOMAIN transaction /\ lamports' = lamports
      /\ transaction' = [transaction EXCEPT ![txn] = marked]
  BY DEF execute_transaction, BoundTo, Flushed
<1>2. marked.payer = transaction[txn].payer
  <2>1. transaction[txn] \in VaultTransaction
    BY <1>1 DEF TypeOK, LedgerTypeOK, Ledger
  <2> QED
    BY <2>1 DEF VaultTransaction
<1> HIDE DEF marked
<1> QED
  BY <1>1, <1>2

\* With the proposals as they were, a stake shrinks with its wallet.
LEMMA WalletStake ==
    ASSUME Inv, DepositInv, Counted(Ledger), Counted(Ledger'), transaction' = transaction,
           \A a \in Address : lamports'[a] < lamports[a] => DebitAuthorized(a),
           NEW p \in Address, Stake(Ledger', p) < Stake(Ledger, p)
    PROVE  DebitAuthorized(p)
<1>1. \A a \in DOMAIN transaction : ~DebitAuthorized(a)
  BY AuthorizedKey DEF DebitAuthorized
<1>2. PaidBy(Ledger', p) = PaidBy(Ledger, p)
  BY DEF PaidBy, Ledger
<1>3. /\ lamports \in [Address -> Nat] /\ lamports' \in [Address -> Nat]
      /\ DOMAIN transaction \subseteq Address
      /\ Ledger.lamports = lamports /\ Ledger'.lamports = lamports'
      /\ Ledger.transaction = transaction
  BY DEF Counted, Ledger
<1>4. \A txn \in DOMAIN transaction : lamports[txn] <= lamports'[txn]
  BY <1>1, <1>3
<1>5. Stake(Ledger, p) \in Nat /\ Stake(Ledger', p) \in Nat
  <2>1. lamports[p] \in Nat /\ lamports'[p] \in Nat
    BY <1>3
  <2> QED
    BY <1>3, <2>1, StakeType
<1>6. lamports'[p] < lamports[p]
  <2>1. lamports[p] <= lamports'[p] => Stake(Ledger, p) <= Stake(Ledger', p)
    BY <1>2, <1>3, <1>4, StakeHeld
  <2> QED
    BY <1>3, <1>5, <2>1
<1> QED
  BY <1>6

\* The rent of a proposal is a deposit: what a payer puts into proposals stays
\* the payer's, whoever opens, approves, executes and closes them.
THEOREM StakeTheorem == Spec => StakesAreKept
<1> DEFINE Kept == \A p \in Address \ DOMAIN transaction :
                      Stake(Ledger, p)' < Stake(Ledger, p) =>
                          DebitAuthorized(p) /\ UNCHANGED transaction
<1>1. ASSUME Inv, DepositInv, [Next]_vars PROVE [RolledBack \/ Kept]_vars
  <2>0. TypeOK /\ Counted(Ledger) /\ Counted(Ledger')
    <3>1. TypeOK /\ TypeOK' /\ DepositInv'
      BY <1>1, TypeStep, DepositStep DEF Inv
    <3>2. Counted(Ledger)'
      BY <3>1 DEF TypeOK, LedgerTypeOK, DepositInv, CountInv, Counted, Ledger
    <3> QED
      BY <1>1, <3>1, <3>2, LedgerCounted
  <2>1. \A p \in Address : /\ Stake(Ledger, p)' = Stake(Ledger', p)
                           /\ Stake(Ledger, p) \in Nat /\ Stake(Ledger', p) \in Nat
    <3> TAKE p \in Address
    <3>1. Stake(Ledger, p)' = Stake(Ledger', p)
      BY DEF Stake
    <3>2. Ledger.lamports[p] \in Nat /\ Ledger'.lamports[p] \in Nat
      BY <2>0 DEF Counted
    <3> QED
      BY <2>0, <3>1, <3>2, StakeType
  <2>2. ASSUME \A p \in Address \ DOMAIN transaction : Stake(Ledger, p) <= Stake(Ledger', p)
        PROVE  Kept
    BY <2>1, <2>2
  <2>3. \A a \in signers : a \in Address /\ a \notin DOMAIN transaction
    BY <1>1, AuthorizedKey DEF Inv, TypeOK
  <2>4. ASSUME NEW program_id, InvokeSigned(program_id)
        PROVE  /\ SignerKeys(Metas(Last(stack))) \subseteq Address
               /\ \A a \in SignerKeys(Metas(Last(stack))) : a \notin DOMAIN transaction
    BY <1>1, <2>4, SoleSigner, AuthorizedKey
  <2>5. CASE transaction' = transaction
    <3>1. [RolledBack \/ \A a \in Address : lamports'[a] < lamports[a] => DebitAuthorized(a)]_vars
      BY <1>1, DebitsStep
    <3>2. ASSUME \A a \in Address : lamports'[a] < lamports[a] => DebitAuthorized(a)
          PROVE  Kept
      BY <1>1, <2>0, <2>1, <2>5, <3>2, WalletStake
    <3> HIDE DEF Kept
    <3> QED
      BY <3>1, <3>2
  <2>6. ASSUME lamports' = lamports, DOMAIN transaction' = DOMAIN transaction,
               \A txn \in DOMAIN transaction : transaction'[txn].payer = transaction[txn].payer
        PROVE  Kept
    BY <2>0, <2>2, <2>6, QuietStake
  <2>7. CASE CreateTransaction
    BY <2>0, <2>2, <2>3, <2>7, CreateStake DEF CreateTransaction
  <2>8. CASE CpiCreate
    <3>1. InvokeSigned(PROGRAM_ID)
      BY <2>8 DEF CpiCreate, InvokeSelf
    <3> QED
      BY <2>0, <2>2, <2>4, <2>8, <3>1, CreateStake DEF CpiCreate
  <2>9. CASE CloseTransaction
    BY <2>0, <2>2, <2>3, <2>9, CloseStake DEF CloseTransaction
  <2>10. CASE CpiClose
    <3>1. InvokeSigned(PROGRAM_ID)
      BY <2>10 DEF CpiClose, InvokeSelf
    <3> QED
      BY <2>0, <2>2, <2>4, <2>10, <3>1, CloseStake DEF CpiClose
  <2>11. CASE ApproveTransaction \/ CpiApprove
    BY <2>0, <2>6, <2>11, ApproveQuiet DEF ApproveTransaction, CpiApprove
  <2>12. CASE ExecuteTransaction \/ CpiExecute
    BY <2>0, <2>6, <2>12, ExecuteQuiet DEF ExecuteTransaction, CpiExecute
  <2>13. CASE InitializeMultisig \/ CpiInitialize \/ ProvisionNonce \/ CpiProvision
              \/ Prefund \/ CpiTransfer \/ CpiOther \/ BeginTransaction \/ Commit
    BY <2>5, <2>13 DEF InitializeMultisig, CpiInitialize, initialize_multisig, ProvisionNonce,
       CpiProvision, provision_nonce, Prefund, CpiTransfer, CpiOther, BeginTransaction, Commit,
       ledgerVars
  <2>14. CASE ExitExecute
    <3> DEFINE f == Last(stack)
    <3>1. f.transaction \in DOMAIN transaction => transaction[f.transaction] = f.cached
      <4>1. stack \in Seq(StackFrame) /\ stack # <<>>
        BY <2>0, <2>14 DEF TypeOK, ExitExecute
      <4>2. Len(stack) \in DOMAIN stack
        BY <4>1
      <4> QED BY <1>1, <4>2 DEF Inv, LedgerInv, StackInv, FrameInv, Last
    <3>2. transaction' = ProposalOnExit(f) /\ lamports' = lamports
      BY <2>14 DEF ExitExecute
    <3> HIDE DEF f
    <3> QED
      BY <2>6, <3>1, <3>2 DEF ProposalOnExit
  <2>15. CASE Abort
    BY <2>15 DEF Abort, RolledBack
  <2>16. CASE UNCHANGED vars
    BY <2>16
  <2> HIDE DEF Kept
  <2> QED
    BY <1>1, <2>5, <2>7, <2>8, <2>9, <2>10, <2>11, <2>12, <2>13, <2>14, <2>15, <2>16 DEF Next
<1>2. Init => DepositInv
  <2>1. IsFiniteSet({})
    BY FS_EmptySet
  <2> QED
    BY <2>1 DEF Init, DepositInv, CountInv, Ledger
<1> QED
  BY <1>1, <1>2, InitSafe, InvStep, DepositStep, PTL DEF Spec, StakesAreKept

=============================================================================
