--------------------------- MODULE SdkClientProofs ---------------------------
(***************************************************************************)
(* Proofs about the SDK's helpers and its client, for every value of the   *)
(* constants.                                                              *)
(***************************************************************************)
EXTENDS SdkClient, SequenceLemmas

-----------------------------------------------------------------------------
(***************************************************************************)
(* sortMembers.                                                            *)
(***************************************************************************)

\* Key j of the list goes before key i, or is key i.
NotAfter(m, j, i) == <<m[j], m[i]>> \in KeyLess \/ (m[j] = m[i] /\ j <= i)

\* The places that sortMembers gives to the keys of a list.
PlaceOf(m) == [i \in DOMAIN m |-> Cardinality({ j \in DOMAIN m : NotAfter(m, j, i) })]

\* Each place is taken once, and a key that goes before another has the lower one.
LEMMA Places ==
    ASSUME NEW m \in Seq(Address)
    PROVE  /\ PlaceOf(m) \in Bijection(1..Len(m), 1..Len(m))
           /\ \A i, j \in 1..Len(m) :
                 NotAfter(m, i, j) => PlaceOf(m)[i] <= PlaceOf(m)[j]
<1> DEFINE n == Len(m)
           Before(i) == { j \in DOMAIN m : NotAfter(m, j, i) }
           place == PlaceOf(m)
<1>1. n \in Nat /\ DOMAIN m = 1..n /\ \A i \in 1..n : m[i] \in Address
  OBVIOUS
<1>2. IsFiniteSet(1..n) /\ Cardinality(1..n) = n
  <2>1. Cardinality(1..n) = IF 1 > n THEN 0 ELSE n - 1 + 1
    <3> HIDE DEF n
    <3> QED
      BY <1>1, FS_Interval, 1 \in Int, n \in Int
  <2> HIDE DEF n
  <2> QED
    BY <1>1, <2>1, FS_Interval
<1>3. \A i \in 1..n : place[i] = Cardinality(Before(i)) /\ Before(i) \in SUBSET (1..n)
  BY <1>1 DEF PlaceOf
<1> HIDE DEF n, place
<1>4. \A i \in 1..n : i \in Before(i)
  BY <1>1 DEF NotAfter
<1>5. ASSUME NEW i \in 1..n, NEW j \in 1..n, NEW k \in 1..n,
             NotAfter(m, k, i), NotAfter(m, i, j)
      PROVE  NotAfter(m, k, j)
  <2>1. k \in Nat /\ i \in Nat /\ j \in Nat
    BY <1>1
  <2> QED
    BY <1>1, <1>5, <2>1, KeyOrderAssumption DEF NotAfter
<1>6. ASSUME NEW i \in 1..n, NEW j \in 1..n
      PROVE  NotAfter(m, i, j) \/ NotAfter(m, j, i)
  <2>1. i \in Nat /\ j \in Nat
    BY <1>1
  <2> QED
    BY <1>1, <2>1, KeyOrderAssumption DEF NotAfter
<1>7. ASSUME NEW i \in 1..n, NEW j \in 1..n, NotAfter(m, i, j), NotAfter(m, j, i)
      PROVE  i = j
  <2>1. i \in Nat /\ j \in Nat
    BY <1>1
  <2>2. ~(<<m[i], m[j]>> \in KeyLess /\ <<m[j], m[i]>> \in KeyLess)
    BY <1>1, KeyOrderAssumption
  <2>3. <<m[i], m[j]>> \in KeyLess => m[i] # m[j]
    BY <1>1, KeyOrderAssumption
  <2>4. <<m[j], m[i]>> \in KeyLess => m[i] # m[j]
    BY <1>1, KeyOrderAssumption
  <2> QED
    BY <1>7, <2>1, <2>2, <2>3, <2>4 DEF NotAfter
<1>8. \A i \in 1..n : IsFiniteSet(Before(i)) /\ place[i] \in Nat /\ place[i] <= n
  <2>1. SUFFICES ASSUME NEW i \in 1..n
                 PROVE  IsFiniteSet(Before(i)) /\ place[i] \in Nat /\ place[i] <= n
    OBVIOUS
  <2>2. Before(i) \in SUBSET (1..n) /\ place[i] = Cardinality(Before(i))
    BY <1>3
  <2> HIDE DEF Before
  <2>3. IsFiniteSet(Before(i)) /\ Cardinality(Before(i)) <= Cardinality(1..n)
    BY <1>2, <2>2, FS_Subset
  <2> QED
    BY <1>2, <2>2, <2>3, FS_CardinalityType
<1>9. ASSUME NEW i \in 1..n, NEW j \in 1..n, NotAfter(m, i, j)
      PROVE  place[i] <= place[j] /\ (i # j => place[i] # place[j])
  <2>1. Before(i) \in SUBSET Before(j)
    BY <1>1, <1>5, <1>9
  <2>2. i # j => j \in Before(j) /\ j \notin Before(i)
    BY <1>4, <1>7, <1>9
  <2>3. place[i] = Cardinality(Before(i)) /\ place[j] = Cardinality(Before(j))
    BY <1>3
  <2>4. IsFiniteSet(Before(j))
    BY <1>8
  <2> HIDE DEF Before
  <2>5. /\ Cardinality(Before(i)) <= Cardinality(Before(j))
        /\ Cardinality(Before(j)) = Cardinality(Before(i)) => Before(j) = Before(i)
    BY <2>1, <2>4, FS_Subset
  <2> QED
    BY <2>2, <2>3, <2>5
<1>10. \A i \in 1..n : place[i] \in 1..n
  <2>1. SUFFICES ASSUME NEW i \in 1..n
                 PROVE  place[i] \in 1..n
    OBVIOUS
  <2>2. place[i] \in Nat /\ place[i] <= n /\ IsFiniteSet(Before(i))
        /\ i \in Before(i) /\ place[i] = Cardinality(Before(i))
    BY <1>3, <1>4, <1>8
  <2> HIDE DEF Before
  <2>3. Before(i) # {}
    BY <2>2
  <2>4. place[i] # 0
    BY <2>2, <2>3, FS_EmptySet
  <2> QED
    BY <1>1, <2>2, <2>4
<1>11. place \in [1..n -> 1..n]
  <2>1. place = [i \in 1..n |-> place[i]]
    BY <1>1 DEF place, PlaceOf
  <2> QED
    BY <1>10, <2>1
<1>12. \A i, j \in 1..n : place[i] = place[j] => i = j
  BY <1>6, <1>9
<1>13. place \in Bijection(1..n, 1..n)
  BY <1>1, <1>11, <1>12, InjectionIsBijection
<1> QED
  BY <1>9, <1>13 DEF n, place

\* The list that sortMembers returns is the sorted one: the client and the
\* program put members into the same order.
LEMMA SortMembersSorts ==
    ASSUME NEW m \in Seq(Address)
    PROVE  sortMembers(m) \in Sorted(m)
<1> DEFINE n == Len(m)
           place == PlaceOf(m)
           At(k) == CHOOSE i \in DOMAIN m : Cardinality({ j \in DOMAIN m : NotAfter(m, j, i) }) = k
           at == [k \in 1..n |-> At(k)]
           s == sortMembers(m)
<1>1. n \in Nat /\ DOMAIN m = 1..n /\ \A i \in 1..n : m[i] \in Address
  OBVIOUS
<1>2. s = [k \in 1..n |-> m[at[k]]]
  <2>1. s = [k \in DOMAIN m |-> m[At(k)]]
    BY DEF sortMembers, NotAfter
  <2> HIDE DEF s, At
  <2> QED
    BY <1>1, <2>1
<1>20. \A i \in 1..n : place[i] = Cardinality({ j \in DOMAIN m : NotAfter(m, j, i) })
  BY <1>1 DEF PlaceOf
<1>3. /\ place \in Bijection(1..n, 1..n)
      /\ \A i, j \in 1..n : NotAfter(m, i, j) => place[i] <= place[j]
  BY Places
<1> HIDE DEF n, place
<1>4. /\ place \in [1..n -> 1..n]
      /\ \A i, j \in 1..n : place[i] = place[j] => i = j
      /\ \A k \in 1..n : \E i \in 1..n : place[i] = k
  BY <1>1, <1>3, BijectionFacts
<1>5. \A k \in 1..n : at[k] \in 1..n /\ place[at[k]] = k
  <2>1. \A k \in 1..n : \E i \in DOMAIN m : Cardinality({ j \in DOMAIN m : NotAfter(m, j, i) }) = k
    <3>1. SUFFICES ASSUME NEW k \in 1..n
                   PROVE  \E i \in DOMAIN m : Cardinality({ j \in DOMAIN m : NotAfter(m, j, i) }) = k
      OBVIOUS
    <3>2. PICK i \in 1..n : place[i] = k
      BY <1>4
    <3>3. i \in DOMAIN m /\ Cardinality({ j \in DOMAIN m : NotAfter(m, j, i) }) = k
      BY <1>1, <1>20, <3>2
    <3> QED
      BY <3>3
  <2>2. \A k \in 1..n : At(k) \in DOMAIN m /\ Cardinality({ j \in DOMAIN m : NotAfter(m, j, At(k)) }) = k
    BY <2>1
  <2> HIDE DEF At
  <2> QED
    BY <1>1, <1>20, <2>2
<1>6. at \in [1..n -> 1..n]
  BY <1>5
<1> HIDE DEF at
<1>7. at \in Bijection(1..n, 1..n)
  <2>1. \A i, j \in 1..n : at[i] = at[j] => i = j
    BY <1>5
  <2> QED
    BY <1>1, <1>6, <2>1, InjectionIsBijection
<1>8. Rearranges(s, m)
  BY <1>2, <1>7 DEF Rearranges, n
<1>9. InOrder(s)
  <2>1. ASSUME NEW i \in 1..n, NEW j \in 1..n, i < j, <<s[j], s[i]>> \in KeyLess
        PROVE  FALSE
    <3>1. NotAfter(m, at[j], at[i])
      BY <1>2, <2>1 DEF NotAfter
    <3>2. place[at[j]] <= place[at[i]]
      BY <1>3, <1>5, <3>1
    <3>3. j <= i
      BY <1>5, <3>2
    <3> QED
      BY <1>1, <2>1, <3>3
  <2> QED
    BY <1>2, <2>1 DEF InOrder
<1> QED
  BY <1>8, <1>9, SortedMeans

\* sortMembers returns as many keys as it is given.
LEMMA SortMembersType ==
    ASSUME NEW m \in Seq(Address)
    PROVE  sortMembers(m) \in Seq(Address) /\ Len(sortMembers(m)) = Len(m)
<1>1. Rearranges(sortMembers(m), m)
  BY SortMembersSorts, SortedMeans
<1>2. sortMembers(m) \in [1..Len(m) -> Address]
  BY <1>1, RearrangedType
<1> QED
  BY <1>2

-----------------------------------------------------------------------------
(***************************************************************************)
(* buildMessageFromInstructions.                                           *)
(***************************************************************************)

\* The accounts the SDK observes are the vault, as a writable signer, and what
\* the instructions mention.
Mentioned(vaultPda, instructions) ==
    {Meta(vaultPda, TRUE, TRUE)} \cup
    UNION { {Meta(instructions[n].programId, FALSE, FALSE)} \cup ToSet(instructions[n].keys)
            : n \in DOMAIN instructions }

\* The observed accounts are those mentioned, however they are folded.
LEMMA ObservedElements ==
    ASSUME NEW vaultPda \in Address, NEW instructions \in Seq(TransactionInstruction)
    PROVE  /\ Observed(vaultPda, instructions) \in Seq(AccountMeta)
           /\ ToSet(Observed(vaultPda, instructions)) = Mentioned(vaultPda, instructions)
<1> DEFINE first == <<Meta(vaultPda, TRUE, TRUE)>>
           Of(n) == <<Meta(instructions[n].programId, FALSE, FALSE)>> \o instructions[n].keys
           lists == [n \in DOMAIN instructions |-> Of(n)]
<1>1. first \in Seq(AccountMeta) /\ ToSet(first) = {Meta(vaultPda, TRUE, TRUE)}
  <2>1. Meta(vaultPda, TRUE, TRUE) \in AccountMeta
    BY DEF Meta, AccountMeta
  <2> QED
    BY <2>1, OneElement
<1>2. ASSUME NEW n \in DOMAIN instructions
      PROVE  /\ Of(n) \in Seq(AccountMeta)
             /\ ToSet(Of(n)) = {Meta(instructions[n].programId, FALSE, FALSE)}
                                  \cup ToSet(instructions[n].keys)
  <2>1. instructions[n].programId \in Address /\ instructions[n].keys \in Seq(AccountMeta)
    <3>1. instructions[n] \in TransactionInstruction
      OBVIOUS
    <3> QED
      BY <3>1 DEF TransactionInstruction
  <2>2. Meta(instructions[n].programId, FALSE, FALSE) \in AccountMeta
    BY <2>1 DEF Meta, AccountMeta
  <2>3. /\ <<Meta(instructions[n].programId, FALSE, FALSE)>> \in Seq(AccountMeta)
        /\ ToSet(<<Meta(instructions[n].programId, FALSE, FALSE)>>)
             = {Meta(instructions[n].programId, FALSE, FALSE)}
    BY <2>2, OneElement
  <2>4. instructions[n].keys \in Seq(AccountMeta)
    BY <2>1
  <2> DEFINE program == <<Meta(instructions[n].programId, FALSE, FALSE)>>
             keys == instructions[n].keys
  <2>5. program \in Seq(AccountMeta) /\ keys \in Seq(AccountMeta)
    BY <2>3, <2>4
  <2>6. /\ ToSet(program) = {Meta(instructions[n].programId, FALSE, FALSE)}
        /\ ToSet(keys) = ToSet(instructions[n].keys) /\ Of(n) = program \o keys
    BY <2>3
  <2> HIDE DEF program, keys, Of
  <2>7. program \o keys \in Seq(AccountMeta) /\ ToSet(program \o keys) = ToSet(program) \cup ToSet(keys)
    BY <2>5, JoinedElements
  <2> QED
    BY <2>6, <2>7
<1>3. lists \in Seq(Seq(AccountMeta)) /\ DOMAIN lists = DOMAIN instructions
  <2>1. Len(instructions) \in Nat /\ DOMAIN instructions = 1..Len(instructions)
    OBVIOUS
  <2> HIDE DEF Of
  <2>2. lists \in [1..Len(instructions) -> Seq(AccountMeta)]
    BY <1>2, <2>1
  <2> QED
    BY <2>1, <2>2
<1>4. \A n \in DOMAIN instructions :
         ToSet(lists[n]) = {Meta(instructions[n].programId, FALSE, FALSE)}
                             \cup ToSet(instructions[n].keys)
  <2> HIDE DEF Of
  <2> QED
    BY <1>2
<1>5. Observed(vaultPda, instructions) = first \o FlattenSeq(lists)
  BY DEF Observed
<1> HIDE DEF first, lists, Of
<1>6. /\ FlattenSeq(lists) \in Seq(AccountMeta)
      /\ ToSet(FlattenSeq(lists)) = UNION { ToSet(lists[n]) : n \in DOMAIN lists }
  BY <1>3, FlattenedElements
<1>7. /\ first \o FlattenSeq(lists) \in Seq(AccountMeta)
      /\ ToSet(first \o FlattenSeq(lists)) = ToSet(first) \cup ToSet(FlattenSeq(lists))
  BY ZenonT(30), <1>1, <1>6, JoinedElements
<1>8. UNION { ToSet(lists[n]) : n \in DOMAIN lists }
        = UNION { {Meta(instructions[n].programId, FALSE, FALSE)} \cup ToSet(instructions[n].keys)
                  : n \in DOMAIN instructions }
  BY <1>3, <1>4
<1> QED
  BY <1>1, <1>5, <1>6, <1>7, <1>8 DEF Mentioned

\* The strongest privileges of all mentions of a key.
Strongest(key, mentions) ==
    Meta(key, \E m \in mentions : m.pubkey = key /\ m.isSigner,
              \E m \in mentions : m.pubkey = key /\ m.isWritable)

\* The entries are the keys mentioned, each with its strongest privileges.
LEMMA EntriesElements ==
    ASSUME NEW o \in Seq(AccountMeta)
    PROVE  /\ Entries(o) \in Seq(AccountMeta)
           /\ \A e \in ToSet(Entries(o)) : e = Strongest(e.pubkey, ToSet(o))
           /\ \A m \in ToSet(o) : \E e \in ToSet(Entries(o)) : e.pubkey = m.pubkey
<1> DEFINE I == { i \in DOMAIN o : \A j \in 1..(i - 1) : o[j].pubkey # o[i].pubkey }
           first == FirstPrivileges(o)
<1>1. Len(o) \in Nat /\ DOMAIN o = 1..Len(o) /\ \A i \in DOMAIN o : o[i] \in AccountMeta
  OBVIOUS
<1>2. first \in Seq(AccountMeta) /\ ToSet(first) = { o[i] : i \in I }
  <2>1. I \in SUBSET DOMAIN o /\ first = Pick(o, I)
    BY DEF FirstPrivileges
  <2> HIDE DEF I, first
  <2> QED
    BY <2>1, PickedElements
<1> HIDE DEF first
<1>3. /\ Len(first) \in Nat /\ DOMAIN first = 1..Len(first)
      /\ \A n \in DOMAIN first : first[n] \in AccountMeta
  BY <1>2
<1>4. ASSUME NEW n \in DOMAIN first
      PROVE  Entries(o)[n] = Strongest(first[n].pubkey, ToSet(o))
             /\ Entries(o)[n] \in AccountMeta
  <2>1. Entries(o)[n] = Meta(first[n].pubkey,
              \E i \in { i \in DOMAIN o : o[i].pubkey = first[n].pubkey } : o[i].isSigner,
              \E i \in { i \in DOMAIN o : o[i].pubkey = first[n].pubkey } : o[i].isWritable)
    BY DEF Entries, first
  <2>2. (\E i \in { i \in DOMAIN o : o[i].pubkey = first[n].pubkey } : o[i].isSigner)
          = (\E m \in ToSet(o) : m.pubkey = first[n].pubkey /\ m.isSigner)
    BY DEF ToSet
  <2>3. (\E i \in { i \in DOMAIN o : o[i].pubkey = first[n].pubkey } : o[i].isWritable)
          = (\E m \in ToSet(o) : m.pubkey = first[n].pubkey /\ m.isWritable)
    BY DEF ToSet
  <2>4. Entries(o)[n] = Strongest(first[n].pubkey, ToSet(o))
    BY <2>1, <2>2, <2>3 DEF Strongest
  <2>5. first[n].pubkey \in Address
    BY <1>3 DEF AccountMeta
  <2> QED
    BY <2>4, <2>5 DEF Strongest, Meta, AccountMeta
<1>5. Entries(o) = [n \in DOMAIN first |-> Entries(o)[n]]
  BY DEF Entries, first
<1>6. Entries(o) \in Seq(AccountMeta)
  <2>1. Entries(o) \in [1..Len(first) -> AccountMeta]
    BY <1>3, <1>4, <1>5
  <2> QED
    BY <1>3, <2>1
<1>7. DOMAIN Entries(o) = DOMAIN first
  BY <1>5
<1>8. \A n \in DOMAIN first : Entries(o)[n].pubkey = first[n].pubkey
  <2>1. \A key, mentions : Strongest(key, mentions).pubkey = key
    BY DEF Strongest, Meta
  <2> QED
    BY <1>4, <2>1
<1>9. \A e \in ToSet(Entries(o)) : e = Strongest(e.pubkey, ToSet(o))
  BY <1>4, <1>7, <1>8 DEF ToSet
<1>10. ASSUME NEW m \in ToSet(o)
       PROVE  \E e \in ToSet(Entries(o)) : e.pubkey = m.pubkey
  <2> DEFINE S == { i \in DOMAIN o : o[i].pubkey = m.pubkey }
  <2>1. S \in SUBSET Nat /\ S # {}
    BY <1>1, <1>10 DEF ToSet
  <2>2. PICK i \in S : \A j \in S : i <= j
    BY <2>1, LeastNumber
  <2>3. i \in I
    <3>1. i \in 1..Len(o) /\ o[i].pubkey = m.pubkey
      BY <1>1, <2>2
    <3>2. ASSUME NEW j \in 1..(i - 1), o[j].pubkey = o[i].pubkey
          PROVE  FALSE
      <4>1. j \in 1..Len(o) /\ j < i
        BY <1>1, <3>1
      <4> QED
        BY <1>1, <2>2, <3>1, <3>2, <4>1
    <3> QED
      BY <1>1, <3>1, <3>2
  <2>4. o[i] \in ToSet(first) /\ o[i].pubkey = m.pubkey
    BY <1>2, <2>2, <2>3
  <2>5. PICK n \in DOMAIN first : first[n] = o[i]
    BY <2>4 DEF ToSet
  <2>6. Entries(o)[n] \in ToSet(Entries(o)) /\ Entries(o)[n].pubkey = m.pubkey
    BY <1>7, <1>8, <2>4, <2>5 DEF ToSet
  <2> QED
    BY <2>6
<1> QED
  BY <1>6, <1>9, <1>10

\* Each account is in the group that its privileges name.
LEMMA Groups ==
    ASSUME NEW s \in Seq(AccountMeta)
    PROVE  LET ws == Filter(s, LAMBDA e : e.isSigner /\ e.isWritable)
               rs == Filter(s, LAMBDA e : e.isSigner /\ ~e.isWritable)
               wn == Filter(s, LAMBDA e : ~e.isSigner /\ e.isWritable)
               rn == Filter(s, LAMBDA e : ~e.isSigner /\ ~e.isWritable)
           IN  /\ ws \in Seq(AccountMeta) /\ ToSet(ws) = { e \in ToSet(s) : e.isSigner /\ e.isWritable }
               /\ rs \in Seq(AccountMeta) /\ ToSet(rs) = { e \in ToSet(s) : e.isSigner /\ ~e.isWritable }
               /\ wn \in Seq(AccountMeta) /\ ToSet(wn) = { e \in ToSet(s) : ~e.isSigner /\ e.isWritable }
               /\ rn \in Seq(AccountMeta) /\ ToSet(rn) = { e \in ToSet(s) : ~e.isSigner /\ ~e.isWritable }
<1> DEFINE I1 == { i \in DOMAIN s : s[i].isSigner /\ s[i].isWritable }
           I2 == { i \in DOMAIN s : s[i].isSigner /\ ~s[i].isWritable }
           I3 == { i \in DOMAIN s : ~s[i].isSigner /\ s[i].isWritable }
           I4 == { i \in DOMAIN s : ~s[i].isSigner /\ ~s[i].isWritable }
<1>1. /\ Filter(s, LAMBDA e : e.isSigner /\ e.isWritable) = Pick(s, I1)
      /\ Filter(s, LAMBDA e : e.isSigner /\ ~e.isWritable) = Pick(s, I2)
      /\ Filter(s, LAMBDA e : ~e.isSigner /\ e.isWritable) = Pick(s, I3)
      /\ Filter(s, LAMBDA e : ~e.isSigner /\ ~e.isWritable) = Pick(s, I4)
  BY DEF Filter
<1>2. /\ { s[i] : i \in I1 } = { e \in ToSet(s) : e.isSigner /\ e.isWritable }
      /\ { s[i] : i \in I2 } = { e \in ToSet(s) : e.isSigner /\ ~e.isWritable }
      /\ { s[i] : i \in I3 } = { e \in ToSet(s) : ~e.isSigner /\ e.isWritable }
      /\ { s[i] : i \in I4 } = { e \in ToSet(s) : ~e.isSigner /\ ~e.isWritable }
  BY DEF ToSet
<1>3. /\ I1 \in SUBSET DOMAIN s /\ I2 \in SUBSET DOMAIN s
      /\ I3 \in SUBSET DOMAIN s /\ I4 \in SUBSET DOMAIN s
  OBVIOUS
<1> HIDE DEF I1, I2, I3, I4
<1>4. Pick(s, I1) \in Seq(AccountMeta) /\ ToSet(Pick(s, I1)) = { s[i] : i \in I1 }
  BY <1>3, PickedElements
<1>5. Pick(s, I2) \in Seq(AccountMeta) /\ ToSet(Pick(s, I2)) = { s[i] : i \in I2 }
  BY <1>3, PickedElements
<1>6. Pick(s, I3) \in Seq(AccountMeta) /\ ToSet(Pick(s, I3)) = { s[i] : i \in I3 }
  BY <1>3, PickedElements
<1>7. Pick(s, I4) \in Seq(AccountMeta) /\ ToSet(Pick(s, I4)) = { s[i] : i \in I4 }
  BY <1>3, PickedElements
<1> QED
  BY <1>1, <1>2, <1>4, <1>5, <1>6, <1>7

\* Moving the vault to the front changes no element.
LEMMA VaultFirstElements ==
    ASSUME NEW s \in Seq(AccountMeta), NEW vaultPda
    PROVE  VaultFirst(s, vaultPda) \in Seq(AccountMeta) /\ ToSet(VaultFirst(s, vaultPda)) = ToSet(s)
<1> DEFINE I1 == { i \in DOMAIN s : s[i].pubkey = vaultPda }
           I2 == { i \in DOMAIN s : s[i].pubkey # vaultPda }
<1>1. VaultFirst(s, vaultPda) = Pick(s, I1) \o Pick(s, I2)
  BY DEF VaultFirst, Filter
<1>2. I1 \in SUBSET DOMAIN s /\ I2 \in SUBSET DOMAIN s /\ I1 \cup I2 = DOMAIN s
  OBVIOUS
<1> HIDE DEF I1, I2
<1>3. Pick(s, I1) \in Seq(AccountMeta) /\ ToSet(Pick(s, I1)) = { s[i] : i \in I1 }
  BY <1>2, PickedElements
<1>4. Pick(s, I2) \in Seq(AccountMeta) /\ ToSet(Pick(s, I2)) = { s[i] : i \in I2 }
  BY <1>2, PickedElements
<1>5. /\ Pick(s, I1) \o Pick(s, I2) \in Seq(AccountMeta)
      /\ ToSet(Pick(s, I1) \o Pick(s, I2)) = ToSet(Pick(s, I1)) \cup ToSet(Pick(s, I2))
  BY <1>3, <1>4, JoinedElements
<1>6. { s[i] : i \in I1 } \cup { s[i] : i \in I2 } = ToSet(s)
  BY <1>2 DEF ToSet
<1> QED
  BY <1>1, <1>3, <1>4, <1>5, <1>6

\* accountIndex finds a key that is in the list.
LEMMA AccountIndexFinds ==
    ASSUME NEW keys \in Seq(Address), NEW key \in ToSet(keys)
    PROVE  /\ accountIndex(keys, key) \in 0..(Len(keys) - 1)
           /\ keys[accountIndex(keys, key) + 1] = key
<1> DEFINE I == { i \in 1..Len(keys) : keys[i] = key }
<1>1. Len(keys) \in Nat /\ DOMAIN keys = 1..Len(keys)
  OBVIOUS
<1>2. I \in SUBSET Nat /\ I # {}
  BY <1>1 DEF ToSet
<1>3. accountIndex(keys, key) = Min(I) - 1
  BY <1>2 DEF accountIndex, SelectInSeq
<1>4. \E x \in I : \A y \in I : x <= y
  <2> HIDE DEF I
  <2> QED
    BY <1>2, LeastNumber
<1>5. Min(I) \in I
  <2> HIDE DEF I
  <2> QED
    BY <1>4 DEF Min
<1>6. Min(I) \in 1..Len(keys) /\ keys[Min(I)] = key
  BY <1>5
<1> QED
  BY <1>1, <1>3, <1>6

\* The keys of a list of accounts, place by place.
LEMMA PubkeysType ==
    ASSUME NEW s \in Seq(AccountMeta)
    PROVE  /\ Pubkeys(s) \in Seq(Address) /\ Len(Pubkeys(s)) = Len(s)
           /\ \A i \in 1..Len(s) : Pubkeys(s)[i] = s[i].pubkey /\ s[i] \in AccountMeta
<1>1. /\ Len(s) \in Nat /\ DOMAIN s = 1..Len(s)
      /\ \A i \in 1..Len(s) : s[i] \in AccountMeta
  OBVIOUS
<1>2. \A i \in 1..Len(s) : s[i].pubkey \in Address
  BY <1>1 DEF AccountMeta
<1>3. Pubkeys(s) = [i \in 1..Len(s) |-> s[i].pubkey]
  BY <1>1 DEF Pubkeys
<1>4. Pubkeys(s) \in [1..Len(s) -> Address]
  BY <1>2, <1>3
<1> QED
  BY <1>1, <1>3, <1>4

\* The groups of the accounts of a message, and the accounts in their order.
All(vaultPda, instructions) == Entries(Observed(vaultPda, instructions))
WritableSigners(vaultPda, instructions) ==
    VaultFirst(Filter(All(vaultPda, instructions), LAMBDA e : e.isSigner /\ e.isWritable), vaultPda)
ReadonlySigners(vaultPda, instructions) ==
    Filter(All(vaultPda, instructions), LAMBDA e : e.isSigner /\ ~e.isWritable)
WritableNonSigners(vaultPda, instructions) ==
    Filter(All(vaultPda, instructions), LAMBDA e : ~e.isSigner /\ e.isWritable)
ReadonlyNonSigners(vaultPda, instructions) ==
    Filter(All(vaultPda, instructions), LAMBDA e : ~e.isSigner /\ ~e.isWritable)
Accounts(vaultPda, instructions) ==
    WritableSigners(vaultPda, instructions) \o ReadonlySigners(vaultPda, instructions)
      \o WritableNonSigners(vaultPda, instructions) \o ReadonlyNonSigners(vaultPda, instructions)

\* buildMessageFromInstructions by its groups.
LEMMA Built ==
    ASSUME NEW vaultPda, NEW instructions
    PROVE  buildMessageFromInstructions(vaultPda, instructions) =
             [num_signers              |-> Len(WritableSigners(vaultPda, instructions))
                                             + Len(ReadonlySigners(vaultPda, instructions)),
              num_writable_signers     |-> Len(WritableSigners(vaultPda, instructions)),
              num_writable_non_signers |-> Len(WritableNonSigners(vaultPda, instructions)),
              account_keys             |-> Pubkeys(Accounts(vaultPda, instructions)),
              instructions             |-> [n \in DOMAIN instructions |->
                    CompileInstruction(Pubkeys(Accounts(vaultPda, instructions)), instructions[n])],
              address_table_lookups    |-> <<>>]
  BY DEF buildMessageFromInstructions, Accounts, WritableSigners, ReadonlySigners,
         WritableNonSigners, ReadonlyNonSigners, All

\* The header of the message says of each account what its entry says, and the
\* entry has the strongest privileges of all mentions.
LEMMA Layout ==
    ASSUME NEW v \in Address, NEW r \in Seq(TransactionInstruction)
    PROVE  LET accounts == Accounts(v, r)
               writableSigners == Len(WritableSigners(v, r))
               signers == writableSigners + Len(ReadonlySigners(v, r))
               writable == Len(WritableNonSigners(v, r))
           IN  /\ accounts \in Seq(AccountMeta)
               /\ writableSigners \in Nat /\ Len(ReadonlySigners(v, r)) \in Nat /\ writable \in Nat
               /\ \A p \in 1..Len(accounts) :
                     /\ accounts[p].isSigner <=> p <= signers
                     /\ accounts[p].isWritable <=>
                           (p <= writableSigners \/ (signers < p /\ p <= signers + writable))
                     /\ accounts[p] = Strongest(accounts[p].pubkey, Mentioned(v, r))
               /\ \A m \in Mentioned(v, r) : m.pubkey \in ToSet(Pubkeys(accounts))
<1> DEFINE all == All(v, r)
           ws == WritableSigners(v, r)
           rs == ReadonlySigners(v, r)
           wn == WritableNonSigners(v, r)
           rn == ReadonlyNonSigners(v, r)
           s == Accounts(v, r)
<1>1. Observed(v, r) \in Seq(AccountMeta) /\ ToSet(Observed(v, r)) = Mentioned(v, r)
  BY ObservedElements
<1>2. /\ all \in Seq(AccountMeta)
      /\ \A e \in ToSet(all) : e = Strongest(e.pubkey, Mentioned(v, r))
      /\ \A m \in Mentioned(v, r) : \E e \in ToSet(all) : e.pubkey = m.pubkey
  BY <1>1, EntriesElements DEF All
<1>3. /\ Filter(all, LAMBDA e : e.isSigner /\ e.isWritable) \in Seq(AccountMeta)
      /\ ToSet(Filter(all, LAMBDA e : e.isSigner /\ e.isWritable))
           = { e \in ToSet(all) : e.isSigner /\ e.isWritable }
  BY <1>2, Groups
<1>4. ws \in Seq(AccountMeta) /\ ToSet(ws) = { e \in ToSet(all) : e.isSigner /\ e.isWritable }
  BY <1>3, VaultFirstElements DEF WritableSigners
<1>5. rs \in Seq(AccountMeta) /\ ToSet(rs) = { e \in ToSet(all) : e.isSigner /\ ~e.isWritable }
  BY <1>2, Groups DEF ReadonlySigners
<1>6. wn \in Seq(AccountMeta) /\ ToSet(wn) = { e \in ToSet(all) : ~e.isSigner /\ e.isWritable }
  BY <1>2, Groups DEF WritableNonSigners
<1>7. rn \in Seq(AccountMeta) /\ ToSet(rn) = { e \in ToSet(all) : ~e.isSigner /\ ~e.isWritable }
  BY <1>2, Groups DEF ReadonlyNonSigners
<1>8. s = ws \o rs \o wn \o rn
  BY DEF Accounts
<1> HIDE DEF all, ws, rs, wn, rn, s
<1>9. Grouped(AccountMeta, ws, rs, wn, rn, s)
  <2>1. /\ ws \in Seq(AccountMeta) /\ rs \in Seq(AccountMeta)
        /\ wn \in Seq(AccountMeta) /\ rn \in Seq(AccountMeta)
    BY <1>4, <1>5, <1>6, <1>7
  <2> QED
    BY <1>8, <2>1, FourGroups
<1>10. ToSet(s) = ToSet(all)
  <2>1. \A e \in ToSet(all) : e \in AccountMeta
    BY <1>2 DEF ToSet
  <2> QED
    BY <1>4, <1>5, <1>6, <1>7, <1>9, <2>1 DEF AccountMeta, Grouped
<1>11. ASSUME NEW p \in 1..Len(s)
       PROVE  /\ s[p].isSigner <=> p <= Len(ws) + Len(rs)
              /\ s[p].isWritable <=>
                    (p <= Len(ws) \/ (Len(ws) + Len(rs) < p /\ p <= Len(ws) + Len(rs) + Len(wn)))
              /\ s[p] = Strongest(s[p].pubkey, Mentioned(v, r))
  <2>0. Len(ws) \in Nat /\ Len(rs) \in Nat /\ Len(wn) \in Nat /\ Len(rn) \in Nat
    BY <1>9 DEF Grouped
  <2>1. p \in Nat /\ p \in DOMAIN s
    BY <1>9 DEF Grouped
  <2>2. s[p] \in ToSet(all)
    BY <1>10, <2>1 DEF ToSet
  <2>3. s[p] = Strongest(s[p].pubkey, Mentioned(v, r))
    BY <1>2, <2>2
  <2>4. CASE p <= Len(ws) /\ s[p] \in ToSet(ws)
    BY <1>4, <2>0, <2>1, <2>3, <2>4
  <2>5. CASE Len(ws) < p /\ p <= Len(ws) + Len(rs) /\ s[p] \in ToSet(rs)
    BY <1>5, <2>0, <2>1, <2>3, <2>5
  <2>6. CASE Len(ws) + Len(rs) < p /\ p <= Len(ws) + Len(rs) + Len(wn) /\ s[p] \in ToSet(wn)
    BY <1>6, <2>0, <2>1, <2>3, <2>6
  <2>7. CASE Len(ws) + Len(rs) + Len(wn) < p /\ s[p] \in ToSet(rn)
    BY <1>7, <2>0, <2>1, <2>3, <2>7
  <2> QED
    BY <1>9, <2>4, <2>5, <2>6, <2>7 DEF Grouped
<1>12. ASSUME NEW m \in Mentioned(v, r)
       PROVE  m.pubkey \in ToSet(Pubkeys(s))
  <2>1. PICK e \in ToSet(s) : e.pubkey = m.pubkey
    BY <1>2, <1>10
  <2>2. PICK p \in 1..Len(s) : s[p] = e
    BY <1>9 DEF ToSet, Grouped
  <2>3. p \in DOMAIN Pubkeys(s) /\ Pubkeys(s)[p] = m.pubkey
    BY <1>9, <2>1, <2>2, PubkeysType DEF Grouped
  <2> QED
    BY <2>3 DEF ToSet
<1> QED
  BY <1>9, <1>11, <1>12 DEF s, ws, rs, wn, Grouped

\* An account is mentioned as the vault, as a program or by an instruction.
LEMMA MentionedMeans ==
    ASSUME NEW v, NEW r, NEW m
    PROVE  m \in Mentioned(v, r) <=>
             \/ m = Meta(v, TRUE, TRUE)
             \/ \E n \in DOMAIN r : m = Meta(r[n].programId, FALSE, FALSE)
             \/ \E n \in DOMAIN r : m \in ToSet(r[n].keys)
<1> DEFINE Of(n) == {Meta(r[n].programId, FALSE, FALSE)} \cup ToSet(r[n].keys)
           vault == Meta(v, TRUE, TRUE)
<1>1. Mentioned(v, r) = {vault} \cup UNION { Of(n) : n \in DOMAIN r }
  BY DEF Mentioned
<1>2. \A n : m \in Of(n) <=> m = Meta(r[n].programId, FALSE, FALSE) \/ m \in ToSet(r[n].keys)
  OBVIOUS
<1> HIDE DEF Of, vault
<1>3. m \in Mentioned(v, r) <=> m = vault \/ \E n \in DOMAIN r : m \in Of(n)
  BY <1>1
<1> QED
  BY <1>2, <1>3 DEF vault

\* Every account of an instruction is in the list of accounts.
LEMMA MentionsOf ==
    ASSUME NEW v \in Address, NEW r \in Seq(TransactionInstruction), NEW n \in DOMAIN r
    PROVE  /\ r[n] \in TransactionInstruction
           /\ r[n].programId \in ToSet(Pubkeys(Accounts(v, r)))
           /\ Len(r[n].keys) \in Nat /\ DOMAIN r[n].keys = 1..Len(r[n].keys)
           /\ \A k \in DOMAIN r[n].keys :
                 /\ r[n].keys[k] \in AccountMeta /\ r[n].keys[k] \in Mentioned(v, r)
                 /\ r[n].keys[k].pubkey \in ToSet(Pubkeys(Accounts(v, r)))
<1>1. r[n] \in TransactionInstruction
  OBVIOUS
<1>2. r[n].keys \in Seq(AccountMeta)
  BY <1>1 DEF TransactionInstruction
<1>3. /\ Len(r[n].keys) \in Nat /\ DOMAIN r[n].keys = 1..Len(r[n].keys)
      /\ \A k \in DOMAIN r[n].keys : r[n].keys[k] \in AccountMeta
  BY <1>2
<1>4. \A m \in Mentioned(v, r) : m.pubkey \in ToSet(Pubkeys(Accounts(v, r)))
  BY Layout
<1>5. Meta(r[n].programId, FALSE, FALSE) \in Mentioned(v, r)
  BY MentionedMeans
<1>6. Meta(r[n].programId, FALSE, FALSE).pubkey = r[n].programId
  BY DEF Meta
<1>7. \A k \in DOMAIN r[n].keys : r[n].keys[k] \in Mentioned(v, r)
  <2>1. \A k \in DOMAIN r[n].keys : r[n].keys[k] \in ToSet(r[n].keys)
    BY DEF ToSet
  <2> QED
    BY <2>1, MentionedMeans
<1> QED
  BY <1>1, <1>3, <1>4, <1>5, <1>6, <1>7

\* The builder makes a message of the program's type.
LEMMA BuiltType ==
    ASSUME NEW v \in Address, NEW r \in Seq(TransactionInstruction)
    PROVE  buildMessageFromInstructions(v, r) \in TransactionMessage
<1> DEFINE keys == Pubkeys(Accounts(v, r))
           compiled == [n \in DOMAIN r |-> CompileInstruction(keys, r[n])]
<1>1. keys \in Seq(Address) /\ Len(keys) \in Nat
  BY Layout, PubkeysType
<1>2. ASSUME NEW n \in DOMAIN r
      PROVE  CompileInstruction(keys, r[n]) \in CompiledInstruction
  <2>1. /\ r[n] \in TransactionInstruction /\ r[n].programId \in ToSet(keys)
        /\ Len(r[n].keys) \in Nat /\ DOMAIN r[n].keys = 1..Len(r[n].keys)
        /\ \A k \in DOMAIN r[n].keys : r[n].keys[k].pubkey \in ToSet(keys)
    BY MentionsOf
  <2> HIDE DEF keys
  <2>2. accountIndex(keys, r[n].programId) \in Nat
    BY <1>1, <2>1, AccountIndexFinds
  <2>3. \A k \in DOMAIN r[n].keys : accountIndex(keys, r[n].keys[k].pubkey) % BYTE \in Nat
    <3>1. SUFFICES ASSUME NEW k \in DOMAIN r[n].keys
                   PROVE  accountIndex(keys, r[n].keys[k].pubkey) % BYTE \in Nat
      OBVIOUS
    <3>2. accountIndex(keys, r[n].keys[k].pubkey) \in Int
      BY <1>1, <2>1, AccountIndexFinds
    <3> QED
      BY <3>2, ByteAssumption
  <2>4. [k \in DOMAIN r[n].keys |-> accountIndex(keys, r[n].keys[k].pubkey) % BYTE] \in Seq(Nat)
    BY <2>1, <2>3
  <2>5. r[n].data \in Data
    BY <2>1 DEF TransactionInstruction
  <2> QED
    BY <2>2, <2>4, <2>5 DEF CompileInstruction, CompiledInstruction
<1>3. compiled \in Seq(CompiledInstruction)
  <2>1. Len(r) \in Nat /\ DOMAIN r = 1..Len(r)
    OBVIOUS
  <2> HIDE DEF keys
  <2>2. compiled \in [1..Len(r) -> CompiledInstruction]
    BY <1>2, <2>1
  <2> QED
    BY <2>1, <2>2
<1>4. /\ Len(WritableSigners(v, r)) \in Nat /\ Len(ReadonlySigners(v, r)) \in Nat
      /\ Len(WritableNonSigners(v, r)) \in Nat
  BY Layout
<1>5. <<>> \in Seq(MessageAddressTableLookup)
  OBVIOUS
<1> HIDE DEF compiled
<1>6. buildMessageFromInstructions(v, r) =
             [num_signers              |-> Len(WritableSigners(v, r)) + Len(ReadonlySigners(v, r)),
              num_writable_signers     |-> Len(WritableSigners(v, r)),
              num_writable_non_signers |-> Len(WritableNonSigners(v, r)),
              account_keys             |-> keys,
              instructions             |-> compiled,
              address_table_lookups    |-> <<>>]
  BY Built DEF compiled
<1> HIDE DEF keys
<1> QED
  BY <1>1, <1>3, <1>4, <1>5, <1>6 DEF TransactionMessage

\* A built message has the instructions that were asked for.
LEMMA BuiltLength ==
    ASSUME NEW v \in Address, NEW r \in Seq(TransactionInstruction)
    PROVE  Len(buildMessageFromInstructions(v, r).instructions) = Len(r)
<1> DEFINE keys == Pubkeys(Accounts(v, r))
           compiled == [n \in DOMAIN r |-> CompileInstruction(keys, r[n])]
<1>1. buildMessageFromInstructions(v, r).instructions = compiled
  BY Built
<1>2. DOMAIN compiled = 1..Len(r) /\ Len(r) \in Nat
  OBVIOUS
<1> HIDE DEF compiled
<1>3. Len(compiled) = Len(r)
  BY <1>2
<1> QED
  BY <1>1, <1>3

\* What an account gets: the vault signs and is writable, every other account
\* has the privileges of all its mentions in the instructions.
Merged(v, request, meta) ==
    IF meta.pubkey = v THEN WritableSigner(v)
    ELSE Meta(meta.pubkey,
              \E m \in { m \in UNION { ToSet(request[i].keys) : i \in DOMAIN request } :
                            m.pubkey = meta.pubkey } : m.isSigner,
              \E m \in { m \in UNION { ToSet(request[i].keys) : i \in DOMAIN request } :
                            m.pubkey = meta.pubkey } : m.isWritable)

\* The privileges of an account are those of all its mentions, merged.
LEMMA StrongestIsMerged ==
    ASSUME NEW v \in Address, NEW r \in Seq(TransactionInstruction), NEW meta \in AccountMeta
    PROVE  Strongest(meta.pubkey, Mentioned(v, r)) = Merged(v, r, meta)
<1> DEFINE accounts == UNION { ToSet(r[i].keys) : i \in DOMAIN r }
           key == meta.pubkey
<1>1. \A m : m \in Mentioned(v, r) <=>
                \/ m = Meta(v, TRUE, TRUE)
                \/ \E n \in DOMAIN r : m = Meta(r[n].programId, FALSE, FALSE)
                \/ m \in accounts
  <2>1. \A m : m \in accounts <=> \E n \in DOMAIN r : m \in ToSet(r[n].keys)
    OBVIOUS
  <2> HIDE DEF accounts
  <2> QED
    BY <2>1, MentionedMeans
<1>2. \A p, s, w : /\ Meta(p, s, w).pubkey = p /\ Meta(p, s, w).isSigner = s
                   /\ Meta(p, s, w).isWritable = w
  BY DEF Meta
<1> HIDE DEF accounts
<1>3. CASE key = v
  <2>1. /\ Meta(v, TRUE, TRUE) \in Mentioned(v, r) /\ Meta(v, TRUE, TRUE).pubkey = key
        /\ Meta(v, TRUE, TRUE).isSigner /\ Meta(v, TRUE, TRUE).isWritable
    BY <1>1, <1>2, <1>3
  <2>2. (\E m \in Mentioned(v, r) : m.pubkey = key /\ m.isSigner) = TRUE
    BY <2>1
  <2>3. (\E m \in Mentioned(v, r) : m.pubkey = key /\ m.isWritable) = TRUE
    BY <2>1
  <2> QED
    BY <1>3, <2>2, <2>3 DEF Strongest, Merged, WritableSigner
<1>4. CASE key # v
  <2>1. \A m \in Mentioned(v, r) :
           m.pubkey = key /\ (m.isSigner \/ m.isWritable) => m \in accounts
    <3>1. SUFFICES ASSUME NEW m \in Mentioned(v, r), m.pubkey = key, m.isSigner \/ m.isWritable
                   PROVE  m \in accounts
      OBVIOUS
    <3>2. m # Meta(v, TRUE, TRUE)
      <4>1. Meta(v, TRUE, TRUE).pubkey = v
        BY <1>2
      <4> QED
        BY <1>4, <3>1, <4>1, Zenon
    <3>3. \A n \in DOMAIN r : m # Meta(r[n].programId, FALSE, FALSE)
      <4>1. \A n \in DOMAIN r : /\ ~Meta(r[n].programId, FALSE, FALSE).isSigner
                                /\ ~Meta(r[n].programId, FALSE, FALSE).isWritable
        BY DEF Meta
      <4> QED
        BY <3>1, <4>1, Zenon
    <3> QED
      BY <1>1, <3>2, <3>3
  <2>2. \A m \in accounts : m \in Mentioned(v, r)
    BY <1>1
  <2>3. (\E m \in Mentioned(v, r) : m.pubkey = key /\ m.isSigner)
          <=> (\E m \in { m \in accounts : m.pubkey = key } : m.isSigner)
    BY <2>1, <2>2, Zenon
  <2>4. (\E m \in Mentioned(v, r) : m.pubkey = key /\ m.isWritable)
          <=> (\E m \in { m \in accounts : m.pubkey = key } : m.isWritable)
    BY <2>1, <2>2, Zenon
  <2> QED
    BY <1>4, <2>3, <2>4 DEF Strongest, Merged, accounts
<1> QED
  BY <1>3, <1>4

\* When the accounts can be numbered with a byte, the program resolves from the
\* message what was asked for.
LEMMA BuiltFaithfully ==
    ASSUME NEW v \in Address, NEW r \in Seq(TransactionInstruction), NEW i \in DOMAIN r,
           Len(buildMessageFromInstructions(v, r).account_keys) <= BYTE
    PROVE  Resolved(buildMessageFromInstructions(v, r),
                    buildMessageFromInstructions(v, r).instructions[i])
             = [r[i] EXCEPT !.keys = [k \in DOMAIN @ |-> Merged(v, r, @[k])]]
<1> DEFINE message == buildMessageFromInstructions(v, r)
           accounts == Accounts(v, r)
           keys == Pubkeys(accounts)
           compiled == CompileInstruction(keys, r[i])
           wanted == r[i].keys
<1>1. /\ message.num_signers = Len(WritableSigners(v, r)) + Len(ReadonlySigners(v, r))
      /\ message.num_writable_signers = Len(WritableSigners(v, r))
      /\ message.num_writable_non_signers = Len(WritableNonSigners(v, r))
      /\ message.account_keys = keys
      /\ message.instructions[i] = compiled
  BY Built
<1>2. /\ accounts \in Seq(AccountMeta)
      /\ Len(WritableSigners(v, r)) \in Nat /\ Len(ReadonlySigners(v, r)) \in Nat
      /\ Len(WritableNonSigners(v, r)) \in Nat
      /\ \A p \in 1..Len(accounts) :
            /\ accounts[p].isSigner <=>
                  p <= Len(WritableSigners(v, r)) + Len(ReadonlySigners(v, r))
            /\ accounts[p].isWritable <=>
                  (\/ p <= Len(WritableSigners(v, r))
                   \/ /\ Len(WritableSigners(v, r)) + Len(ReadonlySigners(v, r)) < p
                      /\ p <= Len(WritableSigners(v, r)) + Len(ReadonlySigners(v, r))
                                + Len(WritableNonSigners(v, r)))
            /\ accounts[p] = Strongest(accounts[p].pubkey, Mentioned(v, r))
  BY Layout
<1>3. /\ keys \in Seq(Address) /\ Len(keys) = Len(accounts) /\ Len(keys) \in Nat
      /\ \A p \in 1..Len(accounts) : keys[p] = accounts[p].pubkey /\ accounts[p] \in AccountMeta
  BY <1>2, PubkeysType
<1>4. /\ r[i] \in TransactionInstruction /\ r[i].programId \in ToSet(keys)
      /\ Len(wanted) \in Nat /\ DOMAIN wanted = 1..Len(wanted)
      /\ \A k \in DOMAIN wanted : /\ wanted[k] \in AccountMeta
                                  /\ wanted[k].pubkey \in ToSet(keys)
  BY MentionsOf
<1>5. compiled = [program_id_index |-> accountIndex(keys, r[i].programId),
                  account_indexes  |-> [k \in DOMAIN wanted |->
                                           accountIndex(keys, wanted[k].pubkey) % BYTE],
                  data             |-> r[i].data]
  BY DEF CompileInstruction
<1>6. Len(keys) <= BYTE
  BY <1>1
<1> HIDE DEF message, accounts, keys, compiled
<1>7. message.account_keys[compiled.program_id_index + 1] = r[i].programId
  BY <1>1, <1>3, <1>4, <1>5, AccountIndexFinds
<1>8. ASSUME NEW k \in DOMAIN wanted
      PROVE  LET meta == account_metas(message, compiled)[k]
             IN  Meta(meta.pubkey, meta.is_signer, meta.is_writable) = Merged(v, r, wanted[k])
  <2> DEFINE index == accountIndex(keys, wanted[k].pubkey)
             meta == account_metas(message, compiled)[k]
  <2>1. index \in 0..(Len(keys) - 1) /\ keys[index + 1] = wanted[k].pubkey
    BY <1>3, <1>4, AccountIndexFinds
  <2>2. index % BYTE = index
    <3>1. \A x \in Nat : x < BYTE => x % BYTE = x
      BY ByteAssumption
    <3> HIDE DEF index
    <3>2. index \in Nat /\ index < BYTE
      BY <1>3, <1>6, <2>1, ByteAssumption
    <3> QED
      BY <3>1, <3>2
  <2>3. /\ compiled.account_indexes[k] = index
        /\ Len(compiled.account_indexes) = Len(wanted)
    <3>1. compiled.account_indexes = [j \in 1..Len(wanted) |->
                                        accountIndex(keys, wanted[j].pubkey) % BYTE]
      BY <1>4, <1>5
    <3>2. compiled.account_indexes[k] = index
      BY <1>4, <2>2, <3>1
    <3>3. Len(compiled.account_indexes) = Len(wanted)
      <4> HIDE DEF wanted
      <4> QED
        BY <1>4, <3>1
    <3> QED
      BY <3>2, <3>3
  <2> HIDE DEF index
  <2>4. k \in 1..Len(compiled.account_indexes)
    BY <1>4, <2>3
  <2>5. meta = [pubkey      |-> keys[index + 1],
                is_signer   |-> is_signer(message, index),
                is_writable |-> is_writable(message, index)]
    BY <1>1, <2>3, <2>4 DEF account_metas
  <2> DEFINE p == index + 1
  <2>6. p \in 1..Len(accounts) /\ index \in Nat /\ index = p - 1
    BY <1>3, <2>1
  <2>7. accounts[p].isSigner \in BOOLEAN /\ accounts[p].isWritable \in BOOLEAN
    BY <1>3, <2>6 DEF AccountMeta
  <2>8. is_signer(message, index) = accounts[p].isSigner
    <3>1. is_signer(message, index) <=> accounts[p].isSigner
      BY <1>1, <1>2, <2>6 DEF is_signer
    <3>2. is_signer(message, index) \in BOOLEAN
      BY DEF is_signer
    <3> QED
      BY <2>7, <3>1, <3>2
  <2>9. is_writable(message, index) = accounts[p].isWritable
    <3>1. is_writable(message, index) <=> accounts[p].isWritable
      BY SMTT(30), <1>1, <1>2, <2>6 DEF is_writable
    <3>2. is_writable(message, index) \in BOOLEAN
      BY DEF is_writable
    <3> QED
      BY <2>7, <3>1, <3>2
  <2>10. accounts[p].pubkey = wanted[k].pubkey
    BY <1>3, <2>1, <2>6
  <2>11. Meta(wanted[k].pubkey, accounts[p].isSigner, accounts[p].isWritable) = accounts[p]
    BY <1>3, <2>6, <2>10 DEF Meta, AccountMeta
  <2>12. accounts[p] = Merged(v, r, wanted[k])
    BY <1>2, <1>4, <2>6, <2>10, StrongestIsMerged
  <2>13. /\ meta.pubkey = wanted[k].pubkey /\ meta.is_signer = accounts[p].isSigner
         /\ meta.is_writable = accounts[p].isWritable
    BY <2>1, <2>5, <2>8, <2>9
  <2> HIDE DEF meta
  <2>14. Meta(meta.pubkey, meta.is_signer, meta.is_writable) = Merged(v, r, wanted[k])
    BY <2>11, <2>12, <2>13
  <2> QED
    BY <2>14 DEF meta
<1>9. DOMAIN compiled.account_indexes = DOMAIN wanted /\ compiled.data = r[i].data
  BY <1>5
<1>10. Resolved(message, compiled) =
         Instruction(r[i].programId, [k \in DOMAIN wanted |-> Merged(v, r, wanted[k])], r[i].data)
  BY <1>7, <1>8, <1>9 DEF Resolved
<1>11. Instruction(r[i].programId, [k \in DOMAIN wanted |-> Merged(v, r, wanted[k])], r[i].data)
         = [r[i] EXCEPT !.keys = [k \in DOMAIN @ |-> Merged(v, r, @[k])]]
  <2> DEFINE x == r[i]
             new == [k \in DOMAIN wanted |-> Merged(v, r, wanted[k])]
  <2>1. x \in TransactionInstruction /\ wanted = x.keys
    BY <1>4
  <2>2. [x EXCEPT !.keys = [k \in DOMAIN @ |-> Merged(v, r, @[k])]] = [x EXCEPT !.keys = new]
    OBVIOUS
  <2> HIDE DEF x, new
  <2>3. PICK f \in Address, g \in Seq(AccountMeta), h \in Data :
          x = [programId |-> f, keys |-> g, data |-> h]
    BY <2>1, Zenon DEF TransactionInstruction
  <2>4. [x EXCEPT !.keys = new] = Instruction(x.programId, new, x.data)
    BY <2>3 DEF Instruction
  <2> QED
    BY <2>2, <2>4 DEF x, new
<1> QED
  BY <1>1, <1>10, <1>11 DEF message

-----------------------------------------------------------------------------
(***************************************************************************)
(* The inductive invariant of the client.                                  *)
(***************************************************************************)

\* What the calls of a caller are, from their first await to their end.
RestCall == [method : {"none"}, pc : {"returned", "threw"}]
SendCall == [method : {"approveTransaction", "executeTransaction"}, pc : {"sent"}]
CreateCall ==
    { call \in [method : {"createTransaction"}, pc : {"fetching", "sent", "returned"},
                request : Requests \cup {None}, message : TransactionMessage,
                creator : Creators, transactionIndex : Nat] :
        call.request # None => call.message = MessageFor[call.request] }
TableCall ==
    [method : {"createTable"}, pc : {"sent", "confirmed", "warming", "polling", "returned"},
     members : TableLists, table : TableAddress, waited : Nat]
InitializeCall ==
    [method : {"initialize"}, pc : {"compiling", "sent", "threw"}, members : MemberLists,
     threshold : {Threshold}, table : TableAddress]

Call == RestCall \cup SendCall \cup CreateCall \cup TableCall \cup InitializeCall

\* The transaction that a call has sent.
CreateIx(call) ==
    buildCreateTransactionInstruction(Multisig, call.transactionIndex - 1, 0, call.message,
                                      call.creator, call.creator)
TableIx(call) ==
    Instruction(ALT_PROGRAM_ID, <<Writable(call.table), WritableSigner(Payer)>>,
                [op |-> "extendLookupTable", addresses |-> TableContents(call.members)])

Sends(call, ix, request) ==
    /\ call.pc = "sent"
    /\ \/ call.method = "createTransaction" /\ ix = CreateIx(call) /\ request = call.request
       \/ /\ call.method = "approveTransaction"
          /\ \E index \in Indexes, member \in Creators :
                ix = buildApproveTransactionInstruction(Multisig, index, member)
       \/ /\ call.method = "executeTransaction"
          /\ \E index \in Indexes, executor \in Creators :
                ix = buildExecuteTransactionInstruction(Multisig, index, executor, ForeignAccounts)
       \/ call.method = "createTable" /\ ix = TableIx(call)
       \/ /\ call.method = "initialize"
          /\ ix = buildInitializeMultisigInstruction(call.members, call.threshold, Payer)

\* Every transaction was sent by a call; the caller that waits for it is still
\* in that call, and waits for no other.
NetworkInv ==
    /\ IsFiniteSet(network) /\ Cardinality(network) <= MaxInFlight
    /\ \A tx \in network :
          /\ tx \in [ix : {tx.ix}, lookups : {tx.lookups}, waiting : Caller \cup {None},
                     request : {tx.request}]
          /\ \E call \in Call : Sends(call, tx.ix, tx.request)
          /\ tx.waiting # None => Sends(calls[tx.waiting], tx.ix, tx.request)
    /\ \A t, u \in network : t.waiting = u.waiting /\ t.waiting # None => t = u

Acceptance == [request : Requests \cup {None}, message : TransactionMessage, creator : Address]

\* Accepted creations are numbered, valid, and kept by their proposals.
LedgerInv ==
    /\ multisig \in MultisigConfig \cup {None}
    /\ accepted \in Seq(Acceptance)
    /\ multisig = None => accepted = <<>>
    /\ multisig # None => multisig.transactionIndex = Len(accepted)
    /\ proposals \in [1..MaxIndex -> VaultTransactionData \cup {None}]
    /\ \A i \in 1..MaxIndex : proposals[i] # None =>
          /\ proposals[i] \in VaultTransactionData
          /\ proposals[i].transactionIndex = i /\ i <= Len(accepted)
          /\ proposals[i].message = accepted[i].message
          /\ IsInjective(proposals[i].approvals)
          /\ ToSet(proposals[i].approvals) \subseteq ToSet(multisig.members)
    /\ \A n \in DOMAIN accepted : accepted[n].request # None =>
          /\ accepted[n].message = MessageFor[accepted[n].request]
          /\ ValidMessage(accepted[n].message, Vault)

LookupTable ==
    { table \in [addresses : Seq(Address), start : Nat, fresh : BOOLEAN, seen : Nat] :
        table.start <= Len(table.addresses) }

TablesInv == tables \in [TableAddress -> LookupTable]

\* A returned creation is the caller's own, and a table has the members of the
\* call that extended it before a slot passes and serves them after.
CallOk(call) ==
    /\ call.method = "createTransaction" /\ call.pc = "returned" =>
          /\ call.transactionIndex \in DOMAIN accepted
          /\ accepted[call.transactionIndex].message = call.message
          /\ accepted[call.transactionIndex].creator = call.creator
    /\ call.method = "createTable" /\ call.pc \in {"sent", "confirmed"} => call.waited = 0
    /\ call.method = "createTable" /\ call.pc \in {"confirmed", "warming"} =>
          ToSet(TableContents(call.members)) \subseteq ToSet(tables[call.table].addresses)
    /\ /\ call.method = "createTable"
       /\ call.pc \in {"polling", "returned"} \/ (call.pc = "warming" /\ call.waited >= 1)
       => ToSet(TableContents(call.members)) \subseteq Usable(tables[call.table])

CallsInv == calls \in [Caller -> Call] /\ \A c \in Caller : CallOk(calls[c])

ClientInv == NetworkInv /\ LedgerInv /\ TablesInv /\ CallsInv

-----------------------------------------------------------------------------
(***************************************************************************)
(* Calls.                                                                  *)
(***************************************************************************)

\* The method of a call tells its type.
LEMMA KindOfCall ==
    ASSUME NEW call \in Call
    PROVE  /\ call.method = "none" => call \in RestCall
           /\ call.method \in {"approveTransaction", "executeTransaction"} => call \in SendCall
           /\ call.method = "createTransaction" => call \in CreateCall
           /\ call.method = "createTable" => call \in TableCall
           /\ call.method = "initialize" => call \in InitializeCall
           /\ call.method \in {"none", "approveTransaction", "executeTransaction",
                               "createTransaction", "createTable", "initialize"}
  BY DEF Call, RestCall, SendCall, CreateCall, TableCall, InitializeCall

\* Contents of a table for a member list of the callers.
LEMMA ContentsType ==
    ASSUME NEW members \in TableLists
    PROVE  TableContents(members) \in Seq(Address)
<1>1. members \in Seq(Address) /\ SYSTEM_PROGRAM \in Address
  BY ClientAssumption
<1>2. sortMembers(members) \in Seq(Address)
  BY <1>1, SortMembersType
<1> QED
  BY <1>1, <1>2 DEF TableContents

\* A call that has ended is well formed, and owes nothing.
LEMMA RestIsCall ==
    \A pc \in {"returned", "threw"} :
        LET call == [method |-> "none", pc |-> pc]
        IN  call \in Call /\ CallOk(call)
  BY DEF Call, RestCall, CallOk

\* A caller whose call becomes another leaves the calls well-formed.
LEMMA CallChanges ==
    ASSUME CallsInv, NEW c \in Caller, NEW call \in Call, CallOk(call), Becomes(c, call),
           UNCHANGED <<accepted, tables>>
    PROVE  CallsInv'
<1>1. calls' \in [Caller -> Call]
  BY DEF CallsInv, Becomes
<1>2. ASSUME NEW d \in Caller
      PROVE  CallOk(calls[d])'
  <2>1. CallOk(calls'[d])
    BY DEF CallsInv, Becomes
  <2> QED
    BY <2>1 DEF CallOk, Usable
<1> QED
  BY <1>1, <1>2 DEF CallsInv

\* No transaction waits for a caller that is not in the middle of sending.
LEMMA CallerIsFree ==
    ASSUME NetworkInv, NEW c \in Caller, calls[c].pc # "sent", NEW tx \in network
    PROVE  tx.waiting = c => tx.waiting = None
  BY DEF NetworkInv, Sends

\* A caller that waits for no transaction may go on without the network.
LEMMA NetworkKept ==
    ASSUME NetworkInv, CallsInv, NEW c \in Caller, NEW call, Becomes(c, call),
           calls[c].pc # "sent", UNCHANGED network
    PROVE  NetworkInv'
<1>1. ASSUME NEW tx \in network
      PROVE  tx.waiting # None => calls'[tx.waiting] = calls[tx.waiting]
  <2>1. tx.waiting # None => tx.waiting # c /\ tx.waiting \in Caller
    BY CallerIsFree DEF NetworkInv
  <2> QED
    BY <2>1 DEF Becomes, CallsInv
<1>2. \A tx \in network :
         /\ tx \in [ix : {tx.ix}, lookups : {tx.lookups}, waiting : Caller \cup {None},
                    request : {tx.request}]
         /\ \E x \in Call : Sends(x, tx.ix, tx.request)
         /\ tx.waiting # None => Sends(calls'[tx.waiting], tx.ix, tx.request)
  BY <1>1 DEF NetworkInv
<1> QED
  BY <1>2 DEF NetworkInv, Call, CreateCall, RestCall, SendCall, TableCall, InitializeCall

\* Sending adds one transaction, the caller's only one.
LEMMA NetworkGrows ==
    ASSUME NetworkInv, CallsInv, NEW c \in Caller, calls[c].pc # "sent",
           NEW ix, NEW lookups, NEW call, Submit(c, ix, lookups, call),
           [call EXCEPT !.pc = "sent"] \in Call,
           Sends([call EXCEPT !.pc = "sent"], ix,
                 IF call.method = "createTransaction" THEN call.request ELSE None)
    PROVE  NetworkInv'
<1> DEFINE request == IF call.method = "createTransaction" THEN call.request ELSE None
           new == [ix |-> ix, lookups |-> lookups, waiting |-> c, request |-> request]
           sent == [call EXCEPT !.pc = "sent"]
<1>1. /\ network' = network \cup {new} /\ Cardinality(network) < MaxInFlight
      /\ calls' = [calls EXCEPT ![c] = sent]
  BY DEF Submit, Becomes
<1>2. sent \in Call /\ Sends(sent, ix, request)
  OBVIOUS
<1> HIDE DEF sent, request
<1>3. ASSUME NEW tx \in network
      PROVE  tx.waiting # None => tx.waiting # c /\ calls'[tx.waiting] = calls[tx.waiting]
  <2>1. tx.waiting # None => tx.waiting # c /\ tx.waiting \in Caller
    BY CallerIsFree DEF NetworkInv
  <2> QED
    BY <1>1, <2>1 DEF CallsInv
<1>4. IsFiniteSet(network') /\ Cardinality(network') <= MaxInFlight
  <2>1. IsFiniteSet(network) /\ Cardinality(network) \in Nat
    BY FS_CardinalityType DEF NetworkInv
  <2>2. /\ IsFiniteSet(network \cup {new})
        /\ Cardinality(network \cup {new}) \in Nat
        /\ Cardinality(network \cup {new}) <= Cardinality(network) + 1
    <3> HIDE DEF new
    <3>1. /\ IsFiniteSet(network \cup {new})
          /\ Cardinality(network \cup {new})
               = IF new \in network THEN Cardinality(network) ELSE Cardinality(network) + 1
      BY <2>1, FS_AddElement
    <3> QED
      BY <2>1, <3>1
  <2> QED
    BY <1>1, <2>1, <2>2, ClientAssumption
<1>5. calls'[c] = sent
  BY <1>1 DEF CallsInv
<1>6. ASSUME NEW tx \in network'
      PROVE  /\ tx \in [ix : {tx.ix}, lookups : {tx.lookups}, waiting : Caller \cup {None},
                        request : {tx.request}]
             /\ \E x \in Call : Sends(x, tx.ix, tx.request)
             /\ tx.waiting # None => Sends(calls'[tx.waiting], tx.ix, tx.request)
  <2>1. CASE tx \in network
    BY <1>3, <2>1 DEF NetworkInv
  <2>2. CASE tx = new
    BY <1>2, <1>5, <2>2
  <2> QED
    BY <1>1, <2>1, <2>2
<1>7. ASSUME NEW t \in network', NEW u \in network', t.waiting = u.waiting, t.waiting # None
      PROVE  t = u
  <2>1. CASE t \in network /\ u \in network
    BY <1>7, <2>1 DEF NetworkInv
  <2>2. CASE t = new /\ u = new
    BY <2>2
  <2>3. new.waiting = c
    OBVIOUS
  <2> QED
    BY <1>1, <1>3, <1>7, <2>1, <2>2, <2>3
<1> QED
  BY <1>4, <1>6, <1>7 DEF NetworkInv

\* A transaction that lands or fails leaves the network, and the caller that
\* waited for it goes on.
LEMMA NetworkShrinks ==
    ASSUME NetworkInv, CallsInv, NEW tx \in network, network' = network \ {tx}, NEW call,
           \/ tx.waiting = None /\ UNCHANGED calls
           \/ tx.waiting # None /\ Becomes(tx.waiting, call)
    PROVE  NetworkInv'
<1>1. IsFiniteSet(network') /\ Cardinality(network') <= MaxInFlight
  <2>1. IsFiniteSet(network) /\ Cardinality(network) \in Nat /\ Cardinality(network) <= MaxInFlight
    BY FS_CardinalityType DEF NetworkInv
  <2>2. network' \subseteq network
    OBVIOUS
  <2>3. IsFiniteSet(network') /\ Cardinality(network') <= Cardinality(network)
    BY <2>1, <2>2, FS_Subset
  <2>4. Cardinality(network') \in Nat
    BY <2>3, FS_CardinalityType
  <2> QED
    BY <2>1, <2>3, <2>4, ClientAssumption
<1>2. ASSUME NEW t \in network'
      PROVE  t.waiting # None => calls'[t.waiting] = calls[t.waiting]
  <2>1. t \in network /\ t # tx
    OBVIOUS
  <2>2. t.waiting # None => t.waiting # tx.waiting /\ t.waiting \in Caller
    BY <2>1 DEF NetworkInv
  <2> QED
    BY <2>2 DEF Becomes, CallsInv
<1>3. \A t \in network' :
         /\ t \in [ix : {t.ix}, lookups : {t.lookups}, waiting : Caller \cup {None},
                   request : {t.request}]
         /\ \E x \in Call : Sends(x, t.ix, t.request)
         /\ t.waiting # None => Sends(calls'[t.waiting], t.ix, t.request)
  BY <1>2 DEF NetworkInv
<1>4. \A t, u \in network' : t.waiting = u.waiting /\ t.waiting # None => t = u
  BY DEF NetworkInv
<1> QED
  BY <1>1, <1>3, <1>4 DEF NetworkInv

\* A caller stops waiting: what it sent stays in the network.
LEMMA NetworkForgets ==
    ASSUME NetworkInv, CallsInv, NEW c \in Caller, NEW call, Becomes(c, call),
           network' = { [tx EXCEPT !.waiting = IF @ = c THEN None ELSE @] : tx \in network }
    PROVE  NetworkInv'
<1> DEFINE Forgotten(tx) == [tx EXCEPT !.waiting = IF @ = c THEN None ELSE @]
           f == [tx \in network |-> Forgotten(tx)]
<1>1. network' = { f[tx] : tx \in network }
  OBVIOUS
<1>2. ASSUME NEW tx \in network
      PROVE  /\ f[tx].ix = tx.ix /\ f[tx].lookups = tx.lookups /\ f[tx].request = tx.request
             /\ f[tx].waiting = IF tx.waiting = c THEN None ELSE tx.waiting
             /\ f[tx] = [ix |-> tx.ix, lookups |-> tx.lookups, waiting |-> f[tx].waiting,
                         request |-> tx.request]
  <2>1. tx \in [ix : {tx.ix}, lookups : {tx.lookups}, waiting : Caller \cup {None},
                request : {tx.request}]
    BY DEF NetworkInv
  <2>2. f[tx] = Forgotten(tx)
    OBVIOUS
  <2> HIDE DEF f
  <2> QED
    BY <2>1, <2>2
<1>3. f \in Surjection(network, network')
  <2>1. f \in [network -> network']
    BY <1>1
  <2> QED
    BY <1>1, <2>1 DEF Surjection
<1> HIDE DEF f
<1>4. IsFiniteSet(network') /\ Cardinality(network') <= MaxInFlight
  <2>1. IsFiniteSet(network) /\ Cardinality(network) \in Nat /\ Cardinality(network) <= MaxInFlight
    BY FS_CardinalityType DEF NetworkInv
  <2>2. IsFiniteSet(network') /\ Cardinality(network') <= Cardinality(network)
    BY <1>3, <2>1, FS_Surjection
  <2>3. Cardinality(network') \in Nat
    BY <2>2, FS_CardinalityType
  <2> QED
    BY <2>1, <2>2, <2>3, ClientAssumption
<1>5. ASSUME NEW t \in network'
      PROVE  /\ t \in [ix : {t.ix}, lookups : {t.lookups}, waiting : Caller \cup {None},
                       request : {t.request}]
             /\ \E x \in Call : Sends(x, t.ix, t.request)
             /\ t.waiting # None => Sends(calls'[t.waiting], t.ix, t.request)
  <2>1. PICK tx \in network : t = f[tx]
    BY <1>1
  <2>2. /\ tx.waiting \in Caller \cup {None}
        /\ \E x \in Call : Sends(x, tx.ix, tx.request)
        /\ tx.waiting # None => Sends(calls[tx.waiting], tx.ix, tx.request)
    BY DEF NetworkInv
  <2>3. t.waiting # None =>
           /\ t.waiting = tx.waiting /\ tx.waiting # None
           /\ calls'[tx.waiting] = calls[tx.waiting]
    <3>1. t.waiting = IF tx.waiting = c THEN None ELSE tx.waiting
      BY <1>2, <2>1
    <3>2. ASSUME t.waiting # None
          PROVE  calls'[tx.waiting] = calls[tx.waiting]
      <4>1. tx.waiting # c /\ tx.waiting \in Caller
        BY <2>2, <3>1, <3>2
      <4> QED
        BY <4>1 DEF Becomes, CallsInv
    <3> QED
      BY <3>1, <3>2
  <2>4. t.waiting \in Caller \cup {None}
    BY <1>2, <2>1, <2>2
  <2>5. t \in [ix : {t.ix}, lookups : {t.lookups}, waiting : Caller \cup {None},
               request : {t.request}]
    BY <1>2, <2>1, <2>4
  <2> QED
    BY <1>2, <2>1, <2>2, <2>3, <2>5
<1>6. ASSUME NEW t \in network', NEW u \in network', t.waiting = u.waiting, t.waiting # None
      PROVE  t = u
  <2>1. PICK tx \in network : t = f[tx]
    BY <1>1
  <2>2. PICK ux \in network : u = f[ux]
    BY <1>1
  <2>3. tx.waiting = ux.waiting /\ tx.waiting # None
    BY <1>2, <1>6, <2>1, <2>2
  <2>4. tx = ux
    BY <2>3 DEF NetworkInv
  <2> QED
    BY <2>1, <2>2, <2>4
<1> QED
  BY <1>4, <1>5, <1>6 DEF NetworkInv

-----------------------------------------------------------------------------
(***************************************************************************)
(* Steps of the callers.                                                   *)
(***************************************************************************)

\* The caller moves on by itself.
LEMMA LocalStep ==
    ASSUME ClientInv, NEW c \in Caller, NEW call \in Call, CallOk(call), Becomes(c, call),
           calls[c].pc # "sent", UNCHANGED <<multisig, proposals, accepted, tables, network>>
    PROVE  ClientInv'
<1>1. NetworkInv'
  BY NetworkKept DEF ClientInv
<1>2. CallsInv'
  BY CallChanges DEF ClientInv
<1> QED
  BY <1>1, <1>2 DEF ClientInv, LedgerInv, TablesInv

\* A call that throws keeps the invariant.
LEMMA ThrowStep ==
    ASSUME ClientInv, NEW c \in Caller, Throws(c), calls[c].pc # "sent",
           UNCHANGED <<multisig, proposals, accepted, tables, network>>
    PROVE  ClientInv'
  BY RestIsCall, LocalStep DEF Throws

\* The caller sends.
LEMMA SendStep ==
    ASSUME ClientInv, NEW c \in Caller, calls[c].pc # "sent",
           NEW ix, NEW lookups, NEW call, Submit(c, ix, lookups, call),
           [call EXCEPT !.pc = "sent"] \in Call, CallOk([call EXCEPT !.pc = "sent"]),
           Sends([call EXCEPT !.pc = "sent"], ix,
                 IF call.method = "createTransaction" THEN call.request ELSE None),
           UNCHANGED <<multisig, proposals, accepted, tables>>
    PROVE  ClientInv'
<1>1. NetworkInv'
  BY NetworkGrows DEF ClientInv
<1>2. CallsInv'
  BY CallChanges DEF ClientInv, Submit
<1> QED
  BY <1>1, <1>2 DEF ClientInv, LedgerInv, TablesInv

\* The table of built messages is the builder.
LEMMA MessageForType ==
    ASSUME NEW request \in Requests
    PROVE  /\ MessageFor[request] = buildMessageFromInstructions(Vault, request)
           /\ MessageFor[request] \in TransactionMessage
<1>1. request \in Seq(TransactionInstruction) /\ Vault \in Address
  BY ClientAssumption
<1> QED
  BY <1>1, BuiltType DEF MessageFor

\* createTransaction up to its fetch keeps the invariant (client.ts:475).
LEMMA CreateStep ==
    ASSUME ClientInv, NEW c \in Caller, NEW request \in Requests \cup {None},
           NEW message \in TransactionMessage, NEW creator \in Creators,
           request # None => message = MessageFor[request],
           createTransactionFromMessage(c, request, message, creator)
    PROVE  ClientInv'
<1> DEFINE call == [method |-> "createTransaction", pc |-> "fetching", request |-> request,
                    message |-> message, creator |-> creator, transactionIndex |-> 0]
<1>1. call \in Call
  BY DEF Call, CreateCall
<1>2. CallOk(call)
  BY DEF CallOk
<1>3. Becomes(c, call) /\ calls[c].pc # "sent"
  BY DEF createTransactionFromMessage, Ended
<1> HIDE DEF call
<1> QED
  BY <1>1, <1>2, <1>3, LocalStep DEF createTransactionFromMessage

\* The answer to the fetch of the multisig keeps the invariant.
LEMMA FetchMultisigStep ==
    ASSUME ClientInv, NEW c \in Caller, FetchMultisig(c)
    PROVE  ClientInv'
<1> DEFINE call == calls[c]
           index == NextTransactionIndex(multisig.transactionIndex)
           asked == [call EXCEPT !.transactionIndex = index]
           sent == [asked EXCEPT !.pc = "sent"]
           ix == buildCreateTransactionInstruction(Multisig, index - 1, 0, call.message,
                                                   call.creator, call.creator)
<1>1. call \in Call /\ call.pc = "fetching"
  BY DEF ClientInv, CallsInv, FetchMultisig
<1>2. call \in CreateCall
  BY <1>1 DEF Call, RestCall, SendCall, TableCall, InitializeCall
<1>3. index \in Nat
  BY DEF FetchMultisig, ClientInv, LedgerInv, MultisigConfig, NextTransactionIndex
<1>4. Rpc(c, ix, asked) /\ UNCHANGED <<multisig, proposals, accepted, tables>>
  BY DEF FetchMultisig
<1> HIDE DEF index, call
<1>5. /\ sent = [call EXCEPT !.transactionIndex = index, !.pc = "sent"]
      /\ sent \in CreateCall /\ sent.pc = "sent" /\ sent.method = "createTransaction"
      /\ sent.transactionIndex = index /\ sent.message = call.message
      /\ sent.creator = call.creator /\ sent.request = call.request
      /\ asked.method = "createTransaction" /\ asked.request = call.request
  BY <1>2, <1>3 DEF CreateCall
<1>6. ix = CreateIx(sent)
  BY <1>5 DEF CreateIx
<1> HIDE DEF ix, asked, sent
<1>7. CASE Throws(c) /\ UNCHANGED network
  BY <1>1, <1>4, <1>7, ThrowStep DEF call
<1>8. CASE Submit(c, ix, NoLookups, asked)
  <2>1. sent \in Call /\ CallOk(sent)
    BY <1>5 DEF Call, CallOk
  <2>2. Sends(sent, ix, IF asked.method = "createTransaction" THEN asked.request ELSE None)
    BY <1>5, <1>6 DEF Sends
  <2>3. calls[c].pc # "sent"
    BY <1>1 DEF call
  <2> QED
    BY <1>4, <1>8, <2>1, <2>2, <2>3, SendStep DEF sent
<1> QED
  BY <1>4, <1>7, <1>8 DEF Rpc

\* approveTransaction keeps the invariant.
LEMMA ApproveStep ==
    ASSUME ClientInv, NEW c \in Caller, NEW index \in Indexes, NEW member \in Creators,
           approveTransaction(c, index, member)
    PROVE  ClientInv'
<1> DEFINE ix == buildApproveTransactionInstruction(Multisig, index, member)
           call == [method |-> "approveTransaction", pc |-> "sent"]
           sent == [call EXCEPT !.pc = "sent"]
<1>1. /\ calls[c].pc # "sent" /\ Rpc(c, ix, call)
      /\ UNCHANGED <<multisig, proposals, accepted, tables>>
  BY DEF approveTransaction, Ended
<1>2. sent = call /\ call.method = "approveTransaction" /\ call.pc = "sent"
  OBVIOUS
<1>3. call \in Call /\ CallOk(call)
  BY DEF Call, SendCall, CallOk
<1>4. Sends(call, ix, IF call.method = "createTransaction" THEN call.request ELSE None)
  BY DEF Sends
<1> HIDE DEF ix, call
<1>5. CASE Throws(c) /\ UNCHANGED network
  BY <1>1, <1>5, ThrowStep
<1>6. CASE Submit(c, ix, NoLookups, call)
  BY <1>1, <1>2, <1>3, <1>4, <1>6, SendStep
<1> QED
  BY <1>1, <1>5, <1>6 DEF Rpc

\* executeTransaction keeps the invariant.
LEMMA ExecuteStep ==
    ASSUME ClientInv, NEW c \in Caller, NEW index \in Indexes, NEW executor \in Creators,
           executeTransaction(c, index, executor, ForeignAccounts)
    PROVE  ClientInv'
<1> DEFINE ix == buildExecuteTransactionInstruction(Multisig, index, executor, ForeignAccounts)
           call == [method |-> "executeTransaction", pc |-> "sent"]
           sent == [call EXCEPT !.pc = "sent"]
<1>1. /\ calls[c].pc # "sent" /\ Rpc(c, ix, call)
      /\ UNCHANGED <<multisig, proposals, accepted, tables>>
  BY DEF executeTransaction, Ended
<1>2. sent = call /\ call.method = "executeTransaction" /\ call.pc = "sent"
  OBVIOUS
<1>3. call \in Call /\ CallOk(call)
  BY DEF Call, SendCall, CallOk
<1>4. Sends(call, ix, IF call.method = "createTransaction" THEN call.request ELSE None)
  BY DEF Sends
<1> HIDE DEF ix, call
<1>5. CASE Throws(c) /\ UNCHANGED network
  BY <1>1, <1>5, ThrowStep
<1>6. CASE Submit(c, ix, NoLookups, call)
  BY <1>1, <1>2, <1>3, <1>4, <1>6, SendStep
<1> QED
  BY <1>1, <1>5, <1>6 DEF Rpc

\* createMembersAddressLookupTable up to its send keeps the invariant.
LEMMA CreateTableStep ==
    ASSUME ClientInv, NEW c \in Caller, NEW members \in TableLists, NEW recentSlot \in RecentSlots,
           createMembersAddressLookupTable(c, members, recentSlot)
    PROVE  ClientInv'
<1> DEFINE call == [method |-> "createTable", pc |-> "sent", members |-> members,
                    table |-> TableAt(recentSlot), waited |-> 0]
           sent == [call EXCEPT !.pc = "sent"]
<1>1. calls[c].pc # "sent" /\ UNCHANGED <<multisig, proposals, accepted, tables>>
  BY DEF createMembersAddressLookupTable, Ended
<1>2. CASE members = <<>>
  BY <1>1, <1>2, ThrowStep DEF createMembersAddressLookupTable
<1>3. CASE members # <<>>
  <2>1. Submit(c, TableIx(call), NoLookups, call)
    BY <1>3 DEF createMembersAddressLookupTable, TableIx
  <2>2. call \in Call /\ CallOk(call)
    BY DEF Call, TableCall, CallOk, TableAddress
  <2>3. Sends(call, TableIx(call), IF call.method = "createTransaction" THEN call.request ELSE None)
    BY DEF Sends
  <2>4. sent = call
    OBVIOUS
  <2> HIDE DEF call
  <2> QED
    BY <1>1, <2>1, <2>2, <2>3, <2>4, SendStep
<1> QED
  BY <1>2, <1>3

\* initialize up to its fetch keeps the invariant.
LEMMA InitializeStep ==
    ASSUME ClientInv, NEW c \in Caller, NEW members \in MemberLists, NEW membersAlt \in TableAddress,
           initialize(c, members, Threshold, membersAlt)
    PROVE  ClientInv'
<1> DEFINE call == [method |-> "initialize", members |-> members, threshold |-> Threshold,
                    table |-> membersAlt,
                    pc |-> IF validateConfig(members, Threshold) THEN "compiling" ELSE "threw"]
<1>1. call \in Call /\ CallOk(call)
  BY DEF Call, InitializeCall, CallOk
<1>2. /\ calls[c].pc # "sent" /\ Becomes(c, call)
      /\ UNCHANGED <<multisig, proposals, accepted, tables, network>>
  BY DEF initialize, Ended
<1> HIDE DEF call
<1> QED
  BY <1>1, <1>2, LocalStep

\* The answer to the fetch of the table keeps the invariant.
LEMMA FetchTableStep ==
    ASSUME ClientInv, NEW c \in Caller, FetchTable(c)
    PROVE  ClientInv'
<1> DEFINE call == calls[c]
           sent == [call EXCEPT !.pc = "sent"]
           ix == buildInitializeMultisigInstruction(call.members, call.threshold, Payer)
<1>1. call \in Call /\ call.pc = "compiling"
  BY DEF ClientInv, CallsInv, FetchTable
<1>2. call \in InitializeCall
  BY <1>1 DEF Call, RestCall, SendCall, TableCall, CreateCall
<1>3. PICK lookups : Submit(c, ix, lookups, call)
  BY DEF FetchTable
<1>4. UNCHANGED <<multisig, proposals, accepted, tables>>
  BY DEF FetchTable
<1> HIDE DEF call
<1>5. /\ sent \in InitializeCall /\ sent.pc = "sent" /\ sent.method = "initialize"
      /\ sent.members = call.members /\ sent.threshold = call.threshold
      /\ call.method = "initialize"
  BY <1>2 DEF InitializeCall
<1>6. sent \in Call /\ CallOk(sent)
  BY <1>5 DEF Call, CallOk
<1>7. Sends(sent, ix, IF call.method = "createTransaction" THEN call.request ELSE None)
  BY <1>5 DEF Sends
<1>8. calls[c].pc # "sent"
  BY <1>1 DEF call
<1> HIDE DEF ix
<1> QED
  BY <1>3, <1>4, <1>6, <1>7, <1>8, SendStep

\* The rest of a table call: the caller alone.
LEMMA TableCallSteps ==
    ASSUME ClientInv, NEW c \in Caller,
           ReadStartSlot(c) \/ EndWarmUp(c) \/ PollTable(c) \/ GiveUp(c)
    PROVE  ClientInv'
<1> DEFINE call == calls[c]
<1>1. call \in Call /\ CallOk(call)
  BY DEF ClientInv, CallsInv
<1>2. CASE GiveUp(c)
  <2>1. Throws(c) /\ calls[c].pc # "sent"
    BY <1>2 DEF GiveUp, DeadlinePasses
  <2> QED
    BY <1>2, <2>1, ThrowStep DEF GiveUp
<1>3. ASSUME NEW pc \in {"warming", "polling", "returned"}, Becomes(c, [call EXCEPT !.pc = pc]),
             \/ call.pc = "confirmed" /\ pc = "warming"
             \/ call.pc = "warming" /\ pc = "polling" /\ call.waited > 1
             \/ call.pc = "polling" /\ pc = "returned",
             UNCHANGED <<multisig, proposals, accepted, tables, network>>
      PROVE  ClientInv'
  <2> DEFINE new == [call EXCEPT !.pc = pc]
  <2>1. call \in TableCall
    BY <1>1, <1>3 DEF Call, RestCall, SendCall, InitializeCall, CreateCall
  <2>2. calls[c].pc # "sent" /\ Becomes(c, new)
    BY <1>3
  <2> HIDE DEF call
  <2>3. /\ new \in TableCall /\ new.method = "createTable" /\ call.method = "createTable"
        /\ new.pc = pc /\ new.members = call.members /\ new.table = call.table
        /\ new.waited = call.waited /\ call.waited \in Nat
    BY <2>1 DEF TableCall
  <2> HIDE DEF new
  <2>4. new \in Call
    BY <2>3 DEF Call
  <2>5. CallOk(new)
    BY <1>1, <1>3, <2>3 DEF CallOk
  <2> QED
    BY <1>3, <2>2, <2>4, <2>5, LocalStep
<1>4. CASE ReadStartSlot(c)
  BY <1>3, <1>4 DEF ReadStartSlot
<1>5. CASE EndWarmUp(c)
  BY <1>3, <1>5 DEF EndWarmUp, WarmedUp
<1>6. CASE PollTable(c)
  BY <1>3, <1>6 DEF PollTable
<1> QED
  BY <1>2, <1>4, <1>5, <1>6

\* An answer that never comes ends the call and keeps the invariant.
LEMMA NoAnswerStep ==
    ASSUME ClientInv, NEW c \in Caller, NoAnswer(c)
    PROVE  ClientInv'
<1> DEFINE call == [method |-> "none", pc |-> "threw"]
<1>1. call \in Call /\ CallOk(call)
  BY RestIsCall
<1>2. Becomes(c, call) /\ UNCHANGED <<multisig, proposals, accepted, tables>>
  BY DEF NoAnswer, Throws
<1> HIDE DEF call
<1>3. NetworkInv'
  BY <1>2, NetworkForgets DEF ClientInv, NoAnswer
<1>4. CallsInv'
  BY <1>1, <1>2, CallChanges DEF ClientInv
<1> QED
  BY <1>2, <1>3, <1>4 DEF ClientInv, LedgerInv, TablesInv

-----------------------------------------------------------------------------
(***************************************************************************)
(* Tables and slots.                                                       *)
(***************************************************************************)

\* What the callers rely on stays: accepted creations, and the addresses of a
\* table and those that can be used.
Growth ==
    /\ \A n \in DOMAIN accepted : n \in DOMAIN accepted' /\ accepted'[n] = accepted[n]
    /\ \A t \in TableAddress :
          /\ ToSet(tables[t].addresses) \subseteq ToSet(tables'[t].addresses)
          /\ Usable(tables[t]) \subseteq Usable(tables'[t])

\* What a call knows stays true while tables and creations only grow.
LEMMA CallStays ==
    ASSUME NEW c \in Caller, calls[c] \in Call, CallOk(calls[c]), calls'[c] = calls[c], Growth
    PROVE  CallOk(calls[c])'
<1> DEFINE call == calls[c]
<1>1. call.method = "createTable" => call.table \in TableAddress
  BY KindOfCall DEF TableCall
<1>2. call.method = "createTable" =>
         /\ ToSet(tables[call.table].addresses) \subseteq ToSet(tables'[call.table].addresses)
         /\ Usable(tables[call.table]) \subseteq Usable(tables'[call.table])
  BY <1>1 DEF Growth
<1>3. \A n \in DOMAIN accepted : n \in DOMAIN accepted' /\ accepted'[n] = accepted[n]
  BY DEF Growth
<1>4. CallOk(call)
  OBVIOUS
<1> QED
  BY <1>2, <1>3, <1>4 DEF CallOk

\* What can be used of a table is in it.
LEMMA UsableIsIn ==
    ASSUME NEW table \in LookupTable
    PROVE  Usable(table) \subseteq ToSet(table.addresses)
<1>1. table.addresses \in Seq(Address) /\ table.start \in 0..Len(table.addresses)
  BY DEF LookupTable
<1>2. ToSet(SubSeq(table.addresses, 1, table.start)) \subseteq ToSet(table.addresses)
  <2> DEFINE s == table.addresses
             u == SubSeq(s, 1, table.start)
  <2>1. Len(s) \in Nat /\ DOMAIN s = 1..Len(s)
    BY <1>1
  <2>2. DOMAIN u = 1..table.start /\ \A i \in 1..table.start : u[i] = s[i] /\ i \in DOMAIN s
    BY <1>1, <2>1
  <2> HIDE DEF u, s
  <2>3. ToSet(u) \subseteq ToSet(s)
    BY <2>2 DEF ToSet
  <2> QED
    BY <2>3 DEF u, s
<1> QED
  BY <1>2 DEF Usable

\* After a slot all of a table can be used.
Settled(table) == [table EXCEPT !.fresh = FALSE, !.start = Len(table.addresses)]
Waits(call) ==
    IF call.pc = "warming" /\ ~WarmedUp(call) THEN [call EXCEPT !.waited = @ + 1] ELSE call

\* At the end of a slot the addresses of a table can be used.
LEMMA SlotEnds ==
    ASSUME NEW table \in LookupTable
    PROVE  /\ Settled(table) \in LookupTable /\ Settled(table).addresses = table.addresses
           /\ Usable(Settled(table)) = ToSet(table.addresses)
<1> DEFINE new == [table EXCEPT !.fresh = FALSE, !.start = Len(table.addresses)]
<1>1. table.addresses \in Seq(Address) /\ Len(table.addresses) \in Nat
  BY DEF LookupTable
<1>2. /\ new \in [addresses : Seq(Address), start : Nat, fresh : BOOLEAN, seen : Nat]
      /\ new.addresses = table.addresses /\ new.fresh = FALSE /\ new.start = Len(table.addresses)
  BY <1>1 DEF LookupTable
<1> HIDE DEF new
<1>3. new \in LookupTable
  BY <1>1, <1>2 DEF LookupTable
<1>4. Usable(new) = ToSet(table.addresses)
  BY <1>2 DEF Usable
<1> QED
  BY <1>2, <1>3, <1>4 DEF new, Settled

\* What a new slot changes.
LEMMA SlotMeans ==
    ASSUME NewSlot
    PROVE  /\ tables' = [t \in TableAddress |-> Settled(tables[t])]
           /\ calls' = [c \in Caller |-> Waits(calls[c])]
           /\ multisig' = multisig /\ proposals' = proposals
           /\ accepted' = accepted /\ network' = network
  BY Zenon DEF NewSlot, Settled, Waits

\* A new slot keeps the invariant.
LEMMA NewSlotStep ==
    ASSUME ClientInv, NewSlot
    PROVE  ClientInv'
<1>1. /\ calls \in [Caller -> Call] /\ tables \in [TableAddress -> LookupTable]
      /\ \A c \in Caller : calls[c] \in Call /\ CallOk(calls[c])
  BY DEF ClientInv, CallsInv, TablesInv
<1>2. ASSUME NEW t \in TableAddress
      PROVE  /\ tables'[t] \in LookupTable /\ tables'[t].addresses = tables[t].addresses
             /\ Usable(tables'[t]) = ToSet(tables[t].addresses)
  <2>1. tables'[t] = Settled(tables[t])
    BY SlotMeans
  <2>2. tables[t] \in LookupTable
    BY <1>1
  <2> QED
    BY <2>1, <2>2, SlotEnds
<1>3. TablesInv'
  <2>1. DOMAIN tables' = TableAddress /\ tables' = [t \in TableAddress |-> tables'[t]]
    BY SlotMeans
  <2> QED
    BY <1>2, <2>1 DEF TablesInv
<1>4. Growth
  <2>1. \A t \in TableAddress : Usable(tables[t]) \subseteq ToSet(tables[t].addresses)
    BY <1>1, UsableIsIn
  <2>2. accepted' = accepted
    BY SlotMeans
  <2> QED
    BY <1>2, <2>1, <2>2 DEF Growth
<1>5. ASSUME NEW c \in Caller
      PROVE  /\ calls'[c] \in Call /\ CallOk(calls[c])'
             /\ calls[c].pc = "sent" => calls'[c] = calls[c]
  <2> DEFINE call == calls[c]
             new == [call EXCEPT !.waited = @ + 1]
  <2>1. calls'[c] = IF call.pc = "warming" /\ ~WarmedUp(call) THEN new ELSE call
    BY SlotMeans DEF Waits
  <2>2. CASE call.pc = "warming" /\ ~WarmedUp(call)
    <3>1. call \in TableCall
      BY <1>1, <2>2 DEF Call, RestCall, SendCall, InitializeCall, CreateCall
    <3>2. /\ new \in TableCall /\ new.method = "createTable" /\ new.pc = "warming"
          /\ new.members = call.members /\ new.table = call.table /\ new.waited >= 1
          /\ call.method = "createTable" /\ call.table \in TableAddress
      BY <2>2, <3>1 DEF TableCall
    <3>3. calls'[c] = new
      BY <2>1, <2>2
    <3>4. ToSet(TableContents(call.members)) \subseteq ToSet(tables[call.table].addresses)
      BY <1>1, <2>2, <3>2 DEF CallOk
    <3> HIDE DEF new, call
    <3>5. ToSet(TableContents(new.members)) \subseteq Usable(tables'[new.table])
      BY <1>2, <3>2, <3>4
    <3>6. ToSet(TableContents(new.members)) \subseteq ToSet(tables'[new.table].addresses)
      BY <1>2, <3>2, <3>4
    <3>7. CallOk(calls[c])'
      BY <3>2, <3>3, <3>5, <3>6 DEF CallOk
    <3> QED
      BY <2>2, <3>2, <3>3, <3>7 DEF Call, call
  <2>3. CASE ~(call.pc = "warming" /\ ~WarmedUp(call))
    <3>1. calls'[c] = call
      BY <2>1, <2>3
    <3> QED
      BY <1>1, <1>4, <3>1, CallStays
  <2> QED
    BY <2>2, <2>3
<1>6. CallsInv'
  <2>1. calls' \in [Caller -> Call]
    <3>1. DOMAIN calls' = Caller /\ calls' = [c \in Caller |-> calls'[c]]
      BY SlotMeans
    <3> QED
      BY <1>5, <3>1
  <2> QED
    BY <1>5, <2>1 DEF CallsInv
<1>7. NetworkInv'
  <2>1. network' = network
    BY SlotMeans
  <2>2. \A tx \in network : tx.waiting # None => tx.waiting \in Caller /\ calls[tx.waiting].pc = "sent"
    BY DEF ClientInv, NetworkInv, Sends
  <2>3. \A tx \in network : tx.waiting # None => calls'[tx.waiting] = calls[tx.waiting]
    BY <1>5, <2>2
  <2>4. \A tx \in network :
           /\ tx \in [ix : {tx.ix}, lookups : {tx.lookups}, waiting : Caller \cup {None},
                      request : {tx.request}]
           /\ \E x \in Call : Sends(x, tx.ix, tx.request)
           /\ tx.waiting # None => Sends(calls'[tx.waiting], tx.ix, tx.request)
    BY <2>3 DEF ClientInv, NetworkInv
  <2> QED
    BY <2>1, <2>4 DEF ClientInv, NetworkInv
<1>8. LedgerInv'
  BY SlotMeans DEF ClientInv, LedgerInv
<1> QED
  BY <1>3, <1>6, <1>7, <1>8 DEF ClientInv

\* A node sees more of a table.
LEMMA NodeSeesStep ==
    ASSUME ClientInv, NEW t \in TableAddress, NodeSees(t)
    PROVE  ClientInv'
<1> DEFINE new == [tables[t] EXCEPT !.seen = Len(tables[t].addresses)]
<1>1. tables \in [TableAddress -> LookupTable] /\ tables[t] \in LookupTable
  BY DEF ClientInv, TablesInv
<1>2. /\ new \in LookupTable /\ new.addresses = tables[t].addresses
      /\ new.start = tables[t].start /\ new.fresh = tables[t].fresh
  <2> DEFINE old == tables[t]
             seen == Len(old.addresses)
             later == [old EXCEPT !.seen = seen]
  <2>1. old \in LookupTable /\ seen \in Nat
    BY <1>1 DEF LookupTable
  <2> HIDE DEF old, seen
  <2>2. /\ later \in LookupTable /\ later.addresses = old.addresses
        /\ later.start = old.start /\ later.fresh = old.fresh
    BY <2>1 DEF LookupTable
  <2> QED
    BY <2>2 DEF old, seen
<1>3. tables' = [tables EXCEPT ![t] = new]
  BY DEF NodeSees
<1> HIDE DEF new
<1>4. Usable(new) = Usable(tables[t])
  BY <1>2 DEF Usable
<1>5. TablesInv'
  BY <1>1, <1>2, <1>3 DEF TablesInv
<1>6. UNCHANGED <<multisig, proposals, accepted, network, calls>>
  BY DEF NodeSees
<1>7. Growth
  <2>1. \A u \in TableAddress :
           /\ tables'[u].addresses = tables[u].addresses
           /\ Usable(tables'[u]) = Usable(tables[u])
    BY <1>1, <1>2, <1>3, <1>4
  <2> QED
    BY <1>6, <2>1 DEF Growth
<1>8. CallsInv'
  <2>1. \A c \in Caller : calls'[c] = calls[c] /\ calls[c] \in Call /\ CallOk(calls[c])
    BY <1>6 DEF ClientInv, CallsInv
  <2>2. \A c \in Caller : CallOk(calls[c])'
    BY <1>7, <2>1, CallStays
  <2> QED
    BY <1>6, <2>2 DEF ClientInv, CallsInv
<1> QED
  BY <1>5, <1>6, <1>8 DEF ClientInv, NetworkInv, LedgerInv

-----------------------------------------------------------------------------
(***************************************************************************)
(* The ledger: what accepted transactions change.                          *)
(***************************************************************************)

\* The accounts of the instructions that the client builds.
LEMMA CreateAccounts ==
    ASSUME NEW index \in Int, NEW message, NEW creator, NEW ix,
           ix = buildCreateTransactionInstruction(Multisig, index, 0, message, creator, creator)
    PROVE  /\ Account(ix, 1) = Multisig
           /\ Account(ix, 2) = transaction_pda(Multisig, index + 1)
           /\ Account(ix, 3) = creator /\ Account(ix, 4) = creator
           /\ ix.data.op = "create_transaction" /\ ix.data.vault_index = 0
           /\ ix.data.message = message
  BY DEF Account, buildCreateTransactionInstruction, predictNextTransactionPda, Instruction,
         Writable, Signer, WritableSigner, Readonly, Meta

\* An accepted creation takes the next index, and nothing else moves.
LEMMA CreatedStep ==
    ASSUME ClientInv, NEW index \in Int, NEW message \in TransactionMessage, NEW creator \in Creators,
           NEW request \in Requests \cup {None}, request # None => message = MessageFor[request],
           NEW ix, ix = buildCreateTransactionInstruction(Multisig, index, 0, message, creator, creator),
           AcceptsCreate(ix), Created(ix, request)
    PROVE  /\ LedgerInv'
           /\ \A n \in DOMAIN accepted : n \in DOMAIN accepted' /\ accepted'[n] = accepted[n]
           /\ index + 1 \in DOMAIN accepted'
           /\ accepted'[index + 1] = [request |-> request, message |-> message, creator |-> creator]
<1> DEFINE next == Len(accepted) + 1
           entry == [request |-> request, message |-> message, creator |-> creator]
           proposal == [multisig |-> Multisig, transactionIndex |-> next, creator |-> creator,
                        executed |-> FALSE, approvals |-> <<>>, message |-> message,
                        payer |-> creator]
<1>1. /\ Account(ix, 1) = Multisig
      /\ Account(ix, 2) = transaction_pda(Multisig, index + 1)
      /\ Account(ix, 3) = creator /\ Account(ix, 4) = creator
      /\ ix.data.vault_index = 0 /\ ix.data.message = message
  BY CreateAccounts
<1>2. /\ multisig \in MultisigConfig \cup {None} /\ multisig # None
      /\ multisig.transactionIndex = Len(accepted) /\ multisig.transactionIndex < MaxIndex
      /\ accepted \in Seq(Acceptance) /\ Len(accepted) \in Nat
      /\ proposals \in [1..MaxIndex -> VaultTransactionData \cup {None}]
  BY DEF ClientInv, LedgerInv, AcceptsCreate
<1>3. index = Len(accepted)
  <2>1. transaction_pda(Multisig, index + 1) = transaction_pda(Multisig, Len(accepted) + 1)
    BY <1>1, <1>2 DEF AcceptsCreate
  <2>2. <<"transaction", Multisig, index + 1>>[3] = <<"transaction", Multisig, Len(accepted) + 1>>[3]
    BY <2>1 DEF transaction_pda
  <2>3. index + 1 = Len(accepted) + 1
    BY <2>2
  <2> QED
    BY <1>2, <2>3
<1>4. ValidMessage(message, Vault)
  BY <1>1 DEF AcceptsCreate, Vault
<1>5. /\ multisig' = [multisig EXCEPT !.transactionIndex = next]
      /\ proposals' = [proposals EXCEPT ![next] = proposal]
      /\ accepted' = Append(accepted, entry)
  BY <1>1, <1>2 DEF Created
<1>6. /\ creator \in Address /\ Multisig \in Address /\ MaxIndex \in Nat
      /\ None \notin MultisigConfig
  BY ClientAssumption
<1>7. next \in 1..MaxIndex
  BY <1>2, <1>6
<1>8. proposal \in VaultTransactionData
  <2>1. <<>> \in Seq(Address)
    OBVIOUS
  <2> QED
    BY <1>6, <1>7, <2>1 DEF VaultTransactionData
<1>9. /\ proposal.transactionIndex = next /\ proposal.message = message
      /\ proposal.approvals = <<>>
  OBVIOUS
<1>10. entry \in Acceptance /\ entry.message = message /\ entry.request = request
  BY <1>6 DEF Acceptance
<1> HIDE DEF proposal, entry
<1>11. /\ accepted' \in Seq(Acceptance) /\ Len(accepted') = next /\ DOMAIN accepted' = 1..next
       /\ DOMAIN accepted = 1..Len(accepted)
       /\ accepted'[next] = entry /\ \A n \in 1..Len(accepted) : accepted'[n] = accepted[n]
  BY <1>2, <1>5, <1>10
<1>12. /\ multisig' \in MultisigConfig /\ multisig'.transactionIndex = next
       /\ multisig'.members = multisig.members
  <2>1. multisig \in MultisigConfig /\ next \in 0..MaxIndex
    BY <1>2, <1>7
  <2> HIDE DEF next
  <2> QED
    BY <1>5, <2>1 DEF MultisigConfig
<1>13. ASSUME NEW i \in 1..MaxIndex, proposals'[i] # None
       PROVE  /\ proposals'[i] \in VaultTransactionData
              /\ proposals'[i].transactionIndex = i /\ i <= Len(accepted')
              /\ proposals'[i].message = accepted'[i].message
              /\ IsInjective(proposals'[i].approvals)
              /\ ToSet(proposals'[i].approvals) \subseteq ToSet(multisig'.members)
  <2>1. CASE i = next
    <3>1. proposals'[i] = proposal
      BY <1>2, <1>5, <1>7, <2>1
    <3>2. IsInjective(<<>>) /\ ToSet(<<>>) = {}
      BY DEF IsInjective, ToSet
    <3> QED
      BY <1>8, <1>9, <1>10, <1>11, <2>1, <3>1, <3>2
  <2>2. CASE i # next
    <3>1. proposals'[i] = proposals[i]
      BY <1>2, <1>5, <1>7, <2>2
    <3>2. /\ proposals[i] \in VaultTransactionData
          /\ proposals[i].transactionIndex = i /\ i <= Len(accepted)
          /\ proposals[i].message = accepted[i].message
          /\ IsInjective(proposals[i].approvals)
          /\ ToSet(proposals[i].approvals) \subseteq ToSet(multisig.members)
      BY <1>13, <3>1 DEF ClientInv, LedgerInv
    <3>3. accepted'[i] = accepted[i] /\ i <= Len(accepted')
      BY <1>2, <1>11, <3>2
    <3> QED
      BY <1>12, <3>1, <3>2, <3>3
  <2> QED
    BY <2>1, <2>2
<1>14. ASSUME NEW n \in DOMAIN accepted', accepted'[n].request # None
       PROVE  /\ accepted'[n].message = MessageFor[accepted'[n].request]
              /\ ValidMessage(accepted'[n].message, Vault)
  <2>1. CASE n = next
    BY <1>4, <1>10, <1>11, <1>14, <2>1
  <2>2. CASE n \in 1..Len(accepted)
    <3>1. accepted'[n] = accepted[n] /\ n \in DOMAIN accepted
      BY <1>11, <2>2
    <3> QED
      BY <1>14, <3>1 DEF ClientInv, LedgerInv
  <2> QED
    BY <1>2, <1>11, <2>1, <2>2
<1>15. proposals' \in [1..MaxIndex -> VaultTransactionData \cup {None}]
  BY <1>2, <1>5, <1>8
<1>16. LedgerInv'
  BY <1>6, <1>11, <1>12, <1>13, <1>14, <1>15 DEF LedgerInv
<1> QED
  BY <1>3, <1>11, <1>16 DEF entry

\* A proposal that is approved or executed keeps its message and its distinct
\* approvers, and a closed one is gone.
LEMMA ProposalChanges ==
    ASSUME LedgerInv, UNCHANGED <<multisig, accepted>>, NEW index \in 1..MaxIndex, NEW proposal,
           proposals' = [proposals EXCEPT ![index] = proposal],
           \/ proposal = None
           \/ /\ proposal \in VaultTransactionData /\ proposals[index] # None
              /\ proposal.transactionIndex = proposals[index].transactionIndex
              /\ proposal.message = proposals[index].message
              /\ IsInjective(proposal.approvals)
              /\ ToSet(proposal.approvals) \subseteq ToSet(multisig.members)
    PROVE  LedgerInv'
<1>1. proposals' \in [1..MaxIndex -> VaultTransactionData \cup {None}]
  BY DEF LedgerInv
<1>2. ASSUME NEW i \in 1..MaxIndex, proposals'[i] # None
      PROVE  /\ proposals'[i] \in VaultTransactionData
             /\ proposals'[i].transactionIndex = i /\ i <= Len(accepted)
             /\ proposals'[i].message = accepted[i].message
             /\ IsInjective(proposals'[i].approvals)
             /\ ToSet(proposals'[i].approvals) \subseteq ToSet(multisig.members)
  <2>1. CASE i = index
    <3>1. proposals'[i] = proposal
      BY <2>1 DEF LedgerInv
    <3> QED
      BY <1>2, <2>1, <3>1 DEF LedgerInv
  <2>2. CASE i # index
    <3>1. proposals'[i] = proposals[i]
      BY <2>2 DEF LedgerInv
    <3> QED
      BY <1>2, <3>1 DEF LedgerInv
  <2> QED
    BY <2>1, <2>2
<1> QED
  BY <1>1, <1>2 DEF LedgerInv

\* An approval that lands keeps the ledger sound.
LEMMA ApprovedStep ==
    ASSUME LedgerInv, NEW index, NEW member, NEW ix,
           ix = buildApproveTransactionInstruction(Multisig, index, member),
           AcceptsApproval(ix), UNCHANGED <<multisig, accepted>>,
           proposals' = [proposals EXCEPT ![ix.data.transaction_index].approvals =
                                             Append(@, Account(ix, 3))]
    PROVE  LedgerInv'
<1>1. Account(ix, 3) = member /\ ix.data.transaction_index = index
  BY DEF Account, buildApproveTransactionInstruction, Instruction, Writable, Signer, Readonly, Meta
<1>2. index \in 1..MaxIndex /\ ProposalOf(ix) = proposals[index] /\ proposals[index] # None
  BY <1>1 DEF AcceptsApproval, ProposalOf
<1>3. member \in ToSet(multisig.members) /\ member \notin ToSet(proposals[index].approvals)
  BY <1>1, <1>2 DEF AcceptsApproval
<1>4. /\ proposals[index] \in VaultTransactionData
      /\ IsInjective(proposals[index].approvals)
      /\ ToSet(proposals[index].approvals) \subseteq ToSet(multisig.members)
      /\ multisig.members \in Seq(Address)
  <2>1. multisig \in MultisigConfig
    BY DEF AcceptsApproval, LedgerInv
  <2> QED
    BY <1>2, <2>1 DEF LedgerInv, MultisigConfig
<1> DEFINE old == proposals[index]
           list == Append(old.approvals, member)
           new == [old EXCEPT !.approvals = list]
<1>5. old.approvals \in Seq(Address) /\ member \in Address
  <2>1. member \in Address
    BY <1>3, <1>4 DEF ToSet
  <2> QED
    BY <1>4, <2>1 DEF VaultTransactionData
<1>6. proposals' = [proposals EXCEPT ![index] = new]
  BY <1>1
<1> HIDE DEF old
<1>7. list \in Seq(Address) /\ ToSet(list) = ToSet(old.approvals) \cup {member}
  BY <1>5, AppendedElements
<1>8. IsInjective(list)
  <2>1. /\ Len(old.approvals) \in Nat /\ DOMAIN list = 1..(Len(old.approvals) + 1)
        /\ DOMAIN old.approvals = 1..Len(old.approvals)
        /\ list[Len(old.approvals) + 1] = member
        /\ \A i \in 1..Len(old.approvals) :
              list[i] = old.approvals[i] /\ list[i] # member
    BY <1>3, <1>5 DEF ToSet, old
  <2>2. \A i, j \in 1..Len(old.approvals) : old.approvals[i] = old.approvals[j] => i = j
    BY <1>4, <2>1 DEF IsInjective, old
  <2> HIDE DEF list
  <2>3. \A i, j \in DOMAIN list : list[i] = list[j] => i = j
    BY <2>1, <2>2
  <2> QED
    BY <2>3 DEF IsInjective
<1> HIDE DEF list
<1>9. /\ new \in VaultTransactionData /\ new.transactionIndex = old.transactionIndex
      /\ new.message = old.message /\ new.approvals = list
  BY <1>4, <1>7 DEF VaultTransactionData, old
<1> HIDE DEF new
<1>10. ToSet(new.approvals) \subseteq ToSet(multisig.members)
  BY <1>3, <1>4, <1>7, <1>9 DEF old
<1> QED
  BY <1>2, <1>6, <1>8, <1>9, <1>10, ProposalChanges DEF old

\* An execution that lands keeps the ledger sound.
LEMMA ExecutedStep ==
    ASSUME LedgerInv, NEW index, NEW executor, NEW metas, NEW ix,
           ix = buildExecuteTransactionInstruction(Multisig, index, executor, metas),
           AcceptsExecution(ix), UNCHANGED <<multisig, accepted>>,
           proposals' = [proposals EXCEPT ![ix.data.transaction_index].executed = TRUE]
    PROVE  LedgerInv'
<1>1. ix.data.transaction_index = index
  BY DEF buildExecuteTransactionInstruction, Instruction
<1>2. index \in 1..MaxIndex /\ proposals[index] # None
  BY <1>1 DEF AcceptsExecution, ProposalOf
<1> DEFINE old == proposals[index]
           new == [old EXCEPT !.executed = TRUE]
<1>3. /\ old \in VaultTransactionData /\ IsInjective(old.approvals)
      /\ ToSet(old.approvals) \subseteq ToSet(multisig.members)
  BY <1>2 DEF LedgerInv
<1>4. proposals' = [proposals EXCEPT ![index] = new]
  BY <1>1
<1> HIDE DEF old
<1>5. /\ new \in VaultTransactionData /\ new.transactionIndex = old.transactionIndex
      /\ new.message = old.message /\ new.approvals = old.approvals
  BY <1>3 DEF VaultTransactionData
<1> HIDE DEF new
<1> QED
  BY <1>2, <1>3, <1>4, <1>5, ProposalChanges DEF old

\* initialize gives the multisig the callers' list in byte order.
LEMMA InitializedStep ==
    ASSUME LedgerInv, NEW members \in MemberLists, NEW ix,
           ix = buildInitializeMultisigInstruction(members, Threshold, Payer),
           multisig = None, UNCHANGED <<proposals, accepted>>,
           multisig' = [members |-> SubSeq(Pubkeys(ix.keys), 4, Len(ix.keys)),
                        threshold |-> ix.data.threshold, transactionIndex |-> 0]
    PROVE  LedgerInv'
<1> DEFINE s == sortMembers(members)
           head == <<Writable(deriveMultisigAddress(s, Threshold)), WritableSigner(Payer),
                     Readonly(SYSTEM_PROGRAM)>>
           tail == [i \in DOMAIN s |-> Readonly(s[i])]
           list == SubSeq(Pubkeys(ix.keys), 4, Len(ix.keys))
<1>1. s \in Seq(Address) /\ Len(s) \in Nat /\ DOMAIN s = 1..Len(s)
  BY ClientAssumption, SortMembersType
<1>2. ix.keys = head \o tail /\ ix.data.threshold = Threshold
  BY Zenon DEF buildInitializeMultisigInstruction, Instruction
<1> HIDE DEF s
<1>3. list \in Seq(Address)
  <2> DEFINE V == {head[1], head[2], head[3]} \cup { Readonly(s[i]) : i \in 1..Len(s) }
  <2>1. tail \in Seq(V) /\ Len(tail) = Len(s) /\ \A i \in 1..Len(s) : tail[i] = Readonly(s[i])
    <3>1. tail \in [1..Len(s) -> V]
      BY <1>1
    <3> HIDE DEF V
    <3> QED
      BY <1>1, <3>1
  <2>2. head \in Seq(V) /\ Len(head) = 3
    <3>1. \A x, y, z : <<x, y, z>> \in Seq({x, y, z}) /\ Len(<<x, y, z>>) = 3
      OBVIOUS
    <3>2. head \in Seq({head[1], head[2], head[3]}) /\ Len(head) = 3
      BY <3>1
    <3> HIDE DEF head
    <3> QED
      BY <3>2
  <2> HIDE DEF head, tail, V
  <2>3. /\ Len(head \o tail) = 3 + Len(s) /\ DOMAIN (head \o tail) = 1..(3 + Len(s))
        /\ \A i \in 1..Len(s) : (head \o tail)[i + 3] = tail[i]
    <3>1. Len(head \o tail) = 3 + Len(s) /\ head \o tail \in Seq(V)
      <4>1. head \o tail \in Seq(V)
        BY <2>1, <2>2, JoinedElements
      <4>2. Len(head \o tail) = Len(head) + Len(tail)
        BY <2>1, <2>2, JoinedPlaces
      <4> QED
        BY <2>1, <2>2, <4>1, <4>2
    <3>2. ASSUME NEW i \in 1..Len(s)
          PROVE  (head \o tail)[i + 3] = tail[i]
      <4>1. i + 3 \in (Len(head) + 1)..(Len(head) + Len(tail)) /\ (i + 3) - Len(head) = i
        BY <1>1, <2>1, <2>2
      <4>2. (head \o tail)[i + 3] = tail[(i + 3) - Len(head)]
        BY <2>1, <2>2, <4>1, JoinedPlaces
      <4> QED
        BY <4>1, <4>2
    <3> QED
      BY <1>1, <3>1, <3>2
  <2>4. Pubkeys(ix.keys) = [i \in 1..(3 + Len(s)) |-> ix.keys[i].pubkey] /\ Len(ix.keys) = 3 + Len(s)
    BY <1>2, <2>3 DEF Pubkeys
  <2>5. list = [i \in 1..Len(s) |-> Pubkeys(ix.keys)[i + 3]]
    BY <1>1, <2>4
  <2>6. ASSUME NEW i \in 1..Len(s)
        PROVE  Pubkeys(ix.keys)[i + 3] = s[i]
    <3>1. ix.keys[i + 3] = Readonly(s[i]) /\ i + 3 \in 1..(3 + Len(s))
      BY <1>1, <1>2, <2>1, <2>3
    <3>2. Readonly(s[i]).pubkey = s[i]
      BY DEF Readonly, Meta
    <3> QED
      BY <2>4, <3>1, <3>2
  <2> QED
    BY <1>1, <2>5, <2>6
<1> HIDE DEF list
<1>4. Threshold \in Nat /\ MaxIndex \in Nat /\ None \notin MultisigConfig
  BY ClientAssumption
<1>5. multisig' = [members |-> list, threshold |-> Threshold, transactionIndex |-> 0]
  BY <1>2 DEF list
<1>6. multisig' \in MultisigConfig /\ multisig'.transactionIndex = 0
  BY <1>3, <1>4, <1>5 DEF MultisigConfig
<1>7. accepted = <<>> /\ Len(accepted) = 0
  BY DEF LedgerInv
<1>8. \A i \in 1..MaxIndex : proposals[i] = None
  BY <1>7 DEF LedgerInv
<1> QED
  BY <1>4, <1>6, <1>7, <1>8 DEF LedgerInv

\* Extending a table adds to it, and what could be used still can, no more.
LEMMA ExtendedTable ==
    ASSUME NEW table \in LookupTable, NEW addresses \in Seq(Address)
    PROVE  /\ Extended(table, addresses) \in LookupTable
           /\ ToSet(Extended(table, addresses).addresses) = ToSet(table.addresses) \cup ToSet(addresses)
           /\ Usable(Extended(table, addresses)) = Usable(table)
<1> DEFINE old == table.addresses
           start == IF table.fresh THEN table.start ELSE Len(old)
           new == Extended(table, addresses)
<1>1. /\ table \in [addresses : Seq(Address), start : Nat, fresh : BOOLEAN, seen : Nat]
      /\ old \in Seq(Address) /\ Len(old) \in Nat /\ start \in 0..Len(old)
  BY DEF LookupTable
<1>2. /\ old \o addresses \in Seq(Address) /\ Len(old \o addresses) = Len(old) + Len(addresses)
      /\ ToSet(old \o addresses) = ToSet(old) \cup ToSet(addresses) /\ Len(addresses) \in Nat
  BY <1>1, JoinedElements, JoinedPlaces
<1>3. /\ new \in [addresses : Seq(Address), start : Nat, fresh : BOOLEAN, seen : Nat]
      /\ new.addresses = old \o addresses /\ new.start = start /\ new.fresh = TRUE
  <2> DEFINE joined == old \o addresses
             R == [addresses : Seq(Address), start : Nat, fresh : BOOLEAN, seen : Nat]
  <2>1. new = [table EXCEPT !.addresses = joined, !.start = start, !.fresh = TRUE]
    BY DEF Extended
  <2>2. table \in R /\ joined \in Seq(Address) /\ start \in Nat
    BY <1>1, <1>2
  <2> HIDE DEF joined, start, new
  <2>3. /\ new \in R /\ new.addresses = joined /\ new.start = start /\ new.fresh = TRUE
    BY <2>1, <2>2
  <2> QED
    BY <2>3 DEF joined
<1> HIDE DEF new
<1>4. new \in LookupTable
  BY <1>1, <1>2, <1>3 DEF LookupTable
<1>5. Usable(new) = ToSet(SubSeq(old \o addresses, 1, start))
  BY <1>3 DEF Usable
<1>6. SubSeq(old \o addresses, 1, start) = SubSeq(old, 1, start)
  <2> HIDE DEF old, start
  <2>1. \A i \in 1..start : (old \o addresses)[i] = old[i]
    BY <1>1, JoinedPlaces
  <2> QED
    BY <1>1, <1>2, <2>1
<1>7. Usable(table) = ToSet(SubSeq(old, 1, start))
  <2>1. CASE table.fresh
    BY <2>1 DEF Usable
  <2>2. CASE ~table.fresh
    <3>1. SubSeq(old, 1, Len(old)) = old
      <4> HIDE DEF old
      <4> QED
        BY <1>1
    <3> QED
      BY <2>2, <3>1 DEF Usable
  <2> QED
    BY <2>1, <2>2
<1>8. ToSet(new.addresses) = ToSet(old) \cup ToSet(addresses)
  BY <1>2, <1>3
<1> HIDE DEF old, start
<1>9. Usable(new) = Usable(table)
  BY <1>5, <1>6, <1>7, Zenon
<1> QED
  BY <1>4, <1>8, <1>9 DEF new, old

\* A table transaction extends the table of its call by its addresses.
LEMMA TableAccounts ==
    ASSUME NEW call, NEW ix, ix = TableIx(call)
    PROVE  /\ Account(ix, 1) = call.table
           /\ ix.data.op = "extendLookupTable" /\ ix.data.addresses = TableContents(call.members)
  BY DEF TableIx, Account, Instruction, Writable, WritableSigner, Meta

\* The operation of a transaction tells which method sent it.
LEMMA OperationOf ==
    ASSUME NEW call \in Call, NEW ix, NEW request, Sends(call, ix, request)
    PROVE  \/ call.method = "createTransaction" /\ ix.data.op = "create_transaction"
           \/ call.method = "approveTransaction" /\ ix.data.op = "approve_transaction"
           \/ call.method = "executeTransaction" /\ ix.data.op = "execute_transaction"
           \/ call.method = "createTable" /\ ix.data.op = "extendLookupTable"
           \/ call.method = "initialize" /\ ix.data.op = "initialize_multisig"
<1>1. CASE call.method = "createTransaction" /\ ix = CreateIx(call)
  BY <1>1 DEF CreateIx, buildCreateTransactionInstruction, Instruction
<1>2. CASE /\ call.method = "approveTransaction"
           /\ \E index \in Indexes, member \in Creators :
                 ix = buildApproveTransactionInstruction(Multisig, index, member)
  BY <1>2 DEF buildApproveTransactionInstruction, Instruction
<1>3. CASE /\ call.method = "executeTransaction"
           /\ \E index \in Indexes, executor \in Creators :
                 ix = buildExecuteTransactionInstruction(Multisig, index, executor, ForeignAccounts)
  BY <1>3 DEF buildExecuteTransactionInstruction, Instruction
<1>4. CASE call.method = "createTable" /\ ix = TableIx(call)
  BY <1>4 DEF TableIx, Instruction
<1>5. CASE /\ call.method = "initialize"
           /\ ix = buildInitializeMultisigInstruction(call.members, call.threshold, Payer)
  BY <1>5 DEF buildInitializeMultisigInstruction, Instruction
<1> QED
  BY <1>1, <1>2, <1>3, <1>4, <1>5 DEF Sends

-----------------------------------------------------------------------------
(***************************************************************************)
(* Steps of the cluster.                                                   *)
(***************************************************************************)

\* What a call may rely on when its transaction has landed.
Served(call) ==
    /\ call.method = "createTransaction" =>
          /\ call.transactionIndex \in DOMAIN accepted
          /\ accepted[call.transactionIndex].message = call.message
          /\ accepted[call.transactionIndex].creator = call.creator
    /\ call.method = "createTable" =>
          ToSet(TableContents(call.members)) \subseteq ToSet(tables[call.table].addresses)

\* Where nothing changes, what was true stays.
LEMMA SameGrows ==
    ASSUME accepted' = accepted, tables' = tables
    PROVE  Growth
  BY DEF Growth

\* Whatever lands keeps the ledger sound and serves the call that sent it.
LEMMA EffectStep ==
    ASSUME ClientInv, NEW tx, NEW call \in Call, Sends(call, tx.ix, tx.request), Accepts(tx),
           TakesEffect(tx)
    PROVE  LedgerInv' /\ TablesInv' /\ Growth /\ Served(call)'
<1> DEFINE ix == tx.ix
           request == tx.request
<1>1. LedgerInv /\ TablesInv
  BY DEF ClientInv
<1>2. CASE call.method = "createTransaction" /\ ix.data.op = "create_transaction"
  <2>1. AcceptsCreate(ix) /\ Created(ix, request) /\ UNCHANGED tables
    BY <1>2 DEF Accepts, TakesEffect
  <2>2. call \in CreateCall
    BY <1>2, KindOfCall
  <2>3. /\ call.transactionIndex - 1 \in Int /\ call.message \in TransactionMessage
        /\ call.creator \in Creators /\ call.request \in Requests \cup {None}
        /\ call.request # None => call.message = MessageFor[call.request]
        /\ (call.transactionIndex - 1) + 1 = call.transactionIndex
    BY <2>2 DEF CreateCall
  <2>4. ix = CreateIx(call) /\ request = call.request
    BY <1>2 DEF Sends
  <2> HIDE DEF ix, request
  <2>5. /\ LedgerInv'
        /\ \A n \in DOMAIN accepted : n \in DOMAIN accepted' /\ accepted'[n] = accepted[n]
        /\ call.transactionIndex \in DOMAIN accepted'
        /\ accepted'[call.transactionIndex]
             = [request |-> call.request, message |-> call.message, creator |-> call.creator]
    <3>1. ix = buildCreateTransactionInstruction(Multisig, call.transactionIndex - 1, 0,
                                                 call.message, call.creator, call.creator)
      BY <2>4 DEF CreateIx
    <3>2. /\ LedgerInv'
          /\ \A n \in DOMAIN accepted : n \in DOMAIN accepted' /\ accepted'[n] = accepted[n]
          /\ (call.transactionIndex - 1) + 1 \in DOMAIN accepted'
          /\ accepted'[(call.transactionIndex - 1) + 1]
               = [request |-> call.request, message |-> call.message, creator |-> call.creator]
      BY <2>1, <2>3, <2>4, <3>1, CreatedStep
    <3> QED
      BY <2>3, <3>2
  <2>6. Growth
    BY <2>1, <2>5 DEF Growth
  <2>7. TablesInv'
    BY <1>1, <2>1 DEF TablesInv
  <2>8. Served(call)'
    BY <1>2, <2>5 DEF Served
  <2> QED
    BY <2>5, <2>6, <2>7, <2>8
<1>3. CASE call.method = "approveTransaction" /\ ix.data.op = "approve_transaction"
  <2>1. /\ AcceptsApproval(ix) /\ UNCHANGED <<multisig, accepted, tables>>
        /\ proposals' = [proposals EXCEPT ![ix.data.transaction_index].approvals =
                                             Append(@, Account(ix, 3))]
    BY <1>3 DEF Accepts, TakesEffect
  <2>2. PICK index \in Indexes, member \in Creators :
           ix = buildApproveTransactionInstruction(Multisig, index, member)
    BY <1>3 DEF Sends
  <2> HIDE DEF ix
  <2>3. LedgerInv'
    BY <1>1, <2>1, <2>2, ApprovedStep
  <2> QED
    BY <1>1, <1>3, <2>1, <2>3, SameGrows DEF TablesInv, Served
<1>4. CASE call.method = "executeTransaction" /\ ix.data.op = "execute_transaction"
  <2>1. /\ AcceptsExecution(ix) /\ UNCHANGED <<multisig, accepted, tables>>
        /\ proposals' = [proposals EXCEPT ![ix.data.transaction_index].executed = TRUE]
    BY <1>4 DEF Accepts, TakesEffect
  <2>2. PICK index \in Indexes, executor \in Creators :
           ix = buildExecuteTransactionInstruction(Multisig, index, executor, ForeignAccounts)
    BY <1>4 DEF Sends
  <2> HIDE DEF ix
  <2>3. LedgerInv'
    BY <1>1, <2>1, <2>2, ExecutedStep
  <2> QED
    BY <1>1, <1>4, <2>1, <2>3, SameGrows DEF TablesInv, Served
<1>5. CASE call.method = "initialize" /\ ix.data.op = "initialize_multisig"
  <2>1. /\ multisig = None /\ UNCHANGED <<proposals, accepted, tables>>
        /\ multisig' = [members |-> SubSeq(Pubkeys(ix.keys), 4, Len(ix.keys)),
                        threshold |-> ix.data.threshold, transactionIndex |-> 0]
    BY <1>5 DEF Accepts, TakesEffect, AcceptsInitialize
  <2>2. call.members \in MemberLists /\ call.threshold = Threshold
    BY <1>5, KindOfCall DEF InitializeCall
  <2>3. ix = buildInitializeMultisigInstruction(call.members, Threshold, Payer)
    BY <1>5, <2>2 DEF Sends
  <2> HIDE DEF ix
  <2>4. LedgerInv'
    BY <1>1, <2>1, <2>2, <2>3, InitializedStep
  <2> QED
    BY <1>1, <1>5, <2>1, <2>4, SameGrows DEF TablesInv, Served
<1>6. CASE call.method = "createTable" /\ ix.data.op = "extendLookupTable"
  <2>1. /\ UNCHANGED <<multisig, proposals, accepted>>
        /\ tables' = [tables EXCEPT ![Account(ix, 1)] = Extended(@, ix.data.addresses)]
    BY <1>6 DEF TakesEffect
  <2>2. ix = TableIx(call)
    BY <1>6 DEF Sends
  <2> HIDE DEF ix
  <2>3. Account(ix, 1) = call.table /\ ix.data.addresses = TableContents(call.members)
    BY <2>2, TableAccounts
  <2>4. /\ call.table \in TableAddress /\ call.members \in TableLists
        /\ TableContents(call.members) \in Seq(Address)
    BY <1>6, KindOfCall, ContentsType DEF TableCall
  <2> DEFINE new == Extended(tables[call.table], TableContents(call.members))
  <2>5. /\ tables \in [TableAddress -> LookupTable] /\ tables[call.table] \in LookupTable
        /\ tables' = [tables EXCEPT ![call.table] = new]
    BY <1>1, <2>1, <2>3, <2>4 DEF TablesInv
  <2>6. /\ new \in LookupTable /\ Usable(new) = Usable(tables[call.table])
        /\ ToSet(new.addresses)
             = ToSet(tables[call.table].addresses) \cup ToSet(TableContents(call.members))
    BY <2>4, <2>5, ExtendedTable
  <2> HIDE DEF new
  <2>7. TablesInv'
    BY <2>5, <2>6 DEF TablesInv
  <2>8. Growth
    <3>1. ASSUME NEW t \in TableAddress
          PROVE  /\ ToSet(tables[t].addresses) \subseteq ToSet(tables'[t].addresses)
                 /\ Usable(tables[t]) \subseteq Usable(tables'[t])
      <4>1. CASE t = call.table
        <5>1. tables'[t] = new
          BY <2>5, <4>1
        <5> QED
          BY <2>6, <4>1, <5>1
      <4>2. CASE t # call.table
        <5>1. tables'[t] = tables[t]
          BY <2>5, <4>2
        <5> QED
          BY <5>1
      <4> QED
        BY <4>1, <4>2
    <3> QED
      BY <2>1, <3>1 DEF Growth
  <2>9. Served(call)'
    <3>1. tables'[call.table] = new
      BY <2>4, <2>5
    <3> QED
      BY <1>6, <2>6, <3>1 DEF Served
  <2>10. LedgerInv'
    BY <1>1, <2>1 DEF LedgerInv
  <2> QED
    BY <2>7, <2>8, <2>9, <2>10
<1> QED
  BY <1>2, <1>3, <1>4, <1>5, <1>6, OperationOf

\* The caller that waited gets the answer, and the others are as before.
LEMMA AnswerStep ==
    ASSUME NetworkInv, CallsInv, NEW tx \in network, network' = network \ {tx}, Growth,
           NEW call, tx.waiting # None => call = calls[tx.waiting] /\ Served(call)',
           IF tx.waiting = None THEN UNCHANGED calls ELSE Answered(tx.waiting, call.method)
    PROVE  NetworkInv' /\ CallsInv'
<1>1. /\ calls \in [Caller -> Call]
      /\ \A c \in Caller : calls[c] \in Call /\ CallOk(calls[c])
  BY DEF CallsInv
<1>2. CASE tx.waiting = None
  <2>1. calls' = calls
    BY <1>2
  <2>2. \A c \in Caller : CallOk(calls[c])'
    BY <1>1, <2>1, CallStays
  <2>3. NetworkInv'
    BY <1>2, <2>1, NetworkShrinks
  <2> QED
    BY <1>1, <2>1, <2>2, <2>3 DEF CallsInv
<1>3. CASE tx.waiting # None
  <2> DEFINE c == tx.waiting
             new == CASE call.method = "createTransaction" -> [call EXCEPT !.pc = "returned"]
                      [] call.method = "createTable" -> [call EXCEPT !.pc = "confirmed"]
                      [] OTHER -> Idle
  <2>1. c \in Caller /\ Sends(calls[c], tx.ix, tx.request)
    BY <1>3 DEF NetworkInv
  <2>2. call \in Call /\ CallOk(call) /\ call.pc = "sent" /\ call = calls[c] /\ Served(call)'
    BY <1>1, <1>3, <2>1 DEF Sends
  <2>3. Becomes(c, new)
    BY <1>3, <2>2 DEF Answered, Becomes
  <2>4. new \in Call /\ CallOk(new)'
    <3>1. CASE call.method = "createTransaction"
      <4>1. call \in CreateCall /\ new = [call EXCEPT !.pc = "returned"]
        BY <2>2, <3>1, KindOfCall
      <4> HIDE DEF new
      <4>2. /\ new \in CreateCall /\ new.pc = "returned" /\ new.method = "createTransaction"
            /\ new.transactionIndex = call.transactionIndex /\ new.message = call.message
            /\ new.creator = call.creator
        BY <4>1 DEF CreateCall
      <4> QED
        BY <2>2, <3>1, <4>2 DEF Call, CallOk, Served
    <3>2. CASE call.method = "createTable"
      <4>1. call \in TableCall /\ new = [call EXCEPT !.pc = "confirmed"]
        BY <2>2, <3>2, KindOfCall
      <4>2. call.waited = 0
        BY <2>2, <3>2 DEF CallOk
      <4> HIDE DEF new
      <4>3. /\ new \in TableCall /\ new.pc = "confirmed" /\ new.method = "createTable"
            /\ new.members = call.members /\ new.table = call.table /\ new.waited = call.waited
        BY <4>1 DEF TableCall
      <4> QED
        BY <2>2, <3>2, <4>2, <4>3 DEF Call, CallOk, Served
    <3>3. CASE call.method # "createTransaction" /\ call.method # "createTable"
      <4>1. new = [method |-> "none", pc |-> "returned"]
        BY <3>3 DEF Idle
      <4> HIDE DEF new
      <4> QED
        BY <4>1 DEF Call, RestCall, CallOk
    <3> QED
      BY <3>1, <3>2, <3>3
  <2> HIDE DEF new
  <2>5. NetworkInv'
    BY <1>3, <2>3, NetworkShrinks
  <2>6. calls' \in [Caller -> Call] /\ calls'[c] = new
    BY <1>1, <2>1, <2>3, <2>4 DEF Becomes
  <2>7. ASSUME NEW d \in Caller
        PROVE  CallOk(calls[d])'
    <3>1. CASE d = c
      BY <2>4, <2>6, <3>1 DEF CallOk
    <3>2. CASE d # c
      <4>1. calls'[d] = calls[d]
        BY <1>1, <2>3, <3>2 DEF Becomes
      <4> QED
        BY <1>1, <4>1, CallStays
    <3> QED
      BY <3>1, <3>2
  <2> QED
    BY <2>5, <2>6, <2>7 DEF CallsInv
<1> QED
  BY <1>2, <1>3

\* A landing keeps the invariant.
LEMMA LandStep ==
    ASSUME ClientInv, NEW tx, Land(tx)
    PROVE  ClientInv'
<1>1. tx \in network /\ NetworkInv /\ CallsInv
  BY DEF Land, ClientInv
<1>2. PICK call \in Call :
         Sends(call, tx.ix, tx.request) /\ (tx.waiting # None => call = calls[tx.waiting])
  <2>1. CASE tx.waiting = None
    BY <1>1, <2>1 DEF NetworkInv
  <2>2. CASE tx.waiting # None
    BY <1>1, <2>2 DEF NetworkInv, CallsInv
  <2> QED
    BY <2>1, <2>2
<1>3. LedgerInv' /\ TablesInv' /\ Growth /\ Served(call)'
  BY <1>2, EffectStep DEF Land
<1>4. NetworkInv' /\ CallsInv'
  BY <1>1, <1>2, <1>3, AnswerStep DEF Land
<1> QED
  BY <1>3, <1>4 DEF ClientInv

\* A failure keeps the invariant.
LEMMA FailStep ==
    ASSUME ClientInv, NEW tx, Fail(tx)
    PROVE  ClientInv'
<1>1. /\ tx \in network /\ NetworkInv /\ CallsInv /\ network' = network \ {tx}
      /\ multisig' = multisig /\ proposals' = proposals /\ accepted' = accepted
      /\ tables' = tables
  BY DEF Fail, ClientInv
<1>2. CASE tx.waiting = None /\ UNCHANGED calls
  <2>1. NetworkInv'
    BY <1>1, <1>2, NetworkShrinks
  <2>2. \A c \in Caller : CallOk(calls[c])'
    BY <1>1, <1>2, SameGrows, CallStays DEF CallsInv
  <2> QED
    BY <1>1, <1>2, <2>1, <2>2 DEF ClientInv, CallsInv, LedgerInv, TablesInv
<1>3. ASSUME tx.waiting # None, NEW pc \in {"returned", "threw"},
             Becomes(tx.waiting, [method |-> "none", pc |-> pc])
      PROVE  ClientInv'
  <2> DEFINE call == [method |-> "none", pc |-> pc]
  <2>1. call \in Call /\ CallOk(call) /\ Becomes(tx.waiting, call)
    BY <1>3, RestIsCall
  <2>2. tx.waiting \in Caller
    BY <1>1, <1>3 DEF NetworkInv
  <2> HIDE DEF call
  <2>3. NetworkInv'
    BY <1>1, <1>3, <2>1, NetworkShrinks
  <2>4. CallsInv'
    BY <1>1, <2>1, <2>2, CallChanges
  <2> QED
    BY <1>1, <2>3, <2>4 DEF ClientInv, LedgerInv, TablesInv
<1>4. CASE tx.waiting # None /\ Throws(tx.waiting)
  BY <1>3, <1>4 DEF Throws
<1>5. CASE tx.waiting # None /\ Answered(tx.waiting, "initialize")
  BY <1>3, <1>5 DEF Answered, Idle
<1> QED
  BY <1>2, <1>4, <1>5 DEF Fail

\* Other clients keep the invariant.
LEMMA ForeignSteps ==
    ASSUME ClientInv,
           \/ \E creator \in Creators : ForeignCreate(creator)
           \/ \E index \in 1..MaxIndex : ForeignClose(index)
    PROVE  ClientInv'
<1>1. /\ NetworkInv /\ CallsInv /\ LedgerInv /\ TablesInv
      /\ \A c \in Caller : calls[c] \in Call /\ CallOk(calls[c])
  BY DEF ClientInv, CallsInv
<1>2. ASSUME LedgerInv', Growth, tables' = tables, network' = network, calls' = calls
      PROVE  ClientInv'
  <2>1. \A c \in Caller : CallOk(calls[c])'
    BY <1>1, <1>2, CallStays
  <2> QED
    BY <1>1, <1>2, <2>1 DEF ClientInv, CallsInv, TablesInv, NetworkInv
<1>3. ASSUME NEW creator \in Creators, ForeignCreate(creator)
      PROVE  ClientInv'
  <2> DEFINE index == multisig.transactionIndex
             ix == buildCreateTransactionInstruction(Multisig, index, 0, Foreign, creator, creator)
  <2>1. /\ multisig # None /\ AcceptsCreate(ix) /\ Created(ix, None)
        /\ tables' = tables /\ network' = network /\ calls' = calls
    BY <1>3 DEF ForeignCreate
  <2>2. index \in Int /\ Foreign \in TransactionMessage
    BY <1>1, <2>1, ClientAssumption DEF LedgerInv, MultisigConfig
  <2> HIDE DEF index
  <2>3. /\ LedgerInv'
        /\ \A n \in DOMAIN accepted : n \in DOMAIN accepted' /\ accepted'[n] = accepted[n]
    BY <2>1, <2>2, CreatedStep
  <2>4. Growth
    BY <2>1, <2>3 DEF Growth
  <2> QED
    BY <1>2, <2>1, <2>3, <2>4
<1>4. ASSUME NEW index \in 1..MaxIndex, ForeignClose(index)
      PROVE  ClientInv'
  <2>1. /\ proposals' = [proposals EXCEPT ![index] = None]
        /\ multisig' = multisig /\ accepted' = accepted /\ tables' = tables
        /\ network' = network /\ calls' = calls
    BY <1>4 DEF ForeignClose
  <2>2. LedgerInv'
    BY <1>1, <2>1, ProposalChanges
  <2> QED
    BY <1>2, <2>1, <2>2, SameGrows
<1> QED
  BY <1>3, <1>4

-----------------------------------------------------------------------------
(***************************************************************************)
(* The invariant.                                                          *)
(***************************************************************************)

\* The client begins in the invariant.
LEMMA ClientInit ==
    ASSUME Init
    PROVE  ClientInv
<1>1. NetworkInv
  <2>1. network = {} /\ MaxInFlight \in Nat
    BY ClientAssumption DEF Init
  <2> QED
    BY <2>1, FS_EmptySet DEF NetworkInv
<1>2. LedgerInv
  <2>1. /\ accepted = <<>> /\ proposals = [i \in 1..MaxIndex |-> None]
        /\ MaxIndex \in Nat /\ None \notin MultisigConfig
    BY ClientAssumption DEF Init
  <2>2. /\ multisig \in MultisigConfig \cup {None}
        /\ multisig # None => multisig.transactionIndex = 0
    <3>1. CASE multisig = None
      BY <3>1
    <3>2. CASE multisig = [members |-> sortMembers(Members), threshold |-> Threshold,
                           transactionIndex |-> 0]
      <4> DEFINE s == sortMembers(Members)
      <4>1. s \in Seq(Address) /\ Threshold \in Nat
        BY ClientAssumption, SortMembersType
      <4> HIDE DEF s
      <4>2. multisig = [members |-> s, threshold |-> Threshold, transactionIndex |-> 0]
        BY <3>2 DEF s
      <4> QED
        BY <2>1, <4>1, <4>2 DEF MultisigConfig
    <3> QED
      BY <3>1, <3>2 DEF Init
  <2>3. accepted \in Seq(Acceptance) /\ Len(accepted) = 0 /\ DOMAIN accepted = {}
    BY <2>1
  <2> QED
    BY <2>1, <2>2, <2>3 DEF LedgerInv
<1>3. TablesInv
  <2>1. NoTable \in LookupTable
    BY DEF NoTable, LookupTable
  <2> QED
    BY <2>1 DEF TablesInv, Init
<1>4. CallsInv
  <2>1. Idle \in Call /\ CallOk(Idle)
    BY RestIsCall DEF Idle
  <2>2. calls = [c \in Caller |-> Idle]
    BY DEF Init
  <2> QED
    BY <2>1, <2>2 DEF CallsInv
<1> QED
  BY <1>1, <1>2, <1>3, <1>4 DEF ClientInv

\* Every step of a call keeps the invariant.
LEMMA CallerSteps ==
    ASSUME ClientInv, NEW c \in Caller, CallMade(c) \/ CallGoesOn(c) \/ CallSettles(c)
    PROVE  ClientInv'
<1>1. ASSUME NEW request \in Requests, NEW creator \in Creators,
             createTransaction(c, request, creator)
      PROVE  ClientInv'
  BY <1>1, MessageForType, CreateStep DEF createTransaction
<1>2. ASSUME NEW creator \in Creators, createTransactionFromMessage(c, None, Foreign, creator)
      PROVE  ClientInv'
  BY <1>2, ClientAssumption, CreateStep
<1>3. CASE CallMade(c)
  BY <1>1, <1>2, <1>3, ApproveStep, ExecuteStep, CreateTableStep, InitializeStep DEF CallMade
<1>4. CASE CallGoesOn(c)
  BY <1>4, FetchMultisigStep, FetchTableStep, TableCallSteps DEF CallGoesOn
<1>5. CASE CallSettles(c)
  BY <1>5, TableCallSteps, NoAnswerStep DEF CallSettles
<1> QED
  BY <1>3, <1>4, <1>5

\* Every step keeps the invariant.
LEMMA ClientNext ==
    ASSUME ClientInv, [Next]_vars
    PROVE  ClientInv'
<1>1. CASE \E c \in Caller : CallMade(c) \/ CallGoesOn(c) \/ CallSettles(c)
  BY <1>1, CallerSteps
<1>2. CASE Cluster
  BY <1>2, LandStep, FailStep, NewSlotStep, NodeSeesStep, ForeignSteps DEF Cluster
<1>3. CASE UNCHANGED vars
  <2>1. /\ multisig' = multisig /\ proposals' = proposals /\ accepted' = accepted
        /\ tables' = tables /\ network' = network /\ calls' = calls
    BY <1>3 DEF vars
  <2>2. \A c \in Caller : CallOk(calls[c])'
    BY <2>1, SameGrows, CallStays DEF ClientInv, CallsInv
  <2> QED
    BY <2>1, <2>2 DEF ClientInv, NetworkInv, LedgerInv, TablesInv, CallsInv
<1> QED
  BY <1>1, <1>2, <1>3 DEF Next

\* In every state the accounts, the transactions on their way and the calls
\* fit together (client.ts:433, client.ts:236).
THEOREM ClientInvariant == Spec => []ClientInv
<1> QED
  BY ClientInit, ClientNext, PTL DEF Spec

-----------------------------------------------------------------------------
(***************************************************************************)
(* What follows from it.                                                   *)
(***************************************************************************)

\* The counter numbers every accepted creation, approvals are of distinct
\* members, and no more transactions are on their way than the bound
\* (lib.rs:197, lib.rs:264).
THEOREM ClientTypes == Spec => []TypeOK
<1>1. ClientInv => TypeOK
  BY DEF ClientInv, LedgerInv, NetworkInv, TypeOK
<1> QED
  BY <1>1, ClientInvariant, PTL

\* The index that createTransactionFromMessage returns is that of the caller's
\* own message, for good (client.ts:475).
THEOREM CreatedTheorem == Spec => []CreatedIsOwn
<1>1. ASSUME ClientInv
      PROVE  CreatedIsOwn
  <2>1. ASSUME NEW c \in Caller, calls[c].method = "createTransaction", calls[c].pc = "returned"
        PROVE  LET call == calls[c]
               IN  /\ call.transactionIndex \in DOMAIN accepted
                   /\ accepted[call.transactionIndex].message = call.message
                   /\ accepted[call.transactionIndex].creator = call.creator
                   /\ getTransaction(call.transactionIndex) # None =>
                         getTransaction(call.transactionIndex).message = call.message
    <3> DEFINE call == calls[c]
    <3>1. /\ call.transactionIndex \in DOMAIN accepted
          /\ accepted[call.transactionIndex].message = call.message
          /\ accepted[call.transactionIndex].creator = call.creator
      BY <1>1, <2>1 DEF ClientInv, CallsInv, CallOk
    <3>2. call.transactionIndex \in 1..MaxIndex
      BY <1>1, <3>1, ClientAssumption DEF ClientInv, LedgerInv, MultisigConfig
    <3> QED
      BY <1>1, <3>1, <3>2 DEF ClientInv, LedgerInv, getTransaction
  <2> QED
    BY <2>1 DEF CreatedIsOwn
<1> QED
  BY <1>1, ClientInvariant, PTL

\* What the program resolves from a message that createTransaction built and
\* the program accepted is what was asked for (utils.ts:165).
THEOREM FaithfulTheorem == Spec => []MessageFaithful
<1>1. ASSUME ClientInv, NEW n \in DOMAIN accepted, accepted[n].request # None
      PROVE  LET request == accepted[n].request
                 message == accepted[n].message
             IN  /\ Len(message.instructions) = Len(request)
                 /\ \A i \in DOMAIN request :
                       Resolved(message, message.instructions[i]) =
                           [request[i] EXCEPT !.keys = [k \in DOMAIN @ |-> Merged(Vault, request, @[k])]]
  <2> DEFINE request == accepted[n].request
             message == accepted[n].message
  <2>1. request \in Requests /\ message = MessageFor[request] /\ ValidMessage(message, Vault)
    <3>1. accepted[n] \in Acceptance
      BY <1>1 DEF ClientInv, LedgerInv
    <3> QED
      BY <1>1, <3>1 DEF ClientInv, LedgerInv, Acceptance
  <2> HIDE DEF request, message
  <2>2. /\ request \in Seq(TransactionInstruction) /\ Vault \in Address
        /\ MAX_TX_ACCOUNT_KEYS \in 0..BYTE /\ BYTE \in Nat
    BY <2>1, ClientAssumption, ByteAssumption
  <2>3. message = buildMessageFromInstructions(Vault, request) /\ message \in TransactionMessage
    BY <2>1, MessageForType
  <2>4. Len(message.account_keys) <= BYTE
    BY <2>1, <2>2 DEF ValidMessage, SizesOk
  <2>5. \A i \in DOMAIN request :
           Resolved(message, message.instructions[i]) =
               [request[i] EXCEPT !.keys = [k \in DOMAIN @ |-> Merged(Vault, request, @[k])]]
    BY <2>2, <2>3, <2>4, BuiltFaithfully
  <2>6. Len(message.instructions) = Len(request)
    BY <2>2, <2>3, BuiltLength
  <2> QED
    BY <2>5, <2>6 DEF request, message
<1>2. ClientInv => MessageFaithful
  BY <1>1 DEF MessageFaithful, Merged
<1> QED
  BY <1>2, ClientInvariant, PTL

\* A table that createMembersAddressLookupTable returned serves initialize at
\* once (client.ts:236).
THEOREM TableTheorem == Spec => []TableIsReady
<1>1. ClientInv => TableIsReady
  BY DEF ClientInv, CallsInv, CallOk, TableIsReady
<1> QED
  BY <1>1, ClientInvariant, PTL

=============================================================================
