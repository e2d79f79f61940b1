--------------------------- MODULE SequenceLemmas ---------------------------
(***************************************************************************)
(* Facts about lists and finite sets that the proofs of the program, of    *)
(* the client and of the verifiers share: sorting by byte order, picking   *)
(* and flattening, sums.                                                   *)
(***************************************************************************)
EXTENDS ProposalMessage, FiniteSetTheorems, FunctionTheorems,
        WellFoundedInduction, TLAPS

-----------------------------------------------------------------------------
(***************************************************************************)
(* Induction.  The provers cannot instantiate a theorem with an operator   *)
(* parameter; what is to be shown of every number is therefore a set here. *)
(***************************************************************************)

\* Every set of natural numbers that is not empty has a least one.
LEMMA LeastNumber ==
    ASSUME NEW S \in SUBSET Nat, S # {}
    PROVE  \E n \in S : \A m \in S : n <= m
<1> DEFINE T == { 0..n : n \in S }
<1>1. T \subseteq FiniteSubsetsOf(Nat)
  <2>1. \A n \in S : IsFiniteSet(0..n)
    BY FS_Interval
  <2>2. \A n \in S : 0..n \in SUBSET Nat
    OBVIOUS
  <2> QED
    BY <2>1, <2>2 DEF FiniteSubsetsOf
<1>2. T # {}
  OBVIOUS
<1>3. PICK x \in T : \A y \in T : ~(<<y, x>> \in StrictSubsetOrdering(Nat))
  BY <1>1, <1>2, FS_StrictSubsetOrderingWellFounded, WFMin, Zenon
<1>4. PICK n \in S : x = 0..n
  BY <1>3
<1>5. ASSUME NEW m \in S, m < n
      PROVE  FALSE
  <2>1. m \in Nat /\ n \in Nat
    OBVIOUS
  <2>2. 0..m \in SUBSET Nat /\ x \in SUBSET Nat
    BY <2>1, <1>4
  <2>3. 0..m \subseteq x
    BY <2>1, <1>4, <1>5
  <2>4. n \in x /\ n \notin 0..m
    BY <2>1, <1>4, <1>5
  <2>5. 0..m # x
    BY <2>4
  <2>6. <<0..m, x>> \in StrictSubsetOrdering(Nat)
    BY <2>2, <2>3, <2>5 DEF StrictSubsetOrdering
  <2>7. 0..m \in T
    OBVIOUS
  <2> QED
    BY <1>3, <2>6, <2>7
<1> QED
  BY <1>5

\* A set that has 0 and, with each number, the next one has every number.
LEMMA InductiveSet ==
    ASSUME NEW S, 0 \in S, \A n \in Nat : n \in S => n + 1 \in S
    PROVE  Nat \subseteq S
<1> SUFFICES ASSUME Nat \ S # {}
             PROVE  FALSE
  OBVIOUS
<1>1. PICK n \in Nat \ S : \A m \in Nat \ S : n <= m
  BY LeastNumber
<1>2. n # 0
  OBVIOUS
<1>3. n - 1 \in Nat /\ n - 1 \in S /\ n = (n - 1) + 1
  BY <1>1, <1>2
<1> QED
  BY <1>3

\* The same up to a bound.
LEMMA UpTo ==
    ASSUME NEW k \in Nat, NEW S, 0 \in S, \A n \in 1..k : n - 1 \in S => n \in S
    PROVE  0..k \subseteq S
<1> DEFINE T == { j \in Nat : j <= k => j \in S }
<1>1. 0 \in T
  OBVIOUS
<1>2. ASSUME NEW j \in Nat, j \in T
      PROVE  j + 1 \in T
  <2>1. j + 1 <= k => j + 1 \in 1..k /\ (j + 1) - 1 = j
    OBVIOUS
  <2> QED
    BY <1>2, <2>1
<1> HIDE DEF T
<1>3. Nat \subseteq T
  BY <1>1, <1>2, InductiveSet
<1> QED
  BY <1>3 DEF T

\* t computes step by step: it starts at base, and G takes it from each entry
\* to the next.
Computes(t, k, V, base, G) ==
    /\ t \in [0..k -> V]
    /\ t[0] = base
    /\ \A n \in 1..k : t[n] = G[<<t[n - 1], n>>]

\* What is computed step by step exists.
LEMMA StepByStep ==
    ASSUME NEW k \in Nat, NEW V, NEW base \in V, NEW G \in [V \X (1..k) -> V]
    PROVE  \E t : Computes(t, k, V, base, G)
<1> DEFINE S == { j \in Nat : j <= k => \E t : Computes(t, j, V, base, G) }
<1>1. 0 \in S
  <2>1. Computes([n \in 0..0 |-> base], 0, V, base, G)
    BY DEF Computes
  <2> QED
    BY <2>1
<1>2. ASSUME NEW j \in Nat, j \in S
      PROVE  j + 1 \in S
  <2>1. SUFFICES ASSUME j + 1 <= k
                 PROVE  \E t : Computes(t, j + 1, V, base, G)
    OBVIOUS
  <2>2. PICK t : Computes(t, j, V, base, G)
    BY <1>2, <2>1
  <2> DEFINE u == [n \in 0..(j + 1) |-> IF n = j + 1 THEN G[<<t[j], j + 1>>] ELSE t[n]]
  <2>3. t \in [0..j -> V] /\ t[0] = base /\ \A n \in 1..j : t[n] = G[<<t[n - 1], n>>]
    BY <2>2 DEF Computes
  <2>4. t[j] \in V /\ j + 1 \in 1..k
    BY <2>1, <2>3
  <2>5. G[<<t[j], j + 1>>] \in V
    BY <2>4
  <2>6. u \in [0..(j + 1) -> V] /\ u[0] = base
    BY <2>3, <2>5
  <2>7. ASSUME NEW n \in 1..(j + 1)
        PROVE  u[n] = G[<<u[n - 1], n>>]
    <3>1. n - 1 \in 0..j /\ u[n - 1] = t[n - 1]
      OBVIOUS
    <3>2. CASE n = j + 1
      <4>1. u[n] = G[<<t[j], j + 1>>] /\ t[n - 1] = t[j]
        BY <3>2
      <4> HIDE DEF u
      <4> QED
        BY <3>1, <3>2, <4>1
    <3>3. CASE n # j + 1
      <4>1. n \in 1..j
        BY <3>3
      <4> QED
        BY <3>1, <4>1, <2>3
    <3> QED
      BY <3>2, <3>3
  <2> HIDE DEF u
  <2>8. Computes(u, j + 1, V, base, G)
    BY <2>6, <2>7 DEF Computes
  <2> QED
    BY <2>8
<1> HIDE DEF S
<1>3. k \in S
  BY <1>1, <1>2, InductiveSet
<1> QED
  BY <1>3 DEF S

-----------------------------------------------------------------------------
(***************************************************************************)
(* Sorting.                                                                *)
(***************************************************************************)

\* An injection of 1..n into itself misses nothing.
LEMMA InjectionIsBijection ==
    ASSUME NEW n \in Nat, NEW p \in [1..n -> 1..n],
           \A i, j \in 1..n : p[i] = p[j] => i = j
    PROVE  p \in Bijection(1..n, 1..n)
<1>1. p \in Injection(1..n, 1..n)
  BY Fun_IsInj
<1>2. IsFiniteSet(1..n)
  BY FS_Interval
<1>3. p \in Surjection(1..n, 1..n)
  BY <1>1, <1>2, FS_Injection
<1> QED
  BY <1>1, <1>3 DEF Bijection

\* What a bijection of positions does.
LEMMA BijectionFacts ==
    ASSUME NEW n \in Nat, NEW p \in Bijection(1..n, 1..n)
    PROVE  /\ p \in [1..n -> 1..n]
           /\ \A i, j \in 1..n : p[i] = p[j] => i = j
           /\ \A i \in 1..n : \E j \in 1..n : p[j] = i
BY ZenonT(30), Fun_BijectionProperties

\* A permutation and the one that undoes it.
LEMMA Undo ==
    ASSUME NEW n \in Nat, NEW p \in Bijection(1..n, 1..n)
    PROVE  \E q \in Bijection(1..n, 1..n) : \A i \in 1..n : p[q[i]] = i /\ q[p[i]] = i
<1> DEFINE q == Inverse(p, 1..n, 1..n)
<1>1. q \in Bijection(1..n, 1..n) /\ \A i \in 1..n : q[p[i]] = i
  BY Fun_BijInverse
<1>2. p \in [1..n -> 1..n] /\ \A i \in 1..n : \E j \in 1..n : p[j] = i
  BY ZenonT(30), Fun_BijectionProperties
<1> HIDE DEF q
<1>3. \A i \in 1..n : p[q[i]] = i
  BY <1>1, <1>2
<1> QED
  BY <1>1, <1>3

\* s lists the keys of m in another order.
Rearranges(s, m) ==
    \E p \in Bijection(1..Len(m), 1..Len(m)) : s = [i \in 1..Len(m) |-> m[p[i]]]

\* A rearrangement of keys is a list of keys.
LEMMA RearrangedType ==
    ASSUME NEW m \in Seq(Address), NEW s, Rearranges(s, m)
    PROVE  s \in [1..Len(m) -> Address]
<1>1. PICK p \in Bijection(1..Len(m), 1..Len(m)) : s = [i \in 1..Len(m) |-> m[p[i]]]
  BY DEF Rearranges
<1>2. Len(m) \in Nat
  OBVIOUS
<1>3. p \in [1..Len(m) -> 1..Len(m)]
  BY <1>2, BijectionFacts
<1> QED
  BY <1>1, <1>3

\* No key comes before a smaller one.
InOrder(s) == \A i, j \in DOMAIN s : i < j => <<s[j], s[i]>> \notin KeyLess

\* What Sorted means, for lists of keys.
LEMMA SortedMeans ==
    ASSUME NEW m \in Seq(Address), NEW s
    PROVE  s \in Sorted(m) <=> Rearranges(s, m) /\ InOrder(s)
<1> DEFINE n == Len(m)
<1>0. n \in Nat
  OBVIOUS
<1>1. ASSUME s \in Sorted(m)
      PROVE  Rearranges(s, m) /\ InOrder(s)
  <2>1. PICK p \in [1..n -> 1..n] : IsInjective(p) /\ s = [i \in 1..n |-> m[p[i]]]
    BY <1>1 DEF Sorted
  <2>2. \A i, j \in 1..n : p[i] = p[j] => i = j
    BY <2>1 DEF IsInjective
  <2>3. p \in Bijection(1..n, 1..n)
    BY <1>0, <2>2, InjectionIsBijection
  <2>4. \A i, j \in 1..n : i < j => <<s[j], s[i]>> \notin KeyLess
    BY <1>1 DEF Sorted
  <2>5. DOMAIN s = 1..n
    BY <2>1
  <2> QED
    BY <2>1, <2>3, <2>4, <2>5 DEF Rearranges, InOrder
<1>2. ASSUME Rearranges(s, m), InOrder(s)
      PROVE  s \in Sorted(m)
  <2>1. PICK p \in Bijection(1..n, 1..n) : s = [i \in 1..n |-> m[p[i]]]
    BY <1>2 DEF Rearranges
  <2>2. p \in [1..n -> 1..n] /\ \A i, j \in 1..n : p[i] = p[j] => i = j
    <3> HIDE DEF n
    <3> QED BY <1>0, BijectionFacts
  <2>3. IsInjective(p)
    BY <2>2 DEF IsInjective
  <2>4. \A i, j \in 1..n : i < j => <<s[j], s[i]>> \notin KeyLess
    BY <1>2, <2>1 DEF InOrder
  <2> QED
    BY <2>1, <2>2, <2>3, <2>4 DEF Sorted
<1> QED
  BY <1>1, <1>2

\* Two lists in byte order that rearrange one list do not differ anywhere: if
\* t[i] came before s[i], the i keys t[1..i] would have i - 1 places in s.
LEMMA NoSmallerKey ==
    ASSUME NEW m \in Seq(Address), NEW s, NEW t, Rearranges(s, m), Rearranges(t, m),
           InOrder(s), InOrder(t), NEW i \in 1..Len(m)
    PROVE  <<t[i], s[i]>> \notin KeyLess
<1> DEFINE n == Len(m)
<1>0. n \in Nat /\ i \in Nat /\ 1..i \subseteq 1..n
  OBVIOUS
<1>1. PICK p \in Bijection(1..n, 1..n) : s = [k \in 1..n |-> m[p[k]]]
  BY DEF Rearranges
<1>2. PICK q \in Bijection(1..n, 1..n) : t = [k \in 1..n |-> m[q[k]]]
  BY DEF Rearranges
<1>3. PICK u \in Bijection(1..n, 1..n) : \A k \in 1..n : p[u[k]] = k /\ u[p[k]] = k
  BY <1>0, Undo
<1>4. /\ p \in [1..n -> 1..n] /\ q \in [1..n -> 1..n] /\ u \in [1..n -> 1..n]
      /\ \A j, k \in 1..n : u[j] = u[k] => j = k
      /\ \A j, k \in 1..n : q[j] = q[k] => j = k
  <2> HIDE DEF n
  <2> QED BY <1>0, BijectionFacts
<1>5. SUFFICES ASSUME <<t[i], s[i]>> \in KeyLess
               PROVE  FALSE
  OBVIOUS
<1> DEFINE f == [k \in 1..i |-> u[q[k]]]
<1>6. \A k \in 1..n : u[q[k]] \in 1..n /\ s[u[q[k]]] = t[k] /\ t[k] \in Address /\ s[k] \in Address
  <2>1. \A k \in 1..n : m[k] \in Address
    OBVIOUS
  <2> HIDE DEF n
  <2>2. \A k \in 1..n : s[k] = m[p[k]] /\ t[k] = m[q[k]] /\ q[k] \in 1..n /\ p[k] \in 1..n
    BY <1>1, <1>2, <1>4
  <2>3. \A k \in 1..n : u[q[k]] \in 1..n /\ p[u[q[k]]] = q[k]
    BY <2>2, <1>3, <1>4
  <2> HIDE DEF f
  <2> SUFFICES ASSUME NEW k \in 1..n
               PROVE  /\ u[q[k]] \in 1..n /\ s[u[q[k]]] = t[k]
                      /\ t[k] \in Address /\ s[k] \in Address
    OBVIOUS
  <2>4. s[u[q[k]]] = m[p[u[q[k]]]]
    BY <2>2, <2>3
  <2>5. p[u[q[k]]] = q[k] /\ u[q[k]] \in 1..n
    BY <2>3
  <2>6. s[k] = m[p[k]] /\ t[k] = m[q[k]] /\ q[k] \in 1..n /\ p[k] \in 1..n
    BY <2>2
  <2> QED
    BY <2>1, <2>4, <2>5, <2>6
<1>7. \A k \in 1..i : f[k] \in 1..(i - 1)
  <2>1. SUFFICES ASSUME NEW k \in 1..i, f[k] \notin 1..(i - 1)
                 PROVE  FALSE
    OBVIOUS
  <2>2. k \in 1..n /\ i \in 1..n /\ f[k] \in 1..n /\ s[f[k]] = t[k]
    BY <1>0, <1>6
  <2> HIDE DEF f
  <2>3. f[k] >= i
    BY <1>0, <2>1, <2>2
  <2>4. DOMAIN s = 1..n /\ DOMAIN t = 1..n
    BY <1>1, <1>2
  <2>5. f[k] = i \/ <<s[f[k]], s[i]>> \notin KeyLess
    BY <1>0, <2>2, <2>3, <2>4 DEF InOrder
  <2>6. k = i \/ <<t[i], t[k]>> \notin KeyLess
    <3>1. k = i \/ k < i
      BY <1>0
    <3> QED
      BY <3>1, <2>2, <2>4 DEF InOrder
  <2>7. t[k] = t[i] \/ <<t[k], t[i]>> \in KeyLess
    BY <2>2, <2>6, <1>6, KeyOrderAssumption
  <2>8. <<t[k], s[i]>> \in KeyLess
    BY <2>2, <2>7, <1>5, <1>6, KeyOrderAssumption
  <2> QED
    BY <2>2, <2>5, <2>8, <1>6, KeyOrderAssumption
<1>8. f \in [1..i -> 1..(i - 1)]
  BY <1>7
<1>9. \A j, k \in 1..i : f[j] = f[k] => j = k
  BY <1>0, <1>4
<1>10. /\ IsFiniteSet(1..i) /\ Cardinality(1..i) = i
       /\ IsFiniteSet(1..(i - 1)) /\ Cardinality(1..(i - 1)) = i - 1
  <2>1. i \in Int /\ i - 1 \in Int /\ 1 \in Int /\ i >= 1
    OBVIOUS
  <2> QED
    BY <2>1, FS_Interval
<1> HIDE DEF f
<1>11. Cardinality(1..(i - 1)) < Cardinality(1..i)
  BY <1>0, <1>10
<1>12. \E j, k \in 1..i : j # k /\ f[j] = f[k]
  BY <1>8, <1>10, <1>11, FS_PigeonHole
<1> QED
  BY <1>9, <1>12

\* sort() has one result: the lists in byte order that rearrange one list are
\* equal.
LEMMA SortedUnique ==
    ASSUME NEW m \in Seq(Address), NEW s \in Sorted(m), NEW t \in Sorted(m)
    PROVE  s = t
<1>1. Rearranges(s, m) /\ Rearranges(t, m) /\ InOrder(s) /\ InOrder(t)
  BY SortedMeans
<1>2. \A i \in 1..Len(m) : <<t[i], s[i]>> \notin KeyLess /\ <<s[i], t[i]>> \notin KeyLess
  BY <1>1, NoSmallerKey
<1>3. s \in [1..Len(m) -> Address] /\ t \in [1..Len(m) -> Address]
  BY <1>1, RearrangedType
<1>4. \A i \in 1..Len(m) : s[i] = t[i]
  BY <1>2, <1>3, KeyOrderAssumption
<1> QED
  BY <1>3, <1>4

\* A list in byte order is what sort() makes of it in any other order.
LEMMA SortedPermuted ==
    ASSUME NEW m \in Seq(Address), InOrder(m), NEW p \in Bijection(1..Len(m), 1..Len(m))
    PROVE  sort_members([i \in DOMAIN m |-> m[p[i]]]) = m
<1> DEFINE n == Len(m)
           l == [i \in DOMAIN m |-> m[p[i]]]
<1>1. n \in Nat /\ DOMAIN m = 1..n /\ m = [i \in 1..n |-> m[i]]
  OBVIOUS
<1>2. PICK q \in Bijection(1..n, 1..n) : \A i \in 1..n : p[q[i]] = i /\ q[p[i]] = i
  BY <1>1, Undo
<1>3. p \in [1..n -> 1..n] /\ q \in [1..n -> 1..n]
  <2>1. p \in Bijection(1..n, 1..n)
    OBVIOUS
  <2> HIDE DEF n
  <2> QED
    BY <1>1, <2>1, BijectionFacts
<1>4. l \in Seq(Address) /\ Len(l) = n
  <2>1. l \in [1..n -> Address]
    BY <1>1, <1>3
  <2> QED
    BY <1>1, <2>1
<1>5. m = [i \in 1..Len(l) |-> l[q[i]]]
  BY <1>1, <1>2, <1>3, <1>4
<1>6. Rearranges(m, l)
  <2>1. q \in Bijection(1..Len(l), 1..Len(l))
    BY <1>4
  <2> HIDE DEF l
  <2> QED
    BY <1>5, <2>1 DEF Rearranges
<1> HIDE DEF l
<1>7. m \in Sorted(l)
  BY <1>4, <1>6, SortedMeans
<1>8. sort_members(l) \in Sorted(l)
  BY <1>7 DEF sort_members
<1>9. sort_members(l) = m
  BY <1>4, <1>7, <1>8, SortedUnique
<1> QED
  BY <1>9 DEF l

-----------------------------------------------------------------------------
(***************************************************************************)
(* Counting.                                                               *)
(***************************************************************************)

\* A list has at most as many different elements as places, and exactly as
\* many when no element is repeated.
LEMMA DistinctElements ==
    ASSUME NEW A, NEW s \in Seq(A)
    PROVE  /\ IsFiniteSet(ToSet(s)) /\ Cardinality(ToSet(s)) \in Nat
           /\ Cardinality(ToSet(s)) <= Len(s)
           /\ IsInjective(s) => Cardinality(ToSet(s)) = Len(s)
<1>1. Len(s) \in Nat /\ DOMAIN s = 1..Len(s)
  OBVIOUS
<1>2. IsFiniteSet(1..Len(s)) /\ Cardinality(1..Len(s)) = Len(s)
  <2>1. Cardinality(1..Len(s)) = IF 1 > Len(s) THEN 0 ELSE Len(s) - 1 + 1
    BY <1>1, FS_Interval, 1 \in Int, Len(s) \in Int
  <2> QED
    BY SMTT(30), <1>1, <2>1, FS_Interval
<1>3. s \in Surjection(1..Len(s), ToSet(s))
  BY <1>1 DEF Surjection, ToSet
<1>4. /\ IsFiniteSet(ToSet(s))
      /\ Cardinality(ToSet(s)) <= Cardinality(1..Len(s))
      /\ Cardinality(ToSet(s)) = Cardinality(1..Len(s)) <=> s \in Injection(1..Len(s), ToSet(s))
  BY <1>2, <1>3, FS_Surjection
<1>5. IsInjective(s) => s \in Injection(1..Len(s), ToSet(s))
  BY <1>1 DEF IsInjective, Injection, ToSet
<1>6. Cardinality(ToSet(s)) \in Nat
  BY <1>4, FS_CardinalityType
<1> QED
  BY <1>2, <1>4, <1>5, <1>6

-----------------------------------------------------------------------------
(***************************************************************************)
(* Sizes.                                                                  *)
(***************************************************************************)

\* The instructions of a message and its lookups have a number of bytes.
LEMMA InstructionsHaveSize ==
    ASSUME NEW s \in Seq(CompiledInstruction), DataLen \in [Data -> Nat]
    PROVE  SumOver(InstructionBytes, s) \in Nat
<1> DEFINE k == Len(s)
           G == [x \in Nat \X (1..k) |-> x[1] + InstructionBytes(s[x[2]])]
           Step(t) == [n \in 0..k |-> IF n = 0 THEN 0 ELSE t[n - 1] + InstructionBytes(s[n])]
           total == CHOOSE t : t = Step(t)
<1>1. k \in Nat
  OBVIOUS
<1>2. ASSUME NEW n \in 1..k
      PROVE  InstructionBytes(s[n]) \in Nat
  <2>1. s[n] \in CompiledInstruction
    OBVIOUS
  <2>2. Len(s[n].account_indexes) \in Nat /\ DataLen[s[n].data] \in Nat
    BY <2>1 DEF CompiledInstruction
  <2> QED
    BY <2>2 DEF InstructionBytes
<1> HIDE DEF k
<1>3. G \in [Nat \X (1..k) -> Nat]
  BY <1>2
<1>4. \A x \in Nat, n \in 1..k : G[<<x, n>>] = x + InstructionBytes(s[n])
  OBVIOUS
<1> HIDE DEF G
<1>5. PICK t : Computes(t, k, Nat, 0, G)
  BY <1>1, <1>3, StepByStep
<1>6. t = Step(t)
  <2>1. t \in [0..k -> Nat] /\ t[0] = 0 /\ \A n \in 1..k : t[n] = t[n - 1] + InstructionBytes(s[n])
    <3>1. t \in [0..k -> Nat] /\ t[0] = 0 /\ \A n \in 1..k : t[n] = G[<<t[n - 1], n>>]
      BY <1>5 DEF Computes
    <3>2. \A n \in 1..k : t[n - 1] \in Nat
      BY <1>1, <3>1
    <3> QED
      BY <1>4, <3>1, <3>2
  <2>2. \A n \in 0..k : n = 0 \/ n \in 1..k
    BY <1>1
  <2> QED
    BY <2>1, <2>2
<1>7. total = Step(total)
  BY <1>6
<1> HIDE DEF total
<1> DEFINE S == { n \in 0..k : total[n] \in Nat }
<1>8. 0 \in S
  BY <1>1, <1>7
<1>9. ASSUME NEW n \in 1..k, n - 1 \in S
      PROVE  n \in S
  <2>1. total[n] = total[n - 1] + InstructionBytes(s[n])
    BY <1>1, <1>7
  <2> QED
    BY <1>1, <1>2, <1>9, <2>1
<1>10. 0..k \subseteq S
  <2> HIDE DEF S
  <2> QED
    BY <1>1, <1>8, <1>9, UpTo
<1>11. total[k] \in Nat
  BY <1>1, <1>10
<1> QED
  BY <1>11 DEF SumOver, total, k

\* No lookups, no bytes.
LEMMA NoLookupsNoBytes == SumOver(LookupBytes, <<>>) = 0
<1> DEFINE Step(t) == [n \in 0..0 |-> IF n = 0 THEN 0 ELSE t[n - 1] + LookupBytes(<<>>[n])]
           total == CHOOSE t : t = Step(t)
<1>1. \E t : t = Step(t)
  <2> DEFINE t == [n \in 0..0 |-> 0]
  <2>1. t = Step(t)
    OBVIOUS
  <2> QED
    BY <2>1
<1>2. total = Step(total)
  BY <1>1
<1>3. total[0] = 0
  <2> HIDE DEF total
  <2> QED
    BY <1>2
<1> QED
  BY <1>3 DEF SumOver

-----------------------------------------------------------------------------
(***************************************************************************)
(* Picking and flattening.                                                 *)
(***************************************************************************)

\* A list of one element.
LEMMA OneElement ==
    ASSUME NEW V, NEW x \in V
    PROVE  <<x>> \in Seq(V) /\ ToSet(<<x>>) = {x}
<1>1. <<x>> \in Seq(V) /\ DOMAIN <<x>> = {1} /\ <<x>>[1] = x
  OBVIOUS
<1> DEFINE s == <<x>>
<1>2. DOMAIN s = {1} /\ s[1] = x
  BY <1>1
<1> HIDE DEF s
<1>3. { s[i] : i \in DOMAIN s } = {x}
  BY <1>2
<1> QED
  BY <1>1, <1>3 DEF ToSet, s

\* A list with an element appended.
LEMMA AppendedElements ==
    ASSUME NEW V, NEW s \in Seq(V), NEW x \in V
    PROVE  Append(s, x) \in Seq(V) /\ ToSet(Append(s, x)) = ToSet(s) \cup {x}
<1>1. /\ Append(s, x) \in Seq(V) /\ Len(s) \in Nat
      /\ DOMAIN Append(s, x) = 1..(Len(s) + 1) /\ DOMAIN s = 1..Len(s)
      /\ Append(s, x)[Len(s) + 1] = x
      /\ \A i \in 1..Len(s) : Append(s, x)[i] = s[i]
  OBVIOUS
<1>2. \A i \in 1..(Len(s) + 1) : i \in 1..Len(s) \/ i = Len(s) + 1
  BY <1>1
<1>3. 1..Len(s) \subseteq 1..(Len(s) + 1) /\ Len(s) + 1 \in 1..(Len(s) + 1)
  BY <1>1
<1> QED
  BY <1>1, <1>2, <1>3, Zenon DEF ToSet

\* Two lists joined.
LEMMA JoinedElements ==
    ASSUME NEW V, NEW s \in Seq(V), NEW t \in Seq(V)
    PROVE  s \o t \in Seq(V) /\ ToSet(s \o t) = ToSet(s) \cup ToSet(t)
<1>1. /\ s \o t \in Seq(V) /\ Len(s) \in Nat /\ Len(t) \in Nat
      /\ DOMAIN (s \o t) = 1..(Len(s) + Len(t))
      /\ DOMAIN s = 1..Len(s) /\ DOMAIN t = 1..Len(t)
      /\ \A i \in 1..Len(s) : (s \o t)[i] = s[i]
  OBVIOUS
<1>2. ASSUME NEW i \in 1..Len(t)
      PROVE  Len(s) + i \in 1..(Len(s) + Len(t)) /\ (s \o t)[Len(s) + i] = t[i]
  BY <1>1
<1>3. ASSUME NEW i \in 1..(Len(s) + Len(t))
      PROVE  i \in 1..Len(s) \/ \E j \in 1..Len(t) : i = Len(s) + j
  <2>1. CASE i <= Len(s)
    BY <1>1, <2>1
  <2>2. CASE i > Len(s)
    <3>1. i - Len(s) \in 1..Len(t) /\ i = Len(s) + (i - Len(s))
      BY <1>1, <2>2
    <3> QED
      BY <3>1
  <2> QED
    BY <1>1, <2>1, <2>2
<1>4. 1..Len(s) \subseteq 1..(Len(s) + Len(t))
  BY <1>1
<1>5. ToSet(s \o t) \subseteq ToSet(s) \cup ToSet(t)
  <2>1. SUFFICES ASSUME NEW i \in 1..(Len(s) + Len(t))
                 PROVE  (s \o t)[i] \in ToSet(s) \cup ToSet(t)
    BY <1>1 DEF ToSet
  <2> QED
    BY <1>1, <1>2, <1>3 DEF ToSet
<1>6. ToSet(s) \cup ToSet(t) \subseteq ToSet(s \o t)
  BY <1>1, <1>2, <1>4, Zenon DEF ToSet
<1> QED
  BY <1>1, <1>5, <1>6

\* Where the elements of two lists are when they are joined.
LEMMA JoinedPlaces ==
    ASSUME NEW V, NEW s \in Seq(V), NEW t \in Seq(V)
    PROVE  /\ Len(s \o t) = Len(s) + Len(t) /\ Len(s) \in Nat /\ Len(t) \in Nat
           /\ \A p \in 1..Len(s) : (s \o t)[p] = s[p] /\ s[p] \in ToSet(s)
           /\ \A p \in (Len(s) + 1)..(Len(s) + Len(t)) :
                 (s \o t)[p] = t[p - Len(s)] /\ t[p - Len(s)] \in ToSet(t)
<1>1. /\ Len(s \o t) = Len(s) + Len(t) /\ Len(s) \in Nat /\ Len(t) \in Nat
      /\ DOMAIN s = 1..Len(s) /\ DOMAIN t = 1..Len(t)
      /\ \A p \in 1..Len(s) : (s \o t)[p] = s[p]
      /\ \A p \in (Len(s) + 1)..(Len(s) + Len(t)) : (s \o t)[p] = t[p - Len(s)]
  OBVIOUS
<1>2. \A p \in (Len(s) + 1)..(Len(s) + Len(t)) : p - Len(s) \in 1..Len(t)
  BY <1>1
<1> QED
  BY <1>1, <1>2 DEF ToSet

\* u is s and then t, with the places counted in each list.
Joined(u, s, t, V) ==
    /\ u \in Seq(V) /\ Len(u) = Len(s) + Len(t) /\ Len(s) \in Nat /\ Len(t) \in Nat
    /\ \A n \in 1..Len(s) : u[n] = s[n]
    /\ \A n \in 1..Len(t) : u[Len(s) + n] = t[n]

\* Two lists joined are that.
LEMMA JoinedAt ==
    ASSUME NEW V, NEW s \in Seq(V), NEW t \in Seq(V)
    PROVE  Joined(s \o t, s, t, V)
<1>1. s \o t \in Seq(V)
  BY JoinedElements
<1>2. /\ Len(s \o t) = Len(s) + Len(t) /\ Len(s) \in Nat /\ Len(t) \in Nat
      /\ \A n \in 1..Len(s) : (s \o t)[n] = s[n]
      /\ \A p \in (Len(s) + 1)..(Len(s) + Len(t)) : (s \o t)[p] = t[p - Len(s)]
  BY JoinedPlaces
<1>3. \A n \in 1..Len(t) : Len(s) + n \in (Len(s) + 1)..(Len(s) + Len(t))
                           /\ Len(s) + n - Len(s) = n
  BY <1>2
<1> QED
  BY <1>1, <1>2, <1>3 DEF Joined

\* A list written out, with one element more.
LEMMA FourAndOne ==
    ASSUME NEW a, NEW b, NEW c, NEW d, NEW e
    PROVE  <<a, b, c, d>> \o <<e>> = <<a, b, c, d, e>>
<1> DEFINE V == {a, b, c, d, e}
           q == <<a, b, c, d>>
           s == q \o <<e>>
           t == <<a, b, c, d, e>>
<1>1. /\ q \in Seq(V) /\ <<e>> \in Seq(V) /\ Len(q) = 4 /\ Len(<<e>>) = 1 /\ <<e>>[1] = e
      /\ q[1] = a /\ q[2] = b /\ q[3] = c /\ q[4] = d
  OBVIOUS
<1>2. t \in Seq(V) /\ Len(t) = 5 /\ t[1] = a /\ t[2] = b /\ t[3] = c /\ t[4] = d /\ t[5] = e
  OBVIOUS
<1>3. s \in Seq(V) /\ Len(s) = 5
  BY <1>1
<1>4. s[1] = q[1] /\ s[2] = q[2] /\ s[3] = q[3] /\ s[4] = q[4] /\ s[5] = e
  BY <1>1
<1> HIDE DEF s, t
<1>5. \A i \in 1..5 : s[i] = t[i]
  BY <1>1, <1>2, <1>4
<1>6. s = t
  BY <1>2, <1>3, <1>5
<1> QED
  BY <1>6 DEF s, t, q

\* The same of two.
LEMMA TwoAndOne ==
    ASSUME NEW a, NEW b, NEW c
    PROVE  <<a, b>> \o <<c>> = <<a, b, c>>
<1> DEFINE V == {a, b, c}
           q == <<a, b>>
           s == q \o <<c>>
           t == <<a, b, c>>
<1>1. /\ q \in Seq(V) /\ <<c>> \in Seq(V) /\ Len(q) = 2 /\ Len(<<c>>) = 1 /\ <<c>>[1] = c
      /\ q[1] = a /\ q[2] = b
  OBVIOUS
<1>2. t \in Seq(V) /\ Len(t) = 3 /\ t[1] = a /\ t[2] = b /\ t[3] = c
  OBVIOUS
<1>3. s \in Seq(V) /\ Len(s) = 3 /\ s[1] = q[1] /\ s[2] = q[2] /\ s[3] = c
  BY <1>1
<1> HIDE DEF s, t
<1>4. \A i \in 1..3 : s[i] = t[i]
  BY <1>1, <1>2, <1>3
<1>5. s = t
  BY <1>2, <1>3, <1>4
<1> QED
  BY <1>5 DEF s, t, q

\* Two lists of one element.
LEMMA OneAndOne ==
    ASSUME NEW a, NEW b
    PROVE  <<a>> \o <<b>> = <<a, b>>
<1> DEFINE V == {a, b}
           s == <<a>> \o <<b>>
           t == <<a, b>>
<1>1. /\ <<a>> \in Seq(V) /\ <<b>> \in Seq(V) /\ Len(<<a>>) = 1 /\ Len(<<b>>) = 1
      /\ <<a>>[1] = a /\ <<b>>[1] = b
  OBVIOUS
<1>2. t \in Seq(V) /\ Len(t) = 2 /\ t[1] = a /\ t[2] = b
  OBVIOUS
<1>3. s \in Seq(V) /\ Len(s) = 2 /\ s[1] = a /\ s[2] = b
  BY <1>1
<1> HIDE DEF s, t
<1>4. \A i \in 1..2 : s[i] = t[i]
  BY <1>2, <1>3
<1>5. s = t
  BY <1>2, <1>3, <1>4
<1> QED
  BY <1>5 DEF s, t

\* A list is one of its own elements.
LEMMA OwnElements ==
    ASSUME NEW V, NEW s \in Seq(V)
    PROVE  s \in Seq(ToSet(s))
<1>1. /\ Len(s) \in Nat /\ DOMAIN s = 1..Len(s) /\ s = [i \in 1..Len(s) |-> s[i]]
  OBVIOUS
<1>2. \A i \in 1..Len(s) : s[i] \in ToSet(s)
  BY <1>1 DEF ToSet
<1> QED
  BY <1>1, <1>2

\* Two elements and a list.
TwoThen(V, a, b, s, t) ==
    /\ t \in Seq(V) /\ Len(t) = Len(s) + 2 /\ Len(s) \in Nat
    /\ t[1] = a /\ t[2] = b
    /\ \A n \in 3..Len(t) : t[n] \in ToSet(s)

\* Two elements before a list.
LEMMA AfterTwo ==
    ASSUME NEW V, NEW a \in V, NEW b \in V, NEW s \in Seq(V), NEW t, t = <<a, b>> \o s
    PROVE  TwoThen(V, a, b, s, t)
<1>1. <<a, b>> \in Seq(V) /\ Len(<<a, b>>) = 2 /\ <<a, b>>[1] = a /\ <<a, b>>[2] = b
  OBVIOUS
<1>2. Len(s) \in Nat /\ DOMAIN s = 1..Len(s)
  OBVIOUS
<1>3. t \in Seq(V) /\ Len(t) = Len(s) + 2
  BY <1>1, <1>2
<1>5. t[1] = a /\ t[2] = b
  BY <1>1, <1>2
<1>4. \A n \in 3..Len(t) : t[n] = s[n - 2] /\ n - 2 \in DOMAIN s
  BY <1>1, <1>2, <1>3
<1> QED
  BY <1>2, <1>3, <1>5, <1>4 DEF ToSet, TwoThen

\* One element before another and a list.
LEMMA AfterOneAndOne ==
    ASSUME NEW V, NEW a \in V, NEW b \in V, NEW s \in Seq(V),
           NEW u, u = <<b>> \o s, NEW t, t = <<a>> \o u
    PROVE  TwoThen(V, a, b, s, t)
<1>1. /\ <<a>> \in Seq(V) /\ Len(<<a>>) = 1 /\ <<a>>[1] = a
      /\ <<b>> \in Seq(V) /\ Len(<<b>>) = 1 /\ <<b>>[1] = b
      /\ Len(s) \in Nat /\ DOMAIN s = 1..Len(s)
  OBVIOUS
<1>2. /\ u \in Seq(V) /\ Len(u) = Len(s) + 1 /\ u[1] = b
      /\ \A n \in 2..Len(u) : u[n] = s[n - 1] /\ n - 1 \in DOMAIN s
  BY <1>1
<1>3. /\ t \in Seq(V) /\ Len(t) = Len(u) + 1 /\ t[1] = a
      /\ \A n \in 2..Len(t) : t[n] = u[n - 1] /\ n - 1 \in 1..Len(u)
  BY <1>1, <1>2
<1>4. Len(t) = Len(s) + 2 /\ t[2] = b
  <2>1. 2 \in 2..Len(t)
    BY <1>1, <1>2, <1>3
  <2> QED
    BY <1>1, <1>2, <1>3, <2>1
<1>5. ASSUME NEW n \in 3..Len(t)
      PROVE  t[n] \in ToSet(s)
  <2>1. n \in 2..Len(t) /\ n - 1 \in 2..Len(u)
    BY <1>1, <1>2, <1>3
  <2>2. t[n] = s[(n - 1) - 1] /\ (n - 1) - 1 \in DOMAIN s
    BY <1>2, <1>3, <2>1
  <2> QED
    BY <2>2 DEF ToSet
<1> QED
  BY <1>1, <1>3, <1>4, <1>5 DEF TwoThen

\* Four lists one after the other.
Grouped(V, a, b, c, d, s) ==
    /\ s \in Seq(V)
    /\ Len(a) \in Nat /\ Len(b) \in Nat /\ Len(c) \in Nat /\ Len(d) \in Nat
    /\ Len(s) = Len(a) + Len(b) + Len(c) + Len(d)
    /\ ToSet(s) = ToSet(a) \cup ToSet(b) \cup ToSet(c) \cup ToSet(d)
    /\ \A p \in 1..Len(s) :
          \/ p <= Len(a) /\ s[p] \in ToSet(a)
          \/ Len(a) < p /\ p <= Len(a) + Len(b) /\ s[p] \in ToSet(b)
          \/ Len(a) + Len(b) < p /\ p <= Len(a) + Len(b) + Len(c) /\ s[p] \in ToSet(c)
          \/ Len(a) + Len(b) + Len(c) < p /\ s[p] \in ToSet(d)

\* Four lists joined are grouped as they were.
LEMMA FourGroups ==
    ASSUME NEW V, NEW a \in Seq(V), NEW b \in Seq(V), NEW c \in Seq(V), NEW d \in Seq(V)
    PROVE  Grouped(V, a, b, c, d, a \o b \o c \o d)
<1> DEFINE ab == a \o b
           abc == ab \o c
           s == abc \o d
<1>1. ab \in Seq(V) /\ ToSet(ab) = ToSet(a) \cup ToSet(b)
  BY JoinedElements
<1>2. /\ Len(ab) = Len(a) + Len(b) /\ Len(a) \in Nat /\ Len(b) \in Nat
      /\ \A p \in 1..Len(a) : ab[p] = a[p] /\ a[p] \in ToSet(a)
      /\ \A p \in (Len(a) + 1)..(Len(a) + Len(b)) :
            ab[p] = b[p - Len(a)] /\ b[p - Len(a)] \in ToSet(b)
  BY JoinedPlaces
<1> HIDE DEF ab
<1>3. abc \in Seq(V) /\ ToSet(abc) = ToSet(ab) \cup ToSet(c)
  BY <1>1, JoinedElements
<1>4. /\ Len(abc) = Len(ab) + Len(c) /\ Len(c) \in Nat
      /\ \A p \in 1..Len(ab) : abc[p] = ab[p] /\ ab[p] \in ToSet(ab)
      /\ \A p \in (Len(ab) + 1)..(Len(ab) + Len(c)) :
            abc[p] = c[p - Len(ab)] /\ c[p - Len(ab)] \in ToSet(c)
  BY <1>1, JoinedPlaces
<1> HIDE DEF abc
<1>5. s \in Seq(V) /\ ToSet(s) = ToSet(abc) \cup ToSet(d)
  BY <1>3, JoinedElements
<1>6. /\ Len(s) = Len(abc) + Len(d) /\ Len(d) \in Nat
      /\ \A p \in 1..Len(abc) : s[p] = abc[p] /\ abc[p] \in ToSet(abc)
      /\ \A p \in (Len(abc) + 1)..(Len(abc) + Len(d)) :
            s[p] = d[p - Len(abc)] /\ d[p - Len(abc)] \in ToSet(d)
  BY <1>3, JoinedPlaces
<1>7. s = a \o b \o c \o d
  BY DEF ab, abc
<1> HIDE DEF s
<1>8. ASSUME NEW p \in 1..Len(s)
      PROVE  \/ p <= Len(a) /\ s[p] \in ToSet(a)
             \/ Len(a) < p /\ p <= Len(a) + Len(b) /\ s[p] \in ToSet(b)
             \/ /\ Len(a) + Len(b) < p /\ p <= Len(a) + Len(b) + Len(c)
                /\ s[p] \in ToSet(c)
             \/ Len(a) + Len(b) + Len(c) < p /\ s[p] \in ToSet(d)
  <2>1. CASE p <= Len(a)
    <3>1. p \in 1..Len(a) /\ p \in 1..Len(ab) /\ p \in 1..Len(abc)
      BY <1>2, <1>4, <2>1
    <3> QED
      BY <1>2, <1>4, <1>6, <2>1, <3>1
  <2>2. CASE Len(a) < p /\ p <= Len(a) + Len(b)
    <3>1. /\ p \in (Len(a) + 1)..(Len(a) + Len(b)) /\ p \in 1..Len(ab) /\ p \in 1..Len(abc)
      BY <1>2, <1>4, <2>2
    <3> QED
      BY <1>2, <1>4, <1>6, <2>2, <3>1
  <2>3. CASE Len(a) + Len(b) < p /\ p <= Len(a) + Len(b) + Len(c)
    <3>1. p \in (Len(ab) + 1)..(Len(ab) + Len(c)) /\ p \in 1..Len(abc)
      BY <1>2, <1>4, <2>3
    <3> QED
      BY <1>2, <1>4, <1>6, <2>3, <3>1
  <2>4. CASE Len(a) + Len(b) + Len(c) < p
    <3>1. p \in (Len(abc) + 1)..(Len(abc) + Len(d))
      BY <1>2, <1>4, <1>6, <2>4
    <3> QED
      BY <1>2, <1>4, <1>6, <2>4, <3>1
  <2> QED
    BY <1>2, <1>4, <2>1, <2>2, <2>3, <2>4
<1>9. Len(s) = Len(a) + Len(b) + Len(c) + Len(d)
  BY <1>2, <1>4, <1>6
<1>10. ToSet(s) = ToSet(a) \cup ToSet(b) \cup ToSet(c) \cup ToSet(d)
  BY <1>1, <1>3, <1>5
<1> QED
  <2>1. Grouped(V, a, b, c, d, s)
    BY <1>2, <1>4, <1>5, <1>6, <1>8, <1>9, <1>10 DEF Grouped
  <2> QED
    BY <1>7, <2>1

\* What Pick has after each place of the list.
Picks(picked, s, I) ==
    /\ picked[0] = <<>>
    /\ \A n \in 1..Len(s) :
          picked[n] = IF n \in I THEN Append(picked[n - 1], s[n]) ELSE picked[n - 1]

\* Picking goes element by element.
LEMMA PickSteps ==
    ASSUME NEW V, NEW s \in Seq(V), NEW I \in SUBSET DOMAIN s
    PROVE  \E picked : Picks(picked, s, I) /\ Pick(s, I) = picked[Len(s)]
<1> DEFINE k == Len(s)
           G == [x \in Seq(V) \X (1..k) |-> IF x[2] \in I THEN Append(x[1], s[x[2]]) ELSE x[1]]
           Step(t) == [n \in 0..k |->
                          IF n = 0 THEN <<>>
                          ELSE IF n \in I THEN Append(t[n - 1], s[n]) ELSE t[n - 1]]
           picked == CHOOSE t : t = Step(t)
<1>1. k \in Nat /\ I \subseteq 1..k /\ \A n \in 1..k : s[n] \in V
  OBVIOUS
<1> HIDE DEF k
<1>2. G \in [Seq(V) \X (1..k) -> Seq(V)]
  BY <1>1
<1>3. \A x \in Seq(V), n \in 1..k :
         G[<<x, n>>] = IF n \in I THEN Append(x, s[n]) ELSE x
  OBVIOUS
<1> HIDE DEF G
<1>4. <<>> \in Seq(V)
  OBVIOUS
<1>5. PICK t : Computes(t, k, Seq(V), <<>>, G)
  BY <1>1, <1>2, <1>4, StepByStep
<1>6. t = Step(t)
  <2>1. t \in [0..k -> Seq(V)] /\ t[0] = <<>> /\ \A n \in 1..k : t[n] = G[<<t[n - 1], n>>]
    BY <1>5 DEF Computes
  <2>2. \A n \in 1..k : n - 1 \in 0..k
    BY <1>1
  <2>3. \A n \in 1..k : t[n - 1] \in Seq(V)
    BY <2>1, <2>2
  <2>4. \A n \in 1..k : t[n] = IF n \in I THEN Append(t[n - 1], s[n]) ELSE t[n - 1]
    BY <1>3, <2>1, <2>3
  <2>5. \A n \in 0..k : n = 0 \/ n \in 1..k
    BY <1>1
  <2> QED
    BY <2>1, <2>4, <2>5
<1>7. picked = Step(picked)
  BY <1>6
<1> HIDE DEF picked
<1>8. picked[0] = <<>>
  BY <1>1, <1>7
<1>9. ASSUME NEW n \in 1..k
      PROVE  picked[n] = IF n \in I THEN Append(picked[n - 1], s[n]) ELSE picked[n - 1]
  <2>1. n \in 0..k /\ n # 0
    BY <1>1
  <2> QED
    BY <1>7, <2>1
<1>10. Pick(s, I) = picked[k]
  BY DEF Pick, picked, k
<1> QED
  BY <1>8, <1>9, <1>10 DEF Picks, k

\* Pick has exactly the elements at the places given.
LEMMA PickedElements ==
    ASSUME NEW V, NEW s \in Seq(V), NEW I \in SUBSET DOMAIN s
    PROVE  Pick(s, I) \in Seq(V) /\ ToSet(Pick(s, I)) = { s[i] : i \in I }
<1> DEFINE k == Len(s)
<1>1. k \in Nat /\ I \subseteq 1..k /\ \A n \in 1..k : s[n] \in V
  OBVIOUS
<1>2. PICK picked : Picks(picked, s, I) /\ Pick(s, I) = picked[k]
  BY PickSteps
<1>3. /\ picked[0] = <<>>
      /\ \A n \in 1..k :
            picked[n] = IF n \in I THEN Append(picked[n - 1], s[n]) ELSE picked[n - 1]
  BY <1>2 DEF Picks
<1> HIDE DEF k
<1> DEFINE Image(n) == { s[i] : i \in I \cap 1..n }
           S == { n \in 0..k : picked[n] \in Seq(V) /\ ToSet(picked[n]) = Image(n) }
<1>4. 0 \in S
  <2>1. ToSet(<<>>) = {} /\ Image(0) = {} /\ <<>> \in Seq(V)
    BY DEF ToSet
  <2>2. 0 \in 0..k
    BY <1>1
  <2> HIDE DEF Image
  <2> QED
    BY <1>3, <2>1, <2>2
<1>5. ASSUME NEW n \in 1..k, n - 1 \in S
      PROVE  n \in S
  <2>1. picked[n - 1] \in Seq(V) /\ ToSet(picked[n - 1]) = Image(n - 1) /\ n \in 0..k
    BY <1>1, <1>5
  <2>2. 1..n = 1..(n - 1) \cup {n}
    BY <1>1
  <2>3. CASE n \in I
    <3>1. picked[n] = Append(picked[n - 1], s[n])
      BY <1>3, <2>3
    <3>2. Image(n) = Image(n - 1) \cup {s[n]}
      BY <2>2, <2>3
    <3> HIDE DEF Image
    <3>3. picked[n] \in Seq(V) /\ ToSet(picked[n]) = Image(n)
      BY <1>1, <2>1, <3>1, <3>2, AppendedElements
    <3> QED
      BY <2>1, <3>3
  <2>4. CASE n \notin I
    <3>1. picked[n] = picked[n - 1]
      BY <1>3, <2>4
    <3>2. Image(n) = Image(n - 1)
      BY <2>2, <2>4
    <3> QED
      BY <2>1, <3>1, <3>2
  <2> QED
    BY <2>3, <2>4
<1>6. k \in S
  <2> HIDE DEF S
  <2>1. 0..k \subseteq S
    BY <1>1, <1>4, <1>5, UpTo
  <2> QED
    BY <1>1, <2>1
<1>7. I \cap 1..k = I
  BY <1>1
<1> QED
  BY <1>2, <1>6, <1>7

\* It has one element for each place.
LEMMA PickedLength ==
    ASSUME NEW V, NEW s \in Seq(V), NEW I \in SUBSET DOMAIN s
    PROVE  IsFiniteSet(I) /\ Len(Pick(s, I)) = Cardinality(I)
<1> DEFINE k == Len(s)
<1>1. k \in Nat /\ I \subseteq 1..k /\ \A n \in 1..k : s[n] \in V
  OBVIOUS
<1>2. PICK picked : Picks(picked, s, I) /\ Pick(s, I) = picked[k]
  BY PickSteps
<1>3. /\ picked[0] = <<>>
      /\ \A n \in 1..k :
            picked[n] = IF n \in I THEN Append(picked[n - 1], s[n]) ELSE picked[n - 1]
  BY <1>2 DEF Picks
<1> HIDE DEF k
<1> DEFINE Upto(n) == I \cap 1..n
           S == { n \in 0..k : /\ picked[n] \in Seq(V)
                               /\ IsFiniteSet(Upto(n)) /\ Len(picked[n]) = Cardinality(Upto(n)) }
<1>4. 0 \in S
  <2>1. Upto(0) = {} /\ <<>> \in Seq(V) /\ Len(<<>>) = 0
    OBVIOUS
  <2>2. 0 \in 0..k
    BY <1>1
  <2> HIDE DEF Upto
  <2> QED
    BY <1>3, <2>1, <2>2, FS_EmptySet
<1>5. ASSUME NEW n \in 1..k, n - 1 \in S
      PROVE  n \in S
  <2>1. /\ picked[n - 1] \in Seq(V) /\ IsFiniteSet(Upto(n - 1)) /\ n \in 0..k
        /\ Len(picked[n - 1]) = Cardinality(Upto(n - 1))
    BY <1>1, <1>5
  <2>2. 1..n = 1..(n - 1) \cup {n} /\ n \notin 1..(n - 1)
    BY <1>1
  <2>3. CASE n \in I
    <3>1. picked[n] = Append(picked[n - 1], s[n]) /\ s[n] \in V
      BY <1>1, <1>3, <2>3
    <3>2. Upto(n) = Upto(n - 1) \cup {n} /\ n \notin Upto(n - 1)
      BY <2>2, <2>3
    <3> HIDE DEF Upto
    <3>3. IsFiniteSet(Upto(n)) /\ Cardinality(Upto(n)) = Cardinality(Upto(n - 1)) + 1
      BY <2>1, <3>2, FS_AddElement
    <3>4. picked[n] \in Seq(V) /\ Len(picked[n]) = Len(picked[n - 1]) + 1
      BY <2>1, <3>1
    <3> QED
      BY <2>1, <3>3, <3>4
  <2>4. CASE n \notin I
    <3>1. picked[n] = picked[n - 1]
      BY <1>3, <2>4
    <3>2. Upto(n) = Upto(n - 1)
      BY <2>2, <2>4
    <3> QED
      BY <2>1, <3>1, <3>2
  <2> QED
    BY <2>3, <2>4
<1>6. k \in S
  <2> HIDE DEF S
  <2>1. 0..k \subseteq S
    BY <1>1, <1>4, <1>5, UpTo
  <2> QED
    BY <1>1, <2>1
<1>7. I \cap 1..k = I
  BY <1>1
<1> QED
  BY <1>2, <1>6, <1>7

\* Nothing is picked from no places, one element from one place, and so back.
LEMMA PickedFew ==
    ASSUME NEW V, NEW s \in Seq(V), NEW I \in SUBSET DOMAIN s
    PROVE  /\ Pick(s, I) = <<>> <=> I = {}
           /\ Len(Pick(s, I)) = 0 <=> I = {}
           /\ \A i : I = {i} => Pick(s, I) = <<s[i]>>
           /\ Len(Pick(s, I)) = 1 => \E i \in I : I = {i}
<1> DEFINE p == Pick(s, I)
<1>1. p \in Seq(V) /\ ToSet(p) = { s[i] : i \in I }
  BY PickedElements
<1>2. IsFiniteSet(I) /\ Len(p) = Cardinality(I)
  BY PickedLength
<1> HIDE DEF p
<1>3. Len(p) = 0 <=> I = {}
  BY <1>2, FS_EmptySet
<1>4. p = <<>> <=> Len(p) = 0
  BY <1>1
<1>5. ASSUME NEW i, I = {i}
      PROVE  p = <<s[i]>>
  <2>1. Len(p) = 1
    BY <1>2, <1>5, FS_Singleton
  <2>2. 1 \in DOMAIN p /\ p = <<p[1]>>
    BY <1>1, <2>1
  <2>3. p[1] \in ToSet(p)
    BY <2>2 DEF ToSet
  <2> QED
    BY <1>1, <1>5, <2>2, <2>3
<1>6. Len(p) = 1 => \E i \in I : I = {i}
  BY <1>2, FS_Singleton
<1> QED
  BY <1>3, <1>4, <1>5, <1>6 DEF p

\* What is picked from places next to each other is that part of the list.
LEMMA PickedBlock ==
    ASSUME NEW V, NEW s \in Seq(V), NEW a \in Nat, NEW b \in Nat, a + b <= Len(s)
    PROVE  Pick(s, (a + 1)..(a + b)) = [i \in 1..b |-> s[a + i]]
<1> DEFINE k == Len(s)
           I == (a + 1)..(a + b)
           Held(n) == IF n <= a THEN 0 ELSE IF n <= a + b THEN n - a ELSE b
           Block(h) == [i \in 1..h |-> s[a + i]]
<1>1. k \in Nat /\ I \in SUBSET DOMAIN s /\ \A n \in 1..k : s[n] \in V
  OBVIOUS
<1>2. PICK picked : Picks(picked, s, I) /\ Pick(s, I) = picked[k]
  BY <1>1, PickSteps
<1>3. /\ picked[0] = <<>>
      /\ \A n \in 1..k :
            picked[n] = IF n \in I THEN Append(picked[n - 1], s[n]) ELSE picked[n - 1]
  BY <1>2 DEF Picks
<1>4. ASSUME NEW h \in Nat, a + h + 1 <= k
      PROVE  Append(Block(h), s[a + h + 1]) = Block(h + 1)
  <2>1. Block(h) \in Seq(V) /\ Block(h + 1) \in Seq(V) /\ s[a + h + 1] \in V
    BY <1>1, <1>4
  <2>2. Len(Block(h)) = h /\ Len(Block(h + 1)) = h + 1
    OBVIOUS
  <2>3. \A i \in 1..(h + 1) : Append(Block(h), s[a + h + 1])[i] = Block(h + 1)[i]
    BY <2>1, <2>2
  <2> HIDE DEF Block
  <2> QED
    BY <2>1, <2>2, <2>3
<1>5. Block(0) = <<>>
  OBVIOUS
<1> HIDE DEF k, Block
<1> DEFINE S == { n \in 0..k : picked[n] = Block(Held(n)) }
<1>6. 0 \in S
  BY <1>1, <1>3, <1>5
<1>7. ASSUME NEW n \in 1..k, n - 1 \in S
      PROVE  n \in S
  <2>1. CASE n \in I
    <3>1. n - a - 1 \in Nat /\ Held(n - 1) = n - a - 1 /\ Held(n) = n - a /\ n \in 0..k
      BY <1>1, <2>1
    <3>2. picked[n] = Append(Block(n - a - 1), s[n])
      BY <1>3, <1>7, <2>1, <3>1
    <3>3. Append(Block(n - a - 1), s[n]) = Block(n - a)
      <4>1. a + (n - a - 1) + 1 = n /\ (n - a - 1) + 1 = n - a /\ n <= k
        BY <1>1
      <4> HIDE DEF I, Held
      <4> QED
        BY <1>4, <3>1, <4>1
    <3> QED
      BY <3>1, <3>2, <3>3
  <2>2. CASE n \notin I
    <3>1. Held(n) = Held(n - 1) /\ n \in 0..k
      BY <1>1, <2>2
    <3> QED
      BY <1>3, <1>7, <2>2, <3>1
  <2> QED
    BY <2>1, <2>2
<1>8. k \in S
  <2> HIDE DEF S
  <2>1. 0..k \subseteq S
    BY <1>1, <1>6, <1>7, UpTo
  <2> QED
    BY <1>1, <2>1
<1>9. Held(k) = b
  BY <1>1 DEF k
<1> QED
  BY <1>2, <1>8, <1>9 DEF Block

\* A flattened list has the elements of its lists.
LEMMA FlattenedElements ==
    ASSUME NEW V, NEW ss \in Seq(Seq(V))
    PROVE  /\ FlattenSeq(ss) \in Seq(V)
           /\ ToSet(FlattenSeq(ss)) = UNION { ToSet(ss[n]) : n \in DOMAIN ss }
<1> DEFINE k == Len(ss)
           G == [x \in Seq(V) \X (1..k) |-> x[1] \o ss[x[2]]]
           Step(t) == [n \in 1..k |-> IF n = 1 THEN ss[n] ELSE t[n - 1] \o ss[n]]
           flatten == CHOOSE t : t = Step(t)
<1>1. k \in Nat /\ DOMAIN ss = 1..k /\ \A n \in 1..k : ss[n] \in Seq(V)
  OBVIOUS
<1>2. CASE k = 0
  <2>1. ss = <<>>
    BY <1>2
  <2> QED
    BY <2>1 DEF FlattenSeq, ToSet
<1>3. CASE k # 0
  <2>1. FlattenSeq(ss) = flatten[k]
    BY <1>3 DEF FlattenSeq
  <2> HIDE DEF k
  <2>2. G \in [Seq(V) \X (1..k) -> Seq(V)]
    BY <1>1
  <2>3. \A x \in Seq(V), n \in 1..k : G[<<x, n>>] = x \o ss[n]
    OBVIOUS
  <2> HIDE DEF G
  <2>4. <<>> \in Seq(V)
    OBVIOUS
  <2>5. PICK t : Computes(t, k, Seq(V), <<>>, G)
    BY <1>1, <2>2, <2>4, StepByStep
  <2> DEFINE u == [n \in 1..k |-> t[n]]
  <2>6. u = Step(u)
    <3>1. t \in [0..k -> Seq(V)] /\ t[0] = <<>> /\ \A n \in 1..k : t[n] = G[<<t[n - 1], n>>]
      BY <2>5 DEF Computes
    <3>2. \A n \in 1..k : n - 1 \in 0..k
      BY <1>1
    <3>3. \A n \in 1..k : t[n - 1] \in Seq(V)
      BY <3>1, <3>2
    <3>4. \A n \in 1..k : t[n] = t[n - 1] \o ss[n]
      BY <2>3, <3>1, <3>3
    <3>5. ASSUME NEW n \in 1..k
          PROVE  u[n] = IF n = 1 THEN ss[n] ELSE u[n - 1] \o ss[n]
      <4>1. CASE n = 1
        <5>1. t[1] = <<>> \o ss[1]
          <6>1. t[n] = t[n - 1] \o ss[n]
            BY <3>4
          <6>2. n - 1 = 0
            BY <4>1
          <6>3. t[n - 1] = <<>>
            BY <3>1, <6>2
          <6> QED
            BY <4>1, <6>1, <6>3
        <5>2. <<>> \o ss[1] = ss[1]
          BY <1>1, <4>1
        <5> QED
          BY <4>1, <5>1, <5>2
      <4>2. CASE n # 1
        <5>1. n - 1 \in 1..k
          BY <1>1, <4>2
        <5> QED
          BY <3>4, <4>2, <5>1
      <4> QED
        BY <4>1, <4>2
    <3> HIDE DEF u
    <3>6. u = [n \in 1..k |-> u[n]]
      BY DEF u
    <3> QED
      BY <3>5, <3>6
  <2>7. flatten = Step(flatten)
    <3> HIDE DEF u
    <3> QED
      BY <2>6
  <2> HIDE DEF flatten
  <2>8. 1 \in 1..k /\ flatten[1] = ss[1]
    BY <1>1, <1>3, <2>7
  <2>9. ASSUME NEW n \in 2..k
        PROVE  flatten[n] = flatten[n - 1] \o ss[n]
    <3>1. n \in 1..k /\ n # 1
      BY <1>1
    <3> QED
      BY <2>7, <3>1
  <2> DEFINE Image(n) == UNION { ToSet(ss[i]) : i \in 1..n }
             S == { n \in 0..k : n # 0 => flatten[n] \in Seq(V) /\ ToSet(flatten[n]) = Image(n) }
  <2>10. 0 \in S
    <3>1. 0 \in 0..k
      BY <1>1
    <3> HIDE DEF Image, k
    <3> QED
      BY <3>1
  <2>11. ASSUME NEW n \in 1..k, n - 1 \in S
         PROVE  n \in S
    <3>1. n \in 0..k
      BY <1>1
    <3>2. CASE n = 1
      <4>1. Image(1) = ToSet(ss[1])
        OBVIOUS
      <4> QED
        BY <1>1, <2>8, <3>1, <3>2, <4>1
    <3>3. CASE n # 1
      <4>1. n \in 2..k /\ n - 1 # 0
        BY <1>1, <3>3
      <4>2. flatten[n - 1] \in Seq(V) /\ ToSet(flatten[n - 1]) = Image(n - 1)
        BY <2>11, <4>1
      <4>3. 1..n = 1..(n - 1) \cup {n}
        BY <1>1
      <4>4. Image(n) = Image(n - 1) \cup ToSet(ss[n])
        BY <4>3
      <4> HIDE DEF Image
      <4>5. flatten[n] = flatten[n - 1] \o ss[n] /\ ss[n] \in Seq(V)
        BY <1>1, <2>9, <4>1
      <4>6. flatten[n] \in Seq(V) /\ ToSet(flatten[n]) = Image(n)
        BY <4>2, <4>4, <4>5, JoinedElements
      <4> QED
        BY <3>1, <4>6
    <3> QED
      BY <3>2, <3>3
  <2>12. k \in S
    <3> HIDE DEF S
    <3>1. 0..k \subseteq S
      BY <1>1, <2>10, <2>11, UpTo
    <3> QED
      BY <1>1, <3>1
  <2> QED
    BY <1>1, <1>3, <2>1, <2>12
<1> QED
  BY <1>2, <1>3

-----------------------------------------------------------------------------
(***************************************************************************)
(* Sums over finite sets.                                                  *)
(***************************************************************************)

\* One element less.
LEMMA OneLess ==
    ASSUME NEW S, IsFiniteSet(S), NEW x \in S, NEW n \in Nat, Cardinality(S) = n + 1
    PROVE  Cardinality(S \ {x}) = n
BY FS_RemoveElement

\* g holds the sum of f over every subset of S.
Sums(g, f, S) ==
    /\ g[{}] = 0
    /\ \A T \in SUBSET S : T # {} =>
          LET x == CHOOSE x \in T : TRUE IN g[T] = f[x] + g[T \ {x}]

\* What SumFunctionOnSet computes are such sums.
LEMMA SumsExist ==
    ASSUME NEW S, IsFiniteSet(S), NEW f, \A x \in S : f[x] \in Nat
    PROVE  \E g : Sums(g, f, S) /\ SumFunctionOnSet(f, S) = g[S]
<1> DEFINE One(T) == CHOOSE x \in T : TRUE
           Body(g, T) == IF T = {} THEN 0 ELSE f[One(T)] + g[T \ {One(T)}]
           Step(g) == [T \in SUBSET S |-> Body(g, T)]
           total == CHOOSE g : g = Step(g)
           Upto(n) == \E g \in [SUBSET S -> Nat] :
                         \A T \in SUBSET S : Cardinality(T) <= n => g[T] = Body(g, T)
           N == { n \in Nat : Upto(n) }
<1>1. \A T \in SUBSET S : T # {} => One(T) \in T /\ T \ {One(T)} \in SUBSET S
  OBVIOUS
<1>2. ASSUME NEW T \in SUBSET S
      PROVE  /\ Cardinality(T) \in Nat
             /\ Cardinality(T) = 0 <=> T = {}
             /\ T # {} => Cardinality(T \ {One(T)}) = Cardinality(T) - 1
  <2>1. IsFiniteSet(T)
    BY FS_Subset
  <2>2. T # {} => One(T) \in T
    BY <1>1
  <2> HIDE DEF One
  <2> QED
    BY <2>1, <2>2, FS_CardinalityType, FS_EmptySet, FS_RemoveElement
<1> HIDE DEF One
<1>3. 0 \in N
  <2> DEFINE g == [T \in SUBSET S |-> 0]
  <2>1. ASSUME NEW T \in SUBSET S, Cardinality(T) <= 0
        PROVE  g[T] = Body(g, T)
    <3>1. T = {}
      <4>1. Cardinality(T) \in Nat /\ (Cardinality(T) = 0 <=> T = {})
        BY <1>2
      <4> QED
        BY <2>1, <4>1
    <3> QED
      BY <3>1
  <2>2. g \in [SUBSET S -> Nat]
    OBVIOUS
  <2> HIDE DEF g, Body
  <2> QED
    BY <2>1, <2>2
<1>4. ASSUME NEW n \in Nat, n \in N
      PROVE  n + 1 \in N
  <2>1. PICK g \in [SUBSET S -> Nat] :
           \A T \in SUBSET S : Cardinality(T) <= n => g[T] = Body(g, T)
    BY <1>4
  <2> DEFINE h == [T \in SUBSET S |-> IF Cardinality(T) <= n THEN g[T] ELSE Body(g, T)]
  <2>2. \A T \in SUBSET S : Body(g, T) \in Nat
    BY <1>1
  <2>3. h \in [SUBSET S -> Nat]
    BY <2>2
  <2>4. ASSUME NEW T \in SUBSET S, Cardinality(T) <= n + 1
        PROVE  h[T] = Body(h, T)
    <3>1. h[T] = Body(g, T)
      BY <2>1
    <3>2. CASE T = {}
      BY <3>1, <3>2
    <3>3. CASE T # {}
      <4> DEFINE V == T \ {One(T)}
      <4>1. V \in SUBSET S /\ Cardinality(V) <= n
        BY <1>1, <1>2, <2>4, <3>3
      <4>2. h[V] = g[V]
        BY <4>1
      <4> HIDE DEF h
      <4> QED
        BY <3>1, <3>3, <4>2
    <3> QED
      BY <3>2, <3>3
  <2> HIDE DEF h, Body
  <2>5. Upto(n + 1)
    BY <2>3, <2>4
  <2> QED
    BY <2>5
<1>5. Upto(Cardinality(S))
  <2>1. Nat \subseteq N
    <3> HIDE DEF N
    <3> QED
      BY <1>3, <1>4, InductiveSet
  <2>2. Cardinality(S) \in Nat
    BY <1>2
  <2> QED
    BY <2>1, <2>2
<1>6. PICK g \in [SUBSET S -> Nat] : \A T \in SUBSET S : g[T] = Body(g, T)
  <2>1. \A T \in SUBSET S : Cardinality(T) <= Cardinality(S)
    BY FS_Subset
  <2> HIDE DEF Body
  <2> QED
    BY <1>5, <2>1
<1>7. g = Step(g)
  <2> HIDE DEF Body
  <2> QED
    BY <1>6
<1>8. total = Step(total)
  <2> HIDE DEF Body
  <2> QED
    BY <1>7
<1>9. SumFunctionOnSet(f, S) = total[S]
  BY DEF SumFunctionOnSet, FoldFunctionOnSet, MapThenFoldSet, One
<1> HIDE DEF total
<1>10. \A T \in SUBSET S : total[T] = Body(total, T)
  <2> HIDE DEF Body
  <2> QED
    BY <1>8
<1>11. total[{}] = 0
  BY <1>10
<1>12. Sums(total, f, S)
  BY <1>10, <1>11 DEF Sums, One
<1> QED
  BY <1>9, <1>12

\* The sum of what is nowhere greater is not greater.
LEMMA SumsCompared ==
    ASSUME NEW S, NEW T, NEW U, IsFiniteSet(U), U \subseteq S, U \subseteq T,
           NEW f, NEW f2, NEW g, NEW h, Sums(g, f, S), Sums(h, f2, T),
           \A x \in U : f[x] \in Nat /\ f2[x] \in Nat /\ f[x] <= f2[x]
    PROVE  g[U] \in Nat /\ h[U] \in Nat /\ g[U] <= h[U]
<1> DEFINE Good(V) == g[V] \in Nat /\ h[V] \in Nat /\ g[V] <= h[V]
           N == { n \in Nat : \A V \in SUBSET U : Cardinality(V) = n => Good(V) }
<1>1. \A V \in SUBSET U : IsFiniteSet(V) /\ Cardinality(V) \in Nat
  BY FS_Subset, FS_CardinalityType
<1>2. 0 \in N
  <2>1. Good({})
    BY DEF Sums
  <2>2. \A V \in SUBSET U : Cardinality(V) = 0 => V = {}
    BY <1>1, FS_EmptySet
  <2> HIDE DEF Good
  <2> QED
    BY <2>1, <2>2
<1>3. ASSUME NEW n \in Nat, n \in N
      PROVE  n + 1 \in N
  <2>1. ASSUME NEW V \in SUBSET U, Cardinality(V) = n + 1
        PROVE  Good(V)
    <3> DEFINE x == CHOOSE x \in V : TRUE
               W == V \ {x}
    <3>1. V # {}
      BY <2>1, FS_EmptySet
    <3>2. x \in V /\ V \in SUBSET S /\ V \in SUBSET T
      BY <3>1
    <3>3. g[V] = f[x] + g[W] /\ h[V] = f2[x] + h[W]
      BY <3>1, <3>2 DEF Sums
    <3> HIDE DEF x
    <3>4. W \in SUBSET U /\ Cardinality(W) = n
      BY <1>1, <2>1, <3>2, OneLess
    <3>5. Good(W)
      <4> HIDE DEF Good, W
      <4> QED
        BY <1>3, <3>4
    <3>6. f[x] \in Nat /\ f2[x] \in Nat /\ f[x] <= f2[x]
      BY <3>2
    <3> HIDE DEF W
    <3> QED
      BY <3>3, <3>5, <3>6
  <2> HIDE DEF Good
  <2> QED
    BY <2>1
<1>4. Cardinality(U) \in N
  <2>1. Nat \subseteq N
    <3> HIDE DEF N
    <3> QED
      BY <1>2, <1>3, InductiveSet
  <2> QED
    BY <1>1, <2>1
<1> HIDE DEF Good
<1>5. Good(U)
  BY <1>4
<1> QED
  BY <1>5 DEF Good

\* The same, said of the sums themselves.
LEMMA SumCompared ==
    ASSUME NEW S, IsFiniteSet(S), NEW f, NEW f2,
           \A x \in S : f[x] \in Nat /\ f2[x] \in Nat /\ f[x] <= f2[x]
    PROVE  /\ SumFunctionOnSet(f, S) \in Nat /\ SumFunctionOnSet(f2, S) \in Nat
           /\ SumFunctionOnSet(f, S) <= SumFunctionOnSet(f2, S)
<1>1. PICK g : Sums(g, f, S) /\ SumFunctionOnSet(f, S) = g[S]
  BY SumsExist
<1>2. PICK h : Sums(h, f2, S) /\ SumFunctionOnSet(f2, S) = h[S]
  BY SumsExist
<1>3. g[S] \in Nat /\ h[S] \in Nat /\ g[S] <= h[S]
  <2>1. S \subseteq S
    OBVIOUS
  <2> QED
    BY <1>1, <1>2, <2>1, SumsCompared, Zenon
<1> QED
  BY <1>1, <1>2, <1>3

\* A sum is its terms taken out one at a time, whichever is taken out first.
LEMMA SumTakeOut ==
    ASSUME NEW S, IsFiniteSet(S), NEW f, \A y \in S : f[y] \in Nat, NEW x \in S
    PROVE  SumFunctionOnSet(f, S) = f[x] + SumFunctionOnSet(f, S \ {x})
<1> DEFINE Sum(V) == SumFunctionOnSet(f, V)
           Good(V) == \A y \in V : Sum(V) = f[y] + Sum(V \ {y})
           N == { n \in Nat : \A V \in SUBSET S : Cardinality(V) = n => Good(V) }
<1>1. \A V \in SUBSET S : IsFiniteSet(V) /\ Cardinality(V) \in Nat
  BY FS_Subset, FS_CardinalityType
<1>2. \A V \in SUBSET S : Sum(V) \in Nat
  BY <1>1, SumCompared
<1>3. ASSUME NEW V \in SUBSET S, V # {}
      PROVE  \E y \in V : Sum(V) = f[y] + Sum(V \ {y})
  <2> DEFINE y == CHOOSE y \in V : TRUE
             W == V \ {y}
  <2>1. y \in V
    BY <1>3
  <2>2. PICK g : Sums(g, f, V) /\ Sum(V) = g[V]
    BY <1>1, SumsExist
  <2>3. g[V] = f[y] + g[W]
    BY <1>3, <2>2 DEF Sums
  <2> HIDE DEF y
  <2>4. W \in SUBSET S /\ W \subseteq V
    OBVIOUS
  <2> HIDE DEF W
  <2>5. PICK h : Sums(h, f, W) /\ Sum(W) = h[W]
    BY <1>1, <2>4, SumsExist
  <2>6. IsFiniteSet(W) /\ W \subseteq W
    BY <1>1, <2>4
  <2>7. \A z \in W : f[z] \in Nat /\ f[z] <= f[z]
    BY <2>4
  <2>8. g[W] \in Nat /\ h[W] \in Nat /\ g[W] <= h[W]
    BY <2>2, <2>4, <2>5, <2>6, <2>7, SumsCompared, Zenon
  <2>9. h[W] <= g[W]
    BY <2>2, <2>4, <2>5, <2>6, <2>7, SumsCompared, Zenon
  <2>10. g[W] = h[W]
    BY <2>8, <2>9
  <2>11. Sum(V) = f[y] + Sum(W)
    BY <2>2, <2>3, <2>5, <2>10
  <2> HIDE DEF Sum
  <2> QED
    BY <2>1, <2>11 DEF W
<1> HIDE DEF Sum
<1>4. 0 \in N
  <2>1. \A V \in SUBSET S : Cardinality(V) = 0 => V = {}
    BY <1>1, FS_EmptySet
  <2> QED
    BY <2>1
<1>5. ASSUME NEW n \in Nat, n \in N
      PROVE  n + 1 \in N
  <2>1. ASSUME NEW V \in SUBSET S, Cardinality(V) = n + 1, NEW y \in V
        PROVE  Sum(V) = f[y] + Sum(V \ {y})
    <3>1. PICK z \in V : Sum(V) = f[z] + Sum(V \ {z})
      BY <1>3
    <3>2. CASE z = y
      BY <3>1, <3>2
    <3>3. CASE z # y
      <4> DEFINE Y == V \ {y}
                 Z == V \ {z}
                 W == (V \ {y}) \ {z}
      <4>1. /\ Y \in SUBSET S /\ Cardinality(Y) = n
            /\ Z \in SUBSET S /\ Cardinality(Z) = n
        BY <1>1, <2>1, OneLess
      <4>2. z \in Y /\ y \in Z /\ Y \ {z} = W /\ Z \ {y} = W /\ W \in SUBSET S
        BY <3>3
      <4>3. Sum(V) = f[z] + Sum(Z)
        BY <3>1
      <4> HIDE DEF Y, Z, W
      <4>4. Sum(Y) = f[z] + Sum(W) /\ Sum(Z) = f[y] + Sum(W)
        BY <1>5, <4>1, <4>2
      <4>5. f[y] \in Nat /\ f[z] \in Nat /\ Sum(W) \in Nat
        BY <1>2, <4>2
      <4>6. Sum(V) = f[y] + Sum(Y)
        BY <4>3, <4>4, <4>5
      <4> QED
        BY <4>6 DEF Y
    <3> QED
      BY <3>2, <3>3
  <2> QED
    BY <2>1
<1>6. Cardinality(S) \in N
  <2>1. Nat \subseteq N
    <3> HIDE DEF N
    <3> QED
      BY <1>4, <1>5, InductiveSet
  <2> QED
    BY <1>1, <2>1
<1>7. Good(S)
  <2> HIDE DEF Good
  <2> QED
    BY <1>6
<1> QED
  BY <1>7 DEF Sum

=============================================================================
