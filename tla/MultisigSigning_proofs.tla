------------------------ MODULE MultisigSigning_proofs ------------------------
(***************************************************************************)
(* Proofs about MultisigSigning, for every wallet (m of n, with any keys   *)
(* in any order), every set of transactions and any number of calls: its   *)
(* types, that the cosigners build one script, what a returned transaction *)
(* holds, and when a vector is read past its end.                          *)
(*                                                                         *)
(* Nothing is assumed of the transaction that comes in: what SignTX makes  *)
(* of it is taken, each from a place of its own, from the incoming         *)
(* signatures and the device's (Picks), for one key after the other        *)
(* (Collected), so that it loses none that verifies and doubles none.      *)
(*                                                                         *)
(* The last section is about Encodings: what such transactions are written *)
(* and read with (pushes in scripts, compact sizes, the device's list of   *)
(* signatures, the paths of keys, TLVs and APDUs) and the fields of        *)
(* Ethereum that have a length, for every length and path.                 *)
(***************************************************************************)
EXTENDS MultisigSigning, Encodings, FiniteSetTheorems, SequenceTheorems, WellFoundedInduction, TLAPS

-----------------------------------------------------------------------------
(* Induction *)

\* A set of numbers that is not empty has a least element.
LEMMA LeastNumber ==
    ASSUME NEW T, T \subseteq Nat, T # {}
    PROVE  \E x \in T : \A y \in T : x <= y
<1> DEFINE Less == {ss \in Nat \X Nat : ss[1] < ss[2]}
<1>1. IsWellFoundedOn(Less, Nat)
  BY NatLessThanWellFounded DEF OpToRel
<1>2. PICK x \in T : \A y \in T : <<y, x>> \notin Less
  <2> HIDE DEF Less
  <2> QED
    BY <1>1, WFMin
<1>3. \A y \in T : x <= y
  <2>1. SUFFICES ASSUME NEW y \in T, y < x
                 PROVE  FALSE
    OBVIOUS
  <2> QED
    BY <1>2, <2>1
<1> QED
  BY <1>3

\* A set of numbers that has 0 and every successor has them all.
LEMMA SetInduction ==
    ASSUME NEW S, 0 \in S, \A k \in Nat : k \in S => k + 1 \in S
    PROVE  \A k \in Nat : k \in S
<1> DEFINE T == {k \in Nat : k \notin S}
<1>1. SUFFICES ASSUME T # {}
               PROVE  FALSE
  OBVIOUS
<1>2. PICK x \in T : \A y \in T : x <= y
  <2>1. T \subseteq Nat
    OBVIOUS
  <2> HIDE DEF T
  <2> QED
    BY <1>1, <2>1, LeastNumber
<1>3. x - 1 \in Nat /\ x - 1 \notin T
  BY <1>2
<1> QED
  BY <1>2, <1>3

-----------------------------------------------------------------------------
(* Sorting *)

\* s has the elements of S in the order of r.
IsAscending(s, S, r) ==
    /\ s \in [1..Cardinality(S) -> S]
    /\ \A i, j \in 1..Cardinality(S) : i < j => r[s[i]] < r[s[j]]

\* A finite set of things with different numbers can be sorted by them.
LEMMA AscendingExists ==
    ASSUME NEW U, NEW r, \A x \in U : r[x] \in Nat,
           \A x, y \in U : r[x] = r[y] => x = y
    PROVE  \A S \in SUBSET U : IsFiniteSet(S) => \E s : IsAscending(s, S, r)
<1> DEFINE P == {k \in Nat : \A S \in SUBSET U :
                    IsFiniteSet(S) /\ Cardinality(S) = k => \E s : IsAscending(s, S, r)}
<1>1. 0 \in P
  <2>1. SUFFICES ASSUME NEW S \in SUBSET U, IsFiniteSet(S), Cardinality(S) = 0
                 PROVE  \E s : IsAscending(s, S, r)
    OBVIOUS
  <2>2. IsAscending([i \in 1..0 |-> i], S, r)
    BY <2>1 DEF IsAscending
  <2> QED
    BY <2>2
<1>2. ASSUME NEW k \in Nat, k \in P
      PROVE  k + 1 \in P
  <2>1. SUFFICES ASSUME NEW S \in SUBSET U, IsFiniteSet(S), Cardinality(S) = k + 1
                 PROVE  \E s : IsAscending(s, S, r)
    OBVIOUS
  <2>2. PICK x \in S : \A y \in S : r[x] <= r[y]
    <3> DEFINE T == {r[y] : y \in S}
    <3>1. T \subseteq Nat
      OBVIOUS
    <3>2. S # {}
      BY <2>1, FS_EmptySet
    <3>3. T # {}
      BY <3>2
    <3>4. \E z \in T : \A y \in T : z <= y
      <4> HIDE DEF T
      <4> QED
        BY <3>1, <3>3, LeastNumber
    <3> QED
      BY <3>4
  <2>3. IsFiniteSet(S \ {x}) /\ Cardinality(S \ {x}) = k
    <3> HIDE DEF P
    <3>1. /\ IsFiniteSet(S \ {x})
          /\ Cardinality(S \ {x}) = IF x \in S THEN Cardinality(S) - 1 ELSE Cardinality(S)
      BY <2>1, FS_RemoveElement
    <3>2. Cardinality(S \ {x}) = Cardinality(S) - 1
      BY <3>1
    <3> QED
      BY <2>1, <3>1, <3>2
  <2>4. PICK q : IsAscending(q, S \ {x}, r)
    <3>1. S \ {x} \in SUBSET U
      OBVIOUS
    <3>2. \A T \in SUBSET U : IsFiniteSet(T) /\ Cardinality(T) = k => \E z : IsAscending(z, T, r)
      BY <1>2
    <3> QED
      BY <2>3, <3>1, <3>2
  <2>5. /\ q \in [1..k -> S \ {x}]
        /\ \A i, j \in 1..k : i < j => r[q[i]] < r[q[j]]
    BY <2>3, <2>4 DEF IsAscending
  <2> DEFINE s == [i \in 1..(k + 1) |-> IF i = 1 THEN x ELSE q[i - 1]]
  <2>6. s \in [1..(k + 1) -> S]
    BY <2>5
  <2>7. ASSUME NEW i \in 1..(k + 1), NEW j \in 1..(k + 1), i < j
        PROVE  r[s[i]] < r[s[j]]
    <3>1. j - 1 \in 1..k /\ s[j] = q[j - 1]
      BY <2>7
    <3>2. CASE i = 1
      <4>1. q[j - 1] \in S /\ q[j - 1] # x
        BY <2>5, <3>1
      <4>2. r[x] <= r[q[j - 1]] /\ r[x] # r[q[j - 1]]
        BY <2>2, <4>1
      <4>3. r[x] \in Nat /\ r[q[j - 1]] \in Nat
        BY <4>1
      <4>4. s[i] = x
        BY <3>2
      <4> HIDE DEF s
      <4> QED
        BY <3>1, <4>2, <4>3, <4>4
    <3>3. CASE i # 1
      <4>1. i - 1 \in 1..k /\ s[i] = q[i - 1] /\ i - 1 < j - 1
        BY <2>7, <3>3
      <4> HIDE DEF s
      <4> QED
        BY <2>5, <3>1, <4>1
    <3> QED
      BY <3>2, <3>3
  <2>8. IsAscending(s, S, r)
    <3> HIDE DEF s
    <3> QED
      BY <2>1, <2>6, <2>7 DEF IsAscending
  <2> QED
    BY <2>8
<1>3. \A k \in Nat : k \in P
  <2> HIDE DEF P
  <2> QED
    BY <1>1, <1>2, SetInduction
<1>4. ASSUME NEW S \in SUBSET U, IsFiniteSet(S)
      PROVE  \E s : IsAscending(s, S, r)
  <2>1. Cardinality(S) \in Nat
    BY <1>4, FS_CardinalityType
  <2>2. Cardinality(S) \in P
    <3> HIDE DEF P
    <3> QED
      BY <1>3, <2>1
  <2> QED
    BY <1>4, <2>2
<1> QED
  BY <1>4

\* Ascending puts every element of the set in one place, in the order of r.
LEMMA AscendingIs ==
    ASSUME NEW S, IsFiniteSet(S), NEW r, \A x \in S : r[x] \in Nat,
           \A x, y \in S : r[x] = r[y] => x = y
    PROVE  LET s == Ascending(S, r)
           IN  /\ Cardinality(S) \in Nat
               /\ s \in Seq(S) /\ Len(s) = Cardinality(S)
               /\ \A i, j \in 1..Len(s) : s[i] = s[j] => i = j
               /\ \A x \in S : \E i \in 1..Len(s) : s[i] = x
<1> DEFINE s == Ascending(S, r)
           c == Cardinality(S)
<1>1. c \in Nat
  BY FS_CardinalityType
<1>2. s \in [1..c -> S] /\ \A i, j \in 1..c : i < j => r[s[i]] < r[s[j]]
  <2>1. \E q : IsAscending(q, S, r)
    BY AscendingExists
  <2>2. \E q \in [1..c -> S] : \A i, j \in 1..c : i < j => r[q[i]] < r[q[j]]
    BY <2>1 DEF IsAscending
  <2> QED
    BY <2>2 DEF Ascending
<1> HIDE DEF s, c
<1>3. ASSUME NEW i \in 1..c, NEW j \in 1..c, s[i] = s[j]
      PROVE  i = j
  <2>1. s[i] \in S
    BY <1>2
  <2>2. ~(r[s[i]] < r[s[j]]) /\ ~(r[s[j]] < r[s[i]])
    BY <1>3, <2>1
  <2>3. ~(i < j) /\ ~(j < i)
    BY <1>2, <2>2
  <2> QED
    BY <1>1, <2>3
<1>4. ASSUME NEW x \in S
      PROVE  \E i \in 1..c : s[i] = x
  <2>1. IsFiniteSet(1..c) /\ Cardinality(1..c) = c
    BY <1>1, FS_Interval
  <2>2. s \in Injection(1..c, S)
    BY <1>2, <1>3 DEF Injection, IsInjective
  <2>3. s \in Surjection(1..c, S)
    BY <2>1, <2>2, FS_Injection DEF c
  <2> QED
    BY <2>3 DEF Surjection
<1>5. s \in Seq(S) /\ Len(s) = c
  BY <1>1, <1>2
<1> QED
  BY <1>1, <1>2, <1>3, <1>4, <1>5 DEF s, c

\* What an enumeration of 1..k makes a sequence of.
LEMMA FunctionIsSeq ==
    ASSUME NEW k \in Nat, NEW S, NEW f \in [1..k -> S]
    PROVE  f \in Seq(S) /\ Len(f) = k
OBVIOUS

-----------------------------------------------------------------------------
(* Concatenation *)

\* FlattenSeq appends the sequences one after the other.
LEMMA FlattenIs ==
    ASSUME NEW T, NEW k \in Nat, NEW q \in [1..k -> Seq(T)]
    PROVE  \E g : /\ g[0] = <<>>
                  /\ \A j \in 0..(k - 1) : g[j + 1] = g[j] \o q[j + 1]
                  /\ g[k] = FlattenSeq(q)
<1> DEFINE Body(h, i) == IF i = 1 THEN q[i] ELSE h[i - 1] \o q[i]
           Is(h, l) == h = [i \in 1..l |-> Body(h, i)]
           f == CHOOSE h : Is(h, k)
           K == {l \in Nat : \E h : Is(h, l)}
<1>1. Len(q) = k
  BY FunctionIsSeq
<1>2. CASE k = 0
  <2> DEFINE g == [j \in 0..0 |-> <<>>]
  <2>1. FlattenSeq(q) = <<>>
    <3>1. q \in Seq(Seq(T)) /\ Len(q) = 0
      BY <1>1, <1>2, FunctionIsSeq
    <3>2. FlattenSeq(q) = q
      BY <3>1 DEF FlattenSeq
    <3> QED
      BY <3>1, <3>2
  <2>2. /\ g[0] = <<>>
        /\ \A j \in 0..(k - 1) : g[j + 1] = g[j] \o q[j + 1]
        /\ g[k] = FlattenSeq(q)
    BY <1>2, <2>1
  <2> QED
    BY <2>2
<1>3. CASE k > 0
  <2>1. FlattenSeq(q) = f[k]
    BY <1>1, <1>3 DEF FlattenSeq
  <2>2. 0 \in K
    <3> DEFINE h == [i \in 1..0 |-> i]
    <3>1. Is(h, 0)
      OBVIOUS
    <3> QED
      BY <3>1
  <2>3. ASSUME NEW l \in Nat, l \in K
        PROVE  l + 1 \in K
    <3>1. PICK h : Is(h, l)
      BY <2>3
    <3> DEFINE e == [i \in 1..(l + 1) |-> IF i = l + 1 THEN Body(h, i) ELSE h[i]]
    <3>2. ASSUME NEW i \in 1..(l + 1)
          PROVE  e[i] = Body(e, i)
      <4>1. Body(e, i) = Body(h, i)
        <5>1. CASE i = 1
          BY <5>1
        <5>2. CASE i # 1
          <6>1. i - 1 \in 1..(l + 1) /\ i - 1 # l + 1
            BY <5>2
          <6>2. e[i - 1] = h[i - 1]
            BY <6>1
          <6> HIDE DEF e
          <6> QED
            BY <5>2, <6>2
        <5> QED
          BY <5>1, <5>2
      <4>2. e[i] = Body(h, i)
        <5>1. CASE i = l + 1
          BY <5>1
        <5>2. CASE i # l + 1
          <6>1. i \in 1..l
            BY <5>2
          <6>2. h[i] = Body(h, i)
            BY <3>1, <6>1
          <6> HIDE DEF Body
          <6> QED
            BY <5>2, <6>2
        <5> QED
          BY <5>1, <5>2
      <4> HIDE DEF e, Body
      <4> QED
        BY <4>1, <4>2
    <3>3. Is(e, l + 1)
      <4>1. e = [i \in 1..(l + 1) |-> e[i]]
        OBVIOUS
      <4> HIDE DEF e, Body
      <4> QED
        BY <3>2, <4>1
    <3> HIDE DEF e, Is
    <3>4. \E d : Is(d, l + 1)
      BY <3>3
    <3>5. l + 1 \in Nat
      OBVIOUS
    <3> QED
      BY <3>4, <3>5
  <2>4. k \in K
    <3> HIDE DEF K
    <3> QED
      BY <2>2, <2>3, SetInduction
  <2>5. Is(f, k)
    <3>1. \E h : Is(h, k)
      BY <2>4
    <3> HIDE DEF Is
    <3> QED
      BY <3>1
  <2> HIDE DEF f
  <2>6. \A i \in 1..k : f[i] = Body(f, i)
    BY <2>5
  <2> DEFINE g == [j \in 0..k |-> IF j = 0 THEN <<>> ELSE f[j]]
  <2>7. ASSUME NEW j \in 0..(k - 1)
        PROVE  g[j + 1] = g[j] \o q[j + 1]
    <3>1. j + 1 \in 1..k /\ g[j + 1] = f[j + 1] /\ (j + 1) - 1 = j
      OBVIOUS
    <3>2. CASE j = 0
      <4>1. g[j] = <<>> /\ f[j + 1] = q[j + 1]
        BY <2>6, <3>1, <3>2
      <4>2. q[j + 1] \in Seq(T)
        BY <3>1
      <4>3. <<>> \o q[j + 1] = q[j + 1]
        BY <4>2
      <4> HIDE DEF g
      <4> QED
        BY <3>1, <4>1, <4>3
    <3>3. CASE j # 0
      <4>1. g[j] = f[j]
        BY <3>3
      <4>2. f[j + 1] = f[j] \o q[j + 1]
        <5>1. f[j + 1] = Body(f, j + 1)
          BY <2>6, <3>1
        <5>2. j + 1 # 1
          BY <3>3
        <5>3. Body(f, j + 1) = f[(j + 1) - 1] \o q[j + 1]
          BY <5>2
        <5> HIDE DEF Body
        <5> QED
          BY <3>1, <5>1, <5>3
      <4> HIDE DEF g
      <4> QED
        BY <3>1, <4>1, <4>2
    <3> QED
      BY <3>2, <3>3
  <2>8. g[0] = <<>> /\ g[k] = f[k]
    BY <1>3
  <2> HIDE DEF g
  <2> QED
    BY <2>1, <2>7, <2>8
<1>4. k = 0 \/ k > 0
  OBVIOUS
<1> QED
  BY <1>2, <1>3, <1>4

-----------------------------------------------------------------------------
(* Keys and scripts *)

DerivedKeys == [key : Keys, index : Nat]

\* A derived key is its main key and the index of that.
LEMMA SameKey ==
    ASSUME NEW d \in DerivedKeys, NEW e \in DerivedKeys, d.key = e.key, d.index = e.index
    PROVE  d = e
BY DEF DerivedKeys

\* order puts the keys of a context into one list, in which each is once.
LEMMA MainKeysIs ==
    ASSUME NEW k \in Cosigners, NEW list \in Configs
    PROVE  LET keys == MainKeys(k, list)
           IN  /\ keys \in Seq(Keys) /\ Len(keys) \in Nat
               /\ \A i, j \in 1..Len(keys) : keys[i] = keys[j] => i = j
               /\ \E i \in 1..Len(keys) : keys[i] = k
               /\ keys = Ascending(ToSet(keys), [j \in Keys |-> j])
<1> DEFINE S == ToSet(list) \cup {k}
           r == [j \in Keys |-> j]
           keys == MainKeys(k, list)
<1>1. list \in Seq(Keys) /\ k \in Keys /\ Keys \subseteq Nat
  BY MultisigAssumption
<1>2. IsFiniteSet(ToSet(list))
  <2>1. list \in Surjection(1..Len(list), ToSet(list))
    BY <1>1 DEF ToSet, Surjection
  <2>2. Len(list) \in Nat
    BY <1>1
  <2>3. IsFiniteSet(1..Len(list))
    BY <2>2, FS_Interval
  <2> QED
    BY <2>1, <2>3, FS_Surjection
<1>3. IsFiniteSet(S)
  BY <1>2, FS_AddElement
<1>4. S \subseteq Keys
  BY <1>1 DEF ToSet
<1>5. /\ \A x \in S : r[x] \in Nat
      /\ \A x, y \in S : r[x] = r[y] => x = y
  BY <1>1, <1>4
<1>6. keys = Ascending(S, r)
  BY DEF MainKeys
<1> HIDE DEF S, r, keys
<1>7. /\ keys \in Seq(S) /\ Len(keys) = Cardinality(S) /\ Cardinality(S) \in Nat
      /\ \A i, j \in 1..Len(keys) : keys[i] = keys[j] => i = j
      /\ \A x \in S : \E i \in 1..Len(keys) : keys[i] = x
  BY <1>3, <1>5, <1>6, AscendingIs
<1>8. \A i \in 1..Len(keys) : keys[i] \in S
  BY <1>7
<1>9. ToSet(keys) = S
  BY <1>7, <1>8 DEF ToSet
<1>10. keys \in Seq(Keys)
  <2>1. \A i \in 1..Len(keys) : keys[i] \in Keys
    BY <1>4, <1>8
  <2> QED
    BY <1>7, <2>1
<1>11. k \in S
  BY DEF S
<1> QED
  BY <1>6, <1>7, <1>9, <1>10, <1>11 DEF S, r, keys

\* OrderDHPublicKey derives one key from each of the first n main keys.
LEMMA OrderedKeysAre ==
    ASSUME NEW k \in Cosigners, NEW list \in Configs, NEW p \in Paths,
           n <= Len(MainKeys(k, list))
    PROVE  LET main == MainKeys(k, list)
               keys == OrderedKeys[main][p]
           IN  /\ keys \in Seq(DerivedKeys) /\ Len(keys) = n
               /\ \A i, j \in 1..n : keys[i] = keys[j] => i = j
               /\ \A i \in 1..n : \E j \in 1..n : keys[j] = [key |-> main[i], index |-> i - 1]
               /\ \A j \in 1..n : \E i \in 1..n : keys[j] = [key |-> main[i], index |-> i - 1]
<1> DEFINE main == MainKeys(k, list)
           keys == OrderedKeys[main][p]
           S == Derived(main)
           r == [d \in S |-> Rank[p][d.key]]
<1>1. /\ main \in Seq(Keys) /\ Len(main) \in Nat
      /\ \A i, j \in 1..Len(main) : main[i] = main[j] => i = j
  BY MainKeysIs
<1>2. keys = Ascending(S, r)
  BY DEF OrderedKeys
<1>3. n <= Len(main)
  OBVIOUS
<1> HIDE DEF main
<1>4. n \in Nat /\ n > 0
  BY MultisigAssumption
<1>5. 1..n \cap DOMAIN main = 1..n
  BY <1>1, <1>3, <1>4
<1>6. S = {[key |-> main[i], index |-> i - 1] : i \in 1..n}
  BY <1>5 DEF Derived
<1> HIDE DEF S
<1> DEFINE f == [i \in 1..n |-> [key |-> main[i], index |-> i - 1]]
<1>7. f \in Bijection(1..n, S)
  <2>1. f \in [1..n -> S]
    BY <1>6
  <2>2. ASSUME NEW i \in 1..n, NEW j \in 1..n, f[i] = f[j]
        PROVE  i = j
    <3>1. f[i].key = main[i] /\ f[j].key = main[j]
      OBVIOUS
    <3>2. i \in 1..Len(main) /\ j \in 1..Len(main)
      BY <1>1, <1>3, <1>4
    <3> HIDE DEF f
    <3> QED
      BY <1>1, <2>2, <3>1, <3>2
  <2>3. \A d \in S : \E i \in 1..n : f[i] = d
    BY <1>6
  <2> HIDE DEF f
  <2> QED
    BY <2>1, <2>2, <2>3 DEF Bijection, Injection, Surjection, IsInjective
<1>8. IsFiniteSet(S) /\ Cardinality(S) = n
  <2>1. ExistsBijection(1..n, S)
    BY <1>7 DEF ExistsBijection
  <2>2. IsFiniteSet(S)
    BY <1>4, <2>1, FS_NatBijection
  <2> QED
    BY <1>4, <2>1, <2>2, FS_CountingElements
<1>9. S \subseteq DerivedKeys
  <2>1. \A i \in 1..n : main[i] \in Keys /\ i - 1 \in Nat
    BY <1>1, <1>3, <1>4
  <2> QED
    BY <1>6, <2>1 DEF DerivedKeys
<1>10. \A d \in S : r[d] \in Nat
  BY <1>9, MultisigAssumption DEF DerivedKeys
<1>11. ASSUME NEW d \in S, NEW e \in S, r[d] = r[e]
       PROVE  d = e
  <2>1. PICK i \in 1..n : d = [key |-> main[i], index |-> i - 1]
    BY <1>6
  <2>2. PICK j \in 1..n : e = [key |-> main[j], index |-> j - 1]
    BY <1>6
  <2>3. Rank[p][d.key] = Rank[p][e.key]
    BY <1>11
  <2>4. d.key \in Keys /\ e.key \in Keys
    BY <1>9 DEF DerivedKeys
  <2>5. d.key = e.key
    BY <2>3, <2>4, MultisigAssumption
  <2>6. main[i] = main[j]
    BY <2>1, <2>2, <2>5
  <2>7. i \in 1..Len(main) /\ j \in 1..Len(main)
    BY <1>1, <1>3, <1>4
  <2>8. i = j
    BY <1>1, <2>6, <2>7
  <2> QED
    BY <2>1, <2>2, <2>8
<1> HIDE DEF r, keys
<1>12. /\ keys \in Seq(S) /\ Len(keys) = n
       /\ \A i, j \in 1..Len(keys) : keys[i] = keys[j] => i = j
       /\ \A x \in S : \E i \in 1..Len(keys) : keys[i] = x
  BY <1>2, <1>8, <1>10, <1>11, AscendingIs
<1>13. keys \in Seq(DerivedKeys)
  <2>1. \A i \in 1..Len(keys) : keys[i] \in DerivedKeys
    BY <1>9, <1>12
  <2> QED
    BY <1>12, <2>1
<1>14. \A i \in 1..n : \E j \in 1..n : keys[j] = [key |-> main[i], index |-> i - 1]
  BY <1>6, <1>12
<1>15. \A j \in 1..n : \E i \in 1..n : keys[j] = [key |-> main[i], index |-> i - 1]
  BY <1>6, <1>12
<1> QED
  BY <1>12, <1>13, <1>14, <1>15 DEF main, keys

-----------------------------------------------------------------------------
(* The inductive invariant *)

\* The signature is by the derived key d, of whatever.
Matches(s, d) == s.by = d.key /\ s.index = d.index

\* Signatures of input i of t by some of the keys; and in the order of the keys.
OfKeys(sigs, keys, t, i) ==
    \A h \in 1..Len(sigs) : \E a \in 1..Len(keys) : Verifies(sigs[h], keys[a], t, i)

InOrder(sigs, keys) ==
    \A g, h \in 1..Len(sigs) : \A a, b \in 1..Len(keys) :
        (g < h /\ Matches(sigs[g], keys[a]) /\ Matches(sigs[h], keys[b])) => a <= b

\* A context holds any partly signed transaction, or garbage, or none.
IsContext(k, c) ==
    /\ \E list \in Configs :
        c = [me |-> k, keys |-> MainKeys(k, list), incTx |-> c.incTx]
    /\ c.incTx \in {NULL, GARBAGE} \/ IsTx(c.incTx)

Contexts ==
    /\ ctx = [k \in Cosigners |-> ctx[k]]
    /\ \A k \in Cosigners : ctx[k] = NULL \/ IsContext(k, ctx[k])

Inv ==
    /\ Contexts
    /\ held = NULL \/ IsTx(held)
    /\ calls \in 0..MaxCalls /\ parses \in 0..MaxParses /\ wrong \in 0..MaxWrong
    /\ last.rv \in {"none", "ARGUMENTS_BAD", "crash", "device", "MULTISIG_OK", "OK"}
    /\ last.out \in {NULL, held}

\* The keys a script is built of: those of a context that can build one.
AreKeys(keys, k, index) ==
    /\ keys \in Seq(DerivedKeys) /\ Len(keys) = n
    /\ \A i, j \in 1..n : keys[i] = keys[j] => i = j
    /\ \E i \in 1..n : keys[i].key = k
    /\ \A i \in 1..n : keys[i].key = k => keys[i].index = index

LEMMA ContextIs ==
    ASSUME NEW k \in Cosigners, NEW c, IsContext(k, c)
    PROVE  /\ c.me = k
           /\ c.keys \in Seq(Keys) /\ Contains(c.keys, k)
           /\ c.keys = Ascending(ToSet(c.keys), [j \in Keys |-> j])
<1>1. PICK list \in Configs :
          c = [me |-> k, keys |-> MainKeys(k, list), incTx |-> c.incTx]
  BY DEF IsContext
<1>2. c.me = k /\ c.keys = MainKeys(k, list)
  BY <1>1
<1> DEFINE main == MainKeys(k, list)
<1>3. /\ main \in Seq(Keys)
      /\ \E i \in 1..Len(main) : main[i] = k
      /\ main = Ascending(ToSet(main), [j \in Keys |-> j])
  BY MainKeysIs
<1>4. Contains(main, k)
  <2> HIDE DEF main
  <2> QED
    BY <1>3 DEF Contains, ToSet
<1> QED
  BY <1>2, <1>3, <1>4

LEMMA ScriptIs ==
    ASSUME NEW k \in Cosigners, NEW c, IsContext(k, c), Buildable(c), NEW p \in Paths
    PROVE  /\ CosignerIndex(c) \in Nat
           /\ AreKeys(OrderDHPublicKey(c, p), k, CosignerIndex(c))
<1>1. PICK list \in Configs :
          c = [me |-> k, keys |-> MainKeys(k, list), incTx |-> c.incTx]
  BY DEF IsContext
<1> DEFINE main == MainKeys(k, list)
           keys == OrderDHPublicKey(c, p)
<1>2. c.me = k /\ c.keys = main
  BY <1>1
<1>3. /\ main \in Seq(Keys) /\ Len(main) \in Nat
      /\ \A i, j \in 1..Len(main) : main[i] = main[j] => i = j
  BY MainKeysIs
<1>4. n <= Len(main) /\ \E i \in 1..n : main[i] = k
  BY <1>2, <1>3, MultisigAssumption DEF Buildable
<1>5. keys = OrderedKeys[main][p]
  BY <1>2 DEF OrderDHPublicKey
<1>6. /\ keys \in Seq(DerivedKeys) /\ Len(keys) = n
      /\ \A i, j \in 1..n : keys[i] = keys[j] => i = j
      /\ \A i \in 1..n : \E j \in 1..n : keys[j] = [key |-> main[i], index |-> i - 1]
      /\ \A j \in 1..n : \E i \in 1..n : keys[j] = [key |-> main[i], index |-> i - 1]
  <2> HIDE DEF keys
  <2> DEFINE o == OrderedKeys[main][p]
  <2>1. /\ o \in Seq(DerivedKeys) /\ Len(o) = n
        /\ \A i, j \in 1..n : o[i] = o[j] => i = j
        /\ \A i \in 1..n : \E j \in 1..n : o[j] = [key |-> main[i], index |-> i - 1]
        /\ \A j \in 1..n : \E i \in 1..n : o[j] = [key |-> main[i], index |-> i - 1]
    BY <1>4, OrderedKeysAre
  <2>2. keys = o
    BY <1>5
  <2> HIDE DEF o, main
  <2> QED
    BY <2>1, <2>2
<1> HIDE DEF main, keys
<1>7. PICK q \in 1..n : main[q] = k
  BY <1>4
<1>8. n \in Nat /\ q \in 1..Len(main)
  BY <1>3, <1>4, <1>7, MultisigAssumption
<1>9. CosignerIndex(c) = q - 1
  <2>1. CosignerIndex(c) = CHOOSE i \in 0..(Len(main) - 1) : main[i + 1] = k
    BY <1>2 DEF CosignerIndex
  <2>2. q - 1 \in 0..(Len(main) - 1) /\ main[(q - 1) + 1] = k
    <3>1. (q - 1) + 1 = q
      BY <1>8
    <3> QED
      BY <1>3, <1>7, <1>8, <3>1
  <2>3. ASSUME NEW i \in 0..(Len(main) - 1), main[i + 1] = k
        PROVE  i = q - 1
    <3>1. i + 1 \in 1..Len(main)
      BY <1>3
    <3>2. i + 1 = q
      BY <1>3, <1>7, <1>8, <2>3, <3>1
    <3> QED
      BY <1>8, <3>2
  <2> QED
    BY <2>1, <2>2, <2>3
<1>10. \E i \in 1..n : keys[i].key = k
  <2>1. PICK j \in 1..n : keys[j] = [key |-> main[q], index |-> q - 1]
    BY <1>6, <1>7
  <2> QED
    BY <1>7, <2>1
<1>11. ASSUME NEW j \in 1..n, keys[j].key = k
       PROVE  keys[j].index = CosignerIndex(c)
  <2>1. PICK i \in 1..n : keys[j] = [key |-> main[i], index |-> i - 1]
    BY <1>6
  <2>2. main[i] = main[q] /\ i \in 1..Len(main)
    BY <1>3, <1>4, <1>7, <1>8, <1>11, <2>1
  <2>3. i = q
    BY <1>3, <1>8, <2>2
  <2> QED
    BY <1>9, <2>1, <2>3
<1>12. CosignerIndex(c) \in Nat
  BY <1>8, <1>9
<1> QED
  BY <1>6, <1>10, <1>11, <1>12 DEF AreKeys, keys

\* Where the device puts its own key, it was.
LEMMA PutBack ==
    ASSUME NEW T, NEW s \in Seq(T), NEW i \in 1..Len(s)
    PROVE  InsertAt(RemoveAt(s, i), i, s[i]) = s
<1> DEFINE a == SubSeq(s, 1, i - 1)
           b == SubSeq(s, i + 1, Len(s))
           r == a \o b
<1>1. PICK l \in Nat : l = Len(s)
  OBVIOUS
<1>2. /\ a \in Seq(T) /\ Len(a) = i - 1
      /\ \A j \in 1..(i - 1) : a[j] = s[j]
  BY <1>1
<1>3. /\ b \in Seq(T) /\ Len(b) = l - i
      /\ \A j \in 1..(l - i) : b[j] = s[i + j]
  BY <1>1
<1> HIDE DEF a, b
<1>4. /\ r \in Seq(T) /\ Len(r) = l - 1
      /\ \A j \in 1..(l - 1) : r[j] = IF j < i THEN s[j] ELSE s[j + 1]
  <2>1. r \in Seq(T) /\ Len(r) = l - 1
    <3>1. r \in Seq(T) /\ Len(r) = Len(a) + Len(b)
      BY <1>2, <1>3, ConcatProperties
    <3> HIDE DEF r
    <3> QED
      BY <1>1, <1>2, <1>3, <3>1
  <2>2. ASSUME NEW j \in 1..(l - 1), j < i
        PROVE  r[j] = s[j]
    <3>1. j \in 1..Len(a)
      BY <1>1, <1>2, <2>2
    <3> QED
      BY <1>2, <1>3, <3>1
  <2>3. ASSUME NEW j \in 1..(l - 1), ~(j < i)
        PROVE  r[j] = s[j + 1]
    <3>1. /\ j > Len(a) /\ j <= Len(a) + Len(b)
          /\ j - Len(a) \in 1..(l - i) /\ i + (j - Len(a)) = j + 1
      BY <1>1, <1>2, <1>3, <2>3
    <3>2. r[j] = b[j - Len(a)]
      BY <1>2, <1>3, <3>1
    <3> QED
      BY <1>3, <3>1, <3>2
  <2> QED
    BY <2>1, <2>2, <2>3
<1>5. RemoveAt(s, i) = r
  BY DEF RemoveAt, a, b
<1> HIDE DEF r
<1> DEFINE c == SubSeq(r, 1, i - 1)
           d == SubSeq(r, i, Len(r))
           e == c \o <<s[i]>>
           w == e \o d
<1>6. /\ c \in Seq(T) /\ Len(c) = i - 1
      /\ \A j \in 1..(i - 1) : c[j] = r[j]
  BY <1>1, <1>4
<1>7. /\ d \in Seq(T) /\ Len(d) = l - i
      /\ \A j \in 1..(l - i) : d[j] = r[i + j - 1]
  BY <1>1, <1>4
<1> HIDE DEF c, d
<1>8. /\ e \in Seq(T) /\ Len(e) = i
      /\ \A j \in 1..(i - 1) : e[j] = r[j]
      /\ e[i] = s[i]
  BY <1>1, <1>6
<1> HIDE DEF e
<1>9. w \in Seq(T) /\ Len(w) = l
  <2>1. w \in Seq(T) /\ Len(w) = Len(e) + Len(d)
    BY <1>7, <1>8, ConcatProperties
  <2> HIDE DEF w
  <2> QED
    BY <1>1, <1>7, <1>8, <2>1
<1>10. ASSUME NEW j \in 1..l
       PROVE  w[j] = s[j]
  <2>1. CASE j < i
    <3>1. j \in 1..Len(e) /\ j \in 1..(i - 1) /\ j \in 1..(l - 1)
      BY <1>1, <1>8, <2>1
    <3>2. w[j] = e[j]
      BY <1>7, <1>8, <3>1
    <3> QED
      BY <1>4, <1>8, <2>1, <3>1, <3>2
  <2>2. CASE j = i
    <3>1. j \in 1..Len(e)
      BY <1>1, <1>8, <2>2
    <3>2. w[j] = e[j]
      BY <1>7, <1>8, <3>1
    <3> QED
      BY <1>8, <2>2, <3>2
  <2>3. CASE j > i
    <3>1. /\ j > Len(e) /\ j <= Len(e) + Len(d)
          /\ j - Len(e) \in 1..(l - i) /\ i + (j - Len(e)) - 1 = j - 1
          /\ j - 1 \in 1..(l - 1) /\ ~(j - 1 < i) /\ (j - 1) + 1 = j
      BY <1>1, <1>7, <1>8, <2>3
    <3>2. w[j] = d[j - Len(e)]
      BY <1>7, <1>8, <3>1
    <3>3. d[j - Len(e)] = r[j - 1]
      BY <1>7, <3>1
    <3>4. r[j - 1] = s[j]
      BY <1>4, <3>1
    <3> QED
      BY <3>2, <3>3, <3>4
  <2>4. j < i \/ j = i \/ j > i
    BY <1>1
  <2> QED
    BY <2>1, <2>2, <2>3, <2>4
<1>11. w = s
  <2>1. Len(w) = Len(s) /\ \A j \in 1..Len(w) : w[j] = s[j]
    BY <1>1, <1>9, <1>10
  <2> HIDE DEF w
  <2> QED
    BY <1>9, <2>1, SeqEqual
<1> QED
  BY <1>5, <1>11 DEF InsertAt, w, e, c, d

LEMMA ScriptsAgreeIs ==
    ASSUME Contexts
    PROVE  ScriptsAgree
<1>1. ASSUME NEW k \in Cosigners, NEW p \in Paths, ctx[k] # NULL, Buildable(ctx[k])
      PROVE  BuildRedeemScript(ctx[k], p).keys =
                InsertAt(BuildRedeemScriptTlv(ctx[k], p).keys,
                         BuildRedeemScriptTlv(ctx[k], p).index + 1,
                         [key |-> k, index |-> CosignerIndex(ctx[k])])
  <2> DEFINE c == ctx[k]
             keys == OrderDHPublicKey(c, p)
             o == OrderedIndex(c, p)
             own == [key |-> k, index |-> CosignerIndex(c)]
  <2>1. IsContext(k, c)
    BY <1>1 DEF Contexts
  <2>2. AreKeys(keys, k, CosignerIndex(c)) /\ c.me = k
    BY <1>1, <2>1, ScriptIs, ContextIs
  <2> HIDE DEF c, keys
  <2>3. n \in Nat /\ n > 0
    BY MultisigAssumption
  <2>4. o \in 0..(n - 1) /\ keys[o + 1].key = k
    <3>1. o = CHOOSE i \in 0..(n - 1) : keys[i + 1].key = k
      BY <2>2 DEF OrderedIndex, keys
    <3>2. PICK i \in 1..n : keys[i].key = k
      BY <2>2 DEF AreKeys
    <3>3. i - 1 \in 0..(n - 1) /\ (i - 1) + 1 = i
      BY <2>3
    <3>4. keys[(i - 1) + 1].key = k
      BY <3>2, <3>3
    <3> QED
      BY <3>1, <3>3, <3>4
  <2> HIDE DEF o
  <2>5. o + 1 \in 1..n
    BY <2>3, <2>4
  <2>6. keys[o + 1] = own
    <3>1. keys[o + 1] \in DerivedKeys /\ keys[o + 1].index = CosignerIndex(c)
      BY <2>2, <2>4, <2>5 DEF AreKeys
    <3> QED
      BY <2>4, <3>1 DEF DerivedKeys
  <2>7. /\ BuildRedeemScript(c, p).keys = keys
        /\ BuildRedeemScriptTlv(c, p).keys = RemoveAt(keys, o + 1)
        /\ BuildRedeemScriptTlv(c, p).index = o
    BY DEF BuildRedeemScript, BuildRedeemScriptTlv, keys, o
  <2>8. keys \in Seq(DerivedKeys) /\ o + 1 \in 1..Len(keys)
    BY <2>2, <2>5 DEF AreKeys
  <2>9. InsertAt(RemoveAt(keys, o + 1), o + 1, keys[o + 1]) = keys
    BY <2>8, PutBack
  <2> HIDE DEF own
  <2>10. BuildRedeemScript(c, p).keys =
            InsertAt(BuildRedeemScriptTlv(c, p).keys, BuildRedeemScriptTlv(c, p).index + 1, own)
    BY <2>6, <2>7, <2>9
  <2> QED
    BY <2>10 DEF c, own
<1>2. ASSUME NEW k \in Cosigners, NEW j \in Cosigners, NEW p \in Paths,
             ctx[k] # NULL, ctx[j] # NULL, ToSet(ctx[j].keys) = ToSet(ctx[k].keys)
      PROVE  BuildRedeemScript(ctx[j], p) = BuildRedeemScript(ctx[k], p)
  <2>1. IsContext(k, ctx[k]) /\ IsContext(j, ctx[j])
    BY <1>2 DEF Contexts
  <2>2. ctx[k].keys = Ascending(ToSet(ctx[k].keys), [x \in Keys |-> x])
    BY <2>1, ContextIs
  <2>3. ctx[j].keys = Ascending(ToSet(ctx[j].keys), [x \in Keys |-> x])
    BY <2>1, ContextIs
  <2>4. ctx[j].keys = ctx[k].keys
    BY <1>2, <2>2, <2>3
  <2> QED
    BY <2>4 DEF BuildRedeemScript, OrderDHPublicKey
<1> QED
  BY <1>1, <1>2 DEF ScriptsAgree

-----------------------------------------------------------------------------
(* The signatures *)

\* What OrderSignatures takes from: the incoming signatures, and behind them the
\* device's own.
Source(sigs, s) == [h \in 1..(Len(sigs) + 1) |-> IF h = Len(sigs) + 1 THEN s ELSE sigs[h]]

\* u is taken from src: f tells from where, every place of S once and no other.
Picks(u, f, S, src) ==
    /\ u \in Seq(Signature)
    /\ f \in [1..Len(u) -> S]
    /\ \A y, w \in 1..Len(u) : f[y] = f[w] => y = w
    /\ \A h \in S : \E y \in 1..Len(u) : f[y] = h
    /\ \A y \in 1..Len(u) : u[y] = src[f[y]]

\* Nothing is taken from nowhere.
LEMMA PicksNone ==
    ASSUME NEW src
    PROVE  /\ \E f : Picks(<<>>, f, {}, src)
           /\ \A u, f : Picks(u, f, {}, src) => u = <<>>
<1>1. Picks(<<>>, <<>>, {}, src)
  BY DEF Picks
<1>2. ASSUME NEW u, NEW f, Picks(u, f, {}, src)
      PROVE  u = <<>>
  <2>1. u \in Seq(Signature) /\ f \in [1..Len(u) -> {}]
    BY <1>2 DEF Picks
  <2>2. 1 \notin 1..Len(u)
    BY <2>1
  <2>3. Len(u) = 0
    BY <2>1, <2>2
  <2> QED
    BY <2>1, <2>3
<1> QED
  BY <1>1, <1>2

LEMMA PicksOne ==
    ASSUME NEW src, NEW h, NEW x \in Signature, src[h] = x
    PROVE  \E f : Picks(<<x>>, f, {h}, src)
<1> DEFINE f == [y \in 1..1 |-> h]
           u == <<x>>
<1>1. u \in Seq(Signature) /\ Len(u) = 1 /\ u[1] = x
  OBVIOUS
<1>2. \A y \in 1..1 : y = 1 /\ f[y] = h
  OBVIOUS
<1>3. f \in [1..1 -> {h}] /\ 1 \in 1..1
  OBVIOUS
<1> HIDE DEF u, f
<1>4. Picks(u, f, {h}, src)
  BY <1>1, <1>2, <1>3 DEF Picks
<1> QED
  BY <1>4 DEF u

\* One after the other, from different places.
LEMMA JoinPicks ==
    ASSUME NEW src, NEW S, NEW T, S \cap T = {},
           NEW u, NEW f, Picks(u, f, S, src),
           NEW r, NEW e, Picks(r, e, T, src)
    PROVE  \E g : Picks(u \o r, g, S \cup T, src)
<1>1. u \in Seq(Signature) /\ r \in Seq(Signature)
  BY DEF Picks
<1>2. PICK l \in Nat : l = Len(u)
  BY <1>1
<1>3. PICK z \in Nat : z = Len(r)
  BY <1>1
<1> DEFINE v == u \o r
           g == [y \in 1..(l + z) |-> IF y <= l THEN f[y] ELSE e[y - l]]
<1>4. /\ v \in Seq(Signature) /\ Len(v) = l + z
      /\ \A y \in 1..l : v[y] = u[y]
      /\ \A y \in 1..z : v[l + y] = r[y]
  BY <1>1, <1>2, <1>3
<1>5. /\ f \in [1..l -> S] /\ e \in [1..z -> T]
      /\ \A y, w \in 1..l : f[y] = f[w] => y = w
      /\ \A y, w \in 1..z : e[y] = e[w] => y = w
      /\ \A h \in S : \E y \in 1..l : f[y] = h
      /\ \A h \in T : \E y \in 1..z : e[y] = h
      /\ \A y \in 1..l : u[y] = src[f[y]]
      /\ \A y \in 1..z : r[y] = src[e[y]]
  BY <1>2, <1>3 DEF Picks
<1>6. \A y \in 1..(l + z) : y \in 1..l \/ (y - l \in 1..z /\ ~(y <= l) /\ y = l + (y - l))
  OBVIOUS
<1>7. \A y \in 1..l : y \in 1..(l + z) /\ g[y] = f[y] /\ g[y] \in S
  BY <1>5
<1>8. \A y \in 1..z : l + y \in 1..(l + z) /\ g[l + y] = e[y] /\ g[l + y] \in T
  <2>1. \A y \in 1..z : l + y \in 1..(l + z) /\ ~(l + y <= l) /\ (l + y) - l = y
    OBVIOUS
  <2> QED
    BY <1>5, <2>1
<1>9. DOMAIN g = 1..(l + z) /\ g = [y \in 1..(l + z) |-> g[y]]
  OBVIOUS
<1> HIDE DEF v, g
<1>10. g \in [1..(l + z) -> S \cup T]
  <2>1. \A y \in 1..(l + z) : g[y] \in S \cup T
    BY <1>6, <1>7, <1>8
  <2> QED
    BY <1>9, <2>1
<1>11. ASSUME NEW y \in 1..(l + z), NEW w \in 1..(l + z), g[y] = g[w]
       PROVE  y = w
  <2>1. CASE y \in 1..l /\ w \in 1..l
    BY <1>5, <1>7, <1>11, <2>1
  <2>2. CASE y - l \in 1..z /\ w - l \in 1..z
    <3>1. e[y - l] = e[w - l]
      BY <1>6, <1>8, <1>11, <2>2
    <3>2. y - l = w - l
      BY <1>5, <2>2, <3>1
    <3> QED
      BY <3>2
  <2>3. CASE y \in 1..l /\ w - l \in 1..z
    BY <1>6, <1>7, <1>8, <1>11, <2>3
  <2>4. CASE y - l \in 1..z /\ w \in 1..l
    BY <1>6, <1>7, <1>8, <1>11, <2>4
  <2> QED
    BY <1>6, <2>1, <2>2, <2>3, <2>4
<1>12. \A h \in S \cup T : \E y \in 1..(l + z) : g[y] = h
  <2>1. ASSUME NEW h \in S
        PROVE  \E y \in 1..(l + z) : g[y] = h
    <3>1. PICK y \in 1..l : f[y] = h
      BY <1>5
    <3> QED
      BY <1>7, <3>1
  <2>2. ASSUME NEW h \in T
        PROVE  \E y \in 1..(l + z) : g[y] = h
    <3>1. PICK y \in 1..z : e[y] = h
      BY <1>5
    <3> QED
      BY <1>8, <3>1
  <2> QED
    BY <2>1, <2>2
<1>13. \A y \in 1..(l + z) : v[y] = src[g[y]]
  <2>1. ASSUME NEW y \in 1..l
        PROVE  v[y] = src[g[y]]
    BY <1>4, <1>5, <1>7
  <2>2. ASSUME NEW y \in 1..z
        PROVE  v[l + y] = src[g[l + y]]
    <3> DEFINE w == l + y
    <3>1. v[w] = r[y] /\ g[w] = e[y]
      BY <1>4, <1>8
    <3>2. r[y] = src[e[y]]
      BY <1>5
    <3> HIDE DEF w
    <3>3. v[w] = src[g[w]]
      BY <3>1, <3>2
    <3> QED
      BY <3>3 DEF w
  <2> QED
    BY <1>6, <2>1, <2>2
<1>14. Picks(v, g, S \cup T, src)
  BY <1>4, <1>10, <1>11, <1>12, <1>13 DEF Picks
<1> QED
  BY <1>14 DEF v

\* The incoming signatures that verify with d.
Verifying(sigs, d, t, i) == {h \in 1..Len(sigs) : Verifies(sigs[h], d, t, i)}

LEMMA FoundIs ==
    ASSUME NEW c, NEW t, NEW i, NEW d, NEW s, FromIncTx(c, i) \in Seq(Signature)
    PROVE  \E f : Picks(FoundInIncTx(c, t, i, d), f, Verifying(FromIncTx(c, i), d, t, i),
                        Source(FromIncTx(c, i), s))
<1> DEFINE sigs == FromIncTx(c, i)
           q == [h \in 1..Len(sigs) |-> IF Verifies(sigs[h], d, t, i) THEN <<sigs[h]>> ELSE <<>>]
           W == Verifying(sigs, d, t, i)
           src == Source(sigs, s)
<1>1. FoundInIncTx(c, t, i, d) = FlattenSeq(q)
  BY DEF FoundInIncTx
<1>2. sigs \in Seq(Signature)
  OBVIOUS
<1> HIDE DEF sigs
<1>3. PICK l \in Nat : l = Len(sigs)
  BY <1>2
<1>4. \A h \in 1..l : sigs[h] \in Signature /\ src[h] = sigs[h]
  BY <1>2, <1>3 DEF Source
<1>5. /\ \A h \in W : h \in 1..l
      /\ \A h \in 1..l : h \in W => q[h] = <<sigs[h]>>
      /\ \A h \in 1..l : h \notin W => q[h] = <<>>
  BY <1>3 DEF Verifying
<1>6. q \in [1..l -> Seq(Signature)]
  BY <1>3, <1>4
<1> HIDE DEF q, W, src
<1>7. PICK g : /\ g[0] = <<>>
               /\ \A j \in 0..(l - 1) : g[j + 1] = g[j] \o q[j + 1]
               /\ g[l] = FlattenSeq(q)
  BY <1>6, FlattenIs
<1> DEFINE Upto(j) == {h \in W : h <= j}
           Done(j) == \E f : Picks(g[j], f, Upto(j), src)
           P == {j \in Nat : j <= l => Done(j)}
<1>8. 0 \in P
  <2>1. Upto(0) = {}
    BY <1>5
  <2>2. \E f : Picks(g[0], f, Upto(0), src)
    BY <1>7, <2>1, PicksNone
  <2> QED
    BY <2>2
<1>9. ASSUME NEW j \in Nat, j \in P
      PROVE  j + 1 \in P
  <2>1. SUFFICES ASSUME j + 1 <= l
                 PROVE  Done(j + 1)
    <3> HIDE DEF Done
    <3> QED
      OBVIOUS
  <2>2. j \in 0..(l - 1) /\ j + 1 \in 1..l /\ j <= l
    BY <1>3, <2>1
  <2>3. g[j + 1] = g[j] \o q[j + 1]
    BY <1>7, <2>2
  <2>4. PICK f : Picks(g[j], f, Upto(j), src)
    <3>1. Done(j)
      <4> HIDE DEF Done
      <4> QED
        BY <1>9, <2>2
    <3> QED
      BY <3>1
  <2>5. CASE j + 1 \in W
    <3>1. q[j + 1] = <<sigs[j + 1]>> /\ sigs[j + 1] \in Signature /\ src[j + 1] = sigs[j + 1]
      BY <1>4, <1>5, <2>2, <2>5
    <3>2. PICK e : Picks(<<sigs[j + 1]>>, e, {j + 1}, src)
      BY <3>1, PicksOne
    <3>3. Upto(j) \cap {j + 1} = {} /\ Upto(j + 1) = Upto(j) \cup {j + 1}
      BY <1>5, <2>5
    <3> HIDE DEF Upto
    <3>4. \E at : Picks(g[j] \o <<sigs[j + 1]>>, at, Upto(j) \cup {j + 1}, src)
      BY <2>4, <3>2, <3>3, JoinPicks
    <3> QED
      BY <2>3, <3>1, <3>3, <3>4
  <2>6. CASE j + 1 \notin W
    <3>1. q[j + 1] = <<>>
      BY <1>5, <2>2, <2>6
    <3>2. Upto(j + 1) = Upto(j)
      BY <1>5, <2>6
    <3>3. g[j] \in Seq(Signature)
      BY <2>4 DEF Picks
    <3>4. g[j + 1] = g[j]
      BY <2>3, <3>1, <3>3
    <3> HIDE DEF Upto
    <3> QED
      BY <2>4, <3>2, <3>4
  <2> QED
    BY <2>5, <2>6
<1>10. l \in P
  <2> HIDE DEF P
  <2> QED
    BY <1>3, <1>8, <1>9, SetInduction
<1>11. Done(l)
  <2> HIDE DEF Done
  <2> QED
    BY <1>3, <1>10
<1>12. Upto(l) = W
  BY <1>3, <1>5
<1> QED
  BY <1>1, <1>7, <1>11, <1>12 DEF sigs, W, src

\* For a key there are those, or the device's signature if there are none.
Chosen(sigs, s, d, t, i) ==
    {h \in 1..(Len(sigs) + 1) :
        \/ h \in Verifying(sigs, d, t, i)
        \/ h = Len(sigs) + 1 /\ Verifying(sigs, d, t, i) = {} /\ Verifies(s, d, t, i)}

LEMMA MatchingIs ==
    ASSUME NEW c, NEW t, NEW i, NEW d, NEW s \in Signature, FromIncTx(c, i) \in Seq(Signature)
    PROVE  \E f : Picks(Matching(c, t, i, d, s), f, Chosen(FromIncTx(c, i), s, d, t, i),
                        Source(FromIncTx(c, i), s))
<1> DEFINE sigs == FromIncTx(c, i)
           W == Verifying(sigs, d, t, i)
           src == Source(sigs, s)
           S == Chosen(sigs, s, d, t, i)
           found == FoundInIncTx(c, t, i, d)
           match == Matching(c, t, i, d, s)
<1>1. PICK f : Picks(found, f, W, src)
  BY FoundIs
<1>2. match = IF found # <<>> THEN found
              ELSE IF Verifies(s, d, t, i) THEN <<s>>
              ELSE <<>>
  BY DEF Matching
<1>3. sigs \in Seq(Signature)
  OBVIOUS
<1> HIDE DEF sigs, match, found
<1>4. PICK z \in Nat : z = Len(sigs)
  BY <1>3
<1>5. /\ \A h \in W : h \in 1..z
      /\ src[z + 1] = s
  BY <1>4 DEF Verifying, Source
<1>6. CASE W # {}
  <2>1. found # <<>>
    <3>1. PICK h \in W : TRUE
      BY <1>6
    <3>2. PICK y \in 1..Len(found) : f[y] = h
      BY <1>1 DEF Picks
    <3>3. Len(<<>>) = 0
      OBVIOUS
    <3> QED
      BY <3>2, <3>3
  <2>2. S = W
    <3>1. \A h \in W : h \in 1..(z + 1)
      BY <1>5
    <3> HIDE DEF W
    <3>2. \A h : h \in S <=> h \in W
      BY <1>4, <1>6, <3>1 DEF Chosen, W
    <3> QED
      BY <3>2
  <2>3. match = found
    BY <1>2, <2>1
  <2> QED
    BY <1>1, <2>2, <2>3 DEF sigs, match
<1>7. CASE W = {}
  <2>1. found = <<>>
    BY <1>1, <1>7, PicksNone
  <2>2. CASE Verifies(s, d, t, i)
    <3>1. match = <<s>>
      BY <1>2, <2>1, <2>2
    <3>2. S = {z + 1}
      <4>1. \A h : h \in S <=> h = z + 1
        BY <1>4, <1>7, <2>2 DEF Chosen
      <4> QED
        BY <4>1
    <3>3. \E e : Picks(<<s>>, e, {z + 1}, src)
      BY <1>5, PicksOne
    <3> QED
      BY <3>1, <3>2, <3>3 DEF sigs, match
  <2>3. CASE ~Verifies(s, d, t, i)
    <3>1. match = <<>>
      BY <1>2, <2>1, <2>3
    <3>2. S = {}
      <4>1. \A h : h \notin S
        BY <1>7, <2>3 DEF Chosen
      <4> QED
        BY <4>1
    <3>3. \E e : Picks(<<>>, e, {}, src)
      BY PicksNone
    <3> QED
      BY <3>1, <3>2, <3>3 DEF sigs, match
  <2> QED
    BY <2>2, <2>3
<1> QED
  BY <1>6, <1>7

\* What is chosen for a key verifies with it, and so with no other.
LEMMA ChosenVerifies ==
    ASSUME NEW sigs \in Seq(Signature), NEW s, NEW d, NEW t, NEW i,
           NEW h \in Chosen(sigs, s, d, t, i)
    PROVE  Verifies(Source(sigs, s)[h], d, t, i) /\ h \in 1..(Len(sigs) + 1)
<1>1. PICK z \in Nat : z = Len(sigs)
  OBVIOUS
<1>2. h \in 1..(z + 1)
  BY <1>1 DEF Chosen
<1>3. CASE h \in Verifying(sigs, d, t, i)
  <2>1. h \in 1..z /\ h # z + 1 /\ Verifies(sigs[h], d, t, i)
    BY <1>1, <1>3 DEF Verifying
  <2>2. Source(sigs, s)[h] = sigs[h]
    BY <1>1, <1>2, <2>1 DEF Source
  <2> QED
    BY <1>1, <1>2, <2>1, <2>2
<1>4. CASE h = z + 1 /\ Verifies(s, d, t, i)
  <2>1. Source(sigs, s)[h] = s
    BY <1>1, <1>2, <1>4 DEF Source
  <2> QED
    BY <1>1, <1>2, <1>4, <2>1
<1> QED
  BY <1>1, <1>3, <1>4 DEF Chosen

LEMMA OneKey ==
    ASSUME NEW d \in DerivedKeys, NEW e \in DerivedKeys, NEW x, NEW t, NEW i,
           Matches(x, d), Matches(x, e)
    PROVE  d = e
BY SameKey DEF Matches

\* What SignTX has for the first j keys.
AllChosen(j, keys, sigs, s, t, i) == UNION {Chosen(sigs, s, keys[a], t, i) : a \in 1..j}

Collected(u, j, keys, sigs, s, t, i) ==
    /\ \E f : Picks(u, f, AllChosen(j, keys, sigs, s, t, i), Source(sigs, s))
    /\ \A y \in 1..Len(u) : \E a \in 1..j : Verifies(u[y], keys[a], t, i)
    /\ InOrder(u, keys)

\* It goes on with the next key.
LEMMA CollectedNext ==
    ASSUME NEW keys \in Seq(DerivedKeys),
           \A a, b \in 1..Len(keys) : keys[a] = keys[b] => a = b,
           NEW sigs \in Seq(Signature), NEW s, NEW t, NEW i,
           NEW j \in Nat, j + 1 <= Len(keys),
           NEW u, Collected(u, j, keys, sigs, s, t, i),
           NEW r, NEW e, Picks(r, e, Chosen(sigs, s, keys[j + 1], t, i), Source(sigs, s))
    PROVE  Collected(u \o r, j + 1, keys, sigs, s, t, i)
<1> DEFINE src == Source(sigs, s)
           S == AllChosen(j, keys, sigs, s, t, i)
           T == Chosen(sigs, s, keys[j + 1], t, i)
           v == u \o r
<1>1. PICK f : Picks(u, f, S, src)
  BY DEF Collected
<1>2. /\ j + 1 \in 1..Len(keys)
      /\ \A a \in 1..(j + 1) : a \in 1..j \/ a = j + 1
      /\ \A a \in 1..j : a \in 1..(j + 1) /\ a # j + 1 /\ a \in 1..Len(keys) /\ a <= j + 1
  OBVIOUS
<1>3. \A a \in 1..Len(keys) : keys[a] \in DerivedKeys
  OBVIOUS
<1>4. S \cap T = {}
  <2>1. SUFFICES ASSUME NEW h \in S, h \in T
                 PROVE  FALSE
    OBVIOUS
  <2>2. PICK a \in 1..j : h \in Chosen(sigs, s, keys[a], t, i)
    BY DEF AllChosen
  <2>3. Verifies(src[h], keys[a], t, i) /\ Verifies(src[h], keys[j + 1], t, i)
    BY <2>1, <2>2, ChosenVerifies
  <2>4. Matches(src[h], keys[a]) /\ Matches(src[h], keys[j + 1])
    BY <2>3 DEF Verifies, Matches
  <2>5. keys[a] = keys[j + 1]
    BY <1>2, <1>3, <2>4, OneKey
  <2> QED
    BY <1>2, <2>5
<1>5. S \cup T = AllChosen(j + 1, keys, sigs, s, t, i)
  <2>1. \A h : h \in S \cup T <=> h \in AllChosen(j + 1, keys, sigs, s, t, i)
    BY <1>2 DEF AllChosen
  <2> QED
    BY <2>1
<1>6. \A y \in 1..Len(r) : r[y] \in Signature /\ Verifies(r[y], keys[j + 1], t, i)
  <2>1. SUFFICES ASSUME NEW y \in 1..Len(r)
                 PROVE  r[y] \in Signature /\ Verifies(r[y], keys[j + 1], t, i)
    OBVIOUS
  <2>2. e[y] \in T /\ r[y] = src[e[y]] /\ r[y] \in Signature
    BY DEF Picks
  <2> QED
    BY <2>2, ChosenVerifies
<1>7. u \in Seq(Signature) /\ r \in Seq(Signature)
  BY <1>1 DEF Picks
<1>8. /\ \A y \in 1..Len(u) : \E a \in 1..j : Verifies(u[y], keys[a], t, i)
      /\ InOrder(u, keys)
  BY DEF Collected
<1>9. \E g : Picks(v, g, AllChosen(j + 1, keys, sigs, s, t, i), src)
  <2> HIDE DEF S, T, src
  <2>1. \E g : Picks(v, g, S \cup T, src)
    BY <1>1, <1>4, JoinPicks DEF src, T
  <2> QED
    BY <1>5, <2>1
<1>10. PICK l \in Nat : l = Len(u)
  BY <1>7
<1>11. PICK z \in Nat : z = Len(r)
  BY <1>7
<1>12. /\ Len(v) = l + z
       /\ \A y \in 1..l : v[y] = u[y]
       /\ \A y \in 1..(l + z) : ~(y <= l) => y - l \in 1..z /\ v[y] = r[y - l]
  BY <1>7, <1>10, <1>11
<1> HIDE DEF S, T, src, v
<1>13. \A y \in 1..(l + z) : y \in 1..l \/ ~(y <= l)
  OBVIOUS
<1>14. ASSUME NEW y \in 1..(l + z)
       PROVE  \E a \in 1..(j + 1) : Verifies(v[y], keys[a], t, i)
  <2>1. CASE y \in 1..l
    <3>1. PICK a \in 1..j : Verifies(u[y], keys[a], t, i)
      BY <1>8, <1>10, <2>1
    <3> QED
      BY <1>2, <1>12, <2>1, <3>1
  <2>2. CASE ~(y <= l)
    <3>1. y - l \in 1..z /\ v[y] = r[y - l]
      BY <1>12, <2>2
    <3>2. Verifies(v[y], keys[j + 1], t, i) /\ j + 1 \in 1..(j + 1)
      BY <1>6, <1>11, <3>1
    <3> QED
      BY <3>2
  <2> QED
    BY <1>13, <2>1, <2>2
<1>15. ASSUME NEW g \in 1..(l + z), NEW h \in 1..(l + z),
              NEW a \in 1..Len(keys), NEW b \in 1..Len(keys),
              g < h, Matches(v[g], keys[a]), Matches(v[h], keys[b])
       PROVE  a <= b
  <2>1. CASE h \in 1..l
    <3>1. g \in 1..l /\ v[g] = u[g] /\ v[h] = u[h]
      <4>1. g \in 1..l
        BY <1>15, <2>1
      <4> QED
        BY <1>12, <2>1, <4>1
    <3> QED
      BY <1>8, <1>10, <1>15, <2>1, <3>1 DEF InOrder
  <2>2. CASE ~(h <= l)
    <3>1. h - l \in 1..z /\ v[h] = r[h - l]
      BY <1>12, <2>2
    <3>2. Matches(v[h], keys[j + 1])
      BY <1>6, <1>11, <3>1 DEF Verifies, Matches
    <3>3. keys[b] = keys[j + 1]
      BY <1>2, <1>3, <1>15, <3>2, OneKey
    <3>4. b = j + 1
      BY <1>2, <3>3
    <3>5. PICK y \in 1..(j + 1) : Verifies(v[g], keys[y], t, i)
      BY <1>14
    <3>6. y \in 1..Len(keys) /\ y <= j + 1
      BY <1>2
    <3>7. keys[a] = keys[y]
      <4>1. Matches(v[g], keys[y])
        BY <3>5 DEF Verifies, Matches
      <4> QED
        BY <1>3, <1>15, <3>6, <4>1, OneKey
    <3>8. a = y
      BY <3>6, <3>7
    <3> QED
      BY <3>4, <3>6, <3>8
  <2> QED
    BY <1>13, <2>1, <2>2
<1>16. InOrder(v, keys)
  BY <1>12, <1>15 DEF InOrder
<1>17. Collected(v, j + 1, keys, sigs, s, t, i)
  BY <1>9, <1>12, <1>14, <1>16 DEF Collected, src
<1> QED
  BY <1>17 DEF v

\* The same of what there is for each of the n keys.
LEMMA SignaturesFlattened ==
    ASSUME NEW q \in [1..n -> Seq(Signature)]
    PROVE  \E g : /\ g[0] = <<>>
                  /\ \A j \in 0..(n - 1) : g[j + 1] = g[j] \o q[j + 1]
                  /\ g[n] = FlattenSeq(q)
<1>1. n \in Nat
  BY MultisigAssumption
<1> QED
  BY <1>1, FlattenIs

\* What OrderSignatures returns, of any incoming signatures.
LEMMA OrderedIs ==
    ASSUME NEW c, NEW t, NEW i, NEW s \in Signature, NEW keys \in Seq(DerivedKeys),
           keys = OrderDHPublicKey(c, Inputs[t][i].path), Len(keys) = n,
           \A a, b \in 1..n : keys[a] = keys[b] => a = b,
           FromIncTx(c, i) \in Seq(Signature)
    PROVE  Collected(OrderSignatures(c, t, i, s), n, keys, FromIncTx(c, i), s, t, i)
<1> DEFINE sigs == FromIncTx(c, i)
           q == [j \in 1..n |-> Matching(c, t, i, keys[j], s)]
           out == OrderSignatures(c, t, i, s)
           src == Source(sigs, s)
<1>1. /\ keys \in Seq(DerivedKeys) /\ Len(keys) = n
      /\ \A a, b \in 1..Len(keys) : keys[a] = keys[b] => a = b
  OBVIOUS
<1>2. out = FlattenSeq(q)
  BY DEF OrderSignatures
<1>3. n \in Nat /\ n > 0
  BY MultisigAssumption
<1>4. \A j \in 1..n : \E e : Picks(q[j], e, Chosen(sigs, s, keys[j], t, i), src)
  BY MatchingIs
<1>5. q \in [1..n -> Seq(Signature)]
  <2>1. \A j \in 1..n : q[j] \in Seq(Signature)
    BY <1>4 DEF Picks
  <2>2. q = [j \in 1..n |-> q[j]]
    OBVIOUS
  <2> HIDE DEF q
  <2> QED
    BY <2>1, <2>2
<1>6. sigs \in Seq(Signature)
  OBVIOUS
<1> HIDE DEF sigs, q, out
<1>7. PICK g : /\ g[0] = <<>>
               /\ \A j \in 0..(n - 1) : g[j + 1] = g[j] \o q[j + 1]
               /\ g[n] = FlattenSeq(q)
  BY <1>5, SignaturesFlattened
<1> DEFINE P == {j \in Nat : j <= n => Collected(g[j], j, keys, sigs, s, t, i)}
<1>8. 0 \in P
  <2>1. AllChosen(0, keys, sigs, s, t, i) = {}
    BY DEF AllChosen
  <2>2. \E f : Picks(<<>>, f, {}, src)
    BY PicksNone
  <2>3. /\ \A y \in 1..Len(<<>>) : \E a \in 1..0 : Verifies(<<>>[y], keys[a], t, i)
        /\ InOrder(<<>>, keys)
    BY DEF InOrder
  <2>4. Collected(<<>>, 0, keys, sigs, s, t, i)
    BY <2>1, <2>2, <2>3 DEF Collected
  <2> QED
    BY <1>7, <2>4
<1>9. ASSUME NEW j \in Nat, j \in P
      PROVE  j + 1 \in P
  <2>1. SUFFICES ASSUME j + 1 <= n
                 PROVE  Collected(g[j + 1], j + 1, keys, sigs, s, t, i)
    OBVIOUS
  <2>2. j \in 0..(n - 1) /\ j + 1 \in 1..n /\ j <= n /\ j + 1 <= Len(keys)
    BY <1>1, <1>3, <2>1
  <2>3. Collected(g[j], j, keys, sigs, s, t, i)
    BY <1>9, <2>2
  <2>4. PICK e : Picks(q[j + 1], e, Chosen(sigs, s, keys[j + 1], t, i), src)
    BY <1>4, <2>2
  <2>5. Collected(g[j] \o q[j + 1], j + 1, keys, sigs, s, t, i)
    BY <1>1, <1>6, <2>2, <2>3, <2>4, CollectedNext
  <2>6. g[j + 1] = g[j] \o q[j + 1]
    BY <1>7, <2>2
  <2> QED
    BY <2>5, <2>6
<1>10. Collected(out, n, keys, sigs, s, t, i)
  <2>1. n \in P
    <3> HIDE DEF P
    <3> QED
      BY <1>3, <1>8, <1>9, SetInduction
  <2>2. Collected(g[n], n, keys, sigs, s, t, i)
    BY <1>3, <2>1
  <2> QED
    BY <1>2, <1>7, <2>2
<1> QED
  BY <1>10 DEF sigs, out

-----------------------------------------------------------------------------
(* What the call makes of the incoming signatures of one input *)

\* Those that verify with a key of the script.
ValidIn(sigs, keys, t, i) ==
    {h \in 1..Len(sigs) : \E a \in 1..Len(keys) : Verifies(sigs[h], keys[a], t, i)}

Returned(o, keys, sigs, k, t, i) ==
    /\ o \in Seq(Signature)
    /\ OfKeys(o, keys, t, i) /\ InOrder(o, keys)
    /\ \A h \in ValidIn(sigs, keys, t, i) : \E y \in 1..Len(o) : o[y] = sigs[h]
    /\ \A y \in 1..Len(o) : o[y].by = k \/ \E h \in 1..Len(sigs) : o[y] = sigs[h]
    /\ \A x : Twice(x, o) => Twice(x, sigs)
    /\ Len(o) <= Cardinality(ValidIn(sigs, keys, t, i)) + 1

\* One that comes from two places comes from the incoming transaction.
LEMMA TakenTwice ==
    ASSUME NEW keys, NEW sigs \in Seq(Signature), NEW s, NEW t, NEW i, NEW j \in Nat,
           NEW g \in AllChosen(j, keys, sigs, s, t, i),
           NEW h \in AllChosen(j, keys, sigs, s, t, i),
           g # h, Source(sigs, s)[g] = Source(sigs, s)[h]
    PROVE  g \in 1..Len(sigs) /\ Source(sigs, s)[g] = sigs[g]
<1>1. PICK z \in Nat : z = Len(sigs)
  OBVIOUS
<1>2. PICK a \in 1..j : g \in Chosen(sigs, s, keys[a], t, i)
  BY DEF AllChosen
<1>3. PICK b \in 1..j : h \in Chosen(sigs, s, keys[b], t, i)
  BY DEF AllChosen
<1>4. g \in 1..(z + 1) /\ h \in 1..(z + 1)
  BY <1>1, <1>2, <1>3, ChosenVerifies
<1>5. g # z + 1
  <2>1. SUFFICES ASSUME g = z + 1
                 PROVE  FALSE
    OBVIOUS
  <2>2. h \in 1..z
    BY <1>4, <2>1
  <2>3. Source(sigs, s)[g] = s /\ Source(sigs, s)[h] = sigs[h]
    BY <1>1, <1>4, <2>1, <2>2 DEF Source
  <2>4. g \notin 1..z
    BY <2>1
  <2>5. Verifying(sigs, keys[a], t, i) = {} /\ Verifies(s, keys[a], t, i)
    BY <1>1, <1>2, <2>4 DEF Chosen, Verifying
  <2>6. h \in Verifying(sigs, keys[a], t, i)
    BY <1>1, <2>2, <2>3, <2>5 DEF Verifying
  <2> QED
    BY <2>5, <2>6
<1>6. g \in 1..z
  BY <1>4, <1>5
<1> QED
  BY <1>1, <1>4, <1>5, <1>6 DEF Source

LEMMA CollectedGives ==
    ASSUME NEW keys \in Seq(DerivedKeys), NEW sigs \in Seq(Signature),
           NEW k, NEW s \in Signature, s.by = k, NEW t, NEW i, NEW o,
           Collected(o, Len(keys), keys, sigs, s, t, i)
    PROVE  Returned(o, keys, sigs, k, t, i)
<1> DEFINE src == Source(sigs, s)
           l == Len(keys)
           S == AllChosen(l, keys, sigs, s, t, i)
           V == ValidIn(sigs, keys, t, i)
<1>1. PICK f : Picks(o, f, S, src)
  BY DEF Collected
<1>2. /\ o \in Seq(Signature) /\ Len(o) \in Nat
      /\ f \in [1..Len(o) -> S]
      /\ \A y, w \in 1..Len(o) : f[y] = f[w] => y = w
      /\ \A h \in S : \E y \in 1..Len(o) : f[y] = h
      /\ \A y \in 1..Len(o) : o[y] = src[f[y]]
  BY <1>1 DEF Picks
<1>3. PICK z \in Nat : z = Len(sigs)
  OBVIOUS
<1>4. l \in Nat
  OBVIOUS
<1>5. \A h \in S : \E a \in 1..l : h \in Chosen(sigs, s, keys[a], t, i)
  BY DEF AllChosen
<1>6. /\ src[z + 1] = s
      /\ \A h \in 1..z : src[h] = sigs[h]
  BY <1>3 DEF Source
<1>7. OfKeys(o, keys, t, i) /\ InOrder(o, keys)
  BY DEF Collected, OfKeys
<1> HIDE DEF src, S, l
<1>8. ASSUME NEW h \in V
      PROVE  h \in S /\ h \in 1..z
  <2>1. h \in 1..z
    BY <1>3 DEF ValidIn
  <2>2. PICK a \in 1..l : Verifies(sigs[h], keys[a], t, i)
    BY DEF ValidIn, l
  <2>3. h \in Verifying(sigs, keys[a], t, i)
    BY <1>3, <2>1, <2>2 DEF Verifying
  <2>4. h \in 1..(Len(sigs) + 1)
    BY <1>3, <2>1
  <2>5. h \in Chosen(sigs, s, keys[a], t, i)
    BY <2>3, <2>4 DEF Chosen
  <2> QED
    BY <2>1, <2>5 DEF S, AllChosen
<1>9. ASSUME NEW h \in S
      PROVE  h \in V \cup {z + 1}
  <2>1. PICK a \in 1..l : h \in Chosen(sigs, s, keys[a], t, i)
    BY <1>5
  <2>2. CASE h \in Verifying(sigs, keys[a], t, i)
    BY <2>2 DEF Verifying, ValidIn, l
  <2>3. CASE h = z + 1
    BY <2>3
  <2> QED
    BY <1>3, <2>1, <2>2, <2>3 DEF Chosen
<1>10. \A h \in V : \E y \in 1..Len(o) : o[y] = sigs[h]
  <2>1. SUFFICES ASSUME NEW h \in V
                 PROVE  \E y \in 1..Len(o) : o[y] = sigs[h]
    OBVIOUS
  <2>2. PICK y \in 1..Len(o) : f[y] = h
    BY <1>2, <1>8
  <2>3. o[y] = sigs[h]
    BY <1>2, <1>6, <1>8, <2>2
  <2> QED
    BY <2>3
<1>11. \A y \in 1..Len(o) : o[y].by = k \/ \E h \in 1..Len(sigs) : o[y] = sigs[h]
  <2>1. SUFFICES ASSUME NEW y \in 1..Len(o)
                 PROVE  o[y].by = k \/ \E h \in 1..Len(sigs) : o[y] = sigs[h]
    OBVIOUS
  <2>2. f[y] \in S /\ o[y] = src[f[y]]
    BY <1>2
  <2>3. f[y] \in V \cup {z + 1}
    BY <1>9, <2>2
  <2>4. CASE f[y] \in V
    <3>1. f[y] \in 1..z /\ o[y] = sigs[f[y]]
      BY <1>6, <1>8, <2>2, <2>4
    <3> QED
      BY <1>3, <3>1
  <2>5. CASE f[y] = z + 1
    BY <1>6, <2>2, <2>5
  <2> QED
    BY <2>3, <2>4, <2>5
<1>12. \A x : Twice(x, o) => Twice(x, sigs)
  <2>1. SUFFICES ASSUME NEW x, Twice(x, o)
                 PROVE  Twice(x, sigs)
    OBVIOUS
  <2>2. PICK g \in 1..Len(o), h \in 1..Len(o) : g < h /\ o[g] = x /\ o[h] = x
    <3>1. DOMAIN o = 1..Len(o)
      BY <1>2
    <3> QED
      BY <2>1, <3>1 DEF Twice
  <2>3. f[g] # f[h] /\ f[g] \in S /\ f[h] \in S
    <3>1. g # h
      BY <1>2, <2>2
    <3> QED
      BY <1>2, <3>1
  <2>4. src[f[g]] = x /\ src[f[h]] = x
    BY <1>2, <2>2
  <2> DEFINE b == f[g]
             d == f[h]
  <2>5. b \in S /\ d \in S /\ b # d /\ src[b] = x /\ src[d] = x
    BY <2>3, <2>4
  <2> HIDE DEF b, d
  <2>6. b \in 1..z /\ sigs[b] = x /\ d \in 1..z /\ sigs[d] = x
    BY <1>3, <1>4, <2>5, TakenTwice DEF S, src
  <2>7. DOMAIN sigs = 1..z /\ (b < d \/ d < b)
    BY <1>3, <2>5, <2>6
  <2> QED
    BY <2>6, <2>7 DEF Twice
<1>13. Len(o) <= Cardinality(V) + 1
  <2>1. PICK r \in Nat : r = Len(o)
    BY <1>2
  <2>2. /\ IsFiniteSet(1..z) /\ IsFiniteSet(1..r)
        /\ Cardinality(1..r) = IF 1 > r THEN 0 ELSE r - 1 + 1
    BY FS_Interval
  <2>3. Cardinality(1..r) = r
    BY <2>2
  <2>4. V \in SUBSET (1..z)
    BY <1>8
  <2> DEFINE W == V \cup {z + 1}
  <2>5. IsFiniteSet(V) /\ Cardinality(V) \in Nat
    <3> HIDE DEF V
    <3>1. IsFiniteSet(V)
      BY <2>2, <2>4, FS_Subset
    <3> QED
      BY <3>1, FS_CardinalityType
  <2>6. z + 1 \notin V
    <3>1. z + 1 \notin 1..z
      OBVIOUS
    <3> QED
      BY <2>4, <3>1
  <2>7. IsFiniteSet(W) /\ Cardinality(W) = Cardinality(V) + 1
    <3> HIDE DEF V
    <3> QED
      BY <2>5, <2>6, FS_AddElement
  <2>8. f \in [1..r -> W]
    <3>1. \A h \in S : h \in W
      BY <1>9
    <3> HIDE DEF W
    <3> QED
      BY <1>2, <2>1, <3>1
  <2>9. f \in Injection(1..r, W)
    <3> HIDE DEF W
    <3> QED
      BY <1>2, <2>1, <2>8 DEF Injection, IsInjective
  <2>10. Cardinality(1..r) <= Cardinality(W)
    <3> HIDE DEF W
    <3> QED
      BY <2>7, <2>9, FS_Injection
  <2> HIDE DEF W, V
  <2> QED
    BY <2>1, <2>3, <2>7, <2>10
<1> QED
  BY <1>2, <1>7, <1>10, <1>11, <1>12, <1>13 DEF Returned

-----------------------------------------------------------------------------
(* The call of SignTX *)

\* Every input has a path.
LEMMA InputIs ==
    ASSUME NEW t \in Txs, NEW i \in DOMAIN Inputs[t]
    PROVE  Inputs[t][i].path \in Paths /\ i \in Nat
<1> DEFINE R == [path : Paths, type : {"P2SH_MULTISIG", "P2PKH"}]
<1>1. Inputs[t] \in Seq(R)
  BY MultisigAssumption
<1> HIDE DEF R
<1>2. Inputs[t][i] \in R /\ i \in Nat
  BY <1>1
<1> QED
  BY <1>2 DEF R

\* The device's signatures are by its own key.
LEMMA AnswerIs ==
    ASSUME NEW k \in Cosigners, NEW c, IsContext(k, c), Buildable(c),
           NEW t \in Txs, NEW s \in DeviceAnswers(c, t), NEW i \in DOMAIN Inputs[t]
    PROVE  s[i] \in Signature /\ s[i].by = k
<1> DEFINE R == RightAnswer(c, t)
           D == DOMAIN Inputs[t]
<1>1. k \in Keys
  BY MultisigAssumption
<1>2. Inputs[t][i].path \in Paths /\ i \in Nat
  BY InputIs
<1>3. CosignerIndex(c) \in Nat
  BY <1>2, ScriptIs
<1>4. c.me = k
  BY ContextIs
<1>5. R = [j \in D |-> [by |-> k, index |-> CosignerIndex(c), tx |-> t, input |-> j, der |-> TRUE]]
  BY <1>4 DEF RightAnswer
<1> DEFINE x == R[i]
<1>6. x = [by |-> k, index |-> CosignerIndex(c), tx |-> t, input |-> i, der |-> TRUE]
  BY <1>5
<1>8. x \in Signature /\ x.by = k
  BY <1>1, <1>2, <1>3, <1>6 DEF Signature
<1>9. \/ s = R
      \/ \E j \in D : s = [R EXCEPT ![j].input = 0] \/ s = [R EXCEPT ![j].der = FALSE]
  BY DEF DeviceAnswers
<1>10. \/ s[i] = x
       \/ s[i] = [x EXCEPT !.input = 0]
       \/ s[i] = [x EXCEPT !.der = FALSE]
  <2>1. R = [j \in D |-> R[j]]
    BY <1>5
  <2>2. CASE s = R
    BY <2>2
  <2>3. ASSUME NEW j \in D, s = [R EXCEPT ![j].input = 0]
        PROVE  s[i] = x \/ s[i] = [x EXCEPT !.input = 0]
    <3> HIDE DEF R
    <3> QED
      BY <2>1, <2>3
  <2>4. ASSUME NEW j \in D, s = [R EXCEPT ![j].der = FALSE]
        PROVE  s[i] = x \/ s[i] = [x EXCEPT !.der = FALSE]
    <3> HIDE DEF R
    <3> QED
      BY <2>1, <2>4
  <2> HIDE DEF R
  <2> QED
    BY <1>9, <2>2, <2>3, <2>4
<1> HIDE DEF x
<1>11. [x EXCEPT !.input = 0] \in Signature /\ [x EXCEPT !.input = 0].by = k
  BY <1>8 DEF Signature
<1>12. [x EXCEPT !.der = FALSE] \in Signature /\ [x EXCEPT !.der = FALSE].by = k
  BY <1>8 DEF Signature
<1> QED
  BY <1>8, <1>10, <1>11, <1>12

\* The incoming transaction that fits has, for the input, any signatures.
LEMMA IncomingIs ==
    ASSUME NEW k \in Cosigners, NEW c, IsContext(k, c), NEW t \in Txs, IncTxFits(c, t),
           NEW i \in DOMAIN Inputs[t]
    PROVE  FromIncTx(c, i) \in Seq(Signature)
<1> DEFINE sigs == FromIncTx(c, i)
<1>1. CASE c.incTx = NULL
  <2>1. sigs = <<>>
    BY <1>1 DEF FromIncTx
  <2> HIDE DEF sigs
  <2>2. sigs \in Seq(Signature)
    BY <2>1
  <2> QED
    BY <2>2 DEF sigs
<1>2. CASE c.incTx # NULL
  <2>1. c.incTx # GARBAGE /\ c.incTx.tx = t
    BY <1>2 DEF IncTxFits
  <2>2. IsTx(c.incTx)
    BY <1>2, <2>1 DEF IsContext
  <2>3. sigs = c.incTx.sigs[i]
    BY <1>2 DEF FromIncTx
  <2>4. i \in DOMAIN c.incTx.sigs
    BY <2>1, <2>2 DEF IsTx
  <2> QED
    BY <2>2, <2>3, <2>4 DEF IsTx
<1> QED
  BY <1>1, <1>2

LEMMA ReturnedIs ==
    ASSUME NEW k \in Cosigners, NEW c, IsContext(k, c), Buildable(c),
           NEW t \in Txs, IncTxFits(c, t),
           NEW s \in DeviceAnswers(c, t), NEW i \in DOMAIN Inputs[t]
    PROVE  LET keys == OrderDHPublicKey(c, Inputs[t][i].path)
           IN  /\ AreKeys(keys, k, CosignerIndex(c))
               /\ FromIncTx(c, i) \in Seq(Signature)
               /\ Returned(OrderSignatures(c, t, i, s[i]), keys, FromIncTx(c, i), k, t, i)
<1> DEFINE keys == OrderDHPublicKey(c, Inputs[t][i].path)
           sigs == FromIncTx(c, i)
           x == s[i]
           o == OrderSignatures(c, t, i, x)
           index == CosignerIndex(c)
<1>1. x \in Signature /\ x.by = k
  BY AnswerIs
<1>2. Inputs[t][i].path \in Paths
  BY InputIs
<1>3. AreKeys(keys, k, index)
  BY <1>2, ScriptIs
<1>4. sigs \in Seq(Signature)
  BY IncomingIs
<1>5. keys = OrderDHPublicKey(c, Inputs[t][i].path)
  OBVIOUS
<1> HIDE DEF keys, index, x
<1>6. /\ keys \in Seq(DerivedKeys) /\ Len(keys) = n
      /\ \A a, b \in 1..n : keys[a] = keys[b] => a = b
  BY <1>3 DEF AreKeys
<1>7. Collected(o, Len(keys), keys, sigs, x, t, i)
  BY <1>1, <1>4, <1>5, <1>6, OrderedIs
<1> HIDE DEF sigs, o
<1>8. Returned(o, keys, sigs, k, t, i)
  BY <1>1, <1>4, <1>6, <1>7, CollectedGives
<1> QED
  BY <1>3, <1>4, <1>8 DEF keys, sigs, o, index, x

\* Where the signature of a key is in the script.
LEMMA PositionIs ==
    ASSUME NEW keys \in Seq(DerivedKeys),
           \A a, b \in 1..Len(keys) : keys[a] = keys[b] => a = b,
           NEW script, script.keys = keys,
           NEW x, NEW a \in 1..Len(keys), Matches(x, keys[a])
    PROVE  Position(script, x) = a
<1>1. Position(script, x) = CHOOSE j \in 1..Len(keys) : Matches(x, keys[j])
  BY DEF Position, Matches
<1>2. ASSUME NEW j \in 1..Len(keys), Matches(x, keys[j])
      PROVE  j = a
  <2>1. keys[j].key = keys[a].key /\ keys[j].index = keys[a].index
    BY <1>2 DEF Matches
  <2>2. keys[j] \in DerivedKeys /\ keys[a] \in DerivedKeys
    OBVIOUS
  <2>3. keys[j] = keys[a]
    BY <2>1, <2>2, SameKey
  <2> QED
    BY <2>3
<1> QED
  BY <1>1, <1>2

\* A transaction that is returned.
Out(c, t, s) ==
    Serialized(c, t, [i \in DOMAIN Inputs[t] |-> OrderSignatures(c, t, i, s[i])])

LEMMA OutIs ==
    ASSUME NEW k \in Cosigners, NEW c, IsContext(k, c), Buildable(c),
           NEW t \in Txs, IncTxFits(c, t), NEW s \in DeviceAnswers(c, t)
    PROVE  /\ IsTx(Out(c, t, s))
           /\ Out(c, t, s).tx = t /\ DOMAIN Out(c, t, s).sigs = DOMAIN Inputs[t]
           /\ \A i \in DOMAIN Inputs[t] :
                LET keys == OrderDHPublicKey(c, Inputs[t][i].path)
                IN  /\ Out(c, t, s).scripts[i].keys = keys
                    /\ AreKeys(keys, k, CosignerIndex(c))
                    /\ FromIncTx(c, i) \in Seq(Signature)
                    /\ Returned(Out(c, t, s).sigs[i], keys, FromIncTx(c, i), k, t, i)
<1> DEFINE D == DOMAIN Inputs[t]
           sigs == [i \in D |-> OrderSignatures(c, t, i, s[i])]
           x == Out(c, t, s)
           l == Len(Inputs[t])
<1>1. x.tx = t /\ x.scripts = Scripts(c, t) /\ x.sigs = sigs
  BY DEF Out, Serialized
<1>2. D = 1..l /\ l \in Nat
  BY MultisigAssumption
<1>3. Scripts(c, t) = [i \in D |-> Scripts(c, t)[i]]
  BY DEF Scripts
<1> HIDE DEF x, l
<1>4. ASSUME NEW i \in D
      PROVE  /\ x.scripts[i].keys = OrderDHPublicKey(c, Inputs[t][i].path)
             /\ AreKeys(OrderDHPublicKey(c, Inputs[t][i].path), k, CosignerIndex(c))
             /\ FromIncTx(c, i) \in Seq(Signature)
             /\ Returned(x.sigs[i], OrderDHPublicKey(c, Inputs[t][i].path), FromIncTx(c, i), k, t, i)
  <2>1. x.scripts[i].keys = OrderDHPublicKey(c, Inputs[t][i].path)
    BY <1>1 DEF Scripts, BuildRedeemScript
  <2>2. x.sigs[i] = OrderSignatures(c, t, i, s[i])
    BY <1>1
  <2> QED
    BY <2>1, <2>2, ReturnedIs
<1>5. DOMAIN x.scripts = D /\ Len(x.scripts) = l
  BY <1>1, <1>2, <1>3
<1>6. DOMAIN x.sigs = D /\ Len(x.sigs) = l
  BY <1>1, <1>2
<1>7. \A i \in D : x.sigs[i] \in Seq(Signature)
  BY <1>4 DEF Returned
<1>8. IsTx(x)
  <2> HIDE DEF D
  <2>1. DOMAIN Inputs[x.tx] = D /\ Len(Inputs[x.tx]) = l /\ x.tx \in Txs
    BY <1>1 DEF D, l
  <2> QED
    BY <1>5, <1>6, <1>7, <2>1 DEF IsTx
<1> QED
  BY <1>1, <1>4, <1>6, <1>8 DEF x

-----------------------------------------------------------------------------
(* The steps *)

\* What is said of the call that has just ended.
LastSound == ReturnedTxSound /\ FinishedByDifferentKeys /\ OverrunsOnlyOver

\* A call that returns no transaction.
LEMMA NoOutput ==
    ASSUME last'.out = NULL, last'.rv # "crash"
    PROVE  LastSound'
BY DEF LastSound, ReturnedTxSound, FinishedByDifferentKeys, OverrunsOnlyOver

LEMMA IncomingAre ==
    ASSUME NEW c, NEW i, last'.inc = c.incTx
    PROVE  Incoming(i)' = FromIncTx(c, i)
<1>1. CASE c.incTx = NULL
  BY <1>1 DEF Incoming, FromIncTx
<1>2. CASE c.incTx # NULL
  BY <1>2 DEF Incoming, FromIncTx
<1> QED
  BY <1>1, <1>2

\* A call that returns one.
LEMMA OutputSound ==
    ASSUME NEW k \in Cosigners, NEW c, IsContext(k, c), Buildable(c),
           NEW t \in Txs, IncTxFits(c, t), NEW s \in DeviceAnswers(c, t),
           last'.out = Out(c, t, s), last'.inc = c.incTx, last'.by = k, last'.rv # "crash"
    PROVE  LastSound'
<1> DEFINE x == Out(c, t, s)
<1>1. x.tx = t /\ DOMAIN x.sigs = DOMAIN Inputs[t]
  BY OutIs
<1>2. ASSUME NEW i \in DOMAIN Inputs[t]
      PROVE  /\ \A j \in DOMAIN x.sigs[i] :
                /\ \E d \in ToSet(x.scripts[i].keys) : Verifies(x.sigs[i][j], d, x.tx, i)
                /\ \A h \in 1..(j - 1) :
                    Position(x.scripts[i], x.sigs[i][h]) <= Position(x.scripts[i], x.sigs[i][j])
             /\ \A y \in ToSet(FromIncTx(c, i)) :
                (\E d \in ToSet(x.scripts[i].keys) : Verifies(y, d, x.tx, i)) =>
                    y \in ToSet(x.sigs[i])
             /\ \A y \in ToSet(x.sigs[i]) \ ToSet(FromIncTx(c, i)) : y.by = k
             /\ \A y : Twice(y, x.sigs[i]) => Twice(y, FromIncTx(c, i))
             /\ Len(x.sigs[i]) \in Nat
             /\ LET V == {h \in DOMAIN FromIncTx(c, i) :
                            \E d \in ToSet(x.scripts[i].keys) :
                                Verifies(FromIncTx(c, i)[h], d, x.tx, i)}
                IN  Cardinality(V) \in Nat /\ Len(x.sigs[i]) <= Cardinality(V) + 1
  <2> DEFINE keys == OrderDHPublicKey(c, Inputs[t][i].path)
             sigs == FromIncTx(c, i)
             o == x.sigs[i]
             script == x.scripts[i]
  <2>1. /\ script.keys = keys
        /\ AreKeys(keys, k, CosignerIndex(c))
        /\ sigs \in Seq(Signature)
        /\ Returned(o, keys, sigs, k, t, i)
    BY OutIs
  <2> HIDE DEF keys, sigs, o, script, x
  <2>2. /\ keys \in Seq(DerivedKeys)
        /\ \A a, b \in 1..Len(keys) : keys[a] = keys[b] => a = b
    BY <2>1 DEF AreKeys
  <2>3. o \in Seq(Signature) /\ DOMAIN o = 1..Len(o) /\ Len(o) \in Nat
    BY <2>1 DEF Returned
  <2>4. DOMAIN sigs = 1..Len(sigs) /\ Len(sigs) \in Nat
    BY <2>1
  <2>5. \A d : d \in ToSet(script.keys) <=> \E a \in 1..Len(keys) : d = keys[a]
    BY <2>1, <2>2 DEF ToSet
  <2>6. ASSUME NEW j \in 1..Len(o)
        PROVE  \E a \in 1..Len(keys) : Verifies(o[j], keys[a], t, i) /\ Position(script, o[j]) = a
    <3>1. PICK a \in 1..Len(keys) : Verifies(o[j], keys[a], t, i)
      BY <2>1 DEF Returned, OfKeys
    <3>2. Matches(o[j], keys[a])
      BY <3>1 DEF Verifies, Matches
    <3> DEFINE y == o[j]
    <3>3. Matches(y, keys[a])
      BY <3>2
    <3> HIDE DEF y
    <3>4. Position(script, y) = a
      BY <2>1, <2>2, <3>3, PositionIs
    <3> QED
      BY <3>1, <3>4 DEF y
  <2>7. ASSUME NEW j \in 1..Len(o)
        PROVE  \E d \in ToSet(script.keys) : Verifies(o[j], d, t, i)
    BY <2>5, <2>6
  <2>8. ASSUME NEW j \in 1..Len(o), NEW h \in 1..(j - 1)
        PROVE  Position(script, o[h]) <= Position(script, o[j])
    <3>1. h \in 1..Len(o) /\ h < j
      BY <2>3
    <3>2. PICK a \in 1..Len(keys) : Verifies(o[h], keys[a], t, i) /\ Position(script, o[h]) = a
      BY <2>6, <3>1
    <3>3. PICK b \in 1..Len(keys) : Verifies(o[j], keys[b], t, i) /\ Position(script, o[j]) = b
      BY <2>6
    <3>4. Matches(o[h], keys[a]) /\ Matches(o[j], keys[b])
      BY <3>2, <3>3 DEF Verifies, Matches
    <3>5. a <= b
      BY <2>1, <3>1, <3>4 DEF Returned, InOrder
    <3> QED
      BY <3>2, <3>3, <3>5
  <2>9. ASSUME NEW y \in ToSet(sigs), NEW d \in ToSet(script.keys), Verifies(y, d, t, i)
        PROVE  y \in ToSet(o)
    <3>1. PICK h \in 1..Len(sigs) : sigs[h] = y
      BY <2>4 DEF ToSet
    <3>2. h \in ValidIn(sigs, keys, t, i)
      BY <2>5, <2>9, <3>1 DEF ValidIn
    <3>3. \E g \in 1..Len(o) : o[g] = sigs[h]
      BY <2>1, <3>2 DEF Returned
    <3> QED
      BY <2>3, <3>1, <3>3 DEF ToSet
  <2>10. \A y \in ToSet(o) \ ToSet(sigs) : y.by = k
    <3>1. \A j \in 1..Len(o) : o[j].by = k \/ \E h \in 1..Len(sigs) : o[j] = sigs[h]
      BY <2>1 DEF Returned
    <3> QED
      BY <2>3, <2>4, <3>1 DEF ToSet
  <2>11. \A y : Twice(y, o) => Twice(y, sigs)
    BY <2>1 DEF Returned
  <2> DEFINE V == {h \in DOMAIN sigs : \E d \in ToSet(script.keys) : Verifies(sigs[h], d, t, i)}
  <2>12. V = ValidIn(sigs, keys, t, i)
    <3>1. \A h : h \in V <=> h \in ValidIn(sigs, keys, t, i)
      BY <2>4, <2>5 DEF ValidIn
    <3> HIDE DEF V
    <3> QED
      BY <3>1
  <2>13. Cardinality(V) \in Nat
    <3>1. V \in SUBSET (1..Len(sigs))
      BY <2>4
    <3> HIDE DEF V
    <3>2. IsFiniteSet(1..Len(sigs))
      BY <2>4, FS_Interval
    <3>3. IsFiniteSet(V)
      BY <3>1, <3>2, FS_Subset
    <3> QED
      BY <3>3, FS_CardinalityType
  <2>14. Len(o) <= Cardinality(V) + 1
    <3> HIDE DEF V
    <3> QED
      BY <2>1, <2>12 DEF Returned
  <2> QED
    BY <1>1, <2>3, <2>7, <2>8, <2>9, <2>10, <2>11, <2>13, <2>14 DEF o, script, sigs, V
<1> HIDE DEF x
<1>3. \A i : Incoming(i)' = FromIncTx(c, i)
  BY IncomingAre
<1>4. ReturnedTxSound'
  <2>1. SUFFICES ASSUME NEW i \in DOMAIN x.sigs
                 PROVE  /\ \A j \in DOMAIN x.sigs[i] :
                            /\ Valid(x, i, x.sigs[i][j])
                            /\ \A h \in 1..(j - 1) :
                                Position(x.scripts[i], x.sigs[i][h])
                                    <= Position(x.scripts[i], x.sigs[i][j])
                        /\ \A y \in ToSet(Incoming(i)') :
                            Valid(x, i, y) => y \in ToSet(x.sigs[i])
                        /\ \A y \in ToSet(x.sigs[i]) \ ToSet(Incoming(i)') : y.by = k
                        /\ \A y \in ToSet(x.sigs[i]) :
                            Twice(y, x.sigs[i]) => Twice(y, Incoming(i)')
    BY DEF ReturnedTxSound, x
  <2> QED
    BY <1>1, <1>2, <1>3 DEF Valid
<1>5. FinishedByDifferentKeys'
  <2>1. SUFFICES ASSUME NEW i \in DOMAIN x.sigs,
                        Len(x.sigs[i]) >= m,
                        ~(Len(x.sigs[i]) = m /\ \A y \in ToSet(x.sigs[i]) : ~Twice(y, x.sigs[i])),
                        ~\E y \in ToSet(x.sigs[i]) : Twice(y, Incoming(i)')
                 PROVE  Cardinality({h \in DOMAIN Incoming(i)' :
                                        Valid(x, i, Incoming(i)'[h])}) >= m
    BY DEF FinishedByDifferentKeys, x
  <2> DEFINE V == {h \in DOMAIN FromIncTx(c, i) :
                    \E d \in ToSet(x.scripts[i].keys) : Verifies(FromIncTx(c, i)[h], d, x.tx, i)}
  <2>2. {h \in DOMAIN Incoming(i)' : Valid(x, i, Incoming(i)'[h])} = V
    BY <1>3 DEF Valid
  <2>3. Len(x.sigs[i]) # m
    BY <1>1, <1>2, <1>3, <2>1
  <2>4. /\ Len(x.sigs[i]) \in Nat /\ Cardinality(V) \in Nat
        /\ Len(x.sigs[i]) <= Cardinality(V) + 1
    BY <1>1, <1>2
  <2>5. m \in Nat
    BY MultisigAssumption
  <2> HIDE DEF V
  <2>6. Cardinality(V) >= m
    BY <2>1, <2>3, <2>4, <2>5
  <2> QED
    BY <2>2, <2>6
<1>6. OverrunsOnlyOver'
  BY DEF OverrunsOnlyOver
<1> QED
  BY <1>4, <1>5, <1>6 DEF LastSound

\* A step that puts a context in the place of another.
LEMMA ContextsPut ==
    ASSUME Contexts, NEW k \in Cosigners, NEW d, d = NULL \/ IsContext(k, d),
           ctx' = [ctx EXCEPT ![k] = d]
    PROVE  Contexts'
<1>1. ctx' = [j \in Cosigners |-> IF j = k THEN d ELSE ctx[j]]
  BY DEF Contexts
<1>2. ctx' = [j \in Cosigners |-> ctx'[j]]
  BY <1>1
<1>3. ASSUME NEW j \in Cosigners
      PROVE  ctx'[j] = NULL \/ IsContext(j, ctx'[j])
  <2>1. CASE j = k
    <3>1. ctx'[j] = d
      BY <1>1, <2>1
    <3> QED
      BY <2>1, <3>1
  <2>2. CASE j # k
    <3>1. ctx'[j] = ctx[j]
      BY <1>1, <2>2
    <3> QED
      BY <3>1 DEF Contexts
  <2> QED
    BY <2>1, <2>2
<1> QED
  BY <1>2, <1>3 DEF Contexts

LEMMA Kept ==
    ASSUME Contexts, ctx' = ctx
    PROVE  Contexts'
BY DEF Contexts

LEMMA CreateKeeps ==
    ASSUME Inv, NEW k \in Cosigners, NEW list \in Configs, CreateContext(k, list)
    PROVE  Inv' /\ LastSound'
<1> DEFINE d == [me |-> k, keys |-> MainKeys(k, list), incTx |-> NULL]
<1>1. ctx' = [ctx EXCEPT ![k] = d] /\ last' = Nothing /\ UNCHANGED <<held, calls, parses, wrong>>
  BY DEF CreateContext
<1>2. IsContext(k, d)
  <2>1. d.incTx = NULL
    OBVIOUS
  <2>2. d = [me |-> k, keys |-> MainKeys(k, list), incTx |-> d.incTx]
    OBVIOUS
  <2> HIDE DEF d
  <2> QED
    BY <2>1, <2>2 DEF IsContext
<1> HIDE DEF d
<1>3. Contexts'
  BY <1>1, <1>2, ContextsPut DEF Inv
<1>4. last'.out = NULL /\ last'.rv = "none"
  BY <1>1 DEF Nothing
<1> QED
  BY <1>1, <1>3, <1>4, NoOutput DEF Inv

LEMMA ParseKeeps ==
    ASSUME Inv, NEW k \in Cosigners, NEW x \in Foreign \cup ({held, GARBAGE} \ {NULL}), ParseTransaction(k, x)
    PROVE  Inv' /\ LastSound'
<1> DEFINE d == [ctx[k] EXCEPT !.incTx = x]
<1>1. /\ ctx[k] # NULL /\ parses < MaxParses
      /\ ctx' = [ctx EXCEPT ![k].incTx = x] /\ parses' = parses + 1
      /\ last' = Nothing /\ UNCHANGED <<held, calls, wrong>>
  BY DEF ParseTransaction
<1>2. IsContext(k, d)
  <2>1. PICK list \in Configs :
            ctx[k] = [me |-> k, keys |-> MainKeys(k, list), incTx |-> ctx[k].incTx]
    BY <1>1 DEF Inv, Contexts, IsContext
  <2>2. d = [me |-> k, keys |-> MainKeys(k, list), incTx |-> x]
    BY <2>1
  <2>3. d.incTx = x
    BY <2>2
  <2>4. x = GARBAGE \/ IsTx(x)
    BY MultisigAssumption DEF Inv
  <2> HIDE DEF d
  <2> QED
    BY <2>2, <2>3, <2>4 DEF IsContext
<1>3. ctx' = [ctx EXCEPT ![k] = d]
  BY <1>1
<1> HIDE DEF d
<1>4. Contexts'
  BY <1>2, <1>3, ContextsPut DEF Inv
<1>5. last'.out = NULL /\ last'.rv = "none"
  BY <1>1 DEF Nothing
<1>6. parses' \in 0..MaxParses
  BY <1>1, MultisigAssumption DEF Inv
<1> QED
  BY <1>1, <1>4, <1>5, <1>6, NoOutput DEF Inv

\* The calls that end before the device has answered.
LEMMA RefusedKeeps ==
    ASSUME Inv, NEW rv \in {"ARGUMENTS_BAD", "device"}, Refuse(rv), UNCHANGED <<calls, parses, wrong>>
    PROVE  Inv' /\ LastSound'
<1>1. last' = [Nothing EXCEPT !.rv = rv] /\ ctx' = ctx /\ held' = held
  BY DEF Refuse
<1>2. last'.rv = rv /\ last'.out = NULL
  BY <1>1 DEF Nothing
<1>3. last'.rv # "crash"
  BY <1>2
<1>4. Contexts'
  BY <1>1, Kept DEF Inv
<1> QED
  BY <1>1, <1>2, <1>3, <1>4, NoOutput DEF Inv

LEMMA CrashesKeeps ==
    ASSUME Inv, NEW k \in Cosigners, NEW t \in Txs, SignCrashes(k, t)
    PROVE  Inv' /\ LastSound'
<1>1. /\ ctx[k] # NULL /\ calls < MaxCalls
      /\ IncTxOutgrows(ctx[k], t) \/ NoChangeScript(t)
      /\ last' = Ended(k, t, "crash")
      /\ ctx' = [ctx EXCEPT ![k] = NULL] /\ calls' = calls + 1
      /\ UNCHANGED <<held, parses, wrong>>
  BY DEF SignCrashes
<1>2. /\ last'.rv = "crash" /\ last'.out = NULL
      /\ last'.tx = t /\ last'.inc = ctx[k].incTx
  BY <1>1 DEF Ended
<1>3. Contexts'
  BY <1>1, ContextsPut DEF Inv
<1>4. calls' \in 0..MaxCalls
  BY <1>1, MultisigAssumption DEF Inv
<1>5. Inv'
  BY <1>1, <1>2, <1>3, <1>4 DEF Inv
<1>6. OverrunsOnlyOver'
  <2> DEFINE inc == ctx[k].incTx
  <2>1. CASE NoChangeScript(t)
    BY <1>2, <2>1 DEF NoChangeScript, OverrunsOnlyOver
  <2>2. CASE IncTxOutgrows(ctx[k], t)
    <3>0. /\ inc \notin {NULL, GARBAGE}
          /\ \E i \in DOMAIN inc.scripts : i > Len(Inputs[t])
      BY <2>2 DEF IncTxOutgrows
    <3>2. IsTx(inc)
      BY <1>1, <3>0 DEF Inv, Contexts, IsContext
    <3> HIDE DEF inc
    <3>3. /\ Len(inc.scripts) = Len(Inputs[inc.tx]) /\ Len(inc.sigs) = Len(Inputs[inc.tx])
          /\ DOMAIN inc.scripts = DOMAIN Inputs[inc.tx]
      BY <3>2 DEF IsTx
    <3>1. inc \notin {NULL, GARBAGE} /\ Len(inc.scripts) > Len(Inputs[t])
      <4>1. inc.tx \in Txs
        BY <3>2 DEF IsTx
      <4>2. DOMAIN Inputs[inc.tx] = 1..Len(Inputs[inc.tx]) /\ Len(Inputs[inc.tx]) \in Nat
        BY <4>1, MultisigAssumption
      <4>3. Len(Inputs[t]) \in Nat
        BY MultisigAssumption
      <4> QED
        BY <3>0, <3>3, <4>2, <4>3
    <3>4. inc.tx # t
      <4>1. Len(Inputs[t]) \in Nat
        BY MultisigAssumption
      <4> QED
        BY <3>1, <3>3, <4>1
    <3>5. Len(inc.sigs) > Len(Inputs[t])
      BY <3>1, <3>3
    <3>6. last'.inc = inc
      BY <1>2 DEF inc
    <3> QED
      BY <1>2, <3>1, <3>4, <3>5, <3>6 DEF OverrunsOnlyOver
  <2> QED
    BY <1>1, <2>1, <2>2
<1>7. ReturnedTxSound' /\ FinishedByDifferentKeys'
  BY <1>2 DEF ReturnedTxSound, FinishedByDifferentKeys
<1> QED
  BY <1>5, <1>6, <1>7 DEF LastSound

LEMMA SignKeeps ==
    ASSUME Inv, NEW k \in Cosigners, NEW t \in Txs,
           NEW s \in DeviceAnswers(ctx[k], t), SignTX(k, t, s)
    PROVE  Inv' /\ LastSound'
<1> DEFINE c == ctx[k]
           out == Out(c, t, s)
<1>1. /\ ctx[k] # NULL /\ calls < MaxCalls
      /\ Buildable(c) /\ IncTxFits(c, t)
      /\ \/ Refuse("ARGUMENTS_BAD")
         \/ /\ last' = [Ended(k, t, IF IsFinished(out) THEN "OK" ELSE "MULTISIG_OK")
                            EXCEPT !.out = out]
            /\ held' = out
            /\ UNCHANGED ctx
      /\ calls' = calls + 1 /\ parses' = parses
      /\ wrong' = wrong + (IF s = RightAnswer(c, t) THEN 0 ELSE 1)
  BY DEF SignTX, Out
<1>2. IsContext(k, c)
  BY <1>1 DEF Inv, Contexts
<1>3. s \in DeviceAnswers(c, t)
  OBVIOUS
<1>4. calls' \in 0..MaxCalls
  BY <1>1, MultisigAssumption DEF Inv
<1>5. wrong' \in 0..MaxWrong
  <2>1. wrong \in 0..MaxWrong /\ MaxWrong \in Nat
    BY MultisigAssumption DEF Inv
  <2>2. CASE s = RightAnswer(c, t)
    <3>1. wrong' = wrong + 0
      BY <1>1, <2>2
    <3> QED
      BY <2>1, <3>1
  <2>3. CASE s # RightAnswer(c, t)
    <3>1. wrong' = wrong + 1
      BY <1>1, <2>3
    <3>2. wrong # MaxWrong
      BY <2>3 DEF DeviceAnswers
    <3> QED
      BY <2>1, <3>1, <3>2
  <2> QED
    BY <2>2, <2>3
<1>6. CASE Refuse("ARGUMENTS_BAD")
  <2>1. last' = [Nothing EXCEPT !.rv = "ARGUMENTS_BAD"] /\ ctx' = ctx /\ held' = held
    BY <1>6 DEF Refuse
  <2>2. last'.rv = "ARGUMENTS_BAD" /\ last'.out = NULL
    BY <2>1 DEF Nothing
  <2>3. Contexts'
    BY <2>1, Kept DEF Inv
  <2>4. LastSound'
    BY <2>2, NoOutput
  <2> QED
    BY <1>1, <1>4, <1>5, <2>1, <2>2, <2>3, <2>4 DEF Inv
<1>7. ASSUME last' = [Ended(k, t, IF IsFinished(out) THEN "OK" ELSE "MULTISIG_OK")
                          EXCEPT !.out = out],
             held' = out, UNCHANGED ctx
      PROVE  Inv' /\ LastSound'
  <2>1. /\ last'.out = out /\ last'.inc = c.incTx /\ last'.by = k
        /\ last'.rv = IF IsFinished(out) THEN "OK" ELSE "MULTISIG_OK"
    BY <1>7 DEF Ended
  <2>2. last'.rv = "OK" \/ last'.rv = "MULTISIG_OK"
    BY <2>1
  <2>3. IsTx(out)
    BY <1>1, <1>2, <1>3, OutIs
  <2>4. LastSound'
    <3>1. last'.rv # "crash"
      BY <2>2
    <3> QED
      BY <1>1, <1>2, <1>3, <2>1, <3>1, OutputSound
  <2> HIDE DEF out
  <2>5. Contexts'
    BY <1>7, Kept DEF Inv
  <2> QED
    BY <1>1, <1>4, <1>5, <1>7, <2>1, <2>2, <2>3, <2>4, <2>5 DEF Inv
<1> QED
  BY <1>1, <1>6, <1>7

LEMMA InitKeeps ==
    ASSUME Init
    PROVE  Inv /\ LastSound
<1>1. Contexts
  BY DEF Init, Contexts
<1>2. last.rv = "none" /\ last.out = NULL
  BY DEF Init, Nothing
<1>3. Inv
  BY <1>1, <1>2, MultisigAssumption DEF Init, Inv
<1>4. LastSound
  BY <1>2 DEF LastSound, ReturnedTxSound, FinishedByDifferentKeys, OverrunsOnlyOver
<1> QED
  BY <1>3, <1>4

LEMMA NextKeeps ==
    ASSUME Inv /\ LastSound, [Next]_vars
    PROVE  (Inv /\ LastSound)'
<1>1. CASE UNCHANGED vars
  <2>1. ctx' = ctx /\ held' = held /\ UNCHANGED <<calls, parses, wrong>> /\ last' = last
    BY <1>1 DEF vars
  <2>2. Inv'
    BY <2>1, Kept DEF Inv
  <2>3. LastSound'
    BY <2>1 DEF LastSound, ReturnedTxSound, FinishedByDifferentKeys, OverrunsOnlyOver, Incoming
  <2> QED
    BY <2>2, <2>3
<1>2. CASE Next
  <2>1. PICK k \in Cosigners :
            \/ \E list \in Configs : CreateContext(k, list)
            \/ \E x \in Foreign \cup ({held, GARBAGE} \ {NULL}) : ParseTransaction(k, x)
            \/ \E t \in Txs :
                \/ SignRefused(k, t)
                \/ SignCrashes(k, t)
                \/ SignFails(k, t)
                \/ ctx[k] # NULL /\ \E s \in DeviceAnswers(ctx[k], t) : SignTX(k, t, s)
    BY <1>2 DEF Next
  <2>2. ASSUME NEW list \in Configs, CreateContext(k, list)
        PROVE  Inv' /\ LastSound'
    BY <2>2, CreateKeeps
  <2>3. ASSUME NEW x \in Foreign \cup ({held, GARBAGE} \ {NULL}), ParseTransaction(k, x)
        PROVE  Inv' /\ LastSound'
    BY <2>3, ParseKeeps
  <2>4. ASSUME NEW t \in Txs, SignRefused(k, t)
        PROVE  Inv' /\ LastSound'
    BY <2>4, RefusedKeeps DEF SignRefused
  <2>5. ASSUME NEW t \in Txs, SignCrashes(k, t)
        PROVE  Inv' /\ LastSound'
    BY <2>5, CrashesKeeps
  <2>6. ASSUME NEW t \in Txs, SignFails(k, t)
        PROVE  Inv' /\ LastSound'
    BY <2>6, RefusedKeeps DEF SignFails
  <2>7. ASSUME NEW t \in Txs, NEW s \in DeviceAnswers(ctx[k], t), SignTX(k, t, s)
        PROVE  Inv' /\ LastSound'
    BY <2>7, SignKeeps
  <2> QED
    BY <2>1, <2>2, <2>3, <2>4, <2>5, <2>6, <2>7
<1> QED
  BY <1>1, <1>2

LEMMA Always == Spec => [](Inv /\ LastSound)
<1>1. Init => Inv /\ LastSound
  BY InitKeeps
<1>2. (Inv /\ LastSound) /\ [Next]_vars => (Inv /\ LastSound)'
  BY NextKeeps
<1> QED
  BY <1>1, <1>2, PTL DEF Spec

-----------------------------------------------------------------------------
(* Theorems *)

\* The contexts, the transaction that goes from hand to hand and the history
\* keep their types, whatever the devices answer.
THEOREM TypeCorrect == Spec => []TypeOK
<1>2. Inv => TypeOK
  <2>1. SUFFICES ASSUME Inv
                 PROVE  TypeOK
    OBVIOUS
  <2>2. ASSUME NEW k \in Cosigners, ctx[k] # NULL
        PROVE  /\ ctx[k].me = k
               /\ ctx[k].keys \in Seq(Keys) /\ Contains(ctx[k].keys, k)
               /\ ctx[k].incTx \in {NULL, GARBAGE} \/ IsTx(ctx[k].incTx)
    <3>1. IsContext(k, ctx[k])
      BY <2>1, <2>2 DEF Inv, Contexts
    <3>2. ctx[k].incTx \in {NULL, GARBAGE} \/ IsTx(ctx[k].incTx)
      BY <3>1 DEF IsContext
    <3> QED
      BY <3>1, <3>2, ContextIs
  <2>3. held = NULL \/ IsTx(held)
    BY <2>1 DEF Inv
  <2> QED
    BY <2>1, <2>2, <2>3 DEF Inv, TypeOK
<1> QED
  BY <1>2, Always, PTL

\* Cosigners with the same keys build one redeem script, in whatever order they
\* were given the keys, and the device that puts its own key where
\* buildRedeemScriptTlv tells it to builds the same.
THEOREM CosignersAgree == Spec => []ScriptsAgree
<1>1. Inv => ScriptsAgree
  BY ScriptsAgreeIs DEF Inv
<1> QED
  BY <1>1, Always, PTL

\* Whatever transaction comes in, what SignTX returns has only signatures that
\* verify, in the order of the keys: all that came in and verify, each as often,
\* and no others but the device's own.
THEOREM ReturnedSound == Spec => []ReturnedTxSound
<1>1. LastSound => ReturnedTxSound
  BY DEF LastSound
<1> QED
  BY <1>1, Always, PTL

\* SignTX adds at most one signature to those of an input that verify, and none
\* by a key that has signed: an input it counts as finished has those of m
\* different keys, unless there were m before, or one of them twice.
THEOREM FinishedCause == Spec => []FinishedByDifferentKeys
<1>1. LastSound => FinishedByDifferentKeys
  BY DEF LastSound
<1> QED
  BY <1>1, Always, PTL

\* SignTX reads past a vector's end only over a change output of another type,
\* or when the context has kept a transaction with more inputs.
THEOREM OverrunCause == Spec => []OverrunsOnlyOver
<1>1. LastSound => OverrunsOnlyOver
  BY DEF LastSound
<1> QED
  BY <1>1, Always, PTL

-----------------------------------------------------------------------------
(* What the vectors of signatures, the paths of the cosigners' keys and the   *)
(* lengths around them are written as, and read from again: Encodings.  The   *)
(* proof takes the encodings one by one; numbers are given by their four      *)
(* bytes, recursive functions by what they are equal to step by step.         *)

\* The number that bytes spell, byte by byte.
LEMMA SpeltIs ==
    ASSUME NEW b \in Seq(Nat)
    PROVE  \E g : /\ g[0] = 0
                  /\ \A k \in 1..Len(b) : g[k] = 256 * g[k - 1] + b[k]
                  /\ g[Len(b)] = Spelt(b)
<1> DEFINE N == Len(b)
           Body(h, k) == IF k = 0 THEN 0 ELSE 256 * h[k - 1] + b[k]
           Is(h, j) == h = [k \in 0..j |-> Body(h, k)]
           f == CHOOSE h : Is(h, N)
           K == {j \in Nat : \E h : Is(h, j)}
<1>1. Spelt(b) = f[N]
  BY DEF Spelt
<1>2. 0 \in K
  <2> DEFINE h == [k \in 0..0 |-> 0]
  <2>1. Is(h, 0)
    OBVIOUS
  <2> QED
    BY <2>1
<1>3. ASSUME NEW j \in Nat, j \in K
      PROVE  j + 1 \in K
  <2>1. PICK h : Is(h, j)
    BY <1>3
  <2> DEFINE e == [k \in 0..(j + 1) |-> IF k = j + 1 THEN 256 * h[j] + b[j + 1] ELSE h[k]]
  <2>2. \A k \in 0..(j + 1) : e[k] = Body(e, k)
    <3>1. SUFFICES ASSUME NEW k \in 0..(j + 1)
                   PROVE  e[k] = Body(e, k)
      OBVIOUS
    <3>2. CASE k = j + 1
      BY <3>2
    <3>3. CASE k # j + 1
      <4>1. k \in 0..j /\ (k # 0 => k - 1 \in 0..j)
        BY <3>3
      <4>2. h[k] = Body(h, k)
        BY <2>1, <4>1
      <4> QED
        BY <3>3, <4>1, <4>2
    <3> QED
      BY <3>2, <3>3
  <2> DEFINE e2 == [k \in 0..(j + 1) |-> Body(e, k)]
  <2>3. e = e2
    BY <2>2
  <2>4. \E d : Is(d, j + 1)
    <3> WITNESS e
    <3> QED
      BY <2>3
  <2> QED
    BY <2>4
<1>4. N \in K
  <2> N \in Nat
    OBVIOUS
  <2> HIDE DEF K, N
  <2> QED
    BY <1>2, <1>3, SetInduction
<1>5. Is(f, N)
  BY <1>4
<1> HIDE DEF f
<1>6. \A k \in 0..N : f[k] = Body(f, k)
  BY <1>5
<1>7. f[0] = 0 /\ \A k \in 1..N : f[k] = 256 * f[k - 1] + b[k]
  BY <1>6
<1> QED
  BY <1>1, <1>7

\* A byte, and one more of them.
IsByte(b) == b \in Nat /\ b < 256

LEMMA InBytes == \A b : IsByte(b) => b \in Bytes
BY DEF IsByte, Bytes

Then(a, byte) == 256 * a + byte

LEMMA ZeroThen == \A b \in Nat : Then(0, b) = b
BY SMT DEF Then

LEMMA ThenNat == ASSUME NEW a \in Nat, NEW b \in Nat PROVE Then(a, b) \in Nat
BY SMT DEF Then

LEMMA ThenTwo ==
    ASSUME NEW a \in Nat, NEW b, IsByte(b), NEW d, IsByte(d)
    PROVE  Then(Then(a, b), d) < 65536 <=> a = 0
BY SMT DEF Then, IsByte

LEMMA TwoBytes == ASSUME NEW b, IsByte(b), NEW d, IsByte(d) PROVE Then(b, d) < 65536
BY SMT DEF Then, IsByte

\* One, two, three, four bytes, and eight.
LEMMA SpeltOf ==
    ASSUME NEW b \in Seq(Nat)
    PROVE  /\ Len(b) = 1 => Spelt(b) = b[1]
           /\ Len(b) = 2 => Spelt(b) = Then(b[1], b[2])
           /\ Len(b) = 3 => Spelt(b) = Then(Then(b[1], b[2]), b[3])
           /\ Len(b) = 4 => Spelt(b) = Then(Then(Then(b[1], b[2]), b[3]), b[4])
           /\ (Len(b) = 8 /\ b[1] = 0 /\ b[2] = 0 /\ b[3] = 0 /\ b[4] = 0) =>
                Spelt(b) = Then(Then(Then(b[5], b[6]), b[7]), b[8])
<1>1. PICK g : /\ g[0] = 0
               /\ \A k \in 1..Len(b) : g[k] = 256 * g[k - 1] + b[k]
               /\ g[Len(b)] = Spelt(b)
  BY SpeltIs
<1>2. \A k \in 1..Len(b) : b[k] \in Nat /\ g[k] = Then(g[k - 1], b[k])
  BY <1>1 DEF Then
<1>3. Len(b) \in Nat
  OBVIOUS
<1>4. ASSUME NEW k \in Nat \ {0}, NEW j, j = k - 1, k <= Len(b)
      PROVE  b[k] \in Nat /\ g[k] = Then(g[j], b[k])
  <2>1. k \in 1..Len(b)
    BY <1>3, <1>4
  <2> QED
    BY <1>2, <1>4, <2>1
<1>5. 1 <= Len(b) => g[1] = b[1]
  <2>1. 1 \in Nat \ {0} /\ 0 = 1 - 1
    OBVIOUS
  <2>2. 1 <= Len(b) => b[1] \in Nat /\ g[1] = Then(g[0], b[1])
    BY <1>4, <2>1
  <2> QED
    BY <1>1, <2>2, ZeroThen
<1>6. 2 <= Len(b) => g[2] = Then(g[1], b[2])
  <2>1. 2 \in Nat \ {0} /\ 1 = 2 - 1
    OBVIOUS
  <2> QED
    BY <1>4, <2>1
<1>7. 3 <= Len(b) => g[3] = Then(g[2], b[3])
  <2>1. 3 \in Nat \ {0} /\ 2 = 3 - 1
    OBVIOUS
  <2> QED
    BY <1>4, <2>1
<1>8. 4 <= Len(b) => g[4] = Then(g[3], b[4])
  <2>1. 4 \in Nat \ {0} /\ 3 = 4 - 1
    OBVIOUS
  <2> QED
    BY <1>4, <2>1
<1>9. 8 <= Len(b) => /\ b[5] \in Nat /\ g[5] = Then(g[4], b[5])
                     /\ g[6] = Then(g[5], b[6]) /\ g[7] = Then(g[6], b[7])
                     /\ g[8] = Then(g[7], b[8])
  <2>1. /\ 5 \in Nat \ {0} /\ 4 = 5 - 1 /\ 6 \in Nat \ {0} /\ 5 = 6 - 1
        /\ 7 \in Nat \ {0} /\ 6 = 7 - 1 /\ 8 \in Nat \ {0} /\ 7 = 8 - 1
    OBVIOUS
  <2>2. 8 <= Len(b) => 5 <= Len(b) /\ 6 <= Len(b) /\ 7 <= Len(b)
    BY <1>3
  <2> QED
    BY <1>4, <2>1, <2>2
<1>10. CASE Len(b) = 8
  <2>1. 1 <= Len(b) /\ 2 <= Len(b) /\ 3 <= Len(b) /\ 4 <= Len(b) /\ 8 <= Len(b)
    BY <1>10
  <2>2. SUFFICES ASSUME b[1] = 0, b[2] = 0, b[3] = 0, b[4] = 0
                 PROVE  Spelt(b) = Then(Then(Then(b[5], b[6]), b[7]), b[8])
    BY <1>10
  <2>3. Then(0, 0) = 0
    BY ZeroThen
  <2>4. g[4] = 0
    BY <1>5, <1>6, <1>7, <1>8, <2>1, <2>2, <2>3
  <2>5. g[5] = b[5]
    BY <1>9, <2>1, <2>4, ZeroThen
  <2> QED
    BY <1>1, <1>9, <1>10, <2>1, <2>5
<1>11. CASE Len(b) = 1
  BY <1>1, <1>5, <1>11
<1>12. CASE Len(b) = 2
  BY <1>1, <1>5, <1>6, <1>12
<1>13. CASE Len(b) = 3
  BY <1>1, <1>5, <1>6, <1>7, <1>13
<1>14. CASE Len(b) = 4
  BY <1>1, <1>5, <1>6, <1>7, <1>8, <1>14
<1> QED
  BY <1>10, <1>11, <1>12, <1>13, <1>14

\* The powers of 256, and division by them.
Power(i) == 256^i

LEMMA Divided ==
    ASSUME NEW x \in Nat
    PROVE  /\ x = Then(x \div 256, x % 256) /\ x \div 256 \in Nat /\ IsByte(x % 256)
           /\ x \div Power(0) = x
           /\ x \div Power(1) = x \div 256
           /\ x \div Power(2) = (x \div Power(1)) \div 256
           /\ x \div Power(3) = (x \div Power(2)) \div 256
<1>1. Power(0) = 1 /\ Power(1) = 256 /\ Power(2) = 65536 /\ Power(3) = 16777216
  BY SMT DEF Power
<1>2. x = 256 * (x \div 256) + (x % 256) /\ x \div 256 \in Nat /\ IsByte(x % 256)
  BY SMT DEF IsByte
<1>3. x \div 1 = x
  BY SMT
<1>4. x \div 65536 = (x \div 256) \div 256
  BY SMT
<1>5. x \div 16777216 = (x \div 65536) \div 256
  BY SMT
<1>6. x \div Power(0) = x
  BY <1>1, <1>3, SMT
<1>7. x \div Power(1) = x \div 256
  BY <1>1, SMT
<1>8. x \div Power(2) = (x \div Power(1)) \div 256
  BY <1>1, <1>4, SMT
<1>9. x \div Power(3) = (x \div Power(2)) \div 256
  BY <1>1, <1>5, SMT
<1> QED
  BY <1>2, <1>6, <1>7, <1>8, <1>9 DEF Then

\* A length, and its bytes.
IsLength(x) == x \in Nat /\ x \div Power(3) < 128

LEMMA BytesMake ==
    ASSUME NEW x, IsLength(x),
           NEW B3, B3 = Byte(x, 3), NEW B2, B2 = Byte(x, 2),
           NEW B1, B1 = Byte(x, 1), NEW B0, B0 = Byte(x, 0)
    PROVE  /\ IsByte(B3) /\ IsByte(B2) /\ IsByte(B1) /\ IsByte(B0)
           /\ x = Then(Then(Then(B3, B2), B1), B0)
           /\ \A i \in Nat : i > 3 => Byte(x, i) = 0
<1> DEFINE a == x \div Power(1)
           b == x \div Power(2)
           c == x \div Power(3)
<1>1. x \in Nat /\ c < 128
  BY DEF IsLength
<1>2. /\ B0 = x % 256 /\ B1 = a % 256 /\ B2 = b % 256 /\ B3 = c % 256
      /\ \A i \in Nat : i > 3 => Byte(x, i) = 0
  <2>1. ~(0 > 3) /\ ~(1 > 3) /\ ~(2 > 3) /\ ~(3 > 3)
    BY SMT
  <2>2. \A i : ~(i > 3) => Byte(x, i) = (x \div Power(i)) % 256
    BY Zenon DEF Byte, Power
  <2>3. \A i : i > 3 => Byte(x, i) = 0
    BY Zenon DEF Byte
  <2>4. x \div Power(0) = x
    BY <1>1, Divided
  <2>5. B0 = (x \div Power(0)) % 256
    BY <2>1, <2>2, Zenon
  <2>6. B1 = a % 256 /\ B2 = b % 256 /\ B3 = c % 256
    BY <2>1, <2>2, Zenon
  <2> QED
    BY <2>3, <2>4, <2>5, <2>6, Zenon
<1>3. a = x \div 256 /\ b = a \div 256 /\ c = b \div 256
  BY <1>1, Divided
<1> HIDE DEF a, b, c
<1>4. x = Then(a, B0) /\ a \in Nat /\ IsByte(B0)
  BY <1>1, <1>2, <1>3, Divided
<1>5. a = Then(b, B1) /\ b \in Nat /\ IsByte(B1)
  BY <1>2, <1>3, <1>4, Divided
<1>6. b = Then(c, B2) /\ c \in Nat /\ IsByte(B2)
  BY <1>2, <1>3, <1>5, Divided
<1>7. c = B3 /\ IsByte(B3)
  <2>1. c = 256 * (c \div 256) + B3 /\ c \div 256 \in Nat /\ IsByte(B3)
    BY <1>2, <1>6, Divided DEF Then
  <2> QED
    BY <1>1, <1>6, <2>1 DEF IsByte
<1> QED
  BY <1>2, <1>4, <1>5, <1>6, <1>7

\* Every byte of a length is one.
LEMMA EveryByte ==
    ASSUME NEW x, IsLength(x), NEW i \in Nat
    PROVE  IsByte(Byte(x, i))
<1>1. CASE i > 3
  BY <1>1, BytesMake DEF IsByte
<1>2. CASE i = 0 \/ i = 1 \/ i = 2 \/ i = 3
  BY <1>2, BytesMake
<1> QED
  BY <1>1, <1>2

\* The highest byte first.
LEMMA BigEndianIs ==
    ASSUME NEW x, IsLength(x), NEW k \in Nat,
           NEW b, b = BigEndian(x, k)
    PROVE  /\ b \in Seq(Nat) /\ Len(b) = k
           /\ \A i \in 1..k : b[i] = Byte(x, k - i) /\ IsByte(b[i])
<1>1. b = [i \in 1..k |-> Byte(x, k - i)]
  BY DEF BigEndian
<1>2. \A i \in 1..k : IsByte(Byte(x, k - i))
  <2>1. \A i \in 1..k : k - i \in Nat
    OBVIOUS
  <2> QED
    BY <2>1, EveryByte
<1>3. \A i \in 1..k : Byte(x, k - i) \in Nat
  BY <1>2 DEF IsByte
<1>4. b \in Seq(Nat) /\ Len(b) = k
  BY <1>1, <1>3
<1> QED
  BY <1>1, <1>2, <1>4

\* The lowest byte first is the highest first, read backwards.
LEMMA LittleEndianIs ==
    ASSUME NEW x, IsLength(x), NEW k \in Nat,
           NEW b, b = LittleEndian(x, k)
    PROVE  /\ b \in Seq(Nat) /\ Len(b) = k
           /\ \A i \in 1..k : IsByte(b[i])
           /\ Reverse(b) = BigEndian(x, k)
<1>1. b = [i \in 1..k |-> Byte(x, i - 1)]
  BY DEF LittleEndian
<1>2. \A i \in 1..k : IsByte(Byte(x, i - 1))
  <2>1. \A i \in 1..k : i - 1 \in Nat
    OBVIOUS
  <2> QED
    BY <2>1, EveryByte
<1>3. \A i \in 1..k : Byte(x, i - 1) \in Nat
  BY <1>2 DEF IsByte
<1>4. b \in Seq(Nat) /\ Len(b) = k
  BY <1>1, <1>3
<1>5. Reverse(b) = [i \in 1..k |-> b[(k - i) + 1]]
  BY <1>4 DEF Reverse
<1>6. \A i \in 1..k : b[(k - i) + 1] = Byte(x, k - i)
  <2>1. SUFFICES ASSUME NEW i \in 1..k
                 PROVE  b[(k - i) + 1] = Byte(x, k - i)
    OBVIOUS
  <2>2. (k - i) + 1 \in 1..k /\ ((k - i) + 1) - 1 = k - i
    BY <2>1
  <2> QED
    BY <1>1, <2>2
<1>7. BigEndian(x, k) = [i \in 1..k |-> Byte(x, k - i)]
  BY DEF BigEndian
<1> QED
  BY <1>1, <1>2, <1>4, <1>5, <1>6, <1>7

\* A byte, and bytes after it.
Header(h, s) == <<h>> \o s

LEMMA HeaderIs ==
    ASSUME NEW h, IsByte(h), NEW s \in Seq(Nat), \A i \in 1..Len(s) : IsByte(s[i]),
           NEW b, b = Header(h, s)
    PROVE  /\ b \in Seq(Nat) /\ b # <<>> /\ b[1] = h /\ Tail(b) = s
           /\ \A i \in DOMAIN b : b[i] \in Bytes
<1>1. h \in Nat /\ <<h>> \in Seq(Nat) /\ Len(<<h>>) = 1
  BY DEF IsByte
<1>2. b \in Seq(Nat) /\ Len(b) = Len(s) + 1
      /\ \A i \in 1..(Len(s) + 1) : b[i] = IF i = 1 THEN h ELSE s[i - 1]
  BY <1>1 DEF Header
<1>3. b # <<>> /\ b[1] = h
  BY <1>2
<1>4. Tail(b) = s
  <2>1. /\ Tail(b) \in Seq(Nat) /\ Len(Tail(b)) = Len(s)
        /\ \A i \in 1..Len(s) : Tail(b)[i] = b[i + 1]
    BY <1>2, <1>3, HeadTailProperties
  <2>2. ASSUME NEW i \in 1..Len(s)
        PROVE  Tail(b)[i] = s[i]
    <3>1. i + 1 \in 1..(Len(s) + 1) /\ i + 1 # 1 /\ (i + 1) - 1 = i
      OBVIOUS
    <3>2. b[i + 1] = s[i]
      BY <1>2, <3>1
    <3> QED
      BY <2>1, <3>2
  <2> QED
    BY <2>1, <2>2, SeqEqual
<1>5. \A i \in 1..(Len(s) + 1) : IsByte(b[i])
  <2>1. SUFFICES ASSUME NEW i \in 1..(Len(s) + 1)
                 PROVE  IsByte(b[i])
    OBVIOUS
  <2>2. CASE i = 1
    BY <1>3, <2>2
  <2>3. CASE i # 1
    <3>1. i - 1 \in 1..Len(s) /\ b[i] = s[i - 1]
      BY <1>2, <2>3
    <3> QED
      BY <3>1
  <2> QED
    BY <2>2, <2>3
<1>6. DOMAIN b = 1..(Len(s) + 1)
  BY <1>2
<1> QED
  BY <1>2, <1>3, <1>4, <1>5, <1>6, InBytes

\* Which bytes of a length are zero.
LEMMA ZeroBytes ==
    ASSUME NEW x, IsLength(x),
           NEW B3, B3 = Byte(x, 3), NEW B2, B2 = Byte(x, 2),
           NEW B1, B1 = Byte(x, 1), NEW B0, B0 = Byte(x, 0)
    PROVE  /\ x \in Nat
           /\ x < 65536 <=> B3 = 0 /\ B2 = 0
           /\ B3 = 0 /\ B2 = 0 => x = Then(B1, B0)
           /\ x < 256 <=> B3 = 0 /\ B2 = 0 /\ B1 = 0
           /\ B3 = 0 /\ B2 = 0 /\ B1 = 0 => x = B0
<1> DEFINE b == Then(B3, B2)
<1>1. /\ x \in Nat /\ IsByte(B3) /\ IsByte(B2) /\ IsByte(B1) /\ IsByte(B0)
      /\ x = Then(Then(b, B1), B0) /\ b \in Nat
  <2>1. /\ IsByte(B3) /\ IsByte(B2) /\ IsByte(B1) /\ IsByte(B0)
        /\ x = Then(Then(b, B1), B0)
    BY BytesMake
  <2>2. x \in Nat
    BY DEF IsLength
  <2>3. b \in Nat
    BY <2>1, ThenNat DEF IsByte
  <2> QED
    BY <2>1, <2>2, <2>3
<1>2. b = 0 <=> B3 = 0 /\ B2 = 0
  <2>1. B3 \in Nat /\ B2 \in Nat
    BY <1>1 DEF IsByte
  <2> QED
    BY <2>1 DEF Then
<1> HIDE DEF b
<1>3. x < 65536 <=> b = 0
  <2>1. Then(Then(b, B1), B0) < 65536 <=> b = 0
    BY <1>1, ThenTwo
  <2> QED
    BY <1>1, <2>1
<1>4. b = 0 => Then(b, B1) = B1
  <2>1. Then(0, B1) = B1
    BY <1>1, ZeroThen DEF IsByte
  <2> QED
    BY <2>1
<1>5. b = 0 => x = Then(B1, B0)
  BY <1>1, <1>4
<1>6. x < 256 <=> b = 0 /\ B1 = 0
  BY <1>1, SMT DEF Then, IsByte
<1>7. b = 0 /\ B1 = 0 => x = B0
  BY <1>1, <1>5, ZeroThen DEF IsByte
<1> QED
  BY <1>1, <1>2, <1>3, <1>5, <1>6, <1>7

\* What its low bytes spell.
LEMMA LowBytes ==
    ASSUME NEW x, IsLength(x)
    PROVE  /\ x < 256 => Spelt(BigEndian(x, 1)) = x
           /\ x < 65536 => Spelt(BigEndian(x, 2)) = x
           /\ Byte(x, 3) = 0 => Spelt(BigEndian(x, 3)) = x
           /\ Spelt(BigEndian(x, 4)) = x
           /\ Spelt(BigEndian(x, 8)) = x
           /\ \E low : Spelt(BigEndian(x, 2)) = low /\ low < 65536
<1> DEFINE B3 == Byte(x, 3)
           B2 == Byte(x, 2)
           B1 == Byte(x, 1)
           B0 == Byte(x, 0)
<1>1. /\ IsByte(B3) /\ IsByte(B2) /\ IsByte(B1) /\ IsByte(B0)
      /\ x = Then(Then(Then(B3, B2), B1), B0)
      /\ \A i \in Nat : i > 3 => Byte(x, i) = 0
  BY BytesMake
<1>2. /\ x \in Nat
      /\ x < 65536 => x = Then(B1, B0)
      /\ x < 256 => x = B0
  BY ZeroBytes
<1>3. ASSUME NEW k \in Nat, NEW i \in 1..k, NEW j, j = k - i
      PROVE  BigEndian(x, k)[i] = Byte(x, j)
  BY <1>3, BigEndianIs
<1>4. \A k \in Nat : BigEndian(x, k) \in Seq(Nat) /\ Len(BigEndian(x, k)) = k
  BY BigEndianIs
<1>5. Spelt(BigEndian(x, 1)) = B0
  <2> DEFINE b == BigEndian(x, 1)
  <2>1. b \in Seq(Nat) /\ Len(b) = 1
    BY <1>4
  <2>2. b[1] = B0
    <3>1. 1 \in Nat /\ 1 \in 1..1 /\ 0 = 1 - 1
      OBVIOUS
    <3> QED
      BY <1>3, <3>1
  <2> HIDE DEF b
  <2>3. Spelt(b) = b[1]
    BY <2>1, SpeltOf
  <2> QED
    BY <1>1, <2>2, <2>3 DEF b
<1>6. Spelt(BigEndian(x, 2)) = Then(B1, B0)
  <2> DEFINE b == BigEndian(x, 2)
  <2>1. b \in Seq(Nat) /\ Len(b) = 2
    BY <1>4
  <2>2. b[1] = B1
    <3>1. 2 \in Nat /\ 1 \in 1..2 /\ 1 = 2 - 1
      OBVIOUS
    <3> QED
      BY <1>3, <3>1
  <2>3. b[2] = B0
    <3>1. 2 \in Nat /\ 2 \in 1..2 /\ 0 = 2 - 2
      OBVIOUS
    <3> QED
      BY <1>3, <3>1
  <2> HIDE DEF b
  <2>4. Spelt(b) = Then(b[1], b[2])
    BY <2>1, SpeltOf
  <2> QED
    BY <1>1, <2>2, <2>3, <2>4 DEF b
<1>7. Spelt(BigEndian(x, 3)) = Then(Then(B2, B1), B0)
  <2> DEFINE b == BigEndian(x, 3)
  <2>1. b \in Seq(Nat) /\ Len(b) = 3
    BY <1>4
  <2>2. b[1] = B2
    <3>1. 3 \in Nat /\ 1 \in 1..3 /\ 2 = 3 - 1
      OBVIOUS
    <3> QED
      BY <1>3, <3>1
  <2>3. b[2] = B1
    <3>1. 3 \in Nat /\ 2 \in 1..3 /\ 1 = 3 - 2
      OBVIOUS
    <3> QED
      BY <1>3, <3>1
  <2>4. b[3] = B0
    <3>1. 3 \in Nat /\ 3 \in 1..3 /\ 0 = 3 - 3
      OBVIOUS
    <3> QED
      BY <1>3, <3>1
  <2> HIDE DEF b
  <2>5. Spelt(b) = Then(Then(b[1], b[2]), b[3])
    BY <2>1, SpeltOf
  <2> QED
    BY <1>1, <2>2, <2>3, <2>4, <2>5 DEF b
<1>8. Spelt(BigEndian(x, 4)) = x
  <2> DEFINE b == BigEndian(x, 4)
  <2>1. b \in Seq(Nat) /\ Len(b) = 4
    BY <1>4
  <2>2. b[1] = B3
    <3>1. 4 \in Nat /\ 1 \in 1..4 /\ 3 = 4 - 1
      OBVIOUS
    <3> QED
      BY <1>3, <3>1
  <2>3. b[2] = B2
    <3>1. 4 \in Nat /\ 2 \in 1..4 /\ 2 = 4 - 2
      OBVIOUS
    <3> QED
      BY <1>3, <3>1
  <2>4. b[3] = B1
    <3>1. 4 \in Nat /\ 3 \in 1..4 /\ 1 = 4 - 3
      OBVIOUS
    <3> QED
      BY <1>3, <3>1
  <2>5. b[4] = B0
    <3>1. 4 \in Nat /\ 4 \in 1..4 /\ 0 = 4 - 4
      OBVIOUS
    <3> QED
      BY <1>3, <3>1
  <2> HIDE DEF b
  <2>6. Spelt(b) = Then(Then(Then(b[1], b[2]), b[3]), b[4])
    BY <2>1, SpeltOf
  <2> QED
    BY <1>1, <2>2, <2>3, <2>4, <2>5, <2>6 DEF b
<1>9. Spelt(BigEndian(x, 8)) = x
  <2> DEFINE b == BigEndian(x, 8)
  <2>1. b \in Seq(Nat) /\ Len(b) = 8
    BY <1>4
  <2>2. b[1] = 0
    <3>1. 8 \in Nat /\ 1 \in 1..8 /\ 7 = 8 - 1
      OBVIOUS
    <3> QED
      BY <1>1, <1>3, <3>1
  <2>3. b[2] = 0
    <3>1. 8 \in Nat /\ 2 \in 1..8 /\ 6 = 8 - 2
      OBVIOUS
    <3> QED
      BY <1>1, <1>3, <3>1
  <2>4. b[3] = 0
    <3>1. 8 \in Nat /\ 3 \in 1..8 /\ 5 = 8 - 3
      OBVIOUS
    <3> QED
      BY <1>1, <1>3, <3>1
  <2>5. b[4] = 0
    <3>1. 8 \in Nat /\ 4 \in 1..8 /\ 4 = 8 - 4
      OBVIOUS
    <3> QED
      BY <1>1, <1>3, <3>1
  <2>6. b[5] = B3
    <3>1. 8 \in Nat /\ 5 \in 1..8 /\ 3 = 8 - 5
      OBVIOUS
    <3> QED
      BY <1>3, <3>1
  <2>7. b[6] = B2
    <3>1. 8 \in Nat /\ 6 \in 1..8 /\ 2 = 8 - 6
      OBVIOUS
    <3> QED
      BY <1>3, <3>1
  <2>8. b[7] = B1
    <3>1. 8 \in Nat /\ 7 \in 1..8 /\ 1 = 8 - 7
      OBVIOUS
    <3> QED
      BY <1>3, <3>1
  <2>9. b[8] = B0
    <3>1. 8 \in Nat /\ 8 \in 1..8 /\ 0 = 8 - 8
      OBVIOUS
    <3> QED
      BY <1>3, <3>1
  <2> HIDE DEF b
  <2>10. Spelt(b) = Then(Then(Then(b[5], b[6]), b[7]), b[8])
    BY <2>1, <2>2, <2>3, <2>4, <2>5, SpeltOf
  <2> QED
    BY <1>1, <2>6, <2>7, <2>8, <2>9, <2>10 DEF b
<1> HIDE DEF B3, B2, B1, B0
<1>10. B3 = 0 => Then(Then(B2, B1), B0) = x
  BY <1>1, ZeroThen DEF IsByte
<1>11. Then(B1, B0) < 65536
  BY <1>1, TwoBytes
<1> QED
  BY <1>2, <1>5, <1>6, <1>7, <1>8, <1>9, <1>10, <1>11 DEF B3

\* What e writes of x is of bytes, and read as x exactly if it is in reach.
RoundTrip(e, x, b) ==
    /\ \A i \in DOMAIN b : b[i] \in Bytes
    /\ (Taken(e, b) = x) <=> ~OutOfReach(e, x)

\* The bytes of these lengths, which the forms are told apart by.
LEMMA SomeBytes ==
    /\ \A b \in {76, 77, 78, 129, 130, 253, 255} : IsByte(b)
    /\ \A k \in 1..4 : IsByte(183 + k)
    /\ \A x \in Nat : x < 256 => IsByte(x)
BY DEF IsByte

\* A form of several bytes, read from its second byte on.
LEMMA LittleForm ==
    ASSUME NEW x, IsLength(x), NEW k \in Nat, NEW h, IsByte(h),
           NEW b, b = Header(h, LittleEndian(x, k))
    PROVE  /\ b[1] = h /\ Reverse(Tail(b)) = BigEndian(x, k)
           /\ \A i \in DOMAIN b : b[i] \in Bytes
<1> DEFINE s == LittleEndian(x, k)
<1>1. /\ s \in Seq(Nat) /\ \A i \in 1..Len(s) : IsByte(s[i])
      /\ Reverse(s) = BigEndian(x, k)
  BY LittleEndianIs
<1>2. b = Header(h, s)
  OBVIOUS
<1> HIDE DEF s
<1> QED
  BY <1>1, <1>2, HeaderIs

LEMMA BigForm ==
    ASSUME NEW x, IsLength(x), NEW k \in Nat, NEW h, IsByte(h),
           NEW b, b = Header(h, BigEndian(x, k))
    PROVE  /\ b[1] = h /\ Tail(b) = BigEndian(x, k)
           /\ \A i \in DOMAIN b : b[i] \in Bytes
<1> DEFINE s == BigEndian(x, k)
<1>1. s \in Seq(Nat) /\ Len(s) = k /\ \A i \in 1..k : IsByte(s[i])
  BY BigEndianIs
<1>2. b = Header(h, s)
  OBVIOUS
<1> HIDE DEF s
<1>3. b[1] = h /\ Tail(b) = s /\ \A i \in DOMAIN b : b[i] \in Bytes
  BY <1>1, <1>2, HeaderIs
<1> QED
  BY <1>3 DEF s

\* A TLV.
LEMMA TlvRoundTrip ==
    ASSUME NEW x, IsLength(x)
    PROVE  RoundTrip("tlv", x, TlvLength(x))
<1> DEFINE b == TlvLength(x)
           s1 == BigEndian(x, 1)
           s2 == BigEndian(x, 2)
<1>1. /\ Taken("tlv", b) = ReadTlv(b)
      /\ OutOfReach("tlv", x) <=> x >= 65536
  BY DEF Taken, OutOfReach
<1>2. x \in Nat
  BY DEF IsLength
<1>3. /\ x < 256 => Spelt(s1) = x
      /\ x < 65536 => Spelt(s2) = x
      /\ \E low : Spelt(s2) = low /\ low < 65536
  BY LowBytes
<1> HIDE DEF s1, s2
<1>4. CASE x >= 256
  <2>1. b = Header(130, s2)
    BY <1>2, <1>4 DEF TlvLength, s1, s2, Header
  <2> HIDE DEF b
  <2>2. b[1] = 130 /\ Tail(b) = s2 /\ \A i \in DOMAIN b : b[i] \in Bytes
    <3>1. IsByte(130) /\ 2 \in Nat
      BY SomeBytes
    <3> QED
      BY <2>1, <3>1, BigForm DEF s2
  <2>3. ReadTlv(b) = Spelt(s2)
    BY <2>2 DEF ReadTlv
  <2>4. ReadTlv(b) = x <=> ~(x >= 65536)
    BY <1>2, <1>3, <2>3
  <2> QED
    BY <1>1, <2>2, <2>4 DEF RoundTrip, b
<1>5. CASE 128 < x /\ x < 256
  <2>1. b = Header(129, s1)
    BY <1>2, <1>5 DEF TlvLength, s1, s2, Header
  <2> HIDE DEF b
  <2>2. b[1] = 129 /\ Tail(b) = s1 /\ \A i \in DOMAIN b : b[i] \in Bytes
    <3>1. IsByte(129) /\ 1 \in Nat
      BY SomeBytes
    <3> QED
      BY <2>1, <3>1, BigForm DEF s1
  <2>3. ReadTlv(b) = Spelt(s1)
    BY <2>2 DEF ReadTlv
  <2>4. ~(x >= 65536)
    BY <1>2, <1>5, SMT
  <2>5. ReadTlv(b) = x
    BY <1>3, <1>5, <2>3
  <2> QED
    BY <1>1, <2>2, <2>4, <2>5 DEF RoundTrip, b
<1>6. CASE x <= 128
  <2>1. b = <<x>>
    BY <1>2, <1>6 DEF TlvLength
  <2> HIDE DEF b
  <2>2. b[1] = x /\ DOMAIN b = {1}
    BY <2>1
  <2>3. x \in Bytes /\ x \notin {129, 130} /\ ~(x >= 65536)
    BY <1>2, <1>6, SomeBytes, InBytes
  <2>4. ReadTlv(b) = x
    BY <2>2, <2>3 DEF ReadTlv
  <2> QED
    BY <1>1, <2>2, <2>3, <2>4 DEF RoundTrip, b
<1> QED
  BY <1>2, <1>4, <1>5, <1>6

\* One byte.
LEMMA OneByte ==
    ASSUME NEW h, IsByte(h), NEW b, b = <<h>>
    PROVE  b # <<>> /\ b[1] = h /\ \A i \in DOMAIN b : b[i] \in Bytes
<1>1. h \in Bytes
  BY InBytes
<1>2. DOMAIN b = {1} /\ b[1] = h /\ b # <<>>
  OBVIOUS
<1> QED
  BY <1>1, <1>2

\* The Lc of an APDU.
LEMMA LcRoundTrip ==
    ASSUME NEW x, IsLength(x)
    PROVE  RoundTrip("apdu", x, Lc(x))
<1> DEFINE b == Lc(x)
           s3 == BigEndian(x, 3)
<1>1. /\ Taken("apdu", b) = ReadLc(b)
      /\ OutOfReach("apdu", x) <=> x >= 65536
  BY DEF Taken, OutOfReach
<1>2. x \in Nat
  BY DEF IsLength
<1>3. CASE x > 255
  <2> DEFINE B3 == Byte(x, 3)
             B2 == Byte(x, 2)
             B1 == Byte(x, 1)
             B0 == Byte(x, 0)
  <2>1. b = s3
    BY <1>2, <1>3 DEF Lc
  <2>2. s3 \in Seq(Nat) /\ Len(s3) = 3 /\ \A i \in 1..3 : IsByte(s3[i])
    <3>1. 3 \in Nat
      OBVIOUS
    <3> QED
      BY <3>1, BigEndianIs
  <2>3. s3[1] = B2 /\ s3[2] = B1 /\ s3[3] = B0
    <3>1. ASSUME NEW k \in Nat, NEW i \in 1..k, NEW j, j = k - i
          PROVE  BigEndian(x, k)[i] = Byte(x, j)
      BY <3>1, BigEndianIs
    <3>2. 3 \in Nat /\ 1 \in 1..3 /\ 2 = 3 - 1
      OBVIOUS
    <3>3. 3 \in Nat /\ 2 \in 1..3 /\ 1 = 3 - 2
      OBVIOUS
    <3>4. 3 \in Nat /\ 3 \in 1..3 /\ 0 = 3 - 3
      OBVIOUS
    <3>5. s3[1] = B2
      BY <3>1, <3>2
    <3>6. s3[2] = B1
      BY <3>1, <3>3
    <3>7. s3[3] = B0
      BY <3>1, <3>4
    <3> QED
      BY <3>5, <3>6, <3>7
  <2>4. /\ x < 65536 <=> B3 = 0 /\ B2 = 0
        /\ B3 = 0 /\ B2 = 0 => x = Then(B1, B0)
    BY ZeroBytes
  <2>5. IsByte(B2) /\ IsByte(B1) /\ IsByte(B0)
    BY BytesMake
  <2> HIDE DEF b, s3, B3, B2, B1, B0
  <2>6. \A i \in DOMAIN b : b[i] \in Bytes
    <3>1. DOMAIN b = 1..3
      BY <2>1, <2>2
    <3> QED
      BY <2>1, <2>2, <3>1, InBytes
  <2>7. b # <<>> /\ b[1] = B2
    <3>1. b # <<>>
      BY <2>1, <2>2
    <3> QED
      BY <2>1, <2>3, <3>1
  <2>8. CASE B2 = 0
    <3>1. ReadLc(b) = Spelt(Tail(b))
      BY <2>7, <2>8 DEF ReadLc
    <3> DEFINE t == Tail(b)
    <3>2. t \in Seq(Nat) /\ Len(t) = 2 /\ t[1] = B1 /\ t[2] = B0
      <4>1. b \in Seq(Nat) /\ Len(b) = 3 /\ b # <<>>
        BY <2>1, <2>2, <2>7
      <4>2. /\ t \in Seq(Nat) /\ Len(t) = 3 - 1
            /\ \A i \in 1..Len(t) : t[i] = b[i + 1]
        BY <4>1, HeadTailProperties
      <4>3. 3 - 1 = 2 /\ 1 \in 1..2 /\ 2 \in 1..2 /\ 1 + 1 = 2 /\ 2 + 1 = 3
        OBVIOUS
      <4> HIDE DEF t
      <4>4. Len(t) = 2
        BY <4>2, <4>3
      <4>5. t[1] = b[2] /\ t[2] = b[3]
        BY <4>2, <4>3, <4>4
      <4> QED
        BY <2>1, <2>3, <4>2, <4>4, <4>5
    <3> HIDE DEF t
    <3>3. Spelt(t) = Then(B1, B0)
      BY <3>2, SpeltOf
    <3>4. Then(B1, B0) < 65536
      BY <2>5, TwoBytes
    <3>5. ReadLc(b) = Then(B1, B0)
      BY <3>1, <3>3 DEF t
    <3>6. ReadLc(b) = x <=> ~(x >= 65536)
      BY <1>2, <2>4, <2>8, <3>4, <3>5
    <3> QED
      BY <1>1, <2>6, <3>6 DEF RoundTrip, b
  <2>9. CASE B2 # 0
    <3>1. ReadLc(b) = B2
      BY <2>7, <2>9 DEF ReadLc
    <3>2. ~(x < 65536)
      BY <2>4, <2>9
    <3>3. B2 # x /\ x >= 65536
      BY <1>2, <1>3, <2>5, <3>2 DEF IsByte
    <3> QED
      BY <1>1, <2>6, <3>1, <3>3 DEF RoundTrip, b
  <2> QED
    BY <2>8, <2>9
<1>4. CASE 0 < x /\ x <= 255
  <2>1. b = <<x>>
    BY <1>2, <1>4 DEF Lc
  <2>2. IsByte(x) /\ x # 0
    BY <1>2, <1>4 DEF IsByte
  <2> HIDE DEF b
  <2>3. b # <<>> /\ b[1] = x /\ \A i \in DOMAIN b : b[i] \in Bytes
    BY <2>1, <2>2, OneByte
  <2>4. ReadLc(b) = x
    BY <2>2, <2>3 DEF ReadLc
  <2>5. ~(x >= 65536)
    BY <1>2, <1>4, SMT
  <2> QED
    BY <1>1, <2>3, <2>4, <2>5 DEF RoundTrip, b
<1>5. CASE x = 0
  <2>1. b = <<>>
    BY <1>2, <1>5 DEF Lc
  <2> HIDE DEF b
  <2>2. DOMAIN b = {}
    BY <2>1
  <2>3. ReadLc(b) = x
    BY <1>5, <2>1 DEF ReadLc
  <2>4. ~(x >= 65536)
    BY <1>2, <1>5, SMT
  <2> QED
    BY <1>1, <2>2, <2>3, <2>4 DEF RoundTrip, b
<1> QED
  BY <1>2, <1>3, <1>4, <1>5

\* As many bytes as a length needs spell it.
LEMMA SizeSpells ==
    ASSUME NEW x, IsLength(x), NEW k \in 1..4, \A i \in k..3 : Byte(x, i) = 0
    PROVE  Spelt(BigEndian(x, k)) = x
<1> DEFINE B3 == Byte(x, 3)
           B2 == Byte(x, 2)
           B1 == Byte(x, 1)
<1>1. /\ k <= 3 => B3 = 0
      /\ k <= 2 => B2 = 0
      /\ k <= 1 => B1 = 0
  OBVIOUS
<1>2. /\ B3 = 0 /\ B2 = 0 => x < 65536
      /\ B3 = 0 /\ B2 = 0 /\ B1 = 0 => x < 256
  BY ZeroBytes
<1>3. CASE k = 1
  BY <1>1, <1>2, <1>3, LowBytes
<1>4. CASE k = 2
  BY <1>1, <1>2, <1>4, LowBytes
<1>5. CASE k = 3
  BY <1>1, <1>5, LowBytes
<1>6. CASE k = 4
  BY <1>6, LowBytes
<1> QED
  BY <1>3, <1>4, <1>5, <1>6

\* Every number but 0 needs some.
LEMMA SizeIs ==
    ASSUME NEW x, IsLength(x), ~(x < 56), NEW k, k = Size(x)
    PROVE  k \in 1..4 /\ Byte(x, k - 1) # 0 /\ \A i \in k..3 : Byte(x, i) = 0
<1> DEFINE B3 == Byte(x, 3)
           B2 == Byte(x, 2)
           B1 == Byte(x, 1)
           B0 == Byte(x, 0)
           Needs(l) == Byte(x, l - 1) # 0 /\ \A i \in l..3 : Byte(x, i) = 0
<1>1. ~(B3 = 0 /\ B2 = 0 /\ B1 = 0 /\ B0 = 0)
  <2>1. B3 = 0 /\ B2 = 0 /\ B1 = 0 => x = B0
    BY ZeroBytes
  <2>2. x # 0
    OBVIOUS
  <2> QED
    BY <2>1, <2>2
<1>2. /\ 1 - 1 = 0 /\ 2 - 1 = 1 /\ 3 - 1 = 2 /\ 4 - 1 = 3
      /\ \A i \in 1..3 : i = 1 \/ i = 2 \/ i = 3
      /\ \A i \in 2..3 : i = 2 \/ i = 3
      /\ \A i \in 3..3 : i = 3
      /\ \A i \in 4..3 : FALSE
      /\ 1 \in 1..4 /\ 2 \in 1..4 /\ 3 \in 1..4 /\ 4 \in 1..4
  OBVIOUS
<1>3. CASE B3 # 0
  <2>1. Needs(4)
    BY <1>2, <1>3
  <2> HIDE DEF Needs
  <2>2. \E l \in 1..4 : Needs(l)
    BY <1>2, <2>1
  <2> QED
    BY <2>2 DEF Size, Needs
<1>4. CASE B3 = 0 /\ B2 # 0
  <2>1. Needs(3)
    BY <1>2, <1>4
  <2> HIDE DEF Needs
  <2>2. \E l \in 1..4 : Needs(l)
    BY <1>2, <2>1
  <2> QED
    BY <2>2 DEF Size, Needs
<1>5. CASE B3 = 0 /\ B2 = 0 /\ B1 # 0
  <2>1. Needs(2)
    BY <1>2, <1>5
  <2> HIDE DEF Needs
  <2>2. \E l \in 1..4 : Needs(l)
    BY <1>2, <2>1
  <2> QED
    BY <2>2 DEF Size, Needs
<1>6. CASE B3 = 0 /\ B2 = 0 /\ B1 = 0 /\ B0 # 0
  <2>1. Needs(1)
    BY <1>2, <1>6
  <2> HIDE DEF Needs
  <2>2. \E l \in 1..4 : Needs(l)
    BY <1>2, <2>1
  <2> QED
    BY <2>2 DEF Size, Needs
<1> QED
  BY <1>1, <1>3, <1>4, <1>5, <1>6

\* The two low bytes of a length are a length.
LEMMA LowLength ==
    ASSUME NEW x, IsLength(x), NEW y, y = x % 65536
    PROVE  IsLength(y) /\ y < 65536
<1>1. x \in Nat
  BY DEF IsLength
<1>2. y \in Nat /\ y < 65536
  BY <1>1, SMT
<1>3. Power(3) = 16777216
  BY SMT DEF Power
<1>4. y \div 16777216 = 0
  BY <1>2, SMT
<1>5. y \div Power(3) < 128
  BY <1>3, <1>4, SMT
<1> QED
  BY <1>2, <1>5 DEF IsLength

\* A push in a script.
LEMMA PushRoundTrip ==
    ASSUME NEW x, IsLength(x)
    PROVE  RoundTrip("push", x, PushSize(x))
<1> DEFINE b == PushSize(x)
<1>1. /\ Taken("push", b) = ReadPush(b)
      /\ OutOfReach("push", x) <=> x = 0 \/ x >= 65536
  BY DEF Taken, OutOfReach
<1>2. x \in Nat /\ 1 \in Nat /\ 2 \in Nat /\ 4 \in Nat /\ ERROR # x
  <2>1. ERROR \notin Nat
    BY EncodingsAssumption DEF EncodingsAssumption
  <2> QED
    BY <2>1 DEF IsLength
<1>3. IsByte(76) /\ IsByte(77) /\ IsByte(78)
  BY SomeBytes
<1>4. CASE x < 76
  <2>1. b = <<x>>
    BY <1>2, <1>4 DEF PushSize
  <2>2. IsByte(x) /\ x \notin {76, 77, 78}
    BY <1>2, <1>4 DEF IsByte
  <2> HIDE DEF b
  <2>3. b[1] = x /\ \A i \in DOMAIN b : b[i] \in Bytes
    BY <2>1, <2>2, OneByte
  <2>4. ReadPush(b) = IF x = 0 THEN ERROR ELSE x
    BY <2>2, <2>3 DEF ReadPush
  <2>5. ~(x >= 65536)
    BY <1>2, <1>4, SMT
  <2>6. ReadPush(b) = x <=> x # 0
    BY <1>2, <2>4
  <2> QED
    BY <1>1, <2>3, <2>5, <2>6 DEF RoundTrip, b
<1>5. CASE 76 <= x /\ x <= 255
  <2>1. LittleEndian(x, 1) = <<x>>
    <3>1. Byte(x, 0) = x
      <4>1. x < 256
        BY <1>2, <1>5
      <4> QED
        BY <4>1, ZeroBytes
    <3>2. 1 - 1 = 0
      OBVIOUS
    <3>3. LittleEndian(x, 1) = [i \in 1..1 |-> Byte(x, i - 1)]
      BY DEF LittleEndian
    <3> DEFINE s == LittleEndian(x, 1)
    <3>4. s \in Seq(Nat) /\ Len(s) = 1
      BY <1>2, LittleEndianIs
    <3>5. 1 \in 1..1
      OBVIOUS
    <3>6. s[1] = x
      BY <3>1, <3>2, <3>3, <3>5
    <3> HIDE DEF s
    <3>7. s = <<x>>
      BY <1>2, <3>4, <3>6
    <3> QED
      BY <3>7 DEF s
  <2>2. b = <<76, x>>
    BY <1>2, <1>5 DEF PushSize
  <2>3. <<76, x>> = Header(76, <<x>>)
    BY <1>2 DEF Header
  <2>4. b = Header(76, LittleEndian(x, 1))
    BY <2>1, <2>2, <2>3
  <2> HIDE DEF b
  <2>5. b[1] = 76 /\ Reverse(Tail(b)) = BigEndian(x, 1)
        /\ \A i \in DOMAIN b : b[i] \in Bytes
    BY <1>2, <1>3, <2>4, LittleForm
  <2>6. x < 256 /\ ~(x >= 65536) /\ x # 0
    BY <1>2, <1>5, SMT
  <2>7. Spelt(BigEndian(x, 1)) = x
    BY <2>6, LowBytes
  <2>8. ReadPush(b) = x
    BY <2>5, <2>6, <2>7 DEF ReadPush
  <2> QED
    BY <1>1, <2>5, <2>6, <2>8 DEF RoundTrip, b
<1>6. CASE 255 < x /\ x <= 65535
  <2>1. b = Header(77, LittleEndian(x, 2))
    BY <1>2, <1>6 DEF PushSize, Header
  <2> HIDE DEF b
  <2>2. b[1] = 77 /\ Reverse(Tail(b)) = BigEndian(x, 2)
        /\ \A i \in DOMAIN b : b[i] \in Bytes
    BY <1>2, <1>3, <2>1, LittleForm
  <2>3. x < 65536 /\ ~(x >= 65536) /\ x # 0
    BY <1>2, <1>6, SMT
  <2>4. Spelt(BigEndian(x, 2)) = x
    BY <2>3, LowBytes
  <2>5. ReadPush(b) = x
    BY <2>2, <2>3, <2>4 DEF ReadPush
  <2> QED
    BY <1>1, <2>2, <2>3, <2>5 DEF RoundTrip, b
<1>7. CASE x > 65535
  <2> DEFINE y == x % 65536
  <2>1. b = Header(78, LittleEndian(y, 4))
    BY <1>2, <1>7 DEF PushSize, Header
  <2>2. IsLength(y) /\ y < 65536
    BY LowLength
  <2> HIDE DEF b, y
  <2>3. b[1] = 78 /\ Reverse(Tail(b)) = BigEndian(y, 4)
        /\ \A i \in DOMAIN b : b[i] \in Bytes
    BY <1>2, <1>3, <2>1, <2>2, LittleForm
  <2>4. Spelt(BigEndian(y, 4)) = y
    BY <2>2, LowBytes
  <2>5. ReadPush(b) = IF y = 0 THEN ERROR ELSE y
    BY <2>3, <2>4 DEF ReadPush
  <2>6. y # x /\ x >= 65536
    <3>1. y \in Nat
      BY <2>2 DEF IsLength
    <3> QED
      BY <1>2, <1>7, <2>2, <3>1, SMT
  <2>7. ReadPush(b) # x
    BY <1>2, <2>5, <2>6
  <2> QED
    BY <1>1, <2>3, <2>6, <2>7 DEF RoundTrip, b
<1> QED
  BY <1>2, <1>4, <1>5, <1>6, <1>7

\* The compact sizes of Bitcoin.
LEMMA CompactRoundTrip ==
    ASSUME NEW x, IsLength(x)
    PROVE  RoundTrip("compact", x, CompactSize(x))
<1> DEFINE b == CompactSize(x)
<1>1. /\ Taken("compact", b) = ReadCompact(b)
      /\ ~OutOfReach("compact", x)
  BY DEF Taken, OutOfReach
<1>2. x \in Nat /\ 2 \in Nat /\ 8 \in Nat
  BY DEF IsLength
<1>3. IsByte(253) /\ IsByte(255)
  BY SomeBytes
<1>4. CASE x < 253
  <2>1. b = <<x>>
    BY <1>2, <1>4 DEF CompactSize
  <2>2. IsByte(x) /\ x \notin {253, 254, 255}
    BY <1>2, <1>4 DEF IsByte
  <2> HIDE DEF b
  <2>3. b[1] = x /\ \A i \in DOMAIN b : b[i] \in Bytes
    BY <2>1, <2>2, OneByte
  <2>4. ReadCompact(b) = x
    BY <2>2, <2>3 DEF ReadCompact
  <2> QED
    BY <1>1, <2>3, <2>4 DEF RoundTrip, b
<1>5. CASE 253 <= x /\ x <= 65535
  <2>1. b = Header(253, LittleEndian(x, 2))
    BY <1>2, <1>5 DEF CompactSize, Header
  <2> HIDE DEF b
  <2>2. b[1] = 253 /\ Reverse(Tail(b)) = BigEndian(x, 2)
        /\ \A i \in DOMAIN b : b[i] \in Bytes
    BY <1>2, <1>3, <2>1, LittleForm
  <2>3. ReadCompact(b) = Spelt(BigEndian(x, 2))
    BY <2>2 DEF ReadCompact
  <2>4. x < 65536
    BY <1>2, <1>5, SMT
  <2>5. ReadCompact(b) = x
    BY <2>3, <2>4, LowBytes
  <2> QED
    BY <1>1, <2>2, <2>5 DEF RoundTrip, b
<1>6. CASE x > 65535
  <2>1. b = Header(255, LittleEndian(x, 8))
    BY <1>2, <1>6 DEF CompactSize, Header
  <2> HIDE DEF b
  <2>2. b[1] = 255 /\ Reverse(Tail(b)) = BigEndian(x, 8)
        /\ \A i \in DOMAIN b : b[i] \in Bytes
    BY <1>2, <1>3, <2>1, LittleForm
  <2>3. ReadCompact(b) = Spelt(BigEndian(x, 8))
    BY <2>2 DEF ReadCompact
  <2>4. ReadCompact(b) = x
    BY <2>3, LowBytes
  <2> QED
    BY <1>1, <2>2, <2>4 DEF RoundTrip, b
<1> QED
  BY <1>2, <1>4, <1>5, <1>6

\* The header of RLP.
LEMMA RLPRoundTrip ==
    ASSUME NEW x, IsLength(x)
    PROVE  RoundTrip("rlp", x, RLPHeader(x))
<1> DEFINE b == RLPHeader(x)
<1>1. /\ Taken("rlp", b) = ReadRLP(b)
      /\ ~OutOfReach("rlp", x)
  BY DEF Taken, OutOfReach
<1>2. x \in Nat
  BY DEF IsLength
<1>3. CASE x < 56
  <2> DEFINE h == 128 + x
  <2>1. b = <<h>>
    BY <1>2, <1>3 DEF RLPHeader
  <2>2. IsByte(h) /\ h <= 183 /\ h - 128 = x
    BY <1>2, <1>3 DEF IsByte
  <2> HIDE DEF b, h
  <2>3. b[1] = h /\ \A i \in DOMAIN b : b[i] \in Bytes
    BY <2>1, <2>2, OneByte
  <2>4. ReadRLP(b) = x
    BY <2>2, <2>3 DEF ReadRLP
  <2> QED
    BY <1>1, <2>3, <2>4 DEF RoundTrip, b
<1>4. CASE ~(x < 56)
  <2> DEFINE k == Size(x)
             h == 183 + k
             s == BigEndian(x, k)
  <2>1. k \in 1..4 /\ Byte(x, k - 1) # 0 /\ \A i \in k..3 : Byte(x, i) = 0
    BY <1>4, SizeIs
  <2>2. b = Header(h, s)
    BY <1>4 DEF RLPHeader, Header
  <2> HIDE DEF b, k
  <2>3. IsByte(h) /\ ~(h <= 183) /\ k \in Nat
    <3>1. k \in Nat /\ 0 < k /\ k <= 4
      BY <2>1
    <3> QED
      BY <3>1 DEF IsByte
  <2> HIDE DEF h
  <2>4. b[1] = h /\ Tail(b) = s /\ \A i \in DOMAIN b : b[i] \in Bytes
    BY <2>2, <2>3, BigForm
  <2>5. ReadRLP(b) = Spelt(s)
    BY <2>3, <2>4 DEF ReadRLP
  <2>6. Spelt(s) = x
    BY <2>1, SizeSpells
  <2> QED
    BY <1>1, <2>4, <2>5, <2>6 DEF RoundTrip, b
<1> QED
  BY <1>3, <1>4

\* What the assumptions on the constants say of a list of signatures and of the
\* answers.
LEMMA OnConstants ==
    /\ SigLen \in Nat /\ 0 < SigLen /\ IsByte(SigLen)
    /\ \A x \in Lengths : IsLength(x)
    /\ ERROR \notin Nat /\ NONE \notin Nat /\ NONE # ERROR
BY EncodingsAssumption DEF EncodingsAssumption, IsLength, IsByte, Power

\* A list of signatures.
LEMMA SignaturesRoundTrip ==
    ASSUME NEW x, IsLength(x)
    PROVE  RoundTrip("signatures", x, SignatureLengths(x))
<1> DEFINE b == SignatureLengths(x)
           c == SigLen + 1
           right == {i \in 1..Len(b) : Offset(i) = (i - 1) * (b[i] + 1)}
           r == ReadSignatures(b)
           Right(k) == 1..k \subseteq right /\ (k = Len(b) \/ k + 1 \notin right)
<1>1. /\ Taken("signatures", b) = r
      /\ OutOfReach("signatures", x) <=> x * c > 256 + SigLen
  BY DEF Taken, OutOfReach
<1>2. x \in Nat /\ c \in Nat /\ c = SigLen + 1 /\ SigLen \in Nat /\ IsByte(SigLen)
  BY OnConstants DEF IsLength
<1>3. b = [i \in 1..x |-> SigLen] /\ Len(b) = x
  BY <1>2 DEF SignatureLengths
<1>4. \A i \in 1..x : b[i] + 1 = c /\ b[i] \in Bytes
  BY <1>2, <1>3, InBytes
<1>5. r = CHOOSE k \in 0..x : Right(k)
  BY <1>3 DEF ReadSignatures
<1>6. \A i \in 1..x : i \in right <=> ((i - 1) * c) % 256 = (i - 1) * c
  BY <1>3, <1>4 DEF Offset
<1> HIDE DEF b, c, r
<1>7. \A i \in 1..x : i \in right <=> (i - 1) * c < 256
  <2>1. SUFFICES ASSUME NEW i \in 1..x
                 PROVE  i \in right <=> (i - 1) * c < 256
    OBVIOUS
  <2> DEFINE o == (i - 1) * c
  <2>2. o \in Nat
    BY <1>2
  <2> HIDE DEF o, right
  <2>3. o % 256 = o <=> o < 256
    BY <2>2, SMT
  <2> QED
    BY <1>6, <2>3 DEF o
<1> HIDE DEF right
<1>8. \E k \in 0..x : Right(k)
  <2> DEFINE beyond == {i \in 1..x : i \notin right}
  <2>1. CASE beyond = {}
    <3>1. 1..x \subseteq right
      BY <2>1
    <3>2. Right(x)
      BY <1>3, <3>1
    <3> HIDE DEF Right
    <3> QED
      BY <1>2, <3>2
  <2>2. CASE beyond # {}
    <3>1. PICK i \in beyond : \A j \in beyond : i <= j
      <4>1. beyond \subseteq Nat
        OBVIOUS
      <4> HIDE DEF beyond
      <4> QED
        BY <2>2, <4>1, LeastNumber
    <3>2. i - 1 \in 0..x /\ 1..(i - 1) \subseteq right /\ (i - 1) + 1 = i
      BY <1>2, <3>1
    <3>3. Right(i - 1)
      BY <3>1, <3>2
    <3> HIDE DEF Right
    <3> QED
      BY <3>2, <3>3
  <2> QED
    BY <2>1, <2>2
<1>9. r \in 0..x /\ Right(r)
  <2> HIDE DEF Right
  <2> QED
    BY <1>5, <1>8
<1>10. CASE x * c > 256 + SigLen
  <2>1. x \in 1..x /\ ~((x - 1) * c < 256)
    <3>1. x # 0
      BY <1>2, <1>10
    <3>2. (x - 1) * c = x * c - c
      BY <1>2
    <3> DEFINE d == x * c
    <3>3. d \in Nat
      BY <1>2
    <3>4. (x - 1) * c = d - c /\ d > 256 + SigLen
      BY <1>10, <3>2
    <3> HIDE DEF d
    <3> QED
      BY <1>2, <3>1, <3>3, <3>4
  <2>2. x \notin right
    BY <1>7, <2>1
  <2>3. r # x
    BY <1>9, <2>1, <2>2
  <2> QED
    BY <1>1, <1>3, <1>4, <1>10, <2>3 DEF RoundTrip, b
<1>11. CASE ~(x * c > 256 + SigLen)
  <2>1. \A i \in 1..x : (i - 1) * c < 256
    <3>1. SUFFICES ASSUME NEW i \in 1..x
                   PROVE  (i - 1) * c < 256
      OBVIOUS
    <3> DEFINE d == x * c
               o == (i - 1) * c
               q == (x - i) * c
    <3>2. d = o + q + c
      BY <1>2
    <3>3. x - i \in Nat /\ i - 1 \in Nat
      BY <1>2
    <3>4. d \in Nat /\ o \in Nat /\ q \in Nat
      BY <1>2, <3>3
    <3>5. ~(d > 256 + SigLen)
      BY <1>11
    <3> HIDE DEF d, o, q
    <3>6. o < 256
      BY <1>2, <3>2, <3>4, <3>5
    <3> QED
      BY <3>6 DEF o
  <2>2. \A i \in 1..x : i \in right
    BY <1>7, <2>1
  <2>3. r = x
    <3>1. SUFFICES ASSUME r # x
                   PROVE  FALSE
      OBVIOUS
    <3>2. r + 1 \in 1..x
      BY <1>2, <1>9, <3>1
    <3> QED
      BY <1>3, <1>9, <2>2, <3>1, <3>2
  <2> QED
    BY <1>1, <1>3, <1>4, <1>11, <2>3 DEF RoundTrip, b
<1> QED
  BY <1>10, <1>11

\* The last argument of a call of a contract.
LEMMA AbiRoundTrip ==
    ASSUME NEW x, IsLength(x),
           NEW b \in AbiBytes(x), b # ERROR
    PROVE  (Taken("abi", b) = x) <=> ~OutOfReach("abi", x)
<1>1. /\ Taken("abi", b) = ReadAbi(b)
      /\ OutOfReach("abi", x) <=> x \in 1..31 \/ x > 255
  BY DEF Taken, OutOfReach
<1>2. x \in Nat /\ x # ERROR
  BY OnConstants DEF IsLength
<1> DEFINE y == x % 256
<1>3. y \in Nat /\ y < 256 /\ (y = x <=> x < 256)
  BY <1>2, SMT
<1> HIDE DEF y
<1>4. CASE x <= 32
  <2>1. b.length = y /\ b.zeros = 32 - x
    BY <1>4 DEF AbiBytes, AbiLength, y
  <2>2. y = x
    BY <1>2, <1>3, <1>4
  <2>3. (b.length > 0 /\ b.zeros > 0) <=> x \in 1..31
    BY <1>2, <1>4, <2>1, <2>2
  <2>4. ReadAbi(b) = x <=> ~(x \in 1..31)
    BY <1>2, <2>1, <2>2, <2>3 DEF ReadAbi
  <2>5. ~(x > 255)
    BY <1>2, <1>4
  <2> QED
    BY <1>1, <2>4, <2>5
<1>5. CASE ~(x <= 32)
  <2>1. b.length = y /\ b.zeros = 0
    BY <1>5 DEF AbiBytes, AbiLength, y
  <2>2. ReadAbi(b) = y
    BY <2>1 DEF ReadAbi
  <2>3. ~(x \in 1..31) /\ (y = x <=> ~(x > 255))
    BY <1>2, <1>3, <1>5
  <2> QED
    BY <1>1, <2>2, <2>3
<1> QED
  BY <1>4, <1>5

\* A set that has every number below which it has all has them all.
LEMMA StrongInduction ==
    ASSUME NEW S, \A k \in Nat : (\A j \in Nat : j < k => j \in S) => k \in S
    PROVE  \A k \in Nat : k \in S
<1> DEFINE T == {k \in Nat : k \notin S}
<1>1. SUFFICES ASSUME T # {}
               PROVE  FALSE
  OBVIOUS
<1>2. PICK x \in T : \A y \in T : x <= y
  <2>1. T \subseteq Nat
    OBVIOUS
  <2> HIDE DEF T
  <2> QED
    BY <1>1, <2>1, LeastNumber
<1>3. ASSUME NEW j \in Nat, j < x
      PROVE  j \in S
  <2>1. x \in Nat /\ ~(x <= j)
    BY <1>2, <1>3
  <2>2. j \notin T
    BY <1>2, <2>1
  <2> QED
    BY <2>2
<1> QED
  BY <1>2, <1>3

\* A number without its last digit, and that digit.
Shorter(y) == y \div 10
LastDigit(y) == y % 10

LEMMA ShorterIs ==
    ASSUME NEW y \in Nat
    PROVE  /\ Shorter(y) \in Nat /\ LastDigit(y) \in Nat /\ LastDigit(y) < 10
           /\ y = 10 * Shorter(y) + LastDigit(y)
           /\ y < 10 => Shorter(y) = 0 /\ LastDigit(y) = y
           /\ ~(y < 10) => Shorter(y) < y
<1>1. /\ Shorter(y) \in Nat /\ LastDigit(y) \in Nat /\ LastDigit(y) < 10
      /\ y = 10 * Shorter(y) + LastDigit(y)
  BY SMT DEF Shorter, LastDigit
<1>2. y < 10 => Shorter(y) = 0
  BY <1>1
<1> QED
  BY <1>1, <1>2

\* The digits of a number are those of the number without its last digit, and
\* that digit.
Extended(h, y) == (IF y < 10 THEN <<>> ELSE h[Shorter(y)]) \o <<48 + LastDigit(y)>>
IsWriting(h, j) == h = [k \in 0..j |-> Extended(h, k)]

LEMMA WritingIs ==
    ASSUME NEW x \in Nat
    PROVE  \E h : IsWriting(h, x) /\ h[x] = Digits(x)
<1> DEFINE K == {j \in Nat : \E h : IsWriting(h, j)}
           f == CHOOSE h : IsWriting(h, x)
<1>1. Digits(x) = f[x]
  BY DEF Digits, IsWriting, Extended, Shorter, LastDigit
<1>2. 0 \in K
  <2> DEFINE h == [k \in 0..0 |-> <<>> \o <<48 + LastDigit(0)>>]
  <2>1. h = [k \in 0..0 |-> Extended(h, k)]
    <3>1. \A k \in 0..0 : k < 10
      OBVIOUS
    <3> QED
      BY <3>1 DEF Extended
  <2>2. IsWriting(h, 0)
    BY <2>1 DEF IsWriting
  <2> QED
    BY <2>2
<1>3. ASSUME NEW j \in Nat, j \in K
      PROVE  j + 1 \in K
  <2>1. PICK h : IsWriting(h, j)
    BY <1>3
  <2> DEFINE e == [k \in 0..(j + 1) |-> Extended(h, k)]
  <2>2. \A k \in 0..j : h[k] = Extended(h, k)
    BY <2>1 DEF IsWriting
  <2>3. \A k \in 0..j : e[k] = h[k]
    BY <2>2
  <2>4. \A k \in 0..(j + 1) : Extended(h, k) = Extended(e, k)
    <3>1. SUFFICES ASSUME NEW k \in 0..(j + 1)
                   PROVE  Extended(h, k) = Extended(e, k)
      OBVIOUS
    <3>2. CASE k < 10
      BY <3>2 DEF Extended
    <3>3. CASE ~(k < 10)
      <4>1. Shorter(k) \in 0..j
        BY <3>3, ShorterIs
      <4>2. e[Shorter(k)] = h[Shorter(k)]
        BY <2>3, <4>1
      <4> QED
        BY <3>3, <4>2 DEF Extended
    <3> QED
      BY <3>2, <3>3
  <2>5. e = [k \in 0..(j + 1) |-> Extended(e, k)]
    BY <2>4
  <2>6. IsWriting(e, j + 1)
    BY <2>5 DEF IsWriting
  <2> QED
    BY <2>6
<1>4. x \in K
  <2> HIDE DEF K
  <2> QED
    BY <1>2, <1>3, SetInduction
<1>5. IsWriting(f, x)
  BY <1>4
<1> QED
  BY <1>1, <1>5

\* It does not matter how far it is defined.
LEMMA OneWriting ==
    ASSUME NEW i \in Nat, NEW j \in Nat, NEW h, IsWriting(h, i), NEW e, IsWriting(e, j)
    PROVE  \A k \in Nat : k <= i /\ k <= j => h[k] = e[k]
<1> DEFINE S == {k \in Nat : k <= i /\ k <= j => h[k] = e[k]}
<1>1. ASSUME NEW k \in Nat, \A l \in Nat : l < k => l \in S
      PROVE  k \in S
  <2>1. SUFFICES ASSUME k <= i, k <= j
                 PROVE  h[k] = e[k]
    OBVIOUS
  <2>2. k \in 0..i /\ k \in 0..j
    BY <2>1
  <2>3. h[k] = Extended(h, k) /\ e[k] = Extended(e, k)
    BY <2>2 DEF IsWriting
  <2>4. CASE k < 10
    BY <2>3, <2>4 DEF Extended
  <2>5. CASE ~(k < 10)
    <3>1. Shorter(k) \in Nat /\ Shorter(k) < k
      BY <2>5, ShorterIs
    <3>2. h[Shorter(k)] = e[Shorter(k)]
      BY <1>1, <2>1, <3>1
    <3> QED
      BY <2>3, <2>5, <3>2 DEF Extended
  <2> QED
    BY <2>4, <2>5
<1>2. \A k \in Nat : k \in S
  <2> HIDE DEF S
  <2> QED
    BY <1>1, StrongInduction
<1> QED
  BY <1>2

LEMMA DigitsAre ==
    ASSUME NEW y \in Nat
    PROVE  Digits(y) =
             (IF y < 10 THEN <<>> ELSE Digits(Shorter(y))) \o <<48 + LastDigit(y)>>
<1>1. PICK h : IsWriting(h, y) /\ h[y] = Digits(y)
  BY WritingIs
<1>2. y \in 0..y
  OBVIOUS
<1>3. h[y] = Extended(h, y)
  BY <1>1, <1>2 DEF IsWriting
<1>4. CASE y < 10
  BY <1>1, <1>3, <1>4 DEF Extended
<1>5. CASE ~(y < 10)
  <2> DEFINE z == Shorter(y)
  <2>1. z \in Nat /\ z < y
    BY <1>5, ShorterIs
  <2>2. h[y] = h[z] \o <<48 + LastDigit(y)>>
    BY <1>3, <1>5 DEF Extended
  <2> HIDE DEF z
  <2>3. PICK e : IsWriting(e, z) /\ e[z] = Digits(z)
    BY <2>1, WritingIs
  <2>4. h[z] = e[z]
    BY <1>1, <2>1, <2>3, OneWriting
  <2>5. Digits(y) = Digits(z) \o <<48 + LastDigit(y)>>
    BY <1>1, <2>2, <2>3, <2>4
  <2> QED
    BY <1>5, <2>5 DEF z
<1> QED
  BY <1>4, <1>5

\* They are digits, at least one.
IsFigure(c) == c \in Nat /\ 48 <= c /\ c < 58

LEMMA FigureIs == \A c : IsFigure(c) => IsDigit(c) /\ IsByte(c)
BY DEF IsFigure, IsDigit, IsByte

LEMMA DigitsTake ==
    ASSUME NEW y \in Nat, NEW w, w = Digits(y)
    PROVE  /\ w \in Seq(Nat) /\ 1 <= Len(w) /\ \A q \in 1..Len(w) : IsFigure(w[q])
           /\ w[Len(w)] = 48 + LastDigit(y)
           /\ y < 10 => Len(w) = 1
           /\ ~(y < 10) => /\ Len(w) = Len(Digits(Shorter(y))) + 1
                           /\ \A q \in 1..(Len(w) - 1) : w[q] = Digits(Shorter(y))[q]
<1> DEFINE Fine(v) == v \in Seq(Nat) /\ 1 <= Len(v) /\ \A q \in 1..Len(v) : IsFigure(v[q])
           S == {k \in Nat : Fine(Digits(k))}
<1>1. ASSUME NEW k \in Nat
      PROVE  48 + LastDigit(k) \in Nat /\ IsFigure(48 + LastDigit(k))
  <2> DEFINE l == LastDigit(k)
  <2>1. l \in Nat /\ l < 10
    BY ShorterIs
  <2> HIDE DEF l
  <2>2. 48 + l \in Nat /\ IsFigure(48 + l)
    BY <2>1 DEF IsFigure
  <2> QED
    BY <2>2 DEF l
<1>2. ASSUME NEW k \in Nat, k < 10
      PROVE  Digits(k) = <<48 + LastDigit(k)>>
  <2>1. Digits(k) = <<>> \o <<48 + LastDigit(k)>>
    BY <1>2, DigitsAre
  <2> QED
    BY <1>1, <2>1
<1>3. ASSUME NEW k \in Nat, ~(k < 10)
      PROVE  Digits(k) = Digits(Shorter(k)) \o <<48 + LastDigit(k)>>
  BY <1>3, DigitsAre
<1>4. ASSUME NEW v, Fine(v), NEW c \in Nat, IsFigure(c), NEW u, u = v \o <<c>>
      PROVE  /\ Fine(u) /\ Len(u) = Len(v) + 1 /\ u[Len(u)] = c
             /\ \A q \in 1..Len(v) : u[q] = v[q]
  <2>1. /\ u \in Seq(Nat) /\ Len(u) = Len(v) + 1 /\ u[Len(v) + 1] = c
        /\ \A q \in 1..Len(v) : u[q] = v[q]
    BY <1>4
  <2>2. ASSUME NEW q \in 1..(Len(v) + 1)
        PROVE  IsFigure(u[q])
    <3>1. CASE q = Len(v) + 1
      BY <1>4, <2>1, <3>1
    <3>2. CASE q # Len(v) + 1
      <4>1. q \in 1..Len(v)
        BY <1>4, <3>2
      <4> QED
        BY <1>4, <2>1, <4>1
    <3> QED
      BY <3>1, <3>2
  <2>3. 1 <= Len(u)
    BY <1>4, <2>1
  <2> QED
    BY <2>1, <2>2, <2>3
<1>5. ASSUME NEW k \in Nat, \A l \in Nat : l < k => l \in S
      PROVE  k \in S
  <2>1. CASE k < 10
    <3> DEFINE c == 48 + LastDigit(k)
    <3>1. c \in Nat /\ IsFigure(c) /\ Digits(k) = <<c>>
      BY <1>1, <1>2, <2>1
    <3> HIDE DEF c
    <3>2. Fine(<<c>>)
      BY <3>1
    <3> QED
      BY <3>1, <3>2
  <2>2. CASE ~(k < 10)
    <3>1. Shorter(k) \in Nat /\ Shorter(k) < k
      BY <2>2, ShorterIs
    <3>2. Fine(Digits(Shorter(k)))
      BY <1>5, <3>1
    <3> HIDE DEF Fine
    <3>3. Fine(Digits(k))
      BY <1>1, <1>3, <1>4, <2>2, <3>2
    <3> QED
      BY <3>3
  <2> QED
    BY <2>1, <2>2
<1>6. \A k \in Nat : k \in S
  <2> HIDE DEF S
  <2> QED
    BY <1>5, StrongInduction
<1>7. Fine(w)
  BY <1>6
<1>8. CASE y < 10
  <2>1. w = <<48 + LastDigit(y)>>
    BY <1>2, <1>8
  <2>2. Len(w) = 1 /\ w[1] = 48 + LastDigit(y)
    BY <2>1
  <2> QED
    BY <1>7, <1>8, <2>2
<1>9. CASE ~(y < 10)
  <2> DEFINE v == Digits(Shorter(y))
             c == 48 + LastDigit(y)
  <2>1. Shorter(y) \in Nat
    BY ShorterIs
  <2>2. Fine(v)
    BY <1>6, <2>1
  <2>3. w = v \o <<c>> /\ c \in Nat /\ IsFigure(c)
    BY <1>1, <1>3, <1>9
  <2> HIDE DEF v, c, Fine
  <2>4. Len(w) = Len(v) + 1 /\ w[Len(w)] = c /\ \A q \in 1..Len(v) : w[q] = v[q]
    BY <1>4, <2>2, <2>3
  <2>5. Len(w) - 1 = Len(v)
    <3>1. Len(v) \in Nat
      BY <2>2 DEF Fine
    <3> QED
      BY <2>4, <3>1
  <2> QED
    BY <1>7, <1>9, <2>4, <2>5 DEF v, c, Fine
<1> QED
  BY <1>8, <1>9

\* The text of a path, element by element.
LEMMA TextIs ==
    ASSUME NEW p, Len(p) \in Nat
    PROVE  \E g : /\ g[0] = <<M>>
                  /\ \A i \in 1..Len(p) : g[i] = g[i - 1] \o PathElement(p[i])
                  /\ g[Len(p)] = PathText(p)
<1> DEFINE N == Len(p)
           Body(h, k) == IF k = 0 THEN <<M>> ELSE h[k - 1] \o PathElement(p[k])
           Is(h, j) == h = [k \in 0..j |-> Body(h, k)]
           f == CHOOSE h : Is(h, N)
           K == {j \in Nat : \E h : Is(h, j)}
<1>1. PathText(p) = f[N]
  BY DEF PathText
<1>2. 0 \in K
  <2> DEFINE h == [k \in 0..0 |-> <<M>>]
  <2>1. Is(h, 0)
    OBVIOUS
  <2> QED
    BY <2>1
<1>3. ASSUME NEW j \in Nat, j \in K
      PROVE  j + 1 \in K
  <2>1. PICK h : Is(h, j)
    BY <1>3
  <2> DEFINE e == [k \in 0..(j + 1) |-> Body(h, k)]
  <2>2. \A k \in 0..j : h[k] = Body(h, k)
    BY <2>1
  <2>3. \A k \in 0..j : e[k] = h[k]
    BY <2>2
  <2>4. \A k \in 0..(j + 1) : Body(h, k) = Body(e, k)
    <3>1. SUFFICES ASSUME NEW k \in 0..(j + 1)
                   PROVE  Body(h, k) = Body(e, k)
      OBVIOUS
    <3>2. CASE k = 0
      BY <3>2
    <3>3. CASE k # 0
      <4>1. k - 1 \in 0..j
        BY <3>3
      <4>2. e[k - 1] = h[k - 1]
        BY <2>3, <4>1
      <4> QED
        BY <3>3, <4>2
    <3> QED
      BY <3>2, <3>3
  <2> DEFINE e2 == [k \in 0..(j + 1) |-> Body(e, k)]
  <2>5. e = e2
    BY <2>4
  <2>6. \E d : Is(d, j + 1)
    <3> WITNESS e
    <3> QED
      BY <2>5
  <2> QED
    BY <2>6
<1>4. N \in K
  <2> HIDE DEF K, N
  <2>1. N \in Nat
    BY DEF N
  <2> QED
    BY <1>2, <1>3, <2>1, SetInduction
<1>5. Is(f, N)
  <2>1. \E h : Is(h, N)
    BY <1>4
  <2> HIDE DEF Is
  <2> QED
    BY <2>1
<1> HIDE DEF f
<1>6. \A k \in 0..N : f[k] = Body(f, k)
  BY <1>5
<1>7. f[0] = <<M>>
  <2>1. 0 \in 0..N
    OBVIOUS
  <2> QED
    BY <1>6, <2>1
<1>8. ASSUME NEW k \in 1..N
      PROVE  f[k] = f[k - 1] \o PathElement(p[k])
  <2>1. k \in 0..N /\ k # 0
    OBVIOUS
  <2> QED
    BY <1>6, <2>1
<1> QED
  BY <1>1, <1>7, <1>8

\* The states of parsePath, character by character.
Run(s, at) ==
    /\ at[0] = [next |-> 1, number |-> 0, ok |-> TRUE, out |-> <<>>]
    /\ \A i \in 1..Len(s) : at[i] = ParseStep(s, at[i - 1], i)

LEMMA RunIs ==
    ASSUME NEW s, Len(s) \in Nat
    PROVE  \E at : /\ Run(s, at)
                   /\ ParsePath(s) = IF at[Len(s)].ok THEN at[Len(s)].out ELSE ERROR
<1> DEFINE N == Len(s)
           Body(h, k) == IF k = 0 THEN [next |-> 1, number |-> 0, ok |-> TRUE, out |-> <<>>]
                         ELSE ParseStep(s, h[k - 1], k)
           Is(h, j) == h = [k \in 0..j |-> Body(h, k)]
           f == CHOOSE h : Is(h, N)
           K == {j \in Nat : \E h : Is(h, j)}
<1>1. ParsePath(s) = IF f[N].ok THEN f[N].out ELSE ERROR
  BY DEF ParsePath
<1>2. 0 \in K
  <2> DEFINE h == [k \in 0..0 |-> [next |-> 1, number |-> 0, ok |-> TRUE, out |-> <<>>]]
  <2>1. Is(h, 0)
    OBVIOUS
  <2> QED
    BY <2>1
<1>3. ASSUME NEW j \in Nat, j \in K
      PROVE  j + 1 \in K
  <2>1. PICK h : Is(h, j)
    BY <1>3
  <2> DEFINE e == [k \in 0..(j + 1) |-> Body(h, k)]
  <2>2. \A k \in 0..j : h[k] = Body(h, k)
    BY <2>1
  <2>3. \A k \in 0..j : e[k] = h[k]
    BY <2>2
  <2>4. \A k \in 0..(j + 1) : Body(h, k) = Body(e, k)
    <3>1. SUFFICES ASSUME NEW k \in 0..(j + 1)
                   PROVE  Body(h, k) = Body(e, k)
      OBVIOUS
    <3>2. CASE k = 0
      BY <3>2
    <3>3. CASE k # 0
      <4>1. k - 1 \in 0..j
        BY <3>3
      <4>2. e[k - 1] = h[k - 1]
        BY <2>3, <4>1
      <4> QED
        BY <3>3, <4>2
    <3> QED
      BY <3>2, <3>3
  <2> DEFINE e2 == [k \in 0..(j + 1) |-> Body(e, k)]
  <2>5. e = e2
    BY <2>4
  <2>6. \E d : Is(d, j + 1)
    <3> WITNESS e
    <3> QED
      BY <2>5
  <2> QED
    BY <2>6
<1>4. N \in K
  <2> HIDE DEF K, N
  <2>1. N \in Nat
    BY DEF N
  <2> QED
    BY <1>2, <1>3, <2>1, SetInduction
<1>5. Is(f, N)
  BY <1>4
<1> HIDE DEF f
<1>6. \A k \in 0..N : f[k] = Body(f, k)
  BY <1>5
<1>7. Run(s, f)
  BY <1>6 DEF Run
<1> QED
  BY <1>1, <1>7

\* An element: a slash, digits, perhaps a quote.
Element == [index : Nat, hardened : BOOLEAN]

LEMMA Characters ==
    /\ M = 109 /\ SLASH = 47 /\ QUOTE = 39
    /\ M \in Nat /\ SLASH \in Nat /\ QUOTE \in Nat
    /\ IsByte(M) /\ IsByte(SLASH) /\ IsByte(QUOTE)
BY DEF IsByte, M, SLASH, QUOTE

Lies(s, a, e, z) ==
    LET w == Digits(e.index)
    IN  /\ s[a + 1] = SLASH
        /\ \A q \in 1..Len(w) : s[(a + 1) + q] = w[q]
        /\ e.hardened => z = ((a + 1) + Len(w)) + 1 /\ s[z] = QUOTE
        /\ ~e.hardened => z = (a + 1) + Len(w)

Textual(s) == s \in Seq(Nat) /\ \A q \in 1..Len(s) : IsByte(s[q])

\* s goes on after t.
Continues(s, t) == Len(t) <= Len(s) /\ \A q \in 1..Len(t) : s[q] = t[q]

Join(s, t) == s \o t

Joined(u, s, t) ==
    /\ Textual(u) /\ Len(u) = Len(s) + Len(t) /\ Continues(u, s)
    /\ \A q \in 1..Len(t) : u[Len(s) + q] = t[q]

LEMMA TextualJoin ==
    ASSUME NEW s, Textual(s), NEW t, Textual(t), NEW u, u = Join(s, t)
    PROVE  Joined(u, s, t)
<1>1. /\ u \in Seq(Nat) /\ Len(u) = Len(s) + Len(t)
      /\ \A q \in 1..Len(s) : u[q] = s[q]
      /\ \A q \in 1..Len(t) : u[Len(s) + q] = t[q]
  BY DEF Textual, Join
<1>2. ASSUME NEW q \in 1..Len(u)
      PROVE  IsByte(u[q])
  <2>1. Len(s) \in Nat /\ Len(t) \in Nat
    BY DEF Textual
  <2>2. CASE q <= Len(s)
    <3>1. q \in 1..Len(s)
      BY <2>1, <2>2
    <3> QED
      BY <1>1, <3>1 DEF Textual
  <2>3. CASE ~(q <= Len(s))
    <3>1. q - Len(s) \in 1..Len(t) /\ Len(s) + (q - Len(s)) = q
      BY <1>1, <2>1, <2>3
    <3> DEFINE o == q - Len(s)
    <3> HIDE DEF o
    <3>2. o \in 1..Len(t) /\ Len(s) + o = q
      BY <3>1 DEF o
    <3>3. u[q] = t[o]
      BY <1>1, <3>2
    <3> QED
      BY <3>2, <3>3 DEF Textual
  <2> QED
    BY <2>2, <2>3
<1>3. Len(s) <= Len(u)
  BY <1>1 DEF Textual
<1> QED
  BY <1>1, <1>2, <1>3 DEF Textual, Continues, Joined

LEMMA TextualOne ==
    ASSUME NEW c, IsByte(c)
    PROVE  Textual(<<c>>) /\ Len(<<c>>) = 1 /\ <<c>>[1] = c
<1>1. c \in Nat
  BY DEF IsByte
<1>2. <<c>> \in Seq(Nat) /\ Len(<<c>>) = 1 /\ <<c>>[1] = c
  BY <1>1
<1> QED
  BY <1>2 DEF Textual

LEMMA ElementIs ==
    ASSUME NEW s, Textual(s), NEW e \in Element, NEW u, u = s \o PathElement(e)
    PROVE  Textual(u) /\ Continues(u, s) /\ Lies(u, Len(s), e, Len(u))
<1> DEFINE w == Digits(e.index)
           t == <<SLASH>> \o w
           v == PathElement(e)
<1>1. e.index \in Nat /\ e.hardened \in BOOLEAN
  BY DEF Element
<1>2. Textual(w) /\ Len(w) \in Nat
  <2>1. w \in Seq(Nat) /\ \A q \in 1..Len(w) : IsFigure(w[q])
    BY <1>1, DigitsTake
  <2> HIDE DEF w
  <2> QED
    BY <2>1, FigureIs DEF Textual
<1>3. /\ Textual(<<SLASH>>) /\ Len(<<SLASH>>) = 1
      /\ <<SLASH>>[1] = SLASH
      /\ Textual(<<QUOTE>>) /\ Len(<<QUOTE>>) = 1
      /\ <<QUOTE>>[1] = QUOTE
  BY Characters, TextualOne
<1>4. /\ e.hardened => v = t \o <<QUOTE>>
      /\ ~e.hardened => v = t \o <<>>
  BY <1>1 DEF PathElement
<1> HIDE DEF w, v
<1>5. /\ Textual(t) /\ Len(t) = 1 + Len(w) /\ t[1] = SLASH
      /\ \A q \in 1..Len(w) : t[1 + q] = w[q]
  <2> DEFINE l == <<SLASH>>
  <2>1. Textual(l) /\ Len(l) = 1 /\ l[1] = SLASH /\ t = Join(l, w)
    BY <1>3 DEF Join
  <2> HIDE DEF l, t
  <2>2. /\ Textual(t) /\ Len(t) = Len(l) + Len(w) /\ Continues(t, l)
        /\ \A q \in 1..Len(w) : t[Len(l) + q] = w[q]
    <3>1. Joined(t, l, w)
      BY <1>2, <2>1, TextualJoin
    <3> QED
      BY <3>1 DEF Joined
  <2>3. t[1] = SLASH
    <3>1. 1 \in 1..Len(l)
      BY <2>1
    <3> QED
      BY <2>1, <2>2, <3>1 DEF Continues
  <2> QED
    BY <2>1, <2>2, <2>3
<1> HIDE DEF t
<1>6. ASSUME NEW x, Textual(x), Continues(x, t), NEW y, y = Join(s, x),
             NEW z, z = Len(y),
             e.hardened => Len(x) = Len(t) + 1 /\ x[Len(x)] = QUOTE,
             ~e.hardened => Len(x) = Len(t)
      PROVE  Textual(y) /\ Continues(y, s) /\ Lies(y, Len(s), e, z)
  <2> DEFINE a == Len(s)
  <2>1. /\ Textual(y) /\ z = a + Len(x) /\ Continues(y, s)
        /\ \A q \in 1..Len(x) : y[a + q] = x[q]
    <3>1. Joined(y, s, x)
      BY <1>6, TextualJoin
    <3> QED
      BY <1>6, <3>1 DEF Joined
  <2>2. a \in Nat /\ Len(x) \in Nat
    BY <1>6 DEF Textual
  <2> HIDE DEF a
  <2>3. Len(t) <= Len(x) /\ \A q \in 1..Len(t) : x[q] = t[q]
    BY <1>6 DEF Continues
  <2>4. y[a + 1] = SLASH
    <3>1. 1 \in 1..Len(t) /\ 1 \in 1..Len(x)
      BY <1>2, <1>5, <2>2, <2>3
    <3> QED
      BY <1>5, <2>1, <2>3, <3>1
  <2>5. ASSUME NEW q \in 1..Len(w)
        PROVE  y[(a + 1) + q] = w[q]
    <3> DEFINE o == 1 + q
    <3>1. o \in 1..Len(t) /\ o \in 1..Len(x) /\ (a + 1) + q = a + o
      BY <1>2, <1>5, <2>2, <2>3
    <3>2. t[o] = w[q]
      BY <1>5
    <3> HIDE DEF o
    <3>3. y[a + o] = t[o]
      BY <2>1, <2>3, <3>1
    <3> QED
      BY <3>1, <3>2, <3>3
  <2>6. CASE e.hardened
    <3>1. Len(x) = Len(t) + 1 /\ x[Len(x)] = QUOTE
      BY <1>6, <2>6
    <3>2. Len(x) \in 1..Len(x) /\ z = ((a + 1) + Len(w)) + 1
      BY <1>2, <1>5, <2>1, <2>2, <3>1
    <3>3. y[z] = QUOTE
      BY <2>1, <3>1, <3>2
    <3>4. Lies(y, a, e, z)
      BY <2>4, <2>5, <2>6, <3>2, <3>3 DEF Lies, w
    <3> QED
      BY <2>1, <3>4 DEF a
  <2>7. CASE ~e.hardened
    <3>1. Len(x) = Len(t)
      BY <1>6, <2>7
    <3>2. z = (a + 1) + Len(w)
      BY <1>2, <1>5, <2>1, <2>2, <3>1
    <3>3. Lies(y, a, e, z)
      BY <2>4, <2>5, <2>7, <3>2 DEF Lies, w
    <3> QED
      BY <2>1, <3>3 DEF a
  <2> QED
    BY <2>6, <2>7
<1>7. /\ Textual(v) /\ Continues(v, t)
      /\ e.hardened => Len(v) = Len(t) + 1 /\ v[Len(v)] = QUOTE
      /\ ~e.hardened => Len(v) = Len(t)
  <2>1. CASE e.hardened
    <3> DEFINE l == <<QUOTE>>
    <3>1. Textual(l) /\ Len(l) = 1 /\ l[1] = QUOTE /\ v = Join(t, l)
      BY <1>3, <1>4, <2>1 DEF Join
    <3> HIDE DEF l
    <3>2. /\ Textual(v) /\ Len(v) = Len(t) + Len(l) /\ Continues(v, t)
          /\ \A q \in 1..Len(l) : v[Len(t) + q] = l[q]
      <4>1. Joined(v, t, l)
        BY <1>5, <3>1, TextualJoin
      <4> QED
        BY <4>1 DEF Joined
    <3>3. 1 \in 1..Len(l)
      BY <3>1
    <3>4. v[Len(t) + 1] = QUOTE
      BY <3>1, <3>2, <3>3
    <3> QED
      BY <2>1, <3>1, <3>2, <3>4
  <2>2. CASE ~e.hardened
    <3>1. v = t
      <4>1. t \in Seq(Nat) /\ v = t \o <<>>
        BY <1>4, <1>5, <2>2 DEF Textual
      <4> QED
        BY <4>1
    <3>2. Continues(t, t)
      BY <1>2, <1>5 DEF Continues
    <3> QED
      BY <1>5, <2>2, <3>1, <3>2
  <2> QED
    BY <2>1, <2>2
<1>8. u = Join(s, v)
  BY DEF v, Join
<1> QED
  BY <1>6, <1>7, <1>8

\* What follows an element does not move it.
LEMMA StillLies ==
    ASSUME NEW u, Textual(u), NEW s, Continues(s, u), NEW a \in Nat, NEW e \in Element,
           Lies(u, a, e, Len(u))
    PROVE  Lies(s, a, e, Len(u))
<1> DEFINE w == Digits(e.index)
           z == Len(u)
<1>1. e.index \in Nat /\ e.hardened \in BOOLEAN
  BY DEF Element
<1>2. Len(w) \in Nat
  BY <1>1, DigitsTake
<1>3. /\ u[a + 1] = SLASH
      /\ \A q \in 1..Len(w) : u[(a + 1) + q] = w[q]
      /\ e.hardened => z = ((a + 1) + Len(w)) + 1 /\ u[z] = QUOTE
      /\ ~e.hardened => z = (a + 1) + Len(w)
  BY DEF Lies
<1>4. z \in Nat /\ \A q \in 1..z : s[q] = u[q]
  BY DEF Textual, Continues
<1> HIDE DEF w, z
<1>5. (a + 1) + Len(w) <= z
  <2>1. CASE e.hardened
    BY <1>2, <1>3, <2>1
  <2>2. CASE ~e.hardened
    BY <1>2, <1>3, <2>2
  <2> QED
    BY <2>1, <2>2
<1>6. s[a + 1] = SLASH
  <2>1. a + 1 \in 1..z
    BY <1>2, <1>4, <1>5
  <2> QED
    BY <1>3, <1>4, <2>1
<1>7. ASSUME NEW q \in 1..Len(w)
      PROVE  s[(a + 1) + q] = w[q]
  <2> DEFINE o == (a + 1) + q
  <2>1. o \in 1..z
    BY <1>2, <1>4, <1>5
  <2>2. u[o] = w[q]
    BY <1>3
  <2> HIDE DEF o
  <2>3. s[o] = w[q]
    BY <1>4, <2>1, <2>2
  <2> QED
    BY <2>3 DEF o
<1>8. e.hardened => s[z] = QUOTE
  <2>1. z \in 1..z
    BY <1>2, <1>4, <1>5
  <2> QED
    BY <1>3, <1>4, <2>1
<1> QED
  BY <1>3, <1>6, <1>7, <1>8 DEF Lies, w, z

LaidOut(s, p, L) ==
    /\ Textual(s) /\ 1 <= Len(s) /\ s[1] = M
    /\ L[0] = 1 /\ L[Len(p)] = Len(s)
    /\ \A i \in 0..Len(p) : L[i] \in Nat /\ L[i] <= Len(s)
    /\ \A i \in 1..Len(p) : Lies(s, L[i - 1], p[i], L[i])

LEMMA LayoutIs ==
    ASSUME NEW p \in Seq(Element), NEW s, s = PathText(p)
    PROVE  \E L : LaidOut(s, p, L)
<1> DEFINE N == Len(p)
<1>1. N \in Nat /\ \A i \in 1..N : p[i] \in Element
  OBVIOUS
<1>2. PICK g : /\ g[0] = <<M>>
               /\ \A i \in 1..N : g[i] = g[i - 1] \o PathElement(p[i])
               /\ g[N] = s
  BY <1>1, TextIs
<1> HIDE DEF N
<1>3. ASSUME NEW i \in Nat, i + 1 <= N, Textual(g[i])
      PROVE  /\ Textual(g[i + 1]) /\ Continues(g[i + 1], g[i])
             /\ Lies(g[i + 1], Len(g[i]), p[i + 1], Len(g[i + 1]))
  <2> DEFINE j == i + 1
  <2>1. j \in 1..N /\ j - 1 = i
    BY <1>1, <1>3
  <2>2. g[j] = g[i] \o PathElement(p[j]) /\ p[j] \in Element
    BY <1>1, <1>2, <2>1
  <2> HIDE DEF j
  <2> DEFINE t == g[i]
             u == g[j]
             e == p[j]
  <2>3. Textual(t) /\ e \in Element /\ u = t \o PathElement(e)
    BY <1>3, <2>2
  <2> HIDE DEF t, u, e
  <2>4. Textual(u) /\ Continues(u, t) /\ Lies(u, Len(t), e, Len(u))
    BY <2>3, ElementIs
  <2> QED
    BY <2>4 DEF t, u, e, j
<1>4. ASSUME NEW i \in Nat, i <= N
      PROVE  Textual(g[i])
  <2> DEFINE S == {k \in Nat : k <= N => Textual(g[k])}
  <2>1. 0 \in S
    BY <1>2, Characters, TextualOne
  <2>2. ASSUME NEW k \in Nat, k \in S
        PROVE  k + 1 \in S
    <3>1. k + 1 <= N => k <= N
      BY <1>1
    <3> QED
      BY <1>3, <2>2, <3>1
  <2>3. i \in S
    <3> HIDE DEF S
    <3> QED
      BY <2>1, <2>2, SetInduction
  <2> QED
    BY <1>4, <2>3
<1>5. ASSUME NEW i \in Nat, i <= N
      PROVE  Continues(s, g[i])
  <2> DEFINE S == {k \in Nat : i <= k /\ k <= N => Continues(g[k], g[i])}
  <2>1. Continues(g[i], g[i])
    BY <1>4, <1>5 DEF Continues, Textual
  <2>2. 0 \in S
    <3>1. i <= 0 => i = 0
      OBVIOUS
    <3> QED
      BY <2>1, <3>1
  <2>3. ASSUME NEW k \in Nat, k \in S
        PROVE  k + 1 \in S
    <3>1. SUFFICES ASSUME i <= k + 1, k + 1 <= N
                   PROVE  Continues(g[k + 1], g[i])
      OBVIOUS
    <3>2. CASE i = k + 1
      BY <2>1, <3>2
    <3>3. CASE i # k + 1
      <4>1. i <= k /\ k <= N
        BY <1>1, <3>1, <3>3
      <4>2. Textual(g[k]) /\ Textual(g[i])
        BY <1>4, <1>5, <4>1
      <4>3. Continues(g[k], g[i]) /\ Continues(g[k + 1], g[k])
        BY <1>3, <2>3, <3>1, <4>1, <4>2
      <4> DEFINE t == g[i]
                 u == g[k]
                 v == g[k + 1]
      <4>4. /\ Len(t) <= Len(u) /\ \A q \in 1..Len(t) : u[q] = t[q]
            /\ Len(u) <= Len(v) /\ \A q \in 1..Len(u) : v[q] = u[q]
        BY <4>3 DEF Continues
      <4>5. Len(t) \in Nat /\ Len(u) \in Nat /\ Textual(g[k + 1])
        BY <1>3, <3>1, <4>2 DEF Textual
      <4>6. Len(v) \in Nat
        BY <4>5 DEF Textual
      <4> HIDE DEF t, u, v
      <4>7. Len(t) <= Len(v) /\ \A q \in 1..Len(t) : v[q] = t[q]
        <5>1. \A q \in 1..Len(t) : q \in 1..Len(u)
          BY <4>4, <4>5
        <5> QED
          BY <4>4, <4>5, <4>6, <5>1
      <4> QED
        BY <4>7 DEF Continues, t, v
    <3> QED
      BY <3>2, <3>3
  <2>4. N \in S
    <3> HIDE DEF S
    <3> QED
      BY <1>1, <2>2, <2>3, SetInduction
  <2>5. N <= N
    BY <1>1
  <2>6. Continues(g[N], g[i])
    BY <1>5, <2>4, <2>5
  <2> QED
    BY <1>2, <2>6
<1> DEFINE L == [i \in 0..N |-> Len(g[i])]
<1>6. ASSUME NEW i \in 0..N
      PROVE  L[i] \in Nat /\ L[i] <= Len(s)
  <2>1. i \in Nat /\ i <= N /\ L[i] = Len(g[i])
    BY <1>1
  <2>2. Textual(g[i]) /\ Continues(s, g[i])
    BY <1>4, <1>5, <2>1
  <2>3. Len(g[i]) \in Nat /\ Len(g[i]) <= Len(s)
    BY <2>2 DEF Textual, Continues
  <2> QED
    BY <2>1, <2>3
<1>7. ASSUME NEW i \in 1..N
      PROVE  Lies(s, L[i - 1], p[i], L[i])
  <2> DEFINE k == i - 1
  <2>1. k \in Nat /\ k <= N /\ i \in Nat /\ i <= N /\ k + 1 = i /\ k \in 0..N /\ i \in 0..N
    BY <1>1
  <2> HIDE DEF k
  <2>2. L[k] = Len(g[k]) /\ L[i] = Len(g[i])
    BY <2>1
  <2>3. Textual(g[k]) /\ Textual(g[i]) /\ Continues(s, g[i])
    BY <1>4, <1>5, <2>1
  <2>4. Lies(g[i], Len(g[k]), p[i], Len(g[i]))
    BY <1>3, <2>1, <2>3
  <2> DEFINE u == g[i]
             e == p[i]
             a == Len(g[k])
  <2>5. e \in Element /\ a \in Nat /\ Textual(u) /\ Continues(s, u) /\ Lies(u, a, e, Len(u))
    BY <1>1, <2>3, <2>4 DEF Textual
  <2> HIDE DEF u, e, a
  <2>6. Lies(s, a, e, Len(u))
    BY <2>5, StillLies
  <2> QED
    BY <2>2, <2>6 DEF u, e, a, k
<1>8. L[0] = 1 /\ L[N] = Len(s) /\ 1 <= Len(s) /\ s[1] = M /\ Textual(s)
  <2>1. 0 \in 0..N /\ N \in 0..N /\ N <= N /\ 0 <= N
    BY <1>1
  <2>2. L[0] = Len(g[0]) /\ L[N] = Len(g[N])
    BY <2>1
  <2>3. Len(g[0]) = 1 /\ g[0][1] = M
    BY <1>2, Characters, TextualOne
  <2>4. Textual(s) /\ Continues(s, g[0])
    BY <1>1, <1>2, <1>4, <1>5, <2>1
  <2>5. 1 \in 1..Len(g[0])
    BY <2>3
  <2>6. s[1] = g[0][1] /\ 1 <= Len(s)
    BY <2>3, <2>4, <2>5 DEF Continues
  <2> QED
    BY <1>2, <2>2, <2>3, <2>4, <2>6
<1> HIDE DEF L
<1>9. LaidOut(s, p, L)
  BY <1>6, <1>7, <1>8 DEF LaidOut, N
<1> QED
  BY <1>9

\* What one character makes of a state.
Parsing(next, num, ok, out) == [next |-> next, number |-> num, ok |-> ok, out |-> out]
Going(next, num, out) == Parsing(next, num, TRUE, out)
IsGoing(st, next, num, out) == st = Going(next, num, out)
Bad(st) == st.ok = FALSE /\ st.next = 0

Moved(st, i) == [st EXCEPT !.next = i]
Counted(st, l, i) == [st EXCEPT !.number = l, !.next = i]
Judged(st, k, i) == [st EXCEPT !.ok = k, !.next = i]

LEMMA ParsingIs ==
    ASSUME NEW next, NEW num, NEW ok, NEW out, NEW st, st = Parsing(next, num, ok, out)
    PROVE  st.next = next /\ st.number = num /\ st.ok = ok /\ st.out = out
BY DEF Parsing

LEMMA ParsingNext ==
    ASSUME NEW next, NEW num, NEW ok, NEW out, NEW st, st = Parsing(next, num, ok, out),
           NEW i
    PROVE  Moved(st, i) = Parsing(i, num, ok, out)
BY DEF Parsing, Moved

LEMMA ParsingNumber ==
    ASSUME NEW next, NEW num, NEW ok, NEW out, NEW st, st = Parsing(next, num, ok, out),
           NEW i, NEW l
    PROVE  Counted(st, l, i) = Parsing(i, l, ok, out)
<1> DEFINE t == [st EXCEPT !.number = l]
<1>1. t = [next |-> next, number |-> l, ok |-> ok, out |-> out]
  BY DEF Parsing
<1>2. Counted(st, l, i) = [t EXCEPT !.next = i]
  BY DEF Counted
<1> HIDE DEF t
<1>3. [t EXCEPT !.next = i] = [next |-> i, number |-> l, ok |-> ok, out |-> out]
  BY <1>1
<1> QED
  BY <1>2, <1>3 DEF Parsing

LEMMA ParsingOk ==
    ASSUME NEW next, NEW num, NEW ok, NEW out, NEW st, st = Parsing(next, num, ok, out),
           NEW i, NEW k
    PROVE  Judged(st, k, i) = Parsing(i, num, k, out)
<1> DEFINE t == [st EXCEPT !.ok = k]
<1>1. t = [next |-> next, number |-> num, ok |-> k, out |-> out]
  BY DEF Parsing
<1>2. Judged(st, k, i) = [t EXCEPT !.next = i]
  BY DEF Judged
<1> HIDE DEF t
<1>3. [t EXCEPT !.next = i] = [next |-> i, number |-> num, ok |-> k, out |-> out]
  BY <1>1
<1> QED
  BY <1>2, <1>3 DEF Parsing

LEMMA GoingIs ==
    ASSUME NEW next, NEW num, NEW out, NEW st, IsGoing(st, next, num, out)
    PROVE  st.next = next /\ st.number = num /\ st.ok /\ st.out = out
<1> DEFINE yes == TRUE
<1>1. st = Parsing(next, num, yes, out)
  BY DEF IsGoing, Going
<1> HIDE DEF yes
<1>2. st.next = next /\ st.number = num /\ st.ok = yes /\ st.out = out
  BY <1>1, ParsingIs
<1> QED
  BY <1>2 DEF yes

LEMMA GoingOn ==
    ASSUME NEW next, NEW num, NEW out, NEW st, IsGoing(st, next, num, out), NEW i, NEW l
    PROVE  Moved(st, i) = Going(i, num, out) /\ Counted(st, l, i) = Going(i, l, out)
<1> DEFINE yes == TRUE
<1>1. st = Parsing(next, num, yes, out)
  BY DEF IsGoing, Going
<1> HIDE DEF yes
<1>2. Moved(st, i) = Parsing(i, num, yes, out)
  BY <1>1, ParsingNext
<1>3. Counted(st, l, i) = Parsing(i, l, yes, out)
  BY <1>1, ParsingNumber
<1> QED
  BY <1>2, <1>3, Zenon DEF yes, Going

LEMMA GoingRefused ==
    ASSUME NEW next, NEW num, NEW out, NEW st, IsGoing(st, next, num, out)
    PROVE  Bad(Refused(st))
<1> DEFINE yes == TRUE
           no == FALSE
           r == Judged(st, no, 0)
<1>1. st = Parsing(next, num, yes, out)
  BY DEF IsGoing, Going
<1>2. Refused(st) = r
  BY Zenon DEF Refused, Judged
<1> HIDE DEF yes, no
<1>3. r = Parsing(0, num, no, out)
  BY <1>1, ParsingOk
<1> HIDE DEF r
<1>4. r.ok = no /\ r.next = 0
  BY <1>3, ParsingIs
<1> QED
  BY <1>2, <1>4, Zenon DEF no, Bad

LEMMA GoingPushed ==
    ASSUME NEW next, NEW num, NEW out, NEW st, IsGoing(st, next, num, out),
           NEW l, NEW h, NEW i
    PROVE  Pushed(st, l, h, i) =
             Going(i, 0, Append(out, [index |-> l, hardened |-> h]))
<1>1. st.out = out
  BY GoingIs
<1> DEFINE e == [index |-> l, hardened |-> h]
<1>2. Append(st.out, e) = Append(out, e)
  BY <1>1, Zenon
<1> HIDE DEF e
<1>3. Pushed(st, l, h, i) = Parsing(i, 0, TRUE, Append(st.out, e))
  BY Zenon DEF Parsing, Pushed, e
<1> QED
  BY <1>2, <1>3, Zenon DEF Going, e

LEMMA StepElsewhere ==
    ASSUME NEW s, NEW st, NEW i, st.next # i
    PROVE  ParseStep(s, st, i) = st
BY DEF ParseStep

LEMMA StepMark ==
    ASSUME NEW s, NEW i, NEW st, st.next = i, s[i] = M
    PROVE  ParseStep(s, st, i) = Moved(st, i + 2)
BY DEF Moved, ParseStep, M, IsDigit, QUOTE, SLASH

LEMMA StepFigure ==
    ASSUME NEW s, NEW i, NEW st, st.next = i, IsFigure(s[i])
    PROVE  ParseStep(s, st, i) = ParseDigit(s, st, i)
<1>1. IsDigit(s[i])
  BY FigureIs
<1>2. s[i] # M /\ s[i] # QUOTE /\ s[i] # SLASH
  BY DEF IsFigure, M, QUOTE, SLASH
<1> QED
  BY <1>1, <1>2 DEF ParseStep

LEMMA StepQuote ==
    ASSUME NEW s, NEW i, NEW st, st.next = i, s[i] = QUOTE, GoesOn(s, i + 1)
    PROVE  ParseStep(s, st, i) = Pushed(st, st.number, TRUE, i + 2)
<1>1. ~IsDigit(s[i])
  BY DEF IsDigit, QUOTE
<1>2. s[i] # M /\ s[i] # SLASH
  BY DEF M, QUOTE, SLASH
<1> QED
  BY <1>1, <1>2 DEF ParseStep

LEMMA StepSlash ==
    ASSUME NEW s, NEW i, NEW st, st.next = i, s[i] = SLASH, DigitAt(s, i + 1)
    PROVE  ParseStep(s, st, i) = Pushed(st, st.number, FALSE, i + 1)
<1>1. ~IsDigit(s[i])
  BY DEF IsDigit, SLASH
<1>2. s[i] # M /\ s[i] # QUOTE
  BY DEF M, QUOTE, SLASH
<1> QED
  BY <1>1, <1>2 DEF ParseStep

\* A digit makes a number ten times as large, and perhaps too large.
Closed(out, y) == Append(out, [index |-> y, hardened |-> FALSE])

Tenfold(v, l, c) == v = 10 * l + (c - 48)

Took(r, s, i, v, out) ==
    /\ v >= HARDENED => Bad(r)
    /\ ~(v >= HARDENED) /\ i # Len(s) => IsGoing(r, i + 1, v, out)
    /\ ~(v >= HARDENED) /\ i = Len(s) => IsGoing(r, i + 1, 0, Closed(out, v))

LEMMA DigitGoes ==
    ASSUME HARDENED \in Nat, NEW s, NEW i \in Nat, IsFigure(s[i]),
           NEW l \in Nat, NEW out, NEW st, IsGoing(st, i, l, out),
           NEW v, Tenfold(v, l, s[i]), NEW r, r = ParseStep(s, st, i)
    PROVE  Took(r, s, i, v, out)
<1>1. st.next = i /\ st.number = l
  BY GoingIs
<1>2. r = ParseDigit(s, st, i)
  BY <1>1, StepFigure
<1>3. v \in Nat
  <2> DEFINE c == s[i]
  <2>1. c \in Nat /\ 48 <= c
    BY DEF IsFigure
  <2>2. v = 10 * l + (c - 48)
    BY DEF Tenfold
  <2> HIDE DEF c
  <2> QED
    BY <2>1, <2>2
<1>4. r = IF v >= HARDENED THEN Refused(st)
          ELSE IF i = Len(s) THEN Pushed(st, v, FALSE, i + 1)
          ELSE [st EXCEPT !.number = v, !.next = i + 1]
  BY <1>1, <1>2, Zenon DEF ParseDigit, Tenfold
<1>5. Bad(Refused(st))
  BY Zenon, GoingRefused
<1>6. Pushed(st, v, FALSE, i + 1) =
        Going(i + 1, 0, Append(out, [index |-> v, hardened |-> FALSE]))
  <2> DEFINE no == FALSE
  <2> HIDE DEF no
  <2>1. Pushed(st, v, no, i + 1) =
          Going(i + 1, 0, Append(out, [index |-> v, hardened |-> no]))
    BY GoingPushed
  <2> QED
    BY <2>1, Zenon DEF no
<1>7. Counted(st, v, i + 1) = Going(i + 1, v, out)
  BY GoingOn
<1> QED
  BY <1>3, <1>4, <1>5, <1>6, <1>7, Zenon DEF Counted, Closed, Took, IsGoing

\* Once refused, a path stays so.
LEMMA StaysBad ==
    ASSUME NEW s, Len(s) \in Nat, NEW at, Run(s, at), NEW j \in Nat, Bad(at[j]),
           NEW k \in Nat, j <= k, k <= Len(s)
    PROVE  Bad(at[k])
<1> DEFINE S == {i \in Nat : j <= i /\ i <= Len(s) => Bad(at[i])}
<1>1. 0 \in S
  <2>1. j <= 0 => j = 0
    OBVIOUS
  <2> QED
    BY <2>1
<1>2. ASSUME NEW i \in Nat, i \in S
      PROVE  i + 1 \in S
  <2>1. SUFFICES ASSUME j <= i + 1, i + 1 <= Len(s)
                 PROVE  Bad(at[i + 1])
    OBVIOUS
  <2>2. CASE j = i + 1
    BY <2>2
  <2>3. CASE j # i + 1
    <3>1. j <= i /\ i <= Len(s) /\ i + 1 \in 1..Len(s) /\ (i + 1) - 1 = i /\ i + 1 # 0
      BY <2>1, <2>3
    <3>2. Bad(at[i])
      BY <1>2, <3>1
    <3>3. at[i + 1] = ParseStep(s, at[i], i + 1)
      BY <3>1 DEF Run
    <3>4. at[i].next # i + 1
      BY <3>1, <3>2 DEF Bad
    <3>5. at[i + 1] = at[i]
      BY <3>3, <3>4, StepElsewhere
    <3> QED
      BY <3>2, <3>5
  <2> QED
    BY <2>2, <2>3
<1>3. k \in S
  <2> HIDE DEF S
  <2> QED
    BY <1>1, <1>2, SetInduction
<1> QED
  BY <1>3

\* The digits of a number but the last, and all of them.
Spells(s, a, y) ==
    LET w == Digits(y)
    IN  a + Len(w) <= Len(s) /\ \A q \in 1..Len(w) : s[a + q] = w[q]

Brings(st, next, l, out) ==
    /\ l >= HARDENED => Bad(st)
    /\ ~(l >= HARDENED) => IsGoing(st, next, l, out)

LEMMA FiguresGo ==
    ASSUME HARDENED \in Nat, 0 < HARDENED, NEW s \in Seq(Nat), NEW at, Run(s, at),
           NEW a \in Nat, NEW out, IsGoing(at[a], a + 1, 0, out),
           NEW y \in Nat, Spells(s, a, y), NEW i, i = a + Len(Digits(y))
    PROVE  Brings(at[i - 1], i, Shorter(y), out)
<1> DEFINE D(k) == Len(Digits(k))
           S == {k \in Nat : Spells(s, a, k) => Brings(at[(a + D(k)) - 1], a + D(k), Shorter(k), out)}
<1>1. ASSUME NEW k \in Nat, \A j \in Nat : j < k => j \in S
      PROVE  k \in S
  <2>1. SUFFICES ASSUME Spells(s, a, k)
                 PROVE  Brings(at[(a + D(k)) - 1], a + D(k), Shorter(k), out)
    OBVIOUS
  <2>2. CASE k < 10
    <3>1. D(k) = 1 /\ Shorter(k) = 0
      BY <2>2, DigitsTake, ShorterIs
    <3> HIDE DEF D
    <3>2. (a + D(k)) - 1 = a /\ a + D(k) = a + 1
      BY <3>1
    <3>3. ~(0 >= HARDENED)
      OBVIOUS
    <3>4. Brings(at[a], a + 1, 0, out)
      BY <3>3 DEF Brings
    <3> QED
      BY <3>1, <3>2, <3>4
  <2>3. CASE ~(k < 10)
    <3> DEFINE z == Shorter(k)
               l == Shorter(z)
               w == Digits(k)
               v == Digits(z)
               e == a + Len(v)
    <3>1. z \in Nat /\ z < k
      BY <2>3, ShorterIs
    <3>2. l \in Nat /\ LastDigit(z) \in Nat /\ z = 10 * l + LastDigit(z)
      BY <3>1, ShorterIs
    <3>3. /\ Len(w) = Len(v) + 1
          /\ \A q \in 1..(Len(w) - 1) : w[q] = v[q]
      BY <2>3, DigitsTake
    <3>4. /\ Len(v) \in Nat /\ 1 <= Len(v) /\ \A q \in 1..Len(v) : IsFigure(v[q])
          /\ v[Len(v)] = 48 + LastDigit(z)
      <4>1. /\ v \in Seq(Nat) /\ 1 <= Len(v) /\ \A q \in 1..Len(v) : IsFigure(v[q])
            /\ v[Len(v)] = 48 + LastDigit(z)
        BY <3>1, DigitsTake
      <4> HIDE DEF v
      <4> QED
        BY <4>1
    <3>5. a + Len(w) <= Len(s) /\ \A q \in 1..Len(w) : s[a + q] = w[q]
      BY <2>1 DEF Spells
    <3>6. Spells(s, a, z) => Brings(at[e - 1], e, l, out)
      BY <1>1, <3>1
    <3>7. a + D(k) = a + Len(w)
      OBVIOUS
    <3>8. Len(s) \in Nat
      OBVIOUS
    <3> HIDE DEF D, S, w
    <3>9. a + Len(v) <= Len(s) /\ \A q \in 1..Len(v) : s[a + q] = v[q]
      <4> HIDE DEF v, z
      <4>1. a + Len(v) <= Len(s)
        BY <3>3, <3>4, <3>5, <3>8
      <4>2. \A q \in 1..Len(v) : q \in 1..Len(w) /\ q \in 1..(Len(w) - 1)
        BY <3>3, <3>4
      <4> QED
        BY <3>3, <3>5, <4>1, <4>2
    <3>10. Spells(s, a, z)
      BY <3>9, Zenon DEF Spells
    <3> HIDE DEF z, v, e
    <3>11. Brings(at[e - 1], e, l, out)
      BY <3>6, <3>10
    <3>12. /\ e \in Nat /\ e \in 1..Len(s) /\ e - 1 \in Nat /\ e # Len(s) /\ e + 1 = a + D(k)
           /\ (a + D(k)) - 1 = e /\ e - 1 <= e /\ e <= Len(s)
      <4> DEFINE vl == Len(v)
                 wl == Len(w)
                 sl == Len(s)
                 f == a + D(k)
      <4>1. /\ vl \in Nat /\ 1 <= vl /\ wl = vl + 1 /\ a + wl <= sl /\ sl \in Nat
            /\ e = a + vl /\ f = a + wl
        BY <3>3, <3>4, <3>5, <3>7, <3>8 DEF e
      <4> HIDE DEF vl, wl, sl, f
      <4>2. /\ e \in Nat /\ e \in 1..sl /\ e - 1 \in Nat /\ e # sl /\ e + 1 = f
            /\ f - 1 = e /\ e - 1 <= e /\ e <= sl
        BY <4>1
      <4> QED
        BY <4>2 DEF sl, f
    <3>13. IsFigure(s[e]) /\ s[e] = 48 + LastDigit(z)
      <4>1. Len(v) \in 1..Len(v)
        BY <3>4
      <4> QED
        BY <3>4, <3>9, <4>1 DEF e
    <3> HIDE DEF l
    <3>14. CASE l >= HARDENED
      <4>1. Bad(at[e - 1])
        BY <3>11, <3>14 DEF Brings
      <4>2. Bad(at[e])
        BY <3>8, <3>12, <4>1, StaysBad
      <4>3. z >= HARDENED
        <5> DEFINE o == LastDigit(z)
        <5>1. l \in Nat /\ o \in Nat /\ z = 10 * l + o
          BY <3>2
        <5> HIDE DEF o
        <5> QED
          BY <3>14, <5>1
      <4>4. Brings(at[e], e + 1, z, out)
        BY <4>2, <4>3 DEF Brings
      <4> QED
        BY <3>12, <4>4 DEF z
    <3>15. CASE ~(l >= HARDENED)
      <4>1. IsGoing(at[e - 1], e, l, out)
        BY <3>11, <3>15 DEF Brings
      <4>2. at[e] = ParseStep(s, at[e - 1], e)
        BY <3>12 DEF Run
      <4>3. Tenfold(z, l, s[e])
        <5>1. LastDigit(z) = (48 + LastDigit(z)) - 48
          BY <3>2
        <5> QED
          BY <3>2, <3>13, <5>1 DEF Tenfold
      <4>4. Took(at[e], s, e, z, out)
        BY <3>2, <3>12, <3>13, <4>1, <4>2, <4>3, DigitGoes
      <4>5. Brings(at[e], e + 1, z, out)
        BY <3>12, <4>4, Zenon DEF Brings, Took
      <4> QED
        BY <3>12, <4>5 DEF z
    <3> QED
      BY <3>14, <3>15
  <2> QED
    BY <2>2, <2>3
<1>2. y \in S
  <2> HIDE DEF S
  <2>1. \A k \in Nat : k \in S
    BY <1>1, StrongInduction
  <2> QED
    BY <2>1
<1> QED
  BY <1>2

LEMMA NumberGoes ==
    ASSUME HARDENED \in Nat, 0 < HARDENED, NEW s \in Seq(Nat), NEW at, Run(s, at),
           NEW a \in Nat, NEW out, IsGoing(at[a], a + 1, 0, out),
           NEW y \in Nat, Spells(s, a, y), NEW i, i = a + Len(Digits(y))
    PROVE  Took(at[i], s, i, y, out)
<1> DEFINE l == Shorter(y)
           w == Digits(y)
<1>1. Brings(at[i - 1], i, l, out)
  BY FiguresGo
<1>2. l \in Nat /\ LastDigit(y) \in Nat /\ y = 10 * l + LastDigit(y)
  BY ShorterIs
<1>3. /\ Len(w) \in Nat /\ 1 <= Len(w) /\ \A q \in 1..Len(w) : IsFigure(w[q])
      /\ w[Len(w)] = 48 + LastDigit(y)
  <2>1. /\ w \in Seq(Nat) /\ 1 <= Len(w) /\ \A q \in 1..Len(w) : IsFigure(w[q])
        /\ w[Len(w)] = 48 + LastDigit(y)
    BY DigitsTake
  <2> HIDE DEF w
  <2> QED
    BY <2>1
<1>4. a + Len(w) <= Len(s) /\ \A q \in 1..Len(w) : s[a + q] = w[q]
  BY DEF Spells
<1>5. i = a + Len(w) /\ Len(s) \in Nat
  OBVIOUS
<1> HIDE DEF l, w
<1>6. i \in Nat /\ i - 1 \in Nat /\ i \in 1..Len(s) /\ i - 1 <= i /\ i <= Len(s)
  BY <1>3, <1>4, <1>5
<1>7. IsFigure(s[i]) /\ s[i] = 48 + LastDigit(y)
  <2>1. Len(w) \in 1..Len(w)
    BY <1>3
  <2> QED
    BY <1>3, <1>4, <1>5, <2>1
<1>8. CASE l >= HARDENED
  <2>1. Bad(at[i - 1])
    BY <1>1, <1>8 DEF Brings
  <2>2. Bad(at[i])
    BY <1>5, <1>6, <2>1, StaysBad
  <2>3. y >= HARDENED
    BY <1>2, <1>8
  <2> QED
    BY <2>2, <2>3 DEF Took
<1>9. CASE ~(l >= HARDENED)
  <2>1. IsGoing(at[i - 1], i, l, out)
    BY <1>1, <1>9 DEF Brings
  <2>2. at[i] = ParseStep(s, at[i - 1], i)
    BY <1>6 DEF Run
  <2>3. Tenfold(y, l, s[i])
    <3>1. LastDigit(y) = (48 + LastDigit(y)) - 48
      BY <1>2
    <3> QED
      BY <1>2, <1>7, <3>1 DEF Tenfold
  <2>4. Took(at[i], s, i, y, out)
    BY <1>2, <1>6, <1>7, <2>1, <2>2, <2>3, DigitGoes
  <2> QED
    BY <2>4
<1> QED
  BY <1>8, <1>9

\* An element is its number and whether it is hardened.
LEMMA ElementSame ==
    ASSUME NEW e \in Element
    PROVE  /\ e = [index |-> e.index, hardened |-> e.hardened] /\ e.index \in Nat
           /\ e.hardened = TRUE \/ e.hardened = FALSE
<1>1. e = [index |-> e.index, hardened |-> e.hardened] /\ e.index \in Nat
  BY DEF Element
<1>2. e.hardened \in BOOLEAN
  BY DEF Element
<1>3. e.hardened = TRUE \/ e.hardened = FALSE
  BY <1>2, Zenon
<1> QED
  BY <1>1, <1>3, Zenon

LEMMA QuoteGoes ==
    ASSUME NEW s, NEW i, NEW st, NEW e \in Element, NEW out,
           IsGoing(st, i, e.index, out), s[i] = QUOTE, GoesOn(s, i + 1),
           e.hardened
    PROVE  IsGoing(ParseStep(s, st, i), i + 2, 0, Append(out, e))
<1> DEFINE h == e.hardened
           y == e.index
<1>1. st.next = i /\ st.number = y
  BY GoingIs
<1>2. ParseStep(s, st, i) = Pushed(st, st.number, TRUE, i + 2)
  BY <1>1, StepQuote
<1>3. h = TRUE /\ e = [index |-> y, hardened |-> h]
  BY Zenon, ElementSame
<1>4. ParseStep(s, st, i) = Pushed(st, y, h, i + 2)
  BY <1>1, <1>2, <1>3, Zenon
<1> HIDE DEF h, y
<1>5. Pushed(st, y, h, i + 2) = Going(i + 2, 0, Append(out, [index |-> y, hardened |-> h]))
  <2>1. IsGoing(st, i, y, out)
    BY DEF y
  <2> QED
    BY <2>1, GoingPushed
<1> QED
  BY <1>3, <1>4, <1>5, Zenon DEF IsGoing

LEMMA SlashGoes ==
    ASSUME NEW s, NEW i, NEW st, NEW e \in Element, NEW out,
           IsGoing(st, i, e.index, out), s[i] = SLASH, DigitAt(s, i + 1),
           ~e.hardened
    PROVE  IsGoing(ParseStep(s, st, i), i + 1, 0, Append(out, e))
<1> DEFINE h == e.hardened
           y == e.index
<1>1. st.next = i /\ st.number = y
  BY GoingIs
<1>2. ParseStep(s, st, i) = Pushed(st, st.number, FALSE, i + 1)
  BY <1>1, StepSlash
<1>3. h = FALSE /\ e = [index |-> y, hardened |-> h]
  BY Zenon, ElementSame
<1>4. ParseStep(s, st, i) = Pushed(st, y, h, i + 1)
  BY <1>1, <1>2, <1>3, Zenon
<1> HIDE DEF h, y
<1>5. Pushed(st, y, h, i + 1) = Going(i + 1, 0, Append(out, [index |-> y, hardened |-> h]))
  <2>1. IsGoing(st, i, y, out)
    BY DEF y
  <2> QED
    BY <2>1, GoingPushed
<1> QED
  BY <1>3, <1>4, <1>5, Zenon DEF IsGoing

LEMMA ClosedIs ==
    ASSUME NEW e \in Element, NEW out, ~e.hardened
    PROVE  Closed(out, e.index) = Append(out, e)
<1>1. e.hardened = FALSE /\ e = [index |-> e.index, hardened |-> e.hardened]
  BY Zenon, ElementSame
<1>2. e = [index |-> e.index, hardened |-> FALSE]
  BY <1>1, Zenon
<1> QED
  BY <1>2, Zenon DEF Closed

\* A slash and a figure at least.
LEMMA Room ==
    ASSUME NEW z \in Nat, NEW wl \in Nat, 1 <= wl, NEW sl \in Nat,
           NEW x \in Nat, x <= sl, x = ((z + 1) + wl) + 1 \/ x = (z + 1) + wl
    PROVE  z + 2 <= sl
OBVIOUS

\* What follows an element that is not the last.
LEMMA NextStarts ==
    ASSUME NEW p \in Seq(Element), NEW s, NEW L, LaidOut(s, p, L),
           NEW i \in 1..Len(p), i # Len(p), NEW z, z = L[i]
    PROVE  z \in Nat /\ z + 2 <= Len(s) /\ s[z + 1] = SLASH /\ IsFigure(s[z + 2])
<1> DEFINE j == i + 1
           e == p[j]
           w == Digits(e.index)
<1>1. j \in 1..Len(p) /\ j \in 0..Len(p) /\ i \in 0..Len(p) /\ j - 1 = i
  OBVIOUS
<1>2. e \in Element /\ e.index \in Nat
  <2>1. e \in Element
    BY <1>1
  <2> HIDE DEF e
  <2> QED
    BY <2>1 DEF Element
<1>3. w \in Seq(Nat) /\ 1 <= Len(w) /\ \A q \in 1..Len(w) : IsFigure(w[q])
  BY <1>2, DigitsTake
<1>4. Lies(s, z, e, L[j])
  BY <1>1 DEF LaidOut
<1>5. z \in Nat /\ L[j] \in Nat /\ L[j] <= Len(s)
  BY <1>1 DEF LaidOut
<1>6. /\ s[z + 1] = SLASH
      /\ \A q \in 1..Len(w) : s[(z + 1) + q] = w[q]
      /\ e.hardened => L[j] = ((z + 1) + Len(w)) + 1
      /\ ~e.hardened => L[j] = (z + 1) + Len(w)
  BY <1>4, Zenon DEF Lies
<1>7. Len(s) \in Nat
  BY DEF LaidOut, Textual
<1> HIDE DEF j, e, w
<1>8. 1 \in 1..Len(w) /\ Len(w) \in Nat /\ (z + 1) + 1 = z + 2
  <2>1. Len(w) \in Nat /\ 1 <= Len(w)
    BY <1>3
  <2>2. (z + 1) + 1 = z + 2
    BY <1>5
  <2> QED
    BY <2>1, <2>2
<1>9. IsFigure(s[z + 2])
  <2>1. s[(z + 1) + 1] = w[1] /\ IsFigure(w[1])
    BY <1>3, <1>6, <1>8
  <2> QED
    BY <1>8, <2>1
<1>10. z + 2 <= Len(s)
  <2> DEFINE wl == Len(w)
             sl == Len(s)
             x == L[j]
  <2>1. wl \in Nat /\ 1 <= wl /\ sl \in Nat /\ x \in Nat /\ x <= sl
    BY <1>3, <1>5, <1>7, <1>8
  <2>2. x = ((z + 1) + wl) + 1 \/ x = (z + 1) + wl
    BY <1>6, Zenon
  <2> HIDE DEF wl, sl, x
  <2>3. z \in Nat
    BY <1>5
  <2>4. z + 2 <= sl
    BY <2>1, <2>2, <2>3, Room
  <2> QED
    BY <2>4 DEF sl
<1> QED
  BY <1>5, <1>6, <1>9, <1>10

\* An element that is read: the path goes on with it, or is refused.
Passed(s, p, L, at, i, e, out) ==
    /\ e.index >= HARDENED => Bad(at[Len(s)])
    /\ ~(e.index >= HARDENED) /\ i # Len(p) =>
         IsGoing(at[L[i] + 1], L[i] + 2, 0, Append(out, e))
    /\ ~(e.index >= HARDENED) /\ i = Len(p) =>
         \E next : IsGoing(at[Len(s)], next, 0, Append(out, e))

LEMMA ElementGoes ==
    ASSUME HARDENED \in Nat, 0 < HARDENED,
           NEW p \in Seq(Element), NEW s, NEW L, LaidOut(s, p, L), NEW at, Run(s, at),
           NEW i \in 1..Len(p), NEW e, e = p[i],
           NEW a, a = L[i - 1] + 1, NEW out, IsGoing(at[a], a + 1, 0, out)
    PROVE  Passed(s, p, L, at, i, e, out)
<1> DEFINE y == e.index
           w == Digits(y)
           wl == Len(w)
           c == a + wl
           z == L[i]
           sl == Len(s)
<1>1. e \in Element /\ y \in Nat /\ i - 1 \in 0..Len(p) /\ i \in 0..Len(p)
  <2>1. e \in Element /\ i - 1 \in 0..Len(p) /\ i \in 0..Len(p)
    OBVIOUS
  <2> QED
    BY <2>1 DEF Element
<1>2. L[i - 1] \in Nat /\ z \in Nat /\ z <= sl
  BY <1>1 DEF LaidOut
<1>3. s \in Seq(Nat) /\ sl \in Nat /\ (i = Len(p) => z = sl)
  <2>1. Textual(s) /\ L[Len(p)] = Len(s)
    BY DEF LaidOut
  <2>2. s \in Seq(Nat)
    BY <2>1 DEF Textual
  <2>3. sl \in Nat
    BY <2>2
  <2> QED
    BY <2>1, <2>2, <2>3
<1>4. Lies(s, L[i - 1], e, z)
  BY DEF LaidOut
<1>5. wl \in Nat /\ 1 <= wl
  <2>1. w \in Seq(Nat) /\ 1 <= Len(w)
    BY <1>1, DigitsTake
  <2> QED
    BY <2>1
<1>6. /\ \A q \in 1..Len(w) : s[a + q] = w[q]
      /\ e.hardened => z = c + 1 /\ s[z] = QUOTE
      /\ ~e.hardened => z = c
  BY <1>4, Zenon DEF Lies
<1> HIDE DEF w, z, sl, wl
<1>7. a \in Nat
  <2> DEFINE b == L[i - 1]
  <2>1. b \in Nat /\ a = b + 1
    BY <1>2
  <2> HIDE DEF b
  <2> QED
    BY <2>1
<1>8. c \in Nat /\ 1 <= c
  <2>1. a \in Nat /\ wl \in Nat /\ 1 <= wl
    BY <1>5, <1>7
  <2> QED
    BY <2>1
<1> HIDE DEF c
<1>9. c <= z /\ c <= sl
  <2>1. z = c + 1 \/ z = c
    BY <1>6, Zenon
  <2>2. c <= z
    BY <1>8, <2>1
  <2> QED
    BY <1>2, <1>3, <1>8, <2>2
<1>10. Took(at[c], s, c, y, out)
  <2>1. Spells(s, a, y)
    BY <1>6, <1>9, Zenon DEF Spells, w, wl, sl, c
  <2>2. c = a + Len(Digits(y))
    BY DEF w, wl, c
  <2> HIDE DEF y
  <2> QED
    BY <1>1, <1>3, <1>7, <2>1, <2>2, NumberGoes
<1>11. i # Len(p) => z + 2 <= sl /\ s[z + 1] = SLASH /\ IsFigure(s[z + 2])
  BY NextStarts DEF z, sl
<1> HIDE DEF y
<1>12. CASE y >= HARDENED
  <2>1. Bad(at[c])
    BY <1>10, <1>12 DEF Took
  <2>2. Bad(at[sl])
    <3>1. Len(s) \in Nat /\ sl = Len(s) /\ c <= Len(s) /\ Len(s) <= Len(s)
      BY <1>3, <1>9 DEF sl
    <3>2. Bad(at[Len(s)])
      BY <1>8, <2>1, <3>1, StaysBad
    <3> QED
      BY <3>1, <3>2
  <2> QED
    BY <1>12, <2>2 DEF sl, y, Passed
<1>13. CASE ~(y >= HARDENED) /\ c = sl
  <2>1. i = Len(p) /\ ~e.hardened
    BY <1>2, <1>3, <1>6, <1>8, <1>9, <1>11, <1>13
  <2>2. IsGoing(at[c], c + 1, 0, Closed(out, y))
    BY <1>10, <1>13 DEF Took, sl
  <2>3. Closed(out, y) = Append(out, e)
    BY <1>1, <2>1, ClosedIs DEF y
  <2>4. IsGoing(at[sl], c + 1, 0, Append(out, e))
    BY <1>13, <2>2, <2>3
  <2> QED
    BY <1>13, <2>1, <2>4 DEF y, sl, Passed
<1>14. CASE ~(y >= HARDENED) /\ c # sl
  <2> DEFINE d == c + 1
  <2>1. IsGoing(at[c], d, y, out)
    BY <1>10, <1>14 DEF Took, sl
  <2>2. d \in 1..sl /\ d - 1 = c /\ d \in Nat /\ d + 1 = c + 2 /\ d + 2 = c + 3 /\ d + 1 \in Nat
    BY <1>3, <1>8, <1>9, <1>14
  <2> HIDE DEF d
  <2>3. at[d] = ParseStep(s, at[c], d)
    BY <2>2 DEF Run, sl
  <2>4. CASE e.hardened
    <3>1. z = d /\ s[d] = QUOTE
      BY <1>6, <2>4 DEF d
    <3>2. GoesOn(s, d + 1)
      <4>1. CASE i = Len(p)
        <5>1. ~(d + 1 <= Len(s))
          BY <1>3, <2>2, <3>1, <4>1 DEF sl
        <5> QED
          BY <5>1 DEF GoesOn
      <4>2. CASE i # Len(p)
        <5>1. s[d + 1] = SLASH /\ (d + 1) + 1 <= Len(s) /\ IsDigit(s[(d + 1) + 1])
          <6>1. d + 2 <= Len(s) /\ s[d + 1] = SLASH /\ IsFigure(s[d + 2])
            BY <1>11, <3>1, <4>2 DEF sl
          <6>2. d + 2 = (d + 1) + 1
            BY <2>2
          <6> QED
            BY <6>1, <6>2, FigureIs
        <5> QED
          BY <5>1 DEF GoesOn, DigitAt
      <4> QED
        BY <4>1, <4>2
    <3>3. IsGoing(at[d], d + 2, 0, Append(out, e))
      BY <1>1, <2>1, <2>3, <2>4, <3>1, <3>2, QuoteGoes DEF y
    <3>4. CASE i = Len(p)
      <4>1. IsGoing(at[sl], d + 2, 0, Append(out, e))
        BY <1>3, <3>1, <3>3, <3>4
      <4> QED
        BY <1>14, <3>4, <4>1 DEF y, sl, Passed
    <3>5. CASE i # Len(p)
      <4>1. d + 1 \in 1..Len(s) /\ (d + 1) - 1 = d /\ d + 2 # d + 1
        BY <1>3, <1>11, <2>2, <3>1, <3>5 DEF sl
      <4>2. at[d + 1] = ParseStep(s, at[d], d + 1)
        BY <4>1 DEF Run
      <4>3. at[d].next # d + 1
        BY <3>3, <4>1, GoingIs
      <4>4. at[d + 1] = at[d]
        BY <4>2, <4>3, StepElsewhere
      <4>5. IsGoing(at[z + 1], z + 2, 0, Append(out, e))
        BY <3>1, <3>3, <4>4
      <4> QED
        BY <1>14, <3>5, <4>5 DEF y, z, Passed
    <3> QED
      BY <3>4, <3>5
  <2>5. CASE ~e.hardened
    <3>1. z = c /\ i # Len(p)
      BY <1>3, <1>6, <1>14, <2>5
    <3>2. s[d] = SLASH /\ DigitAt(s, d + 1)
      <4>1. c + 2 <= Len(s) /\ s[c + 1] = SLASH /\ IsFigure(s[c + 2])
        BY <1>11, <3>1 DEF sl
      <4>2. s[d] = SLASH /\ d + 1 <= Len(s) /\ IsFigure(s[d + 1])
        BY <2>2, <4>1 DEF d
      <4> QED
        BY <4>2, FigureIs DEF DigitAt
    <3>3. IsGoing(at[d], d + 1, 0, Append(out, e))
      BY <1>1, <2>1, <2>3, <2>5, <3>2, SlashGoes DEF y
    <3>4. IsGoing(at[z + 1], z + 2, 0, Append(out, e))
      BY <2>2, <3>1, <3>3 DEF d
    <3> QED
      BY <1>14, <3>1, <3>4 DEF y, z, Passed
  <2> QED
    BY <2>4, <2>5
<1> QED
  BY <1>12, <1>13, <1>14

\* The first k elements of p.
Firsts(out, p, k) == out \in Seq(Element) /\ Len(out) = k /\ \A j \in 1..k : out[j] = p[j]

LEMMA OneMore ==
    ASSUME NEW p \in Seq(Element), NEW k \in Nat, k + 1 <= Len(p), NEW out, Firsts(out, p, k),
           NEW e, e = p[k + 1], NEW u, u = Append(out, e)
    PROVE  Firsts(u, p, k + 1)
<1>1. k + 1 \in 1..Len(p) /\ e \in Element
  OBVIOUS
<1>2. out \in Seq(Element) /\ Len(out) = k /\ \A j \in 1..k : out[j] = p[j]
  BY DEF Firsts
<1>3. /\ u \in Seq(Element) /\ Len(u) = k + 1 /\ u[k + 1] = e
      /\ \A j \in 1..k : u[j] = out[j]
  BY <1>1, <1>2
<1>4. ASSUME NEW j \in 1..(k + 1)
      PROVE  u[j] = p[j]
  <2>1. CASE j = k + 1
    BY <1>3, <2>1
  <2>2. CASE j # k + 1
    <3>1. j \in 1..k
      BY <2>2
    <3> QED
      BY <1>2, <1>3, <3>1
  <2> QED
    BY <2>1, <2>2
<1> QED
  BY <1>3, <1>4 DEF Firsts

\* The first slash is passed over with the mark before it.
LEMMA PathStarts ==
    ASSUME NEW p \in Seq(Element), p # <<>>, NEW s, NEW L, LaidOut(s, p, L),
           NEW at, Run(s, at)
    PROVE  IsGoing(at[L[0] + 1], L[0] + 2, 0, <<>>)
<1>1. 1 \in 1..Len(p) /\ 1 - 1 = 0 /\ 1 \in 0..Len(p)
  <2>1. Len(p) \in Nat /\ Len(p) # 0
    OBVIOUS
  <2> QED
    BY <2>1
<1>2. L[0] = 1 /\ s[1] = M /\ Textual(s) /\ Lies(s, L[0], p[1], L[1])
      /\ L[1] \in Nat /\ L[1] <= Len(s)
  BY <1>1 DEF LaidOut
<1>3. 2 <= Len(s) /\ Len(s) \in Nat
  <2> DEFINE e == p[1]
             w == Digits(e.index)
             wl == Len(w)
             x == L[1]
             sl == Len(s)
  <2>1. e \in Element
    BY <1>1
  <2> HIDE DEF e
  <2>2. e.index \in Nat
    BY <2>1 DEF Element
  <2>3. w \in Seq(Nat) /\ 1 <= Len(w)
    BY <2>2, DigitsTake
  <2> HIDE DEF w
  <2>4. wl \in Nat /\ 1 <= wl
    BY <2>3
  <2>5. x = ((1 + 1) + wl) + 1 \/ x = (1 + 1) + wl
    BY <1>2, Zenon DEF Lies, e, w
  <2>6. sl \in Nat /\ x \in Nat /\ x <= sl
    BY <1>2 DEF Textual
  <2> HIDE DEF wl, x, sl
  <2>7. 1 + 2 <= sl
    <3>1. 1 \in Nat
      OBVIOUS
    <3> QED
      BY <2>4, <2>5, <2>6, <3>1, Room
  <2> QED
    BY <2>6, <2>7 DEF sl
<1>4. 1 \in 1..Len(s) /\ 2 \in 1..Len(s) /\ 1 - 1 = 0 /\ 2 - 1 = 1 /\ 1 + 1 = 2 /\ 1 + 2 = 3
  BY <1>3
<1>5. IsGoing(at[0], 1, 0, <<>>)
  BY Zenon DEF Run, IsGoing, Going, Parsing
<1>6. at[1] = ParseStep(s, at[0], 1) /\ at[2] = ParseStep(s, at[1], 2)
  BY <1>4 DEF Run
<1>7. at[0].next = 1
  BY <1>5, GoingIs
<1>8. at[1] = Moved(at[0], 1 + 2)
  BY <1>2, <1>6, <1>7, StepMark
<1>9. IsGoing(at[1], 3, 0, <<>>)
  <2>1. Moved(at[0], 3) = Going(3, 0, <<>>)
    BY <1>5, GoingOn
  <2> QED
    BY <1>4, <1>8, <2>1, Zenon DEF IsGoing
<1>10. at[1].next # 2
  <2>1. at[1].next = 3
    BY <1>9, GoingIs
  <2> QED
    BY <2>1
<1>11. at[2] = at[1]
  BY <1>6, <1>10, StepElsewhere
<1> QED
  BY <1>2, <1>4, <1>9, <1>11

TooLarge(p) == \E j \in DOMAIN p : p[j].index >= HARDENED

LEMMA PathGoes ==
    ASSUME HARDENED \in Nat, 0 < HARDENED,
           NEW p \in Seq(Element), p # <<>>, NEW s, NEW L, LaidOut(s, p, L),
           NEW at, Run(s, at)
    PROVE  \/ TooLarge(p) /\ Bad(at[Len(s)])
           \/ ~TooLarge(p) /\ \E next : IsGoing(at[Len(s)], next, 0, p)
<1> DEFINE N == Len(p)
           Stops == TooLarge(p) /\ Bad(at[Len(s)])
           Begun(k, out) == /\ IsGoing(at[L[k] + 1], L[k] + 2, 0, out) /\ Firsts(out, p, k)
                            /\ \A j \in 1..k : ~(p[j].index >= HARDENED)
           S == {k \in Nat : k + 1 <= N => Stops \/ \E out : Begun(k, out)}
<1>1. N \in Nat /\ N # 0 /\ DOMAIN p = 1..N
  OBVIOUS
<1>2. 0 \in S
  <2>1. IsGoing(at[L[0] + 1], L[0] + 2, 0, <<>>)
    BY PathStarts
  <2>2. Firsts(<<>>, p, 0)
    BY DEF Firsts
  <2>3. \A j \in 1..0 : ~(p[j].index >= HARDENED)
    OBVIOUS
  <2>4. Begun(0, <<>>)
    BY <2>1, <2>2, <2>3
  <2> HIDE DEF Begun
  <2> QED
    BY <2>4
<1>3. ASSUME NEW k \in Nat, k + 1 <= N, NEW out, Begun(k, out), NEW e, e = p[k + 1]
      PROVE  /\ e.index >= HARDENED => Stops
             /\ ~(e.index >= HARDENED) /\ k + 1 # N =>
                  IsGoing(at[L[k + 1] + 1], L[k + 1] + 2, 0, Append(out, e))
             /\ ~(e.index >= HARDENED) /\ k + 1 = N =>
                  \E next : IsGoing(at[Len(s)], next, 0, Append(out, e))
             /\ Firsts(Append(out, e), p, k + 1)
             /\ ~(e.index >= HARDENED) => \A j \in 1..(k + 1) : ~(p[j].index >= HARDENED)
  <2> DEFINE i == k + 1
             a == L[k] + 1
  <2>1. i \in 1..N /\ i - 1 = k /\ k \in 0..N
    BY <1>1, <1>3
  <2>2. IsGoing(at[a], L[k] + 2, 0, out) /\ Firsts(out, p, k)
        /\ \A j \in 1..k : ~(p[j].index >= HARDENED)
    BY <1>3
  <2>3. L[k] \in Nat
    BY <2>1 DEF LaidOut
  <2>4. a + 1 = L[k] + 2
    BY <2>3
  <2>5. e = p[i] /\ e.index >= HARDENED => TooLarge(p)
    BY <1>1, <2>1 DEF TooLarge
  <2>6. Firsts(Append(out, e), p, k + 1)
    BY <1>3, <2>2, OneMore
  <2>7. ~(e.index >= HARDENED) => \A j \in 1..(k + 1) : ~(p[j].index >= HARDENED)
    <3>1. \A j \in 1..(k + 1) : j \in 1..k \/ j = k + 1
      OBVIOUS
    <3> QED
      BY <1>3, <2>2, <3>1
  <2> HIDE DEF i, a
  <2>8. IsGoing(at[a], a + 1, 0, out) /\ a = L[i - 1] + 1 /\ e = p[i] /\ i \in 1..Len(p)
    BY <1>3, <2>1, <2>2, <2>4 DEF a, i
  <2>9. Passed(s, p, L, at, i, e, out)
    BY <2>8, ElementGoes
  <2> QED
    BY <2>5, <2>6, <2>7, <2>8, <2>9, Zenon DEF i, Passed
<1>4. ASSUME NEW k \in Nat, k \in S
      PROVE  k + 1 \in S
  <2>1. SUFFICES ASSUME (k + 1) + 1 <= N
                 PROVE  Stops \/ \E out : Begun(k + 1, out)
    OBVIOUS
  <2>2. k + 1 <= N /\ k + 1 # N
    <3> HIDE DEF N
    <3> QED
      BY <1>1, <2>1
  <2>3. CASE Stops
    BY <2>3
  <2>4. CASE \E out : Begun(k, out)
    <3>1. PICK out : Begun(k, out)
      BY <2>4
    <3> DEFINE e == p[k + 1]
               u == Append(out, e)
    <3> HIDE DEF Begun, Stops, N
    <3>2. /\ e.index >= HARDENED => Stops
          /\ ~(e.index >= HARDENED) =>
               /\ IsGoing(at[L[k + 1] + 1], L[k + 1] + 2, 0, u)
               /\ Firsts(u, p, k + 1)
               /\ \A j \in 1..(k + 1) : ~(p[j].index >= HARDENED)
      BY <1>3, <2>2, <3>1
    <3>3. e.index >= HARDENED \/ Begun(k + 1, u)
      BY <3>2 DEF Begun
    <3> QED
      BY <3>2, <3>3
  <2> QED
    BY <1>4, <2>2, <2>3, <2>4
<1>5. N - 1 \in S
  <2>1. N - 1 \in Nat
    BY <1>1
  <2> HIDE DEF S, N
  <2> QED
    BY <1>2, <1>4, <2>1, SetInduction
<1>6. (N - 1) + 1 = N /\ N - 1 \in Nat /\ N <= N
  BY <1>1
<1>7. CASE Stops
  BY <1>7
<1>8. CASE \E out : Begun(N - 1, out)
  <2>1. PICK out : Begun(N - 1, out)
    BY <1>8
  <2> DEFINE e == p[N]
             u == Append(out, e)
  <2> HIDE DEF Begun, Stops, N
  <2>2. /\ e.index >= HARDENED => Stops
        /\ ~(e.index >= HARDENED) =>
             /\ \E next : IsGoing(at[Len(s)], next, 0, u)
             /\ Firsts(u, p, N)
             /\ \A j \in 1..N : ~(p[j].index >= HARDENED)
    BY <1>3, <1>6, <2>1
  <2>3. CASE e.index >= HARDENED
    BY <2>2, <2>3 DEF Stops
  <2>4. CASE ~(e.index >= HARDENED)
    <3>1. ~TooLarge(p)
      BY <1>1, <2>2, <2>4 DEF TooLarge
    <3>2. u = p
      <4>1. u \in Seq(Element) /\ Len(u) = Len(p) /\ \A j \in 1..Len(p) : u[j] = p[j]
        BY <2>2, <2>4 DEF Firsts, N
      <4> HIDE DEF u
      <4> QED
        BY <4>1, SeqEqual
    <3> QED
      BY <2>2, <2>4, <3>1, <3>2
  <2> QED
    BY <2>3, <2>4
<1> QED
  BY <1>5, <1>6, <1>7, <1>8

\* A path of a key, with whatever the numbers that are not hardened end before.
LEMMA PathRoundTrip ==
    ASSUME NEW p \in KeyPaths, NEW s, s = PathText(p)
    PROVE  RoundTrip("path", p, s) /\ Taken("path", s) \in {p, ERROR}
<1>1. /\ p \in Seq(Element) /\ p # <<>> /\ p # ERROR
      /\ HARDENED \in Nat /\ 0 < HARDENED
  <2>1. p \in KeyPath /\ ERROR \notin KeyPath /\ HARDENED \in Nat /\ HARDENED # 0
    BY EncodingsAssumption DEF EncodingsAssumption
  <2>2. p \in Seq(Element) /\ p # <<>>
    BY <2>1 DEF KeyPath, Element
  <2> QED
    BY <2>1, <2>2
<1>2. PICK L : LaidOut(s, p, L)
  BY <1>1, LayoutIs
<1>3. \A i \in DOMAIN s : s[i] \in Bytes
  <2>1. s \in Seq(Nat) /\ \A q \in 1..Len(s) : IsByte(s[q])
    BY <1>2 DEF LaidOut, Textual
  <2>2. DOMAIN s = 1..Len(s)
    BY <2>1
  <2> QED
    BY <2>1, <2>2, InBytes
<1>4. Len(s) \in Nat
  BY <1>2 DEF LaidOut, Textual
<1>5. PICK at : /\ Run(s, at)
                /\ ParsePath(s) = IF at[Len(s)].ok THEN at[Len(s)].out ELSE ERROR
  BY <1>4, RunIs
<1>6. Taken("path", s) = ParsePath(s) /\ (OutOfReach("path", p) <=> TooLarge(p))
  BY DEF Taken, OutOfReach, TooLarge
<1>7. CASE TooLarge(p) /\ Bad(at[Len(s)])
  <2>1. ParsePath(s) = ERROR
    BY <1>5, <1>7 DEF Bad
  <2> QED
    BY <1>1, <1>3, <1>6, <1>7, <2>1 DEF RoundTrip
<1>8. CASE ~TooLarge(p) /\ \E next : IsGoing(at[Len(s)], next, 0, p)
  <2>1. PICK next : IsGoing(at[Len(s)], next, 0, p)
    BY <1>8
  <2>2. at[Len(s)].ok /\ at[Len(s)].out = p
    BY <2>1, GoingIs
  <2>3. ParsePath(s) = p
    BY <1>5, <2>2
  <2> QED
    BY <1>3, <1>6, <1>8, <2>3 DEF RoundTrip
<1> QED
  BY <1>1, <1>2, <1>5, <1>7, <1>8, PathGoes

\* What e takes from what it has written.
ReadRight(e, x, b) ==
    /\ e # "abi" => \A i \in DOMAIN b : b[i] \in Bytes
    /\ (Taken(e, b) = x) <=> ~OutOfReach(e, x)
    /\ e = "path" => Taken(e, b) \in {x, ERROR}

LEMMA EveryRoundTrip ==
    ASSUME NEW e \in Encodings,
           NEW x, x \in (IF e = "path" THEN KeyPaths ELSE Lengths),
           NEW b \in Written(e, x), b # ERROR
    PROVE  ReadRight(e, x, b)
<1>1. e # "path" => IsLength(x)
  BY OnConstants
<1>2. CASE e = "tlv"
  <2>1. b = TlvLength(x)
    BY <1>2 DEF Written
  <2>2. RoundTrip("tlv", x, b)
    BY <1>1, <1>2, <2>1, TlvRoundTrip
  <2> QED
    BY <1>2, <2>2 DEF RoundTrip, ReadRight
<1>3. CASE e = "apdu"
  <2>1. b = Lc(x)
    BY <1>3 DEF Written
  <2>2. RoundTrip("apdu", x, b)
    BY <1>1, <1>3, <2>1, LcRoundTrip
  <2> QED
    BY <1>3, <2>2 DEF RoundTrip, ReadRight
<1>4. CASE e = "push"
  <2>1. b = PushSize(x)
    BY <1>4 DEF Written
  <2>2. RoundTrip("push", x, b)
    BY <1>1, <1>4, <2>1, PushRoundTrip
  <2> QED
    BY <1>4, <2>2 DEF RoundTrip, ReadRight
<1>5. CASE e = "compact"
  <2>1. b = CompactSize(x)
    BY <1>5 DEF Written
  <2>2. RoundTrip("compact", x, b)
    BY <1>1, <1>5, <2>1, CompactRoundTrip
  <2> QED
    BY <1>5, <2>2 DEF RoundTrip, ReadRight
<1>6. CASE e = "rlp"
  <2>1. b = RLPHeader(x)
    BY <1>6 DEF Written
  <2>2. RoundTrip("rlp", x, b)
    BY <1>1, <1>6, <2>1, RLPRoundTrip
  <2> QED
    BY <1>6, <2>2 DEF RoundTrip, ReadRight
<1>7. CASE e = "signatures"
  <2>1. b = SignatureLengths(x)
    BY <1>7 DEF Written
  <2>2. RoundTrip("signatures", x, b)
    BY <1>1, <1>7, <2>1, SignaturesRoundTrip
  <2> QED
    BY <1>7, <2>2 DEF RoundTrip, ReadRight
<1>8. CASE e = "abi"
  <2>1. b \in AbiBytes(x)
    BY <1>8 DEF Written
  <2>2. (Taken("abi", b) = x) <=> ~OutOfReach("abi", x)
    BY <1>1, <1>8, <2>1, AbiRoundTrip
  <2> QED
    BY <1>8, <2>2 DEF ReadRight
<1>9. CASE e = "path"
  <2>1. b = PathText(x) /\ x \in KeyPaths
    BY <1>9 DEF Written
  <2>2. RoundTrip("path", x, b) /\ Taken("path", b) \in {x, ERROR}
    BY <2>1, PathRoundTrip
  <2> QED
    BY <1>9, <2>2 DEF RoundTrip, ReadRight
<1> QED
  BY <1>2, <1>3, <1>4, <1>5, <1>6, <1>7, <1>8, <1>9 DEF Encodings

\* What is in the three variables is what was to be written, what was written
\* for it, and what was taken from that.
WritesAndReads ==
    /\ enc \in Encodings
    /\ value \in (IF enc = "path" THEN KeyPaths ELSE Lengths)
    /\ header # NONE => header \in Written(enc, value)
    /\ read # NONE => header \notin {NONE, ERROR} /\ read = Taken(enc, header)

\* Whatever is written is read back as what was written, in bytes, exactly if
\* it is not out of reach for its encoding: for every length below 2^31, every
\* length of a signature, every path, and wherever hardened numbers begin.
THEOREM WrittenIsRead == CodecSpec => []ReadsBack
<1>1. CodecInit => WritesAndReads
  BY DEF CodecInit, WritesAndReads
<1>2. WritesAndReads /\ [CodecNext]_codecVars => WritesAndReads'
  <2>1. SUFFICES ASSUME WritesAndReads, [CodecNext]_codecVars
                 PROVE  WritesAndReads'
    OBVIOUS
  <2>2. CASE Write
    <3>1. enc' = enc /\ value' = value /\ read' = read
      BY <2>2 DEF Write
    <3>2. header = NONE /\ header' \in Written(enc, value)
      BY <2>2 DEF Write
    <3>3. read = NONE
      BY <2>1, <3>2 DEF WritesAndReads
    <3> QED
      BY <2>1, <3>1, <3>2, <3>3 DEF WritesAndReads
  <2>3. CASE Read
    <3>1. enc' = enc /\ value' = value /\ header' = header
      BY <2>3 DEF Read
    <3>2. header \notin {NONE, ERROR} /\ read' = Taken(enc, header)
      BY <2>3 DEF Read
    <3> QED
      BY <2>1, <3>1, <3>2 DEF WritesAndReads
  <2>4. CASE UNCHANGED codecVars
    <3>1. enc' = enc /\ value' = value /\ header' = header /\ read' = read
      BY <2>4 DEF codecVars
    <3> QED
      BY <2>1, <3>1 DEF WritesAndReads
  <2> QED
    BY <2>1, <2>2, <2>3, <2>4 DEF CodecNext
<1>3. WritesAndReads => ReadsBack
  <2>1. SUFFICES ASSUME WritesAndReads, read # NONE
                 PROVE  ReadsBack
    BY DEF ReadsBack
  <2>2. /\ enc \in Encodings
        /\ value \in (IF enc = "path" THEN KeyPaths ELSE Lengths)
        /\ header \in Written(enc, value) /\ header # ERROR
        /\ read = Taken(enc, header)
    BY <2>1 DEF WritesAndReads
  <2>3. ReadRight(enc, value, header)
    BY <2>2, EveryRoundTrip
  <2> QED
    BY <2>2, <2>3, Zenon DEF ReadRight, ReadsBack
<1> QED
  BY <1>1, <1>2, <1>3, PTL DEF CodecSpec
=============================================================================
