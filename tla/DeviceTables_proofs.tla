------------------------- MODULE DeviceTables_proofs -------------------------
(***************************************************************************)
(* Proofs about DeviceTables, for every set of devices and ports and every *)
(* range of IDs: its types, that a listing is complete and takes nothing   *)
(* from a device that stays, and when a command reaches another device     *)
(* than the one its ID was given out for.                                  *)
(*                                                                         *)
(* A listing is a fold over the paths in an order, so what it leaves in    *)
(* the tables is proved path by path (Listed), by induction over the       *)
(* numbers up to the count of paths.                                       *)
(***************************************************************************)
EXTENDS DeviceTables, FiniteSetTheorems, WellFoundedInduction, TLAPS

-----------------------------------------------------------------------------
(* What a listing adds *)

\* Induction over the natural numbers, for a set.
LEMMA SetInduction ==
    ASSUME NEW S, 0 \in S, \A n \in Nat : n \in S => n + 1 \in S
    PROVE  \A n \in Nat : n \in S
<1> DEFINE Less == {ss \in Nat \X Nat : ss[1] < ss[2]}
           T == {n \in Nat : n \notin S}
<1>1. SUFFICES ASSUME T # {}
               PROVE  FALSE
  OBVIOUS
<1>2. PICK x \in T : \A y \in T : <<y, x>> \notin Less
  <2>1. IsWellFoundedOn(Less, Nat)
    BY NatLessThanWellFounded DEF OpToRel
  <2>2. T \subseteq Nat
    OBVIOUS
  <2> HIDE DEF Less, T
  <2> QED
    BY <1>1, <2>1, <2>2, WFMin
<1>3. x - 1 \in T /\ x - 1 < x
  BY <1>2
<1> QED
  BY <1>2, <1>3

\* The greatest of some numbers up to k + 1.
LEMMA MaxIs ==
    ASSUME NEW k \in Nat, NEW s \in SUBSET (1..(k + 1)), s # {}
    PROVE  /\ Max(s) \in s
           /\ k + 1 \in s => Max(s) = k + 1
           /\ k + 1 \notin s => s \in SUBSET (1..k)
<1> DEFINE S == {j \in Nat : \A r \in SUBSET (1..j) :
                                r # {} => \E x \in r : \A y \in r : x >= y}
<1>1. \A j \in Nat : j \in S
  <2>1. 0 \in S
    <3>1. 1..0 = {}
      OBVIOUS
    <3>2. \A r \in SUBSET (1..0) : r = {}
      BY <3>1
    <3> QED
      BY <3>2
  <2>2. ASSUME NEW j \in Nat, j \in S
        PROVE  j + 1 \in S
    <3>1. SUFFICES ASSUME NEW r \in SUBSET (1..(j + 1)), r # {}
                   PROVE  \E x \in r : \A y \in r : x >= y
      OBVIOUS
    <3>2. CASE j + 1 \in r
      BY <3>2
    <3>3. CASE j + 1 \notin r
      <4>1. r \in SUBSET (1..j)
        BY <3>3
      <4> QED
        BY <2>2, <3>1, <4>1
    <3> QED
      BY <3>2, <3>3
  <2> HIDE DEF S
  <2> QED
    BY <2>1, <2>2, SetInduction
<1>2. \E x \in s : \A y \in s : x >= y
  <2>1. k + 1 \in Nat
    OBVIOUS
  <2>2. k + 1 \in S
    <3> HIDE DEF S
    <3> QED
      BY <1>1, <2>1
  <2> QED
    BY <2>2
<1>3. Max(s) \in s /\ \A y \in s : Max(s) >= y
  BY <1>2 DEF Max
<1>4. k + 1 \in s => Max(s) = k + 1
  <2>1. Max(s) \in 1..(k + 1)
    BY <1>3
  <2>2. k + 1 \in s => Max(s) >= k + 1
    BY <1>3
  <2> QED
    BY <2>1, <2>2
<1> QED
  BY <1>3, <1>4

\* The tables B after the paths of o are added.
Added(B, o) == FoldLeft(LAMBDA acc, p : AddOne(acc, Token(p), attached[p].dev), B, o)

\* They are added one by one.
LEMMA AddedOneByOne ==
    ASSUME NEW n \in Nat, NEW o, DOMAIN o = 1..n, NEW B
    PROVE  \E g : /\ g[0] = B
                  /\ \A k \in 0..(n - 1) :
                        g[k + 1] = AddOne(g[k], Token(o[k + 1]), attached[o[k + 1]].dev)
                  /\ g[n] = Added(B, o)
<1> DEFINE At(acc, p) == AddOne(acc, Token(p), attached[p].dev)
           Body(h, s) == IF s = {} THEN B ELSE At(h[s \ {Max(s)}], o[Max(s)])
           Is(h, k) == h = [s \in SUBSET (1..k) |-> Body(h, s)]
           f == CHOOSE h : Is(h, n)
           K == {k \in Nat : \E h : Is(h, k)}
<1>1. Added(B, o) = f[1..n]
  BY DEF Added, FoldLeft, MapThenFoldSet
<1> HIDE DEF At
<1>2. 0 \in K
  <2> DEFINE h == [s \in SUBSET (1..0) |-> B]
  <2>1. \A s \in SUBSET (1..0) : s = {}
    OBVIOUS
  <2>2. \A s \in SUBSET (1..0) : Body(h, s) = B
    BY <2>1
  <2>3. Is(h, 0)
    BY <2>2
  <2> QED
    BY <2>3
<1>3. ASSUME NEW k \in Nat, k \in K
      PROVE  k + 1 \in K
  <2>1. PICK h : Is(h, k)
    BY <1>3
  <2> DEFINE e == [s \in SUBSET (1..(k + 1)) |->
                      IF s = {} THEN B
                      ELSE IF k + 1 \in s THEN At(h[s \ {k + 1}], o[k + 1])
                      ELSE h[s]]
  <2>2. \A s \in SUBSET (1..k) : h[s] = Body(h, s)
    BY <2>1
  <2>3. \A s \in SUBSET (1..k) : e[s] = h[s]
    <3>1. SUFFICES ASSUME NEW s \in SUBSET (1..k)
                   PROVE  e[s] = h[s]
      OBVIOUS
    <3>2. s \in SUBSET (1..(k + 1)) /\ k + 1 \notin s
      OBVIOUS
    <3>3. s = {} => h[s] = B
      BY <2>2
    <3> QED
      BY <3>2, <3>3
  <2>4. ASSUME NEW s \in SUBSET (1..(k + 1))
        PROVE  e[s] = Body(e, s)
    <3>1. CASE s = {}
      BY <3>1
    <3>2. CASE s # {} /\ k + 1 \in s
      <4>1. Max(s) = k + 1
        BY <3>2, MaxIs
      <4>2. s \ {k + 1} \in SUBSET (1..k)
        OBVIOUS
      <4>3. e[s \ {k + 1}] = h[s \ {k + 1}]
        BY <2>3, <4>2
      <4>4. e[s] = At(h[s \ {k + 1}], o[k + 1])
        BY <3>2
      <4> HIDE DEF e
      <4> QED
        BY <3>2, <4>1, <4>3, <4>4
    <3>3. CASE s # {} /\ k + 1 \notin s
      <4>1. s \in SUBSET (1..k) /\ s \ {Max(s)} \in SUBSET (1..k)
        BY <3>3, MaxIs
      <4>2. e[s] = h[s] /\ e[s \ {Max(s)}] = h[s \ {Max(s)}] /\ h[s] = Body(h, s)
        BY <2>2, <2>3, <4>1
      <4> HIDE DEF e
      <4> QED
        BY <3>3, <4>2
    <3> QED
      BY <3>1, <3>2, <3>3
  <2>5. Is(e, k + 1)
    <3> DEFINE e2 == [s \in SUBSET (1..(k + 1)) |-> Body(e, s)]
    <3>1. \A s \in SUBSET (1..(k + 1)) : e[s] = e2[s]
      BY <2>4
    <3>2. e = [s \in SUBSET (1..(k + 1)) |-> e[s]]
      OBVIOUS
    <3>3. e2 = [s \in SUBSET (1..(k + 1)) |-> e2[s]]
      OBVIOUS
    <3> HIDE DEF e, e2
    <3>4. e = e2
      BY <3>1, <3>2, <3>3
    <3> QED
      BY <3>4 DEF e2
  <2>6. k + 1 \in Nat /\ \E d : Is(d, k + 1)
    <3> HIDE DEF e, Is
    <3> QED
      BY <2>5
  <2> QED
    BY <2>6
<1>4. n \in K
  <2> HIDE DEF K
  <2> QED
    BY <1>2, <1>3, SetInduction
<1>5. Is(f, n)
  BY <1>4
<1> HIDE DEF f
<1>6. \A s \in SUBSET (1..n) : f[s] = Body(f, s)
  BY <1>5
<1> DEFINE g == [k \in 0..n |-> f[1..k]]
<1>7. g[0] = B
  <2>1. 1..0 = {} /\ 1..0 \in SUBSET (1..n) /\ 0 \in 0..n
    OBVIOUS
  <2>2. f[1..0] = B
    BY <1>6, <2>1
  <2> QED
    BY <2>1, <2>2
<1>8. ASSUME NEW k \in 0..(n - 1)
      PROVE  g[k + 1] = At(g[k], o[k + 1])
  <2>1. /\ k \in Nat /\ k + 1 \in 0..n /\ k \in 0..n /\ k + 1 \in 1..(k + 1)
        /\ 1..(k + 1) \in SUBSET (1..n)
        /\ (1..(k + 1)) \ {k + 1} = 1..k
    OBVIOUS
  <2>2. Max(1..(k + 1)) = k + 1
    <3> DEFINE s == 1..(k + 1)
    <3>1. s \in SUBSET (1..(k + 1)) /\ s # {} /\ k + 1 \in s
      BY <2>1
    <3> HIDE DEF s
    <3>2. Max(s) = k + 1
      BY <2>1, <3>1, MaxIs
    <3> QED
      BY <3>2 DEF s
  <2>3. f[1..(k + 1)] = At(f[1..k], o[k + 1])
    BY <1>6, <2>1, <2>2
  <2> QED
    BY <2>1, <2>3
<1>9. g[n] = f[1..n]
  OBVIOUS
<1> HIDE DEF g
<1> QED
  BY <1>1, <1>7, <1>8, <1>9 DEF At

-----------------------------------------------------------------------------
(* xManager *)

\* The tables of s have entries of E.
Typed(s, E) ==
    /\ s.nextID \in 0..MaxID
    /\ s.table \in [IDs -> E \cup {NULL}]
    /\ s.given \in [IDs -> Devices \cup {NULL}]
    /\ s.wrapped \in BOOLEAN

\* As long as the IDs have not started again, the ones after _ID are free.
FreeAfter(s) ==
    ~s.wrapped => \A j \in IDs : j > s.nextID => s.table[j] = NULL /\ s.given[j] = NULL

\* t is s with the entry e of the device d under the ID i, unless the ID is taken.
IsAdded(t, s, i, e, d) ==
    /\ i \in IDs
    /\ t.nextID = i
    /\ \A j \in IDs \ {i} : t.table[j] = s.table[j] /\ t.given[j] = s.given[j]
    /\ s.table[i] # NULL => t.table[i] = s.table[i]
    /\ s.table[i] = NULL => t.table[i] = e
    /\ s.given[i] # NULL => t.given[i] = s.given[i]
    /\ s.given[i] = NULL => t.given[i] = d
    /\ ~t.wrapped => ~s.wrapped /\ s.nextID < i /\ s.table[i] = NULL /\ s.given[i] = NULL

\* What map::insert and the counter of xManager do.
LEMMA AddOneIs ==
    ASSUME NEW s, NEW E, NEW e \in E, NEW d \in Devices,
           Typed(s, E), FreeAfter(s)
    PROVE  LET t == AddOne(s, e, d)
           IN  /\ Typed(t, E)
               /\ FreeAfter(t)
               /\ IsAdded(t, s, NextID(s.nextID), e, d)
<1> DEFINE i == NextID(s.nextID)
           t == AddOne(s, e, d)
<1>1. /\ t.nextID = i
      /\ t.table = IF s.table[i] = NULL THEN [s.table EXCEPT ![i] = e] ELSE s.table
      /\ t.given = IF s.given[i] = NULL THEN [s.given EXCEPT ![i] = d] ELSE s.given
      /\ t.wrapped = (s.wrapped \/ i <= s.nextID)
  BY DEF AddOne
<1>2. s.nextID \in 0..MaxID /\ MaxID \in Nat \ {0}
  BY TablesAssumption DEF Typed
<1>3. i \in IDs
  BY <1>2 DEF NextID, IDs
<1>4. i > s.nextID => i = s.nextID + 1
  BY <1>2 DEF NextID
<1> HIDE DEF i, t
<1>5. Typed(t, E)
  <2>1. t.table \in [IDs -> E \cup {NULL}]
    BY <1>1, <1>3 DEF Typed
  <2>2. t.given \in [IDs -> Devices \cup {NULL}]
    BY <1>1, <1>3 DEF Typed
  <2>3. t.wrapped \in BOOLEAN
    BY <1>1 DEF Typed
  <2>4. t.nextID \in 0..MaxID
    BY <1>1, <1>3 DEF IDs
  <2> QED
    BY <2>1, <2>2, <2>3, <2>4 DEF Typed
<1>6. ~t.wrapped => ~s.wrapped /\ i > s.nextID
  <2>1. ~t.wrapped => ~s.wrapped /\ ~(i <= s.nextID)
    BY <1>1
  <2>2. ~(i <= s.nextID) => i > s.nextID
    BY <1>2, <1>3 DEF IDs
  <2> QED
    BY <2>1, <2>2
<1>7. IsAdded(t, s, i, e, d)
  <2>1. s.table \in [IDs -> E \cup {NULL}] /\ s.given \in [IDs -> Devices \cup {NULL}]
    BY DEF Typed
  <2>2. \A j \in IDs \ {i} : t.table[j] = s.table[j] /\ t.given[j] = s.given[j]
    BY <1>1, <1>3, <2>1
  <2>3. /\ s.table[i] # NULL => t.table[i] = s.table[i]
        /\ s.table[i] = NULL => t.table[i] = e
        /\ s.given[i] # NULL => t.given[i] = s.given[i]
        /\ s.given[i] = NULL => t.given[i] = d
    BY <1>1, <1>3, <2>1
  <2>4. ~t.wrapped => ~s.wrapped /\ s.table[i] = NULL /\ s.given[i] = NULL
    BY <1>3, <1>6 DEF FreeAfter
  <2>5. ~t.wrapped => s.nextID < i
    BY <1>2, <1>3, <1>6 DEF IDs
  <2> QED
    BY <1>1, <1>3, <2>2, <2>3, <2>4, <2>5 DEF IsAdded
<1>8. FreeAfter(t)
  <2>1. SUFFICES ASSUME ~t.wrapped, NEW j \in IDs, j > i
                 PROVE  t.table[j] = NULL /\ t.given[j] = NULL
    BY <1>1 DEF FreeAfter
  <2>2. j \in IDs \ {i} /\ j > s.nextID
    BY <1>2, <1>3, <1>4, <1>6, <2>1 DEF IDs
  <2>3. s.table[j] = NULL /\ s.given[j] = NULL
    BY <1>6, <2>1, <2>2 DEF FreeAfter
  <2> QED
    BY <1>7, <2>2, <2>3 DEF IsAdded
<1> QED
  BY <1>5, <1>7, <1>8 DEF t, i

-----------------------------------------------------------------------------
(* The inductive invariant *)

\* An entry of the tables.
Entries == [path : IF build = "HID" THEN Paths ELSE Devices, plug : 0..MaxPlugs]

\* As long as the IDs have not started again, the ones after _ID are free.
Dated == FreeAfter(Manager)

\* HID: no two tokens have one path.
Distinct ==
    build = "HID" =>
        \A i, j \in IDs :
            table[i] # NULL /\ table[j] # NULL /\ table[i].path = table[j].path => i = j

\* HID: the device of a token is at its path, unless a listing has missed that
\* it was gone; the IDs of which that is true are of tokens.
Seen ==
    build = "HID" =>
        /\ \A i \in unseen : table[i] # NULL
        /\ \A i \in IDs \ unseen :
            table[i] # NULL => /\ table[i].path \in Plugged
                               /\ ~wrapped => attached[table[i].path].dev = given[i]

\* Bluetooth: _handle is of the last connection, and each ID is of its own.
Connected ==
    build = "BLE" =>
        /\ handle \in {0, Len(plugs)}
        /\ \A i \in IDs :
            table[i] # NULL => /\ table[i].plug \in 1..Len(plugs)
                               /\ ~wrapped => plugs[table[i].plug] = given[i]

\* The inductive invariant.
Inv ==
    /\ TypeOK
    /\ build \in {"HID", "BLE"}
    /\ Dated
    /\ Distinct
    /\ Seen
    /\ Connected

-----------------------------------------------------------------------------
(* The listing *)

\* The tables s of a listing after the paths of o up to k, where kept are the
\* tokens it has kept.
Listed(s, kept, o, k) ==
    /\ Typed(s, Entries)
    /\ FreeAfter(s)
    /\ \A j \in IDs : kept[j] # NULL => s.table[j] = kept[j]
    /\ \A j \in IDs : kept[j] = NULL /\ s.table[j] # NULL =>
            /\ \E m \in 1..k : s.table[j].path = o[m]
            /\ ~s.wrapped => s.given[j] = attached[s.table[j].path].dev
    /\ \A i, j \in IDs :
            s.table[i] # NULL /\ s.table[j] # NULL /\ s.table[i].path = s.table[j].path
                => i = j
    /\ \A j \in IDs : given[j] # NULL => s.given[j] = given[j]
    /\ ~s.wrapped =>
        /\ ~wrapped
        /\ \A m \in 1..k : \E j \in IDs : s.table[j] # NULL /\ s.table[j].path = o[m]
        /\ nextID <= s.nextID
        /\ \A j \in IDs : kept[j] = NULL /\ s.table[j] # NULL => nextID < j

\* The orders of finitely many paths name each of them once.
LEMMA OrderIsInjective ==
    ASSUME NEW P, IsFiniteSet(P), NEW o \in Orders(P)
    PROVE  /\ Cardinality(P) \in Nat
           /\ DOMAIN o = 1..Cardinality(P)
           /\ \A p \in P : \E m \in DOMAIN o : o[m] = p
           /\ \A m \in DOMAIN o : o[m] \in P
           /\ \A l, m \in DOMAIN o : o[l] = o[m] => l = m
<1> DEFINE n == Cardinality(P)
<1>1. n \in Nat
  BY FS_CardinalityType
<1>2. o \in [1..n -> P] /\ ToSet(o) = P
  BY DEF Orders
<1>3. \A p \in P : \E m \in DOMAIN o : o[m] = p
  BY <1>2 DEF ToSet
<1>4. o \in Surjection(1..n, P)
  BY <1>2, <1>3 DEF Surjection
<1>5. IsFiniteSet(1..n) /\ Cardinality(1..n) = n
  <2>1. 0 \in Int /\ n \in Int /\ 1 \in Int
    BY <1>1
  <2>2. /\ IsFiniteSet(1..n)
        /\ Cardinality(1..n) = IF 1 > n THEN 0 ELSE n - 1 + 1
    BY <2>1, FS_Interval
  <2>3. (IF 1 > n THEN 0 ELSE n - 1 + 1) = n
    BY <1>1
  <2> QED
    BY <2>2, <2>3
<1>6. o \in Injection(1..n, P)
  BY <1>4, <1>5, FS_Surjection
<1>7. \A l, m \in 1..n : o[l] = o[m] => l = m
  BY <1>6 DEF Injection, IsInjective
<1> QED
  BY <1>1, <1>2, <1>3, <1>7

\* Adding the next path keeps the tables of the listing in order.
LEMMA ListedStep ==
    ASSUME Inv, build = "HID",
           NEW kept, kept = RemoveUnplugged(table),
           NEW P, P = {p \in Plugged : ~IsInManager(p, kept)},
           NEW n \in Nat, NEW o, DOMAIN o = 1..n,
           \A m \in 1..n : o[m] \in P,
           \A l, m \in 1..n : o[l] = o[m] => l = m,
           NEW k \in 0..(n - 1), NEW s, Listed(s, kept, o, k)
    PROVE  Listed(AddOne(s, Token(o[k + 1]), attached[o[k + 1]].dev), kept, o, k + 1)
<1> DEFINE p == o[k + 1]
           e == Token(p)
           d == attached[p].dev
           i == NextID(s.nextID)
           t == AddOne(s, e, d)
<1>1. k + 1 \in 1..n /\ k + 1 \in 1..(k + 1) /\ 1..k \subseteq 1..n /\ k + 1 \notin 1..k
      /\ 1..(k + 1) = (1..k) \cup {k + 1}
  OBVIOUS
<1>2. p \in Plugged /\ ~IsInManager(p, kept)
  BY <1>1
<1>3. p \in Paths /\ d \in Devices
  BY <1>2 DEF Inv, TypeOK, Plugged
<1>4. e \in Entries /\ e.path = p /\ e # NULL
  BY <1>3, TablesAssumption DEF Token, Entries
<1>5. Typed(s, Entries) /\ FreeAfter(s)
  BY DEF Listed
<1> HIDE DEF p, e, d, i, t
<1>6. Typed(t, Entries) /\ FreeAfter(t) /\ IsAdded(t, s, i, e, d)
  BY <1>3, <1>4, <1>5, AddOneIs DEF t, i
<1>7. /\ i \in IDs
      /\ \A j \in IDs \ {i} : t.table[j] = s.table[j] /\ t.given[j] = s.given[j]
      /\ s.table[i] # NULL => t.table[i] = s.table[i]
      /\ s.table[i] = NULL => t.table[i] = e
      /\ s.given[i] # NULL => t.given[i] = s.given[i]
      /\ s.given[i] = NULL => t.given[i] = d
      /\ ~t.wrapped => ~s.wrapped /\ s.nextID < i /\ s.table[i] = NULL /\ s.given[i] = NULL
      /\ t.nextID = i
  BY <1>6 DEF IsAdded
<1>8. \A j \in IDs : s.table[j] # NULL => t.table[j] = s.table[j] /\ s.table[j].path # p
  <2>1. SUFFICES ASSUME NEW j \in IDs, s.table[j] # NULL
                 PROVE  t.table[j] = s.table[j] /\ s.table[j].path # p
    OBVIOUS
  <2>2. t.table[j] = s.table[j]
    BY <1>7, <2>1
  <2>3. CASE kept[j] # NULL
    <3>1. s.table[j] = kept[j]
      BY <2>3 DEF Listed
    <3>2. kept[j].path # p
      BY <1>2, <2>3 DEF IsInManager
    <3> QED
      BY <2>2, <3>1, <3>2
  <2>4. CASE kept[j] = NULL
    <3>1. PICK m \in 1..k : s.table[j].path = o[m]
      BY <2>1, <2>4 DEF Listed
    <3>2. o[m] # p
      BY <1>1, <3>1 DEF p
    <3> QED
      BY <2>2, <3>1, <3>2
  <2> QED
    BY <2>3, <2>4
<1>9. \A j \in IDs : s.table[j] = NULL /\ t.table[j] # NULL => j = i /\ t.table[j] = e
  BY <1>7
<1>10. \A j \in IDs : kept[j] # NULL => t.table[j] = kept[j]
  BY <1>8 DEF Listed
<1>11. \A j \in IDs : kept[j] = NULL /\ t.table[j] # NULL =>
            /\ \E m \in 1..(k + 1) : t.table[j].path = o[m]
            /\ ~t.wrapped => t.given[j] = attached[t.table[j].path].dev
  <2>1. SUFFICES ASSUME NEW j \in IDs, kept[j] = NULL, t.table[j] # NULL
                 PROVE  /\ \E m \in 1..(k + 1) : t.table[j].path = o[m]
                        /\ ~t.wrapped => t.given[j] = attached[t.table[j].path].dev
    OBVIOUS
  <2>2. CASE s.table[j] # NULL
    <3>1. t.table[j] = s.table[j]
      BY <1>8, <2>2
    <3>2. /\ \E m \in 1..k : s.table[j].path = o[m]
          /\ ~s.wrapped => s.given[j] = attached[s.table[j].path].dev
      BY <2>1, <2>2 DEF Listed
    <3>3. ~t.wrapped => j # i /\ ~s.wrapped
      BY <1>7, <2>2
    <3>4. ~t.wrapped => t.given[j] = s.given[j]
      BY <1>7, <3>3
    <3> QED
      BY <1>1, <3>1, <3>2, <3>3, <3>4
  <2>3. CASE s.table[j] = NULL
    <3>1. j = i /\ t.table[j].path = p
      BY <1>4, <1>9, <2>1, <2>3
    <3>2. ~t.wrapped => t.given[j] = d
      BY <1>7, <3>1
    <3> QED
      BY <1>1, <3>1, <3>2 DEF p, d
  <2> QED
    BY <2>2, <2>3
<1>12. \A h, j \in IDs :
            t.table[h] # NULL /\ t.table[j] # NULL /\ t.table[h].path = t.table[j].path
                => h = j
  <2>1. SUFFICES ASSUME NEW h \in IDs, NEW j \in IDs, t.table[h] # NULL, t.table[j] # NULL,
                        t.table[h].path = t.table[j].path
                 PROVE  h = j
    OBVIOUS
  <2>2. CASE s.table[h] # NULL /\ s.table[j] # NULL
    BY <1>8, <2>1, <2>2 DEF Listed
  <2>3. CASE s.table[h] = NULL \/ s.table[j] = NULL
    BY <1>4, <1>8, <1>9, <2>1, <2>3
  <2> QED
    BY <2>2, <2>3
<1>13. \A j \in IDs : given[j] # NULL => t.given[j] = given[j]
  <2>1. \A j \in IDs : given[j] # NULL => s.given[j] = given[j]
    BY DEF Listed
  <2> QED
    BY <1>7, <2>1
<1>14. ASSUME ~t.wrapped
       PROVE  /\ ~wrapped
              /\ \A m \in 1..(k + 1) :
                    \E j \in IDs : t.table[j] # NULL /\ t.table[j].path = o[m]
              /\ nextID <= t.nextID
              /\ \A j \in IDs : kept[j] = NULL /\ t.table[j] # NULL => nextID < j
  <2>1. ~s.wrapped /\ t.table[i] = e
    BY <1>7, <1>14
  <2>2. ~wrapped /\ \A m \in 1..k : \E j \in IDs : s.table[j] # NULL /\ s.table[j].path = o[m]
    BY <2>1 DEF Listed
  <2>3. \A m \in 1..k : \E j \in IDs : t.table[j] # NULL /\ t.table[j].path = o[m]
    BY <1>8, <2>2
  <2>4. \E j \in IDs : t.table[j] # NULL /\ t.table[j].path = o[k + 1]
    BY <1>4, <1>7, <2>1 DEF p
  <2>5. nextID \in Nat /\ s.nextID \in Nat /\ i \in Nat /\ nextID <= s.nextID /\ s.nextID < i
    <3>1. nextID \in 0..MaxID /\ s.nextID \in 0..MaxID /\ MaxID \in Nat
      BY <1>5, TablesAssumption DEF Inv, TypeOK, Typed
    <3>2. nextID <= s.nextID /\ s.nextID < i
      BY <1>7, <1>14, <2>1 DEF Listed
    <3> QED
      BY <1>7, <3>1, <3>2 DEF IDs
  <2>6. nextID <= t.nextID /\ nextID < i
    BY <1>7, <2>5
  <2>7. \A j \in IDs : kept[j] = NULL /\ t.table[j] # NULL => nextID < j
    <3>1. \A j \in IDs : kept[j] = NULL /\ s.table[j] # NULL => nextID < j
      BY <2>1 DEF Listed
    <3> QED
      BY <1>9, <2>6, <3>1
  <2> QED
    BY <1>1, <2>2, <2>3, <2>4, <2>6, <2>7
<1>15. Listed(t, kept, o, k + 1)
  BY <1>6, <1>10, <1>11, <1>12, <1>13, <1>14 DEF Listed
<1> QED
  BY <1>15 DEF t, e, d, p

\* Before it adds any token, a listing has dropped the ones whose path is gone.
LEMMA ListedFirst ==
    ASSUME Inv, build = "HID", NEW o
    PROVE  Listed([Manager EXCEPT !.table = RemoveUnplugged(table)],
                  RemoveUnplugged(table), o, 0)
<1> DEFINE kept == RemoveUnplugged(table)
           s == [Manager EXCEPT !.table = kept]
<1>1. s.nextID = nextID /\ s.table = kept /\ s.given = given /\ s.wrapped = wrapped
  BY DEF Manager
<1>2. /\ nextID \in 0..MaxID
      /\ table \in [IDs -> Entries \cup {NULL}]
      /\ given \in [IDs -> Devices \cup {NULL}]
      /\ wrapped \in BOOLEAN
  BY DEF Inv, TypeOK, Entries
<1>3. kept \in [IDs -> Entries \cup {NULL}]
  BY <1>2 DEF RemoveUnplugged
<1>4. \A j \in IDs : kept[j] # NULL => kept[j] = table[j]
  BY DEF RemoveUnplugged
<1>5. ~wrapped => \A j \in IDs : j > nextID => table[j] = NULL /\ given[j] = NULL
  BY DEF Inv, Dated, FreeAfter, Manager
<1> HIDE DEF s, kept
<1>6. Typed(s, Entries)
  BY <1>1, <1>2, <1>3 DEF Typed
<1>7. FreeAfter(s)
  BY <1>1, <1>4, <1>5 DEF FreeAfter
<1>8. \A i, j \in IDs :
        kept[i] # NULL /\ kept[j] # NULL /\ kept[i].path = kept[j].path => i = j
  BY <1>4 DEF Inv, Distinct
<1>9. 1..0 = {}
  OBVIOUS
<1>10. nextID <= s.nextID
  BY <1>1, <1>2, TablesAssumption
<1>11. Listed(s, kept, o, 0)
  BY <1>1, <1>6, <1>7, <1>8, <1>9, <1>10 DEF Listed
<1> QED
  BY <1>11 DEF s, kept

\* After a listing, the tables hold the tokens it kept and one for each new path.
LEMMA ListedLast ==
    ASSUME Inv, build = "HID",
           NEW o \in Orders({p \in Plugged : ~IsInManager(p, RemoveUnplugged(table))})
    PROVE  LET kept == RemoveUnplugged(table)
               P == {p \in Plugged : ~IsInManager(p, kept)}
               s == Added([Manager EXCEPT !.table = kept], o)
           IN  /\ Cardinality(P) \in Nat
               /\ Listed(s, kept, o, Cardinality(P))
               /\ \A p \in P : \E m \in 1..Cardinality(P) : o[m] = p
               /\ \A m \in 1..Cardinality(P) : o[m] \in P
<1> DEFINE kept == RemoveUnplugged(table)
           P == {p \in Plugged : ~IsInManager(p, kept)}
           n == Cardinality(P)
           B == [Manager EXCEPT !.table = kept]
           s == Added(B, o)
<1>1. IsFiniteSet(P)
  <2>1. P \in SUBSET Paths /\ IsFiniteSet(Paths)
    BY TablesAssumption DEF Plugged
  <2> HIDE DEF P
  <2> QED
    BY <2>1, FS_Subset
<1>2. /\ n \in Nat /\ DOMAIN o = 1..n
      /\ \A p \in P : \E m \in 1..n : o[m] = p
      /\ \A m \in 1..n : o[m] \in P
      /\ \A l, m \in 1..n : o[l] = o[m] => l = m
  <2>1. o \in Orders(P)
    OBVIOUS
  <2> HIDE DEF P
  <2> QED
    BY <1>1, <2>1, OrderIsInjective
<1>3. PICK g : /\ g[0] = B
               /\ \A k \in 0..(n - 1) :
                    g[k + 1] = AddOne(g[k], Token(o[k + 1]), attached[o[k + 1]].dev)
               /\ g[n] = s
  <2> HIDE DEF n, P, kept, B
  <2>1. n \in Nat /\ DOMAIN o = 1..n
    BY <1>2
  <2>2. \E g : /\ g[0] = B
               /\ \A k \in 0..(n - 1) :
                    g[k + 1] = AddOne(g[k], Token(o[k + 1]), attached[o[k + 1]].dev)
               /\ g[n] = Added(B, o)
    BY <2>1, AddedOneByOne
  <2> QED
    BY <2>2
<1> DEFINE K == {k \in Nat : k <= n => Listed(g[k], kept, o, k)}
<1>4. 0 \in K
  BY <1>3, ListedFirst
<1>5. ASSUME NEW k \in Nat, k \in K
      PROVE  k + 1 \in K
  <2>1. SUFFICES ASSUME k + 1 <= n
                 PROVE  Listed(g[k + 1], kept, o, k + 1)
    OBVIOUS
  <2>2. k \in 0..(n - 1) /\ k <= n
    BY <1>2, <2>1
  <2>3. Listed(g[k], kept, o, k)
    BY <1>5, <2>2
  <2>4. g[k + 1] = AddOne(g[k], Token(o[k + 1]), attached[o[k + 1]].dev)
    BY <1>3, <2>2
  <2>5. kept = RemoveUnplugged(table) /\ P = {p \in Plugged : ~IsInManager(p, kept)}
    OBVIOUS
  <2> HIDE DEF n, P, kept, B
  <2>6. Listed(AddOne(g[k], Token(o[k + 1]), attached[o[k + 1]].dev), kept, o, k + 1)
    BY <1>2, <2>2, <2>3, <2>5, ListedStep
  <2> QED
    BY <2>4, <2>6
<1> HIDE DEF n
<1>6. n \in K
  <2> HIDE DEF K
  <2> QED
    BY <1>2, <1>4, <1>5, SetInduction
<1>7. Listed(s, kept, o, n)
  <2>1. n <= n
    BY <1>2
  <2>2. Listed(g[n], kept, o, n)
    BY <1>6, <2>1
  <2> QED
    BY <1>3, <2>2
<1> QED
  BY <1>2, <1>7 DEF n

-----------------------------------------------------------------------------
(* Every step keeps the invariant *)

\* The types, with a name for the entries.
LEMMA Types ==
    TypeOK <=>
        /\ nextID \in 0..MaxID
        /\ table \in [IDs -> Entries \cup {NULL}]
        /\ known \subseteq IDs
        /\ handle \in 0..Len(plugs)
        /\ attached \in [Paths -> [dev : Devices, plug : 1..MaxPlugs] \cup {NULL}]
        /\ links \subseteq 1..Len(plugs)
        /\ plugs \in Seq(Devices) /\ Len(plugs) <= MaxPlugs
        /\ given \in [IDs -> Devices \cup {NULL}]
        /\ unseen \subseteq IDs
        /\ wrapped \in BOOLEAN
        /\ listing = NULL \/ listing \subseteq IDs
        /\ reached.id \in 0..MaxID /\ reached.dev \in Devices \cup {NULL}
BY DEF TypeOK, Entries

LEMMA InitInv == Init => Inv
<1> SUFFICES ASSUME Init
             PROVE  Inv
  OBVIOUS
<1> USE DEF Init
<1>1. TypeOK
  <2>1. MaxID \in Nat /\ MaxPlugs \in Nat
    BY TablesAssumption
  <2>2. plugs \in Seq(Devices) /\ Len(plugs) = 0
    OBVIOUS
  <2>3. reached.id = 0 /\ reached.dev = NULL
    BY DEF Nobody
  <2>4. /\ nextID \in 0..MaxID
        /\ handle \in 0..Len(plugs)
        /\ Len(plugs) <= MaxPlugs
        /\ reached.id \in 0..MaxID /\ reached.dev \in Devices \cup {NULL}
    BY <2>1, <2>2, <2>3
  <2>5. /\ table \in [IDs -> Entries \cup {NULL}]
        /\ given \in [IDs -> Devices \cup {NULL}]
        /\ attached \in [Paths -> [dev : Devices, plug : 1..MaxPlugs] \cup {NULL}]
    OBVIOUS
  <2>6. links \subseteq 1..Len(plugs) /\ unseen \subseteq IDs /\ known \subseteq IDs /\ wrapped \in BOOLEAN
        /\ listing = NULL
    OBVIOUS
  <2> HIDE DEF Init
  <2> QED
    BY <2>2, <2>4, <2>5, <2>6, Types
<1>2. Dated
  BY DEF Dated, FreeAfter, Manager
<1>3. Distinct /\ Seen /\ Connected
  BY DEF Distinct, Seen, Connected
<1> QED
  BY <1>1, <1>2, <1>3 DEF Inv

\* What a listing does.
LEMMA ListingIs ==
    ASSUME Inv, JUB_ListDeviceHid
    PROVE  \E s, o, n :
            /\ n \in Nat
            /\ Listed(s, RemoveUnplugged(table), o, n)
            /\ \A p \in Plugged :
                IsInManager(p, RemoveUnplugged(table)) \/ \E m \in 1..n : o[m] = p
            /\ \A m \in 1..n : o[m] \in Plugged
            /\ nextID' = s.nextID /\ table' = s.table
            /\ given' = s.given /\ wrapped' = s.wrapped
            /\ listing' = Returned(s.table)
            /\ unseen' = {i \in unseen : table[i].path \in Plugged}
            /\ known' = {i \in known : table[i].path \in Plugged}
            /\ reached' = Nobody /\ build = "HID"
            /\ UNCHANGED <<build, handle, attached, links, plugs>>
<1> DEFINE kept == RemoveUnplugged(table)
           P == {p \in Plugged : ~IsInManager(p, kept)}
           s(o) == Added([Manager EXCEPT !.table = kept], o)
<1>1. PICK o \in Orders(P) : Becomes(s(o)) /\ listing' = Returned(s(o).table)
  BY DEF JUB_ListDeviceHid, Added
<1>2. /\ unseen' = {i \in unseen : table[i].path \in Plugged}
      /\ known' = {i \in known : table[i].path \in Plugged}
      /\ reached' = Nobody /\ build = "HID"
      /\ UNCHANGED <<build, handle, attached, links, plugs>>
  BY DEF JUB_ListDeviceHid
<1> DEFINE n == Cardinality(P)
<1>3. /\ n \in Nat
      /\ Listed(s(o), kept, o, n)
      /\ \A p \in P : \E m \in 1..n : o[m] = p
      /\ \A m \in 1..n : o[m] \in P
  BY <1>2, ListedLast
<1>4. /\ \A p \in Plugged : IsInManager(p, kept) \/ \E m \in 1..n : o[m] = p
      /\ \A m \in 1..n : o[m] \in Plugged
  BY <1>3
<1>5. /\ nextID' = s(o).nextID /\ table' = s(o).table
      /\ given' = s(o).given /\ wrapped' = s(o).wrapped
  BY <1>1 DEF Becomes
<1> HIDE DEF n, s, P
<1> QED
  BY <1>1, <1>2, <1>3, <1>4, <1>5

\* A listing keeps the invariant.
LEMMA ListingKeepsInv ==
    ASSUME Inv, JUB_ListDeviceHid
    PROVE  Inv'
<1> DEFINE kept == RemoveUnplugged(table)
<1>1. PICK s, o, n :
            /\ n \in Nat
            /\ Listed(s, kept, o, n)
            /\ \A p \in Plugged : IsInManager(p, kept) \/ \E m \in 1..n : o[m] = p
            /\ \A m \in 1..n : o[m] \in Plugged
            /\ nextID' = s.nextID /\ table' = s.table
            /\ given' = s.given /\ wrapped' = s.wrapped
            /\ listing' = Returned(s.table)
            /\ unseen' = {i \in unseen : table[i].path \in Plugged}
            /\ known' = {i \in known : table[i].path \in Plugged}
            /\ reached' = Nobody /\ build = "HID"
            /\ UNCHANGED <<build, handle, attached, links, plugs>>
  BY ListingIs
<1>2. Typed(s, Entries) /\ FreeAfter(s)
  BY <1>1 DEF Listed
<1>3. \A j \in IDs :
        /\ kept[j] # NULL => /\ kept[j] = table[j] /\ table[j].path \in Plugged
                             /\ table'[j] = kept[j]
        /\ kept[j] = NULL /\ table[j] # NULL => table[j].path \notin Plugged
  <2>1. \A j \in IDs : kept[j] # NULL => table'[j] = kept[j]
    BY <1>1 DEF Listed
  <2>2. \A j \in IDs :
            kept[j] = IF table[j] # NULL /\ table[j].path \notin Plugged THEN NULL ELSE table[j]
    BY DEF RemoveUnplugged
  <2> HIDE DEF kept
  <2> QED
    BY <2>1, <2>2
<1>4. \A j \in IDs : kept[j] = NULL /\ table'[j] # NULL =>
        /\ table'[j].path \in Plugged
        /\ ~wrapped' => given'[j] = attached[table'[j].path].dev
  BY <1>1 DEF Listed
<1>5. Plugged' = Plugged
  BY <1>1 DEF Plugged
<1> HIDE DEF kept
<1>6. TypeOK'
  <2>1. Returned(s.table) \subseteq IDs
    BY DEF Returned
  <2>2. reached'.id = 0 /\ reached'.dev = NULL
    BY <1>1 DEF Nobody
  <2>3. Entries' = Entries
    BY <1>1 DEF Entries
  <2>4. /\ nextID' \in 0..MaxID
        /\ table' \in [IDs -> Entries' \cup {NULL}]
        /\ given' \in [IDs -> Devices \cup {NULL}]
        /\ wrapped' \in BOOLEAN
    BY <1>1, <1>2, <2>3 DEF Typed
  <2>5. listing' = NULL \/ listing' \subseteq IDs
    BY <1>1, <2>1
  <2>6. /\ handle' \in 0..Len(plugs')
        /\ attached' \in [Paths -> [dev : Devices, plug : 1..MaxPlugs] \cup {NULL}]
        /\ links' \subseteq 1..Len(plugs')
        /\ plugs' \in Seq(Devices) /\ Len(plugs') <= MaxPlugs
    BY <1>1, Types DEF Inv
  <2>7. unseen' \subseteq IDs /\ known' \subseteq IDs
    BY <1>1, Types DEF Inv
  <2>8. reached'.id \in 0..MaxID /\ reached'.dev \in Devices \cup {NULL}
    BY <2>2, TablesAssumption
  <2> QED
    BY <2>4, <2>5, <2>6, <2>7, <2>8 DEF TypeOK, Entries
<1>7. Dated'
  BY <1>1, <1>2 DEF Dated, FreeAfter, Manager
<1>8. Distinct'
  BY <1>1 DEF Distinct, Listed
<1>9. Seen'
  <2>1. \A i \in unseen' : table'[i] # NULL
    <3>1. SUFFICES ASSUME NEW i \in unseen, table[i].path \in Plugged
                   PROVE  table'[i] # NULL
      BY <1>1
    <3>2. i \in IDs /\ table[i] # NULL
      BY <1>1, Types DEF Inv, Seen
    <3> QED
      BY <1>3, <3>1, <3>2
  <2>2. ASSUME NEW i \in IDs \ unseen', table'[i] # NULL
        PROVE  /\ table'[i].path \in Plugged
               /\ ~wrapped' => attached[table'[i].path].dev = given'[i]
    <3>1. CASE kept[i] = NULL
      BY <1>4, <2>2, <3>1
    <3>2. CASE kept[i] # NULL
      <4>1. table'[i] = table[i] /\ table[i] # NULL /\ table[i].path \in Plugged
        BY <1>3, <3>2
      <4>2. i \in IDs \ unseen
        BY <1>1, <2>2, <4>1
      <4>3. ~wrapped => attached[table[i].path].dev = given[i]
        BY <1>1, <4>1, <4>2 DEF Inv, Seen
      <4>4. ~wrapped' => ~wrapped
        BY <1>1 DEF Listed
      <4>5. attached[table[i].path].dev # NULL
        <5>1. attached[table[i].path] \in [dev : Devices, plug : 1..MaxPlugs]
          BY <4>1, Types DEF Inv, Plugged
        <5> QED
          BY <5>1, TablesAssumption
      <4>6. ~wrapped' => given'[i] = given[i]
        BY <1>1, <4>3, <4>4, <4>5 DEF Listed
      <4> QED
        BY <4>1, <4>3, <4>4, <4>6
    <3> QED
      BY <3>1, <3>2
  <2>3. attached' = attached
    BY <1>1
  <2> QED
    BY <1>5, <2>1, <2>2, <2>3 DEF Seen
<1>10. Connected' /\ build' \in {"HID", "BLE"}
  BY <1>1 DEF Connected
<1> QED
  BY <1>6, <1>7, <1>8, <1>9, <1>10 DEF Inv

\* A handle that is opened is none or of some plug.
LEMMA OpenedIs ==
    ASSUME Inv, NEW p
    PROVE  Opened(p) \subseteq 0..MaxPlugs
<1>1. MaxPlugs \in Nat
  BY TablesAssumption
<1>2. \A q \in Plugged : attached[q].plug \in 1..MaxPlugs
  BY Types DEF Inv, Plugged
<1> QED
  BY <1>1, <1>2 DEF Opened

\* So is one that a command goes over.
LEMMA HandlesAre ==
    ASSUME Inv, NEW i \in IDs, build = "HID", table[i] # NULL
    PROVE  Handles(i) \subseteq 0..MaxPlugs
<1>1. table[i] \in Entries
  BY Types DEF Inv
<1>2. table[i].plug \in 0..MaxPlugs
  BY <1>1 DEF Entries
<1>3. Opened(table[i].path) \subseteq 0..MaxPlugs
  BY OpenedIs
<1> QED
  BY <1>2, <1>3 DEF Handles

\* What the steps of HID do that leave the ports alone.
LEMMA HandleStepIs ==
    ASSUME Inv, NEW i \in IDs,
           JUB_ConnetDeviceHid(i) \/ JUB_DisconnetDeviceHid(i) \/ UseHid(i)
    PROVE  /\ build = "HID" /\ table[i] # NULL
           /\ \E q \in 0..MaxPlugs : table' = [table EXCEPT ![i].plug = q]
           /\ known' \subseteq IDs
           /\ reached'.id \in 0..MaxID /\ reached'.dev \in Devices \cup {NULL}
           /\ listing' = NULL
           /\ UNCHANGED <<build, nextID, given, wrapped, handle, attached, links, plugs, unseen>>
<1>1. /\ build = "HID" /\ table[i] # NULL
      /\ listing' = NULL
      /\ UNCHANGED <<build, nextID, given, wrapped, handle, attached, links, plugs, unseen>>
  BY DEF JUB_ConnetDeviceHid, JUB_DisconnetDeviceHid, UseHid
<1>2. MaxPlugs \in Nat /\ MaxID \in Nat /\ 0 \in 0..MaxPlugs /\ 0 \in 0..MaxID
  BY TablesAssumption
<1>3. known' \subseteq IDs
  <2>1. known \subseteq IDs
    BY Types DEF Inv
  <2> QED
    BY <2>1 DEF JUB_ConnetDeviceHid, JUB_DisconnetDeviceHid, UseHid
<1>4. CASE JUB_DisconnetDeviceHid(i)
  <2>1. table' = [table EXCEPT ![i].plug = 0] /\ reached' = Nobody
    BY <1>4 DEF JUB_DisconnetDeviceHid
  <2> QED
    BY <1>1, <1>2, <1>3, <2>1 DEF Nobody
<1>5. CASE JUB_ConnetDeviceHid(i)
  <2>1. PICK h \in Opened(table[i].path) : table' = [table EXCEPT ![i].plug = h]
    BY <1>5 DEF JUB_ConnetDeviceHid
  <2>2. h \in 0..MaxPlugs
    BY OpenedIs
  <2>3. reached' = Nobody
    BY <1>5 DEF JUB_ConnetDeviceHid
  <2> QED
    BY <1>1, <1>2, <1>3, <2>1, <2>2, <2>3 DEF Nobody
<1>6. CASE UseHid(i)
  <2> DEFINE there(h) == {q \in Plugged : q = table[i].path /\ attached[q].plug = h}
  <2>1. PICK h \in Handles(i) :
            \/ /\ \E q \in there(h) : reached' = [id |-> i, dev |-> attached[q].dev]
               /\ \E left \in {0, h} : table' = [table EXCEPT ![i].plug = left]
            \/ /\ there(h) = {}
               /\ reached' = [id |-> i, dev |-> NULL]
               /\ table' = [table EXCEPT ![i].plug = 0]
    BY <1>6 DEF UseHid
  <2>2. h \in 0..MaxPlugs
    BY <1>1, HandlesAre
  <2>3. \E q \in 0..MaxPlugs : table' = [table EXCEPT ![i].plug = q]
    BY <1>2, <2>1, <2>2
  <2>4. \A q \in Plugged : attached[q].dev \in Devices
    BY Types DEF Inv, Plugged
  <2>5. reached'.id = i /\ reached'.dev \in Devices \cup {NULL}
    BY <2>1, <2>4
  <2>6. i \in 0..MaxID
    BY <1>2 DEF IDs
  <2> QED
    BY <1>1, <1>3, <2>3, <2>5, <2>6
<1> QED
  BY <1>4, <1>5, <1>6

\* The steps of HID that leave the IDs alone.
LEMMA HIDKeepsInv ==
    ASSUME Inv,
           \/ \E i \in IDs : JUB_ConnetDeviceHid(i) \/ JUB_DisconnetDeviceHid(i) \/ UseHid(i)
           \/ \E d \in Devices, p \in Paths : Plug(d, p)
    PROVE  Inv'
<1> DEFINE AnyAttached == [Paths -> [dev : Devices, plug : 1..MaxPlugs] \cup {NULL}]
           AnyTable == [IDs -> Entries \cup {NULL}]
<1>1. MaxPlugs \in Nat /\ Len(plugs) \in Nat
  BY TablesAssumption, Types DEF Inv
<1>2. CASE \E i \in IDs : JUB_ConnetDeviceHid(i) \/ JUB_DisconnetDeviceHid(i) \/ UseHid(i)
  <2>1. PICK i \in IDs : JUB_ConnetDeviceHid(i) \/ JUB_DisconnetDeviceHid(i) \/ UseHid(i)
    BY <1>2
  <2>2. /\ build = "HID" /\ table[i] # NULL
        /\ \E q \in 0..MaxPlugs : table' = [table EXCEPT ![i].plug = q]
        /\ known' \subseteq IDs
        /\ reached'.id \in 0..MaxID /\ reached'.dev \in Devices \cup {NULL}
        /\ listing' = NULL
        /\ UNCHANGED <<build, nextID, given, wrapped, handle, attached, links, plugs, unseen>>
    BY <2>1, HandleStepIs
  <2>3. PICK q \in 0..MaxPlugs : table' = [table EXCEPT ![i].plug = q]
    BY <2>2
  <2>4. table \in AnyTable
    BY Types DEF Inv
  <2>5. table[i] \in [path : Paths, plug : 0..MaxPlugs]
    BY <2>2, <2>4 DEF Entries
  <2> DEFINE e == [table[i] EXCEPT !.plug = q]
  <2>6. e \in [path : Paths, plug : 0..MaxPlugs] /\ e.path = table[i].path
    BY <2>5
  <2>7. e \in Entries /\ e # NULL
    <3>1. e \in Entries
      BY <2>2, <2>6 DEF Entries
    <3>2. e \in [path : Devices \cup Paths, plug : Nat]
      BY <2>6
    <3> QED
      BY <3>1, <3>2, TablesAssumption
  <2>8. table'[i] = e /\ \A j \in IDs \ {i} : table'[j] = table[j]
    BY <2>3, <2>4
  <2>9. table' \in AnyTable
    <3>1. table' = [table EXCEPT ![i] = e]
      BY <2>3
    <3> HIDE DEF e
    <3> QED
      BY <2>4, <2>7, <3>1
  <2> HIDE DEF e
  <2>10. \A j \in IDs : /\ table'[j] = NULL <=> table[j] = NULL
                        /\ table'[j].path = table[j].path
    BY <2>2, <2>6, <2>7, <2>8
  <2>11. TypeOK'
    <3>1. Entries' = Entries
      BY <2>2 DEF Entries
    <3>2. table' \in [IDs -> Entries' \cup {NULL}]
      BY <2>9, <3>1
    <3>3. /\ listing' = NULL /\ known' \subseteq IDs
          /\ reached'.id \in 0..MaxID /\ reached'.dev \in Devices \cup {NULL}
      BY <2>2
    <3>4. /\ nextID' \in 0..MaxID
          /\ handle' \in 0..Len(plugs')
          /\ attached' \in AnyAttached
          /\ links' \subseteq 1..Len(plugs')
          /\ plugs' \in Seq(Devices) /\ Len(plugs') <= MaxPlugs
          /\ given' \in [IDs -> Devices \cup {NULL}]
          /\ unseen' \subseteq IDs
          /\ wrapped' \in BOOLEAN
      BY <2>2, Types DEF Inv
    <3> QED
      BY <3>2, <3>3, <3>4 DEF TypeOK, Entries
  <2>12. Dated'
    BY <2>2, <2>10 DEF Inv, Dated, FreeAfter, Manager
  <2>13. Distinct'
    BY <2>2, <2>10 DEF Inv, Distinct
  <2>14. Seen'
    <3>1. Plugged' = Plugged /\ unseen \subseteq IDs
      BY <2>2, Types DEF Inv, Plugged
    <3>2. \A j \in unseen : table'[j] # NULL
      BY <2>2, <2>10, <3>1 DEF Inv, Seen
    <3>3. ASSUME NEW j \in IDs \ unseen, table'[j] # NULL
          PROVE  /\ table'[j].path \in Plugged
                 /\ ~wrapped => attached[table'[j].path].dev = given[j]
      BY <2>2, <2>10, <3>3 DEF Inv, Seen
    <3> QED
      BY <2>2, <3>1, <3>2, <3>3 DEF Seen
  <2>15. Connected' /\ build' \in {"HID", "BLE"}
    BY <2>2 DEF Connected
  <2> QED
    BY <2>11, <2>12, <2>13, <2>14, <2>15 DEF Inv
<1>3. CASE \E d \in Devices, p \in Paths : Plug(d, p)
  <2>1. PICK d \in Devices, p \in Paths : Plug(d, p)
    BY <1>3
  <2>2. /\ build = "HID" /\ Len(plugs) < MaxPlugs
        /\ attached[p] = NULL
        /\ attached' = [attached EXCEPT ![p] = [dev |-> d, plug |-> Len(plugs) + 1]]
        /\ plugs' = Append(plugs, d)
        /\ listing' = NULL /\ reached' = Nobody
        /\ UNCHANGED <<build, nextID, table, given, wrapped, known, handle, links, unseen>>
    BY <2>1 DEF Plug, ids
  <2>3. attached \in AnyAttached /\ plugs \in Seq(Devices)
    BY Types DEF Inv
  <2>4. \A q \in Plugged : q \in Paths /\ q # p /\ attached'[q] = attached[q] /\ q \in Plugged'
    BY <2>2, <2>3 DEF Plugged
  <2>5. TypeOK'
    <3>1. Entries' = Entries
      BY <2>2 DEF Entries
    <3>2. table' \in [IDs -> Entries' \cup {NULL}]
      BY <2>2, <3>1, Types DEF Inv
    <3>3. /\ listing' = NULL
          /\ reached'.id \in 0..MaxID /\ reached'.dev \in Devices \cup {NULL}
      BY <2>2, TablesAssumption DEF Nobody
    <3>4. plugs' \in Seq(Devices) /\ Len(plugs') = Len(plugs) + 1
      BY <2>2, <2>3
    <3>5. Len(plugs') <= MaxPlugs
      BY <1>1, <2>2, <3>4
    <3>6. attached' \in AnyAttached
      <4>1. Len(plugs) + 1 \in 1..MaxPlugs
        BY <1>1, <2>2
      <4> QED
        BY <2>2, <2>3, <4>1
    <3>7. handle' \in 0..Len(plugs') /\ links' \subseteq 1..Len(plugs')
      <4>1. handle \in 0..Len(plugs) /\ links \subseteq 1..Len(plugs)
        BY Types DEF Inv
      <4> QED
        BY <1>1, <2>2, <3>4, <4>1
    <3>8. /\ nextID' \in 0..MaxID
          /\ given' \in [IDs -> Devices \cup {NULL}]
          /\ unseen' \subseteq IDs
          /\ known' \subseteq IDs
          /\ wrapped' \in BOOLEAN
      BY <2>2, Types DEF Inv
    <3> QED
      BY <3>2, <3>3, <3>4, <3>5, <3>6, <3>7, <3>8 DEF TypeOK, Entries
  <2>6. Dated' /\ Distinct'
    BY <2>2 DEF Inv, Dated, FreeAfter, Manager, Distinct
  <2>7. Seen'
    <3>1. ASSUME NEW j \in IDs \ unseen, table[j] # NULL
          PROVE  /\ table[j].path \in Plugged'
                 /\ ~wrapped => attached'[table[j].path].dev = given[j]
      BY <2>2, <2>4, <3>1 DEF Inv, Seen
    <3>2. \A j \in unseen : table[j] # NULL
      BY <2>2 DEF Inv, Seen
    <3> QED
      BY <2>2, <3>1, <3>2 DEF Seen
  <2>8. Connected' /\ build' \in {"HID", "BLE"}
    BY <2>2 DEF Connected
  <2> QED
    BY <2>5, <2>6, <2>7, <2>8 DEF Inv
<1> QED
  BY <1>2, <1>3

\* A device is unplugged.
LEMMA UnplugKeepsInv ==
    ASSUME Inv, NEW p \in Paths, Unplug(p)
    PROVE  Inv'
<1> DEFINE Gone == {i \in IDs : table[i] # NULL /\ table[i].path = p}
<1>1. /\ p \in Plugged
      /\ attached' = [attached EXCEPT ![p] = NULL]
      /\ unseen' = unseen \cup Gone
      /\ listing' = NULL /\ reached' = Nobody
      /\ UNCHANGED <<build, nextID, table, given, wrapped, known, handle, links, plugs>>
  BY DEF Unplug, ids
<1>2. attached \in [Paths -> [dev : Devices, plug : 1..MaxPlugs] \cup {NULL}]
  BY Types DEF Inv
<1>3. TypeOK'
  <2>1. Entries' = Entries
    BY <1>1 DEF Entries
  <2>2. table' \in [IDs -> Entries' \cup {NULL}]
    BY <1>1, <2>1, Types DEF Inv
  <2>3. /\ listing' = NULL
        /\ reached'.id \in 0..MaxID /\ reached'.dev \in Devices \cup {NULL}
    BY <1>1, TablesAssumption DEF Nobody
  <2>4. attached' \in [Paths -> [dev : Devices, plug : 1..MaxPlugs] \cup {NULL}]
    BY <1>1, <1>2
  <2>5. unseen' \subseteq IDs /\ known' \subseteq IDs
    BY <1>1, Types DEF Inv
  <2>6. /\ nextID' \in 0..MaxID
        /\ handle' \in 0..Len(plugs')
        /\ links' \subseteq 1..Len(plugs')
        /\ plugs' \in Seq(Devices) /\ Len(plugs') <= MaxPlugs
        /\ given' \in [IDs -> Devices \cup {NULL}]
        /\ wrapped' \in BOOLEAN
    BY <1>1, Types DEF Inv
  <2> QED
    BY <2>2, <2>3, <2>4, <2>5, <2>6 DEF TypeOK, Entries
<1>4. Dated' /\ Distinct'
  BY <1>1 DEF Inv, Dated, FreeAfter, Manager, Distinct
<1>5. Seen'
  <2>1. SUFFICES ASSUME build = "HID"
                 PROVE  /\ \A i \in unseen \cup Gone : table[i] # NULL
                        /\ \A i \in IDs \ (unseen \cup Gone) :
                            table[i] # NULL =>
                                /\ table[i].path \in Plugged'
                                /\ ~wrapped => attached'[table[i].path].dev = given[i]
    BY <1>1 DEF Seen
  <2>2. \A i \in unseen \cup Gone : table[i] # NULL
    BY <2>1 DEF Inv, Seen
  <2>3. ASSUME NEW i \in IDs \ (unseen \cup Gone), table[i] # NULL
        PROVE  /\ table[i].path \in Plugged'
               /\ ~wrapped => attached'[table[i].path].dev = given[i]
    <3>1. /\ table[i].path \in Plugged /\ table[i].path # p
          /\ ~wrapped => attached[table[i].path].dev = given[i]
      BY <2>1, <2>3 DEF Inv, Seen
    <3>2. table[i].path \in Paths /\ attached'[table[i].path] = attached[table[i].path]
      BY <1>1, <1>2, <3>1 DEF Plugged
    <3> QED
      BY <3>1, <3>2 DEF Plugged
  <2> QED
    BY <2>2, <2>3
<1>6. Connected' /\ build' \in {"HID", "BLE"}
  BY <1>1 DEF Inv, Connected
<1> QED
  BY <1>3, <1>4, <1>5, <1>6 DEF Inv

\* JUB_connectDevice.
LEMMA ConnectKeepsInv ==
    ASSUME Inv, NEW d \in Devices, JUB_connectDevice(d)
    PROVE  Inv'
<1> DEFINE h == Len(plugs) + 1
           e == [path |-> d, plug |-> h]
           s == AddOne(Manager, e, d)
           i == NextID(nextID)
<1>1. /\ build = "BLE" /\ Len(plugs) < MaxPlugs
      /\ Becomes(s)
      /\ handle' = h
      /\ links' = links \cup {h}
      /\ plugs' = Append(plugs, d)
      /\ listing' = NULL /\ reached' = Nobody
      /\ UNCHANGED <<build, known, attached, unseen>>
  BY DEF JUB_connectDevice
<1>2. /\ nextID' = s.nextID /\ table' = s.table
      /\ given' = s.given /\ wrapped' = s.wrapped
  BY <1>1 DEF Becomes
<1>3. /\ Manager.nextID = nextID /\ Manager.table = table
      /\ Manager.given = given /\ Manager.wrapped = wrapped
  BY DEF Manager
<1>4. Typed(Manager, Entries) /\ FreeAfter(Manager)
  BY <1>3, Types DEF Inv, Typed, Dated
<1>5. MaxPlugs \in Nat /\ Len(plugs) \in Nat /\ plugs \in Seq(Devices)
  BY TablesAssumption, Types DEF Inv
<1>6. h \in 1..MaxPlugs /\ h \in 1..h
  BY <1>1, <1>5
<1>7. e \in Entries /\ e.plug = h /\ e # NULL
  <2>1. e \in Entries
    BY <1>1, <1>6 DEF Entries
  <2>2. e \in [path : Devices \cup Paths, plug : Nat]
    BY <1>6
  <2> QED
    BY <2>1, <2>2, TablesAssumption
<1>8. plugs' \in Seq(Devices) /\ Len(plugs') = h /\ plugs'[h] = d
      /\ \A m \in 1..Len(plugs) : plugs'[m] = plugs[m] /\ m \in 1..h
  BY <1>1, <1>5
<1> HIDE DEF e, h, s, i
<1>9. Typed(s, Entries) /\ FreeAfter(s) /\ IsAdded(s, Manager, i, e, d)
  BY <1>3, <1>4, <1>7, AddOneIs DEF s, i
<1>10. TypeOK'
  <2>1. Entries' = Entries
    BY <1>1 DEF Entries
  <2>2. /\ nextID' \in 0..MaxID
        /\ table' \in [IDs -> Entries' \cup {NULL}]
        /\ given' \in [IDs -> Devices \cup {NULL}]
        /\ wrapped' \in BOOLEAN
    BY <1>2, <1>9, <2>1 DEF Typed
  <2>3. /\ listing' = NULL
        /\ reached'.id \in 0..MaxID /\ reached'.dev \in Devices \cup {NULL}
    BY <1>1, TablesAssumption DEF Nobody
  <2>4. links' \subseteq 1..Len(plugs')
    <3>1. links \subseteq 1..Len(plugs)
      BY Types DEF Inv
    <3> QED
      BY <1>1, <1>6, <1>8, <3>1
  <2>5. handle' \in 0..Len(plugs') /\ Len(plugs') <= MaxPlugs
    BY <1>1, <1>5, <1>6, <1>8
  <2>6. /\ attached' \in [Paths -> [dev : Devices, plug : 1..MaxPlugs] \cup {NULL}]
        /\ unseen' \subseteq IDs /\ known' \subseteq IDs
    BY <1>1, Types DEF Inv
  <2> QED
    BY <1>8, <2>2, <2>3, <2>4, <2>5, <2>6 DEF TypeOK, Entries
<1>11. Dated'
  BY <1>2, <1>9 DEF Dated, FreeAfter, Manager
<1>12. Distinct' /\ Seen' /\ build' \in {"HID", "BLE"}
  BY <1>1 DEF Distinct, Seen
<1>13. Connected'
  <2>1. ASSUME NEW j \in IDs, table'[j] # NULL
        PROVE  /\ table'[j].plug \in 1..Len(plugs')
               /\ ~wrapped' => plugs'[table'[j].plug] = given'[j]
    <3>1. CASE table[j] # NULL
      <4>1. /\ table[j].plug \in 1..Len(plugs)
            /\ ~wrapped => plugs[table[j].plug] = given[j]
        BY <1>1, <3>1 DEF Inv, Connected
      <4>2. table'[j] = table[j] /\ (~wrapped' => ~wrapped /\ given'[j] = given[j])
        BY <1>2, <1>3, <1>9, <3>1 DEF IsAdded
      <4> QED
        BY <1>8, <4>1, <4>2
    <3>2. CASE table[j] = NULL
      <4>1. j = i /\ table'[j] = e
        BY <1>2, <1>3, <1>9, <2>1, <3>2 DEF IsAdded
      <4>2. ~wrapped' => given'[j] = d
        BY <1>2, <1>3, <1>9, <4>1 DEF IsAdded
      <4> QED
        BY <1>6, <1>7, <1>8, <4>1, <4>2
    <3> QED
      BY <3>1, <3>2
  <2>2. handle' = Len(plugs')
    BY <1>1, <1>8
  <2> QED
    BY <2>1, <2>2 DEF Connected
<1> QED
  BY <1>10, <1>11, <1>12, <1>13 DEF Inv

\* The steps that touch only the links, and the commands.
LEMMA LinksKeepInv ==
    ASSUME Inv,
           \/ \E i \in IDs : JUB_disconnectDevice(i) \/ UseBle(i)
           \/ \E d \in Devices : JUB_cancelConnect(d)
           \/ \E h \in links : LinkDrops(h)
    PROVE  Inv'
<1>1. /\ UNCHANGED <<build, nextID, table, given, wrapped, known, attached, plugs, unseen>>
      /\ handle' \in {0, handle} /\ links' \subseteq links
      /\ listing' = NULL
  BY DEF JUB_disconnectDevice, JUB_cancelConnect, LinkDrops, UseBle, ids
<1>2. \/ reached' = Nobody
      \/ \E i \in IDs :
            reached' = [id |-> i, dev |-> IF handle \in links THEN plugs[handle] ELSE NULL]
  BY DEF JUB_disconnectDevice, JUB_cancelConnect, LinkDrops, UseBle
<1>3. \A h \in links : plugs[h] \in Devices
  <2>1. links \subseteq 1..Len(plugs) /\ plugs \in Seq(Devices)
    BY Types DEF Inv
  <2> QED
    BY <2>1
<1>4. reached'.id \in 0..MaxID /\ reached'.dev \in Devices \cup {NULL}
  <2>1. MaxID \in Nat
    BY TablesAssumption
  <2> QED
    BY <1>2, <1>3, <2>1 DEF Nobody, IDs
<1>5. TypeOK'
  <2>1. Entries' = Entries
    BY <1>1 DEF Entries
  <2>2. table' \in [IDs -> Entries' \cup {NULL}]
    BY <1>1, <2>1, Types DEF Inv
  <2>3. handle' \in 0..Len(plugs')
    <3>1. handle \in 0..Len(plugs) /\ Len(plugs) \in Nat
      BY Types DEF Inv
    <3> QED
      BY <1>1, <3>1
  <2>4. links' \subseteq 1..Len(plugs')
    BY <1>1, Types DEF Inv
  <2>5. /\ nextID' \in 0..MaxID
        /\ attached' \in [Paths -> [dev : Devices, plug : 1..MaxPlugs] \cup {NULL}]
        /\ plugs' \in Seq(Devices) /\ Len(plugs') <= MaxPlugs
        /\ given' \in [IDs -> Devices \cup {NULL}]
        /\ unseen' \subseteq IDs
        /\ known' \subseteq IDs
        /\ wrapped' \in BOOLEAN
    BY <1>1, Types DEF Inv
  <2> QED
    BY <1>1, <1>4, <2>2, <2>3, <2>4, <2>5 DEF TypeOK, Entries
<1>6. Dated' /\ Distinct' /\ Seen'
  BY <1>1 DEF Inv, Dated, FreeAfter, Manager, Distinct, Seen, Plugged
<1>7. Connected' /\ build' \in {"HID", "BLE"}
  BY <1>1 DEF Inv, Connected
<1> QED
  BY <1>5, <1>6, <1>7 DEF Inv

LEMMA StutterKeepsInv ==
    ASSUME Inv, UNCHANGED vars
    PROVE  Inv'
<1>1. UNCHANGED <<build, nextID, table, given, wrapped, known, handle, attached, links, plugs,
                  unseen, listing, reached>>
  BY DEF vars, ids
<1>2. TypeOK'
  BY <1>1 DEF Inv, TypeOK
<1>3. Dated' /\ Distinct' /\ Seen' /\ Connected'
  BY <1>1 DEF Inv, Dated, FreeAfter, Manager, Distinct, Seen, Plugged, Connected
<1> QED
  BY <1>1, <1>2, <1>3 DEF Inv

LEMMA InvIsInvariant == Spec => []Inv
<1>1. ASSUME Inv, [Next]_vars
      PROVE  Inv'
  <2>1. CASE JUB_ListDeviceHid
    BY <1>1, <2>1, ListingKeepsInv
  <2>2. CASE \/ \E i \in IDs : JUB_ConnetDeviceHid(i) \/ JUB_DisconnetDeviceHid(i) \/ UseHid(i)
             \/ \E d \in Devices, p \in Paths : Plug(d, p)
    BY <1>1, <2>2, HIDKeepsInv
  <2>3. CASE \/ \E i \in IDs : JUB_disconnectDevice(i) \/ UseBle(i)
             \/ \E d \in Devices : JUB_cancelConnect(d)
             \/ \E h \in links : LinkDrops(h)
    BY <1>1, <2>3, LinksKeepInv
  <2>4. CASE \E d \in Devices : JUB_connectDevice(d)
    BY <1>1, <2>4, ConnectKeepsInv
  <2>5. CASE \E p \in Paths : Unplug(p)
    BY <1>1, <2>5, UnplugKeepsInv
  <2>6. CASE UNCHANGED vars
    BY <1>1, <2>6, StutterKeepsInv
  <2> QED
    BY <1>1, <2>1, <2>2, <2>3, <2>4, <2>5, <2>6 DEF Next
<1> QED
  BY <1>1, InitInv, PTL DEF Spec

-----------------------------------------------------------------------------
(* What a listing returns *)

\* A listing returns all tokens, if there are no more of them than it can return.
LEMMA ReturnsAll ==
    ASSUME NEW t, IsFiniteSet(Plugged), Cardinality(Plugged) <= MAX_DEVICE,
           \A i \in IDs : t[i] # NULL => t[i].path \in Plugged,
           \A i, j \in IDs :
                t[i] # NULL /\ t[j] # NULL /\ t[i].path = t[j].path => i = j
    PROVE  \A i \in IDs : t[i] # NULL => i \in Returned(t)
<1> DEFINE used == {i \in IDs : t[i] # NULL}
<1>1. IsFiniteSet(used) /\ Cardinality(used) <= Cardinality(Plugged)
  <2> DEFINE f == [i \in used |-> t[i].path]
  <2>1. f \in Injection(used, Plugged)
    BY DEF Injection, IsInjective
  <2> HIDE DEF f, used
  <2> QED
    BY <2>1, FS_Injection
<1>2. SUFFICES ASSUME NEW i \in used
               PROVE  Cardinality({j \in used : j < i}) < MAX_DEVICE
  BY DEF Returned
<1> DEFINE before == {j \in used : j < i}
<1>3. before \in SUBSET used /\ before # used
  <2>1. i \in Nat
    BY DEF IDs
  <2>2. i \notin before
    BY <2>1
  <2> QED
    BY <2>2
<1> HIDE DEF used, before
<1>4. IsFiniteSet(before) /\ Cardinality(before) <= Cardinality(used)
      /\ Cardinality(used) # Cardinality(before)
  BY <1>1, <1>3, FS_Subset
<1>5. /\ Cardinality(before) \in Nat /\ Cardinality(used) \in Nat
      /\ Cardinality(Plugged) \in Nat
  BY <1>1, <1>4, FS_CardinalityType
<1>6. Cardinality(before) < MAX_DEVICE
  BY <1>1, <1>4, <1>5, TablesAssumption
<1> QED
  BY <1>6 DEF before

\* A listing is complete.
LEMMA ListingIsComplete ==
    ASSUME Inv, JUB_ListDeviceHid
    PROVE  ListingComplete'
<1> DEFINE kept == RemoveUnplugged(table)
<1>1. PICK s, o, n :
            /\ n \in Nat
            /\ Listed(s, kept, o, n)
            /\ \A p \in Plugged : IsInManager(p, kept) \/ \E m \in 1..n : o[m] = p
            /\ \A m \in 1..n : o[m] \in Plugged
            /\ nextID' = s.nextID /\ table' = s.table
            /\ given' = s.given /\ wrapped' = s.wrapped
            /\ listing' = Returned(s.table)
            /\ unseen' = {i \in unseen : table[i].path \in Plugged}
            /\ known' = {i \in known : table[i].path \in Plugged}
            /\ reached' = Nobody /\ build = "HID"
            /\ UNCHANGED <<build, handle, attached, links, plugs>>
  BY ListingIs
<1>2. \A j \in IDs : kept[j] # NULL =>
        kept[j].path \in Plugged /\ table'[j] = kept[j]
  <2>1. \A j \in IDs : kept[j] # NULL => table'[j] = kept[j]
    BY <1>1 DEF Listed
  <2>2. \A j \in IDs :
            kept[j] = IF table[j] # NULL /\ table[j].path \notin Plugged THEN NULL ELSE table[j]
    BY DEF RemoveUnplugged
  <2> HIDE DEF kept
  <2> QED
    BY <2>1, <2>2
<1> HIDE DEF kept
<1>3. \A j \in IDs : table'[j] # NULL => table'[j].path \in Plugged
  BY <1>1, <1>2 DEF Listed
<1>4. \A i, j \in IDs :
        table'[i] # NULL /\ table'[j] # NULL /\ table'[i].path = table'[j].path => i = j
  BY <1>1 DEF Listed
<1>5. \A i \in listing' : i \in IDs /\ table'[i] # NULL
  BY <1>1 DEF Returned
<1>6. Plugged' = Plugged
  BY <1>1 DEF Plugged
<1>7. ASSUME ~wrapped', Cardinality(Plugged) <= MAX_DEVICE, NEW p \in Plugged
      PROVE  \E i \in listing' : table'[i].path = p
  <2>1. \E i \in IDs : table'[i] # NULL /\ table'[i].path = p
    <3>1. CASE IsInManager(p, kept)
      BY <1>2, <3>1 DEF IsInManager
    <3>2. CASE \E m \in 1..n : o[m] = p
      BY <1>1, <1>7, <3>2 DEF Listed
    <3> QED
      BY <1>1, <3>1, <3>2
  <2>2. IsFiniteSet(Plugged)
    <3>1. Plugged \in SUBSET Paths /\ IsFiniteSet(Paths)
      BY TablesAssumption DEF Plugged
    <3> QED
      BY <3>1, FS_Subset
  <2>3. \A i \in IDs : table'[i] # NULL => i \in Returned(table')
    BY <1>3, <1>4, <1>7, <2>2, ReturnsAll
  <2> QED
    BY <1>1, <2>1, <2>3
<1>8. ListingComplete'
  BY <1>3, <1>4, <1>5, <1>6, <1>7 DEF ListingComplete
<1> QED
  BY <1>8

\* An ID keeps its place in a listing when only later IDs get new tokens.
LEMMA StillReturned ==
    ASSUME NEW t, NEW u, NEW n \in Nat, NEW i \in IDs, i <= n,
           \A j \in IDs : t[j] = NULL /\ u[j] # NULL => n < j,
           u[i] # NULL, i \in Returned(t)
    PROVE  i \in Returned(u)
<1> DEFINE before(x) == {j \in {h \in IDs : x[h] # NULL} : j < i}
<1>1. Cardinality(before(t)) < MAX_DEVICE
  BY DEF Returned
<1>2. before(u) \in SUBSET before(t)
  <2>1. SUFFICES ASSUME NEW j \in IDs, u[j] # NULL, j < i
                 PROVE  t[j] # NULL
    OBVIOUS
  <2>2. j \in Nat /\ i \in Nat
    BY DEF IDs
  <2>3. ~(n < j)
    BY <2>1, <2>2
  <2> QED
    BY <2>1, <2>3
<1>3. IsFiniteSet(before(t))
  <2>1. before(t) \in SUBSET (1..MaxID)
    BY DEF IDs
  <2>2. IsFiniteSet(1..MaxID)
    <3>1. 1 \in Int /\ MaxID \in Int
      BY TablesAssumption
    <3> QED
      BY <3>1, FS_Interval
  <2> HIDE DEF before
  <2> QED
    BY <2>1, <2>2, FS_Subset
<1>4. Cardinality(before(u)) < MAX_DEVICE
  <2> HIDE DEF before
  <2>1. IsFiniteSet(before(u)) /\ Cardinality(before(u)) <= Cardinality(before(t))
    BY <1>2, <1>3, FS_Subset
  <2>2. Cardinality(before(u)) \in Nat /\ Cardinality(before(t)) \in Nat
    BY <1>3, <2>1, FS_CardinalityType
  <2> QED
    BY <1>1, <2>1, <2>2, TablesAssumption
<1> QED
  BY <1>4 DEF Returned

\* A listing takes nothing from a device that stays plugged in.
LEMMA ListingKeeps ==
    ASSUME Inv, JUB_ListDeviceHid, NEW i \in IDs, table[i] # NULL, table[i].path \in Plugged
    PROVE  /\ table'[i] = table[i]
           /\ (i \in Returned(table) /\ ~wrapped') => i \in listing'
<1> DEFINE kept == RemoveUnplugged(table)
<1>1. PICK s, o, n :
            /\ n \in Nat
            /\ Listed(s, kept, o, n)
            /\ \A p \in Plugged : IsInManager(p, kept) \/ \E m \in 1..n : o[m] = p
            /\ \A m \in 1..n : o[m] \in Plugged
            /\ nextID' = s.nextID /\ table' = s.table
            /\ given' = s.given /\ wrapped' = s.wrapped
            /\ listing' = Returned(s.table)
            /\ unseen' = {j \in unseen : table[j].path \in Plugged}
            /\ known' = {j \in known : table[j].path \in Plugged}
            /\ reached' = Nobody /\ build = "HID"
            /\ UNCHANGED <<build, handle, attached, links, plugs>>
  BY ListingIs
<1>2. kept[i] = table[i]
  BY DEF RemoveUnplugged
<1>3. \A j \in IDs : table[j] = NULL => kept[j] = NULL
  BY DEF RemoveUnplugged
<1> HIDE DEF kept
<1>4. table'[i] = table[i]
  BY <1>1, <1>2 DEF Listed
<1>5. ASSUME i \in Returned(table), ~wrapped'
      PROVE  i \in Returned(s.table)
  <2>1. /\ ~wrapped
        /\ \A j \in IDs : kept[j] = NULL /\ s.table[j] # NULL => nextID < j
    BY <1>1, <1>5 DEF Listed
  <2>2. \A j \in IDs : table[j] = NULL /\ s.table[j] # NULL => nextID < j
    BY <1>3, <2>1
  <2>3. nextID \in Nat
    BY TablesAssumption, Types DEF Inv
  <2>4. i <= nextID
    <3>1. ~(i > nextID)
      BY <2>1 DEF Inv, Dated, FreeAfter, Manager
    <3> QED
      BY <2>3, <3>1 DEF IDs
  <2>5. s.table[i] # NULL
    BY <1>1, <1>4
  <2> QED
    BY <1>5, <2>2, <2>3, <2>4, <2>5, StillReturned
<1> QED
  BY <1>1, <1>4, <1>5

-----------------------------------------------------------------------------
(* What the steps return and reach *)

\* Only a listing returns one.
LEMMA OthersListNothing ==
    ASSUME Next
    PROVE  JUB_ListDeviceHid \/ listing' = NULL
BY DEF Next, JUB_ConnetDeviceHid, JUB_DisconnetDeviceHid, Plug, Unplug, JUB_connectDevice,
       JUB_disconnectDevice, LinkDrops, JUB_cancelConnect, UseHid, UseBle

\* Only a command reaches a device.
LEMMA OthersReachNobody ==
    ASSUME Next
    PROVE  (\E i \in IDs : UseHid(i) \/ UseBle(i)) \/ reached' = Nobody
BY DEF Next, JUB_ListDeviceHid, JUB_ConnetDeviceHid, JUB_DisconnetDeviceHid, Plug, Unplug,
       JUB_connectDevice, JUB_disconnectDevice, LinkDrops, JUB_cancelConnect

\* A command goes astray only in the three cases: over HID, whether the handle
\* was open or SendData has opened it, it goes to the device at the path.
LEMMA UseHidIsSound ==
    ASSUME Inv, NEW i \in IDs, UseHid(i)
    PROVE  WrongDeviceOnlyOver'
<1>1. /\ build = "HID" /\ table[i] # NULL /\ reached'.id = i
      /\ UNCHANGED <<build, given, wrapped, handle, unseen>>
  BY DEF UseHid
<1>2. \/ reached'.dev = NULL
      \/ /\ table[i].path \in Plugged
         /\ reached'.dev = attached[table[i].path].dev
  BY DEF UseHid
<1>3. SUFFICES ASSUME reached'.dev # NULL, reached'.dev # given[i], ~wrapped
               PROVE  i \in unseen
  BY <1>1 DEF WrongDeviceOnlyOver
<1>4. i \notin unseen => attached[table[i].path].dev = given[i]
  BY <1>1, <1>3 DEF Inv, Seen
<1> QED
  BY <1>2, <1>3, <1>4

LEMMA UseBleIsSound ==
    ASSUME Inv, NEW i \in IDs, UseBle(i)
    PROVE  WrongDeviceOnlyOver'
<1>1. /\ build = "BLE" /\ table[i] # NULL
      /\ reached'.id = i
      /\ reached'.dev = IF handle \in links THEN plugs[handle] ELSE NULL
      /\ UNCHANGED <<build, table, given, wrapped, handle, unseen>>
  BY DEF UseBle, ids
<1>2. SUFFICES ASSUME reached'.dev # NULL, reached'.dev # given[i], ~wrapped
               PROVE  table[i].plug < handle
  BY <1>1 DEF WrongDeviceOnlyOver
<1>3. handle \in links /\ reached'.dev = plugs[handle]
  BY <1>1, <1>2
<1>4. handle \in 1..Len(plugs) /\ Len(plugs) \in Nat
  BY <1>3, Types DEF Inv
<1>5. handle = Len(plugs)
  BY <1>1, <1>4 DEF Inv, Connected
<1>6. table[i].plug \in 1..Len(plugs) /\ plugs[table[i].plug] = given[i]
  BY <1>1, <1>2 DEF Inv, Connected
<1>7. table[i].plug # handle
  BY <1>2, <1>3, <1>6
<1> QED
  BY <1>4, <1>5, <1>6, <1>7

-----------------------------------------------------------------------------
(* The theorems *)

\* The device tables keep their types.
THEOREM TypeCorrect == Spec => []TypeOK
<1>1. Inv => TypeOK
  BY DEF Inv
<1> QED
  BY <1>1, InvIsInvariant, PTL

\* A listing names every device that is plugged in by exactly one ID, and no
\* other, unless there are too many of them or the IDs have started again.
THEOREM ListingSound == Spec => []ListingComplete
<1>1. Init => ListingComplete
  BY DEF Init, ListingComplete
<1>2. ASSUME Inv, ListingComplete, [Next]_vars
      PROVE  ListingComplete'
  <2>1. CASE JUB_ListDeviceHid
    BY <1>2, <2>1, ListingIsComplete
  <2>2. CASE listing' = NULL
    BY <2>2 DEF ListingComplete
  <2>3. CASE UNCHANGED vars
    BY <1>2, <2>3 DEF vars, ids, ListingComplete, Plugged
  <2> QED
    BY <1>2, <2>1, <2>2, <2>3, OthersListNothing
<1> QED
  BY <1>1, <1>2, InvIsInvariant, PTL DEF Spec

\* A command reaches the device that its ID was given out for, or none, but for
\* three cases: IDs that have started again, an unseen exchange at a USB port, a
\* later Bluetooth connection.
THEOREM DeviceSound == Spec => []WrongDeviceOnlyOver
<1>1. Init => WrongDeviceOnlyOver
  BY DEF Init, WrongDeviceOnlyOver, Nobody
<1>2. ASSUME Inv, WrongDeviceOnlyOver, [Next]_vars
      PROVE  WrongDeviceOnlyOver'
  <2>1. CASE \E i \in IDs : UseHid(i) \/ UseBle(i)
    BY <1>2, <2>1, UseHidIsSound, UseBleIsSound
  <2>2. CASE reached' = Nobody
    BY <2>2 DEF WrongDeviceOnlyOver, Nobody
  <2>3. CASE UNCHANGED vars
    BY <1>2, <2>3 DEF vars, ids, WrongDeviceOnlyOver
  <2> QED
    BY <1>2, <2>1, <2>2, <2>3, OthersReachNobody
<1> QED
  BY <1>1, <1>2, InvIsInvariant, PTL DEF Spec

\* A listing takes nothing from a device that stays plugged in: neither its
\* token, nor, unless the IDs start again, its place in what is returned.
THEOREM ListingStable == Spec => StaysListed
<1>1. ASSUME Inv, [Next]_vars
      PROVE  [listing' # NULL =>
                \A i \in IDs : (table[i] # NULL /\ table[i].path \in Plugged) =>
                    /\ table'[i] = table[i]
                    /\ (i \in Returned(table) /\ ~wrapped') => i \in listing']_vars
  <2>1. CASE JUB_ListDeviceHid
    BY <1>1, <2>1, ListingKeeps
  <2>2. CASE Next /\ ~JUB_ListDeviceHid
    BY <2>2, OthersListNothing
  <2>3. CASE UNCHANGED vars
    BY <2>3
  <2> QED
    BY <1>1, <2>1, <2>2, <2>3
<1> QED
  BY <1>1, InvIsInvariant, PTL DEF Spec, StaysListed
=============================================================================
