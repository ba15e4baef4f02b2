--------------------------- MODULE GoWallet_proofs ---------------------------
(***************************************************************************)
(* Proofs about GoWallet, for every set of passwords and requests and any  *)
(* number of wallets: its types, that a wallet reported created is kept,   *)
(* what HDSignRawTransaction dies over, and how much it spends.            *)
(*                                                                         *)
(* The induction is one over Inv: what writeKeyStoreFile has done to the   *)
(* file by the time each of its steps runs (Writing), which wallets have   *)
(* been reported by then (Reporting), and what the last call left (Ending).*)
(*                                                                         *)
(* What a call spends is a sum, defined by recursion over the inputs.  The *)
(* facts about it are proved by induction over a set of numbers, from the  *)
(* well-foundedness of < on Nat.                                           *)
(***************************************************************************)
EXTENDS GoWallet, WellFoundedInduction, TLAPS

\* The file is opened for the newest wallet, after every one that came before.
Writing ==
    /\ pc \in {"open", "write"} =>
        /\ draft \in Wallet
        /\ draft.id = attempts
        /\ last.outcome = "none"
    /\ pc = "open" => opened < attempts
    /\ pc = "write" => opened = attempts

\* A wallet is reported only after the file was opened for it, and the one being
\* written is not reported yet.
Reporting ==
    reported # NULL =>
        /\ reported.id <= opened
        /\ pc = "write" => reported.id < opened

\* A call that returned 1 took as many inputs as the loop takes.
Ending ==
    last.outcome = "res1" =>
        /\ last.request \in Requests
        /\ last.used = Selected(last.request)

Inv == TypeOK /\ Writing /\ Reporting /\ Ending /\ CreatedIsKept /\ PanicsOnlyOver

-----------------------------------------------------------------------------
(* Induction *)

\* A set of numbers that is not empty has a least element.
LEMMA LeastNumber ==
    ASSUME NEW T, T \subseteq Nat, T # {}
    PROVE  \E x \in T : \A y \in T : x <= y
<1> DEFINE Less == {ss \in Nat \X Nat : ss[1] < ss[2]}
<1>1. IsWellFoundedOn(Less, Nat)
  BY NatLessThanWellFounded DEF OpToRel
<1>2. PICK x \in T : \A y \in T : <<y, x>> \notin Less
  <2> HIDE DEF Less
  <2> QED
    BY <1>1, WFMin
<1>3. \A y \in T : x <= y
  <2>1. SUFFICES ASSUME NEW y \in T, y < x
                 PROVE  FALSE
    OBVIOUS
  <2> QED
    BY <1>2, <2>1
<1> QED
  BY <1>3

\* A set of numbers that has 0 and every successor has them all.
LEMMA SetInduction ==
    ASSUME NEW S, 0 \in S, \A n \in Nat : n \in S => n + 1 \in S
    PROVE  \A n \in Nat : n \in S
<1> DEFINE T == {n \in Nat : n \notin S}
<1>1. SUFFICES ASSUME T # {}
               PROVE  FALSE
  OBVIOUS
<1>2. PICK x \in T : \A y \in T : x <= y
  <2>1. T \subseteq Nat
    OBVIOUS
  <2> HIDE DEF T
  <2> QED
    BY <1>1, <2>1, LeastNumber
<1>3. x - 1 \in Nat /\ x - 1 \notin T
  BY <1>2
<1> QED
  BY <1>2, <1>3

-----------------------------------------------------------------------------
(* Sums *)

\* g gives the value of the first i of the inputs s, for i up to n.
IsSum(g, s, n) == g = [i \in 0..n |-> IF i = 0 THEN 0 ELSE g[i - 1] + s[i].Value]

LEMMA ValueType ==
    ASSUME NEW s \in Seq(OutPutItem), NEW i \in 1..Len(s)
    PROVE  s[i].Value \in Int64 /\ s[i].Value \in Int
<1>1. s[i] \in OutPutItem
  OBVIOUS
<1>2. s[i].Value \in Int64
  BY <1>1 DEF OutPutItem
<1> QED
  BY <1>2, WalletAssumption DEF Int64

\* There is such a function, and its values are numbers.
LEMMA SumExists ==
    ASSUME NEW s \in Seq(OutPutItem), NEW n \in 0..Len(s)
    PROVE  \E g \in [0..n -> Int] : IsSum(g, s, n)
<1> DEFINE S == {m \in Nat : m <= Len(s) => \E g \in [0..m -> Int] : IsSum(g, s, m)}
<1>1. Len(s) \in Nat
  OBVIOUS
<1>2. 0 \in S
  <2> DEFINE g == [i \in 0..0 |-> 0]
  <2>1. g \in [0..0 -> Int] /\ IsSum(g, s, 0)
    BY DEF IsSum
  <2> QED
    BY <2>1
<1>3. ASSUME NEW m \in Nat, m \in S
      PROVE  m + 1 \in S
  <2>1. SUFFICES ASSUME m + 1 <= Len(s)
                 PROVE  \E h \in [0..(m + 1) -> Int] : IsSum(h, s, m + 1)
    OBVIOUS
  <2>2. PICK g \in [0..m -> Int] : IsSum(g, s, m)
    BY <1>1, <1>3, <2>1
  <2> DEFINE h == [i \in 0..(m + 1) |-> IF i = m + 1 THEN g[m] + s[m + 1].Value ELSE g[i]]
  <2>3. s[m + 1].Value \in Int
    BY <1>1, <2>1, ValueType
  <2>4. h \in [0..(m + 1) -> Int]
    BY <2>2, <2>3
  <2>5. \A i \in 0..m : g[i] = IF i = 0 THEN 0 ELSE g[i - 1] + s[i].Value
    BY <2>2 DEF IsSum
  <2>6. \A i \in 0..(m + 1) : h[i] = IF i = 0 THEN 0 ELSE h[i - 1] + s[i].Value
    <3>1. ASSUME NEW i \in 0..(m + 1)
          PROVE  h[i] = IF i = 0 THEN 0 ELSE h[i - 1] + s[i].Value
      <4>1. CASE i = m + 1
        BY <4>1
      <4>2. CASE i # m + 1
        <5>1. /\ i \in 0..m
              /\ h[i] = g[i]
              /\ i # 0 => i - 1 \in 0..(m + 1) /\ i - 1 # m + 1 /\ h[i - 1] = g[i - 1]
          BY <4>2
        <5> HIDE DEF h
        <5> QED
          BY <2>5, <5>1
      <4> QED
        BY <4>1, <4>2
    <3> QED
      BY <3>1
  <2>7. IsSum(h, s, m + 1)
    <3>1. h = [i \in 0..(m + 1) |-> h[i]]
      OBVIOUS
    <3> HIDE DEF h
    <3> QED
      BY <2>6, <3>1 DEF IsSum
  <2> QED
    BY <2>4, <2>7
<1>4. \A m \in Nat : m \in S
  <2> HIDE DEF S
  <2> QED
    BY <1>2, <1>3, SetInduction
<1> QED
  BY <1>1, <1>4

\* Two of them agree where both are defined.
LEMMA SumsAgree ==
    ASSUME NEW s \in Seq(OutPutItem), NEW n \in Nat, NEW m \in 0..n,
           NEW g, IsSum(g, s, n), NEW h, IsSum(h, s, m)
    PROVE  \A i \in 0..m : g[i] = h[i]
<1> DEFINE S == {i \in Nat : i <= m => g[i] = h[i]}
<1>1. \A i \in 0..n : g[i] = IF i = 0 THEN 0 ELSE g[i - 1] + s[i].Value
  BY DEF IsSum
<1>2. \A i \in 0..m : h[i] = IF i = 0 THEN 0 ELSE h[i - 1] + s[i].Value
  BY DEF IsSum
<1>3. 0 \in S
  BY <1>1, <1>2
<1>4. ASSUME NEW i \in Nat, i \in S
      PROVE  i + 1 \in S
  BY <1>1, <1>2, <1>4
<1>5. \A i \in Nat : i \in S
  <2> HIDE DEF S
  <2> QED
    BY <1>3, <1>4, SetInduction
<1> QED
  BY <1>5

\* Total is the sum.
LEMMA TotalIs ==
    ASSUME NEW s \in Seq(OutPutItem), NEW n \in 0..Len(s),
           NEW g, IsSum(g, s, n), NEW m \in 0..n
    PROVE  Total(s, m) = g[m]
<1> DEFINE t == CHOOSE f : f = [i \in 0..m |-> IF i = 0 THEN 0 ELSE f[i - 1] + s[i].Value]
<1>1. m \in 0..Len(s) /\ m \in 0..m /\ n \in Nat
  <2>1. Len(s) \in Nat
    OBVIOUS
  <2> QED
    BY <2>1
<1>2. PICK h \in [0..m -> Int] : IsSum(h, s, m)
  BY <1>1, SumExists
<1>3. t = [i \in 0..m |-> IF i = 0 THEN 0 ELSE t[i - 1] + s[i].Value]
  BY <1>2 DEF IsSum
<1>4. Total(s, m) = t[m]
  BY DEF Total
<1> HIDE DEF t
<1>5. IsSum(t, s, m)
  BY <1>3 DEF IsSum
<1>6. \A i \in 0..m : g[i] = t[i]
  BY <1>1, <1>5, SumsAgree
<1> QED
  BY <1>1, <1>4, <1>6

\* The value of n inputs is that of n - 1 and the value of the last.
LEMMA TotalStep ==
    ASSUME NEW s \in Seq(OutPutItem)
    PROVE  /\ Total(s, 0) = 0
           /\ \A n \in 0..Len(s) : Total(s, n) \in Int
           /\ \A n \in 1..Len(s) : Total(s, n) = Total(s, n - 1) + s[n].Value
<1>1. Len(s) \in Nat
  OBVIOUS
<1>2. Total(s, 0) = 0
  <2>1. 0 \in 0..Len(s)
    BY <1>1
  <2>2. PICK g \in [0..0 -> Int] : IsSum(g, s, 0)
    BY <2>1, SumExists
  <2>3. g[0] = 0
    BY <2>2 DEF IsSum
  <2> QED
    BY <2>1, <2>2, <2>3, TotalIs
<1>3. ASSUME NEW n \in 0..Len(s)
      PROVE  Total(s, n) \in Int
  <2>1. PICK g \in [0..n -> Int] : IsSum(g, s, n)
    BY SumExists
  <2> QED
    BY <2>1, TotalIs
<1>4. ASSUME NEW n \in 1..Len(s)
      PROVE  Total(s, n) = Total(s, n - 1) + s[n].Value
  <2>1. /\ n \in 0..Len(s) /\ n \in Nat
        /\ n - 1 \in 0..Len(s) /\ n - 1 \in 0..n
        /\ n \in 0..n /\ n # 0 /\ n - 1 \in 0..(n - 1)
    BY <1>1
  <2>2. PICK g \in [0..n -> Int] : IsSum(g, s, n)
    BY <2>1, SumExists
  <2>5. g[n] = g[n - 1] + s[n].Value
    BY <2>1, <2>2 DEF IsSum
  <2> QED
    BY <2>1, <2>2, <2>5, TotalIs
<1> QED
  BY <1>2, <1>3, <1>4

\* What Plus does.
LEMMA PlusIs ==
    ASSUME NEW x \in Int, NEW y \in Int
    PROVE  /\ x + y >= Half => Plus(x, y) = x + y - 2 * Half
           /\ x + y < -Half => Plus(x, y) = x + y + 2 * Half
           /\ (-Half <= x + y /\ x + y < Half) => Plus(x, y) = x + y
<1>1. Half \in Int /\ Half > 0
  BY WalletAssumption
<1>2. CASE x + y >= Half
  <2>1. ~(x + y < -Half) /\ ~(x + y < Half)
    BY <1>1, <1>2
  <2>2. Plus(x, y) = x + y - 2 * Half
    BY <1>2, <2>1 DEF Plus
  <2> QED
    BY <2>1, <2>2
<1>3. CASE x + y < -Half
  <2>1. ~(x + y >= Half) /\ ~(-Half <= x + y)
    BY <1>1, <1>3
  <2>2. Plus(x, y) = x + y + 2 * Half
    BY <1>3, <2>1 DEF Plus
  <2> QED
    BY <2>1, <2>2
<1>4. CASE -Half <= x + y /\ x + y < Half
  <2>1. ~(x + y >= Half) /\ ~(x + y < -Half)
    BY <1>1, <1>4
  <2>2. Plus(x, y) = x + y
    BY <1>4, <2>1 DEF Plus
  <2> QED
    BY <2>1, <2>2
<1> QED
  BY <1>1, <1>2, <1>3, <1>4

\* As long as no sum of them wraps, spendValue is the value of the inputs.
LEMMA SpentIs ==
    ASSUME NEW s \in Seq(OutPutItem), NEW n \in 0..Len(s),
           \A k \in 1..n : Total(s, k) \in Int64
    PROVE  Spent(s, n) = Total(s, n)
<1> DEFINE g == [i \in 0..n |-> Total(s, i)]
           t == CHOOSE f : f = [i \in 0..n |-> IF i = 0 THEN 0 ELSE Plus(f[i - 1], s[i].Value)]
           S == {i \in Nat : i <= n => t[i] = g[i]}
<1>1. /\ Len(s) \in Nat /\ n \in Nat
      /\ Half \in Nat \ {0}
      /\ Total(s, 0) = 0
  BY TotalStep, WalletAssumption
<1>2. \A k \in 0..n : Total(s, k) \in Int64
  <2>1. 0 \in Int64
    BY <1>1 DEF Int64
  <2> QED
    BY <1>1, <2>1
<1>3. ASSUME NEW i \in 1..n
      PROVE  g[i] = Plus(g[i - 1], s[i].Value)
  <2> DEFINE x == g[i - 1]
             y == s[i].Value
  <2>1. /\ i \in 1..Len(s) /\ i \in 0..n
        /\ i - 1 \in 0..n
    BY <1>1
  <2>2. /\ g[i] = Total(s, i) /\ x = Total(s, i - 1)
        /\ g[i] \in Int64 /\ x \in Int64
        /\ y \in Int64
    BY <1>2, <2>1, ValueType
  <2>3. g[i] = x + y
    BY <2>1, <2>2, TotalStep
  <2> HIDE DEF g, x, y
  <2>4. /\ x \in Int /\ y \in Int
        /\ -Half <= x + y /\ x + y < Half
    BY <1>1, <2>2, <2>3 DEF Int64
  <2>5. Plus(x, y) = x + y
    BY <2>4, PlusIs
  <2> QED
    BY <2>3, <2>5 DEF x, y
<1>4. g = [i \in 0..n |-> IF i = 0 THEN 0 ELSE Plus(g[i - 1], s[i].Value)]
  <2>1. ASSUME NEW i \in 0..n
        PROVE  g[i] = IF i = 0 THEN 0 ELSE Plus(g[i - 1], s[i].Value)
    <3>1. CASE i = 0
      BY <1>1, <3>1
    <3>2. CASE i # 0
      <4>1. i \in 1..n
        BY <1>1, <3>2
      <4> QED
        BY <1>3, <3>2, <4>1
    <3> QED
      BY <3>1, <3>2
  <2>2. g = [i \in 0..n |-> g[i]]
    OBVIOUS
  <2> HIDE DEF g
  <2> QED
    BY <2>1, <2>2
<1>5. t = [i \in 0..n |-> IF i = 0 THEN 0 ELSE Plus(t[i - 1], s[i].Value)]
  <2> HIDE DEF g
  <2> QED
    BY <1>4
<1>6. Spent(s, n) = t[n]
  BY DEF Spent
<1>7. g[n] = Total(s, n)
  BY <1>1
<1> HIDE DEF g, t
<1>8. 0 \in S
  <2>1. 0 \in 0..n
    BY <1>1
  <2>2. g[0] = 0
    BY <1>4, <2>1
  <2>3. t[0] = 0
    BY <1>5, <2>1
  <2> QED
    BY <2>2, <2>3
<1>9. ASSUME NEW i \in Nat, i \in S
      PROVE  i + 1 \in S
  <2>1. SUFFICES ASSUME i + 1 <= n
                 PROVE  t[i + 1] = g[i + 1]
    OBVIOUS
  <2>2. /\ i + 1 \in 0..n /\ i + 1 # 0 /\ (i + 1) - 1 = i
        /\ t[i] = g[i]
    BY <1>1, <1>9, <2>1
  <2>3. g[i + 1] = Plus(g[(i + 1) - 1], s[i + 1].Value)
    BY <1>4, <2>2
  <2>4. t[i + 1] = Plus(t[(i + 1) - 1], s[i + 1].Value)
    BY <1>5, <2>2
  <2> QED
    BY <2>2, <2>3, <2>4
<1>10. \A i \in Nat : i \in S
  <2> HIDE DEF S
  <2> QED
    BY <1>8, <1>9, SetInduction
<1> QED
  BY <1>1, <1>6, <1>7, <1>10

-----------------------------------------------------------------------------
(* What the operators return *)

LEMMA RequestType ==
    ASSUME NEW r \in Requests
    PROVE  /\ r.Inputs \in Seq(OutPutItem)
           /\ Len(r.Inputs) \in Nat
           /\ r.Change \in Int /\ r.Amount \in Int /\ r.Fee \in Int
           /\ r.Change \in Int64 /\ r.Amount \in Int64 /\ r.Fee \in Int64
<1>1. r \in SignInput
  BY WalletAssumption
<1>2. /\ r.Inputs \in Seq(OutPutItem)
      /\ r.Change \in Int64 /\ r.Amount \in Int64 /\ r.Fee \in Int64
  BY <1>1 DEF SignInput
<1>3. \A x \in Int64 : x \in Int
  BY WalletAssumption DEF Int64
<1>4. Len(r.Inputs) \in Nat
  BY <1>2
<1>5. r.Change \in Int /\ r.Amount \in Int /\ r.Fee \in Int
  BY <1>2, <1>3
<1> QED
  BY <1>2, <1>4, <1>5

\* Unless it wraps, what is needed is the change, the amount and the fee.
LEMMA NeededIs ==
    ASSUME NEW r \in Requests, ~Wraps(r)
    PROVE  Needed(r) = r.Change + r.Amount + r.Fee
<1> DEFINE c == r.Change
           a == r.Amount
           f == r.Fee
           m == Plus(c, a)
<1>1. /\ Half \in Nat \ {0}
      /\ c \in Int64 /\ a \in Int64 /\ f \in Int64
      /\ c + a + f \in Int64
  BY RequestType, WalletAssumption DEF Wraps
<1>2. Needed(r) = Plus(m, f)
  BY DEF Needed
<1> HIDE DEF c, a, f
<1>3. /\ c \in Int /\ a \in Int /\ f \in Int
      /\ -Half <= c + a + f /\ c + a + f < Half
      /\ -Half <= c /\ c < Half
      /\ -Half <= a /\ a < Half
  BY <1>1 DEF Int64
<1>4. m \in {c + a, c + a - 2 * Half, c + a + 2 * Half}
      /\ m \in Int /\ -Half <= m /\ m < Half
  <2>1. c + a >= Half => m = c + a - 2 * Half
    BY <1>3, PlusIs DEF m
  <2>2. c + a < -Half => m = c + a + 2 * Half
    BY <1>3, PlusIs DEF m
  <2>3. (-Half <= c + a /\ c + a < Half) => m = c + a
    BY <1>3, PlusIs DEF m
  <2> HIDE DEF m
  <2> QED
    BY <1>1, <1>3, <2>1, <2>2, <2>3
<1> HIDE DEF m
<1>5. Plus(m, f) = c + a + f
  <2>1. m + f >= Half => Plus(m, f) = m + f - 2 * Half
    BY <1>3, <1>4, PlusIs
  <2>2. m + f < -Half => Plus(m, f) = m + f + 2 * Half
    BY <1>3, <1>4, PlusIs
  <2>3. (-Half <= m + f /\ m + f < Half) => Plus(m, f) = m + f
    BY <1>3, <1>4, PlusIs
  <2> DEFINE q == Plus(m, f)
  <2> HIDE DEF q
  <2>4. CASE m = c + a
    BY <1>1, <1>3, <2>3, <2>4
  <2>5. CASE m = c + a - 2 * Half
    BY <1>1, <1>3, <1>4, <2>2, <2>5
  <2>6. CASE m = c + a + 2 * Half
    BY <1>1, <1>3, <1>4, <2>1, <2>6
  <2> QED
    BY <1>4, <2>4, <2>5, <2>6
<1> QED
  BY <1>2, <1>5 DEF c, a, f

\* The loop stops at the first input with which it has enough, or takes all.
LEMMA SelectedIs ==
    ASSUME NEW r \in Requests
    PROVE  \/ /\ Selected(r) \in 1..Len(r.Inputs)
              /\ Enough(r, Selected(r))
              /\ \A k \in 1..(Selected(r) - 1) : ~Enough(r, k)
           \/ /\ Selected(r) = Len(r.Inputs)
              /\ \A n \in 1..Len(r.Inputs) : ~Enough(r, n)
<1> DEFINE First(n) == Enough(r, n) /\ \A k \in 1..(n - 1) : ~Enough(r, k)
<1>1. CASE ~\E n \in 1..Len(r.Inputs) : Enough(r, n)
  BY <1>1 DEF Selected
<1>2. CASE \E n \in 1..Len(r.Inputs) : Enough(r, n)
  <2> DEFINE T == {n \in 1..Len(r.Inputs) : Enough(r, n)}
  <2>1. Len(r.Inputs) \in Nat
    BY RequestType
  <2>2. PICK n \in T : \A k \in T : n <= k
    <3>1. T # {} /\ T \subseteq Nat
      BY <1>2, <2>1
    <3> HIDE DEF T
    <3> QED
      BY <3>1, LeastNumber
  <2>3. ASSUME NEW k \in 1..(n - 1)
        PROVE  ~Enough(r, k)
    <3>1. k \in 1..Len(r.Inputs) /\ ~(n <= k)
      BY <2>1, <2>2
    <3> QED
      BY <2>2, <3>1
  <2>4. n \in 1..Len(r.Inputs) /\ First(n)
    BY <2>2, <2>3
  <2>5. Selected(r) = CHOOSE m \in 1..Len(r.Inputs) : First(m)
    BY <1>2 DEF Selected
  <2> HIDE DEF First
  <2>6. Selected(r) \in 1..Len(r.Inputs) /\ First(Selected(r))
    BY <2>4, <2>5
  <2> QED
    BY <2>6 DEF First
<1> QED
  BY <1>1, <1>2

LEMMA SelectedType ==
    ASSUME NEW r \in Requests
    PROVE  Selected(r) \in 0..Len(r.Inputs) /\ Selected(r) \in Nat
<1>1. Len(r.Inputs) \in Nat
  BY RequestType
<1> QED
  BY <1>1, SelectedIs

\* What SpendsJustEnough says of a call, of any request.
LEMMA SelectedIsEnough ==
    ASSUME NEW r \in Requests, ~Wraps(r), ~(r.Change < 0)
    PROVE  LET n == Selected(r)
               spent == Total(r.Inputs, n)
           IN  /\ Total(r.Inputs, Len(r.Inputs)) >= Paid(r) => spent >= Paid(r)
               /\ (n > 0 /\ spent >= Paid(r)) =>
                    \/ spent - Paid(r) < r.Inputs[n].Value
                    \/ n = 1 /\ Paid(r) <= 0
<1> DEFINE n == Selected(r)
           T(i) == Total(r.Inputs, i)
           p == Paid(r)
<1>1. /\ r.Inputs \in Seq(OutPutItem)
      /\ Len(r.Inputs) \in Nat
      /\ n \in 0..Len(r.Inputs)
  BY RequestType, SelectedType
<1>2. /\ T(0) = 0
      /\ \A i \in 0..Len(r.Inputs) : T(i) \in Int
      /\ \A i \in 1..Len(r.Inputs) : T(i) = T(i - 1) + r.Inputs[i].Value
  BY <1>1, TotalStep
<1>3. p \in Int /\ Needed(r) = p
  <2>1. /\ r.Change \in Int /\ r.Amount \in Int /\ r.Fee \in Int
        /\ Needed(r) = r.Change + r.Amount + r.Fee
    BY RequestType, NeededIs
  <2>2. p = r.Amount + r.Change + r.Fee
    <3>1. r.Change = IF r.Change > 0 THEN r.Change ELSE 0
      BY <2>1
    <3> QED
      BY <3>1 DEF Paid
  <2> QED
    BY <2>1, <2>2
<1>4. ASSUME NEW i \in 1..Len(r.Inputs)
      PROVE  Enough(r, i) <=> T(i) >= p
  <2>1. i \in 0..Len(r.Inputs) /\ \A k \in 1..i : T(k) \in Int64
    BY <1>1 DEF Wraps
  <2>2. Spent(r.Inputs, i) = T(i)
    BY <1>1, <2>1, SpentIs
  <2> QED
    BY <1>3, <2>2 DEF Enough
<1> HIDE DEF n, T, p
<1>5. CASE /\ n \in 1..Len(r.Inputs)
           /\ Enough(r, n)
           /\ \A k \in 1..(n - 1) : ~Enough(r, k)
  <2>1. /\ n \in 0..Len(r.Inputs) /\ n - 1 \in 0..Len(r.Inputs)
        /\ T(n) \in Int /\ T(n - 1) \in Int
        /\ T(n) = T(n - 1) + r.Inputs[n].Value
        /\ r.Inputs[n].Value \in Int
    BY <1>1, <1>2, <1>5, ValueType
  <2>2. T(n) >= p
    BY <1>4, <1>5
  <2>3. T(n - 1) < p \/ (n = 1 /\ p <= 0)
    <3>1. CASE n = 1
      <4>1. T(n - 1) = 0
        BY <1>2, <3>1
      <4> QED
        BY <1>3, <3>1, <4>1
    <3>2. CASE n # 1
      <4>1. n - 1 \in 1..(n - 1) /\ n - 1 \in 1..Len(r.Inputs)
        BY <1>1, <1>5, <3>2
      <4>2. ~(T(n - 1) >= p)
        BY <1>4, <1>5, <4>1
      <4> QED
        BY <1>3, <2>1, <4>2
    <3> QED
      BY <3>1, <3>2
  <2>4. T(n) - p < r.Inputs[n].Value \/ (n = 1 /\ p <= 0)
    BY <1>3, <2>1, <2>3
  <2> QED
    BY <2>2, <2>4 DEF n, T, p
<1>6. CASE /\ n = Len(r.Inputs)
           /\ \A i \in 1..Len(r.Inputs) : ~Enough(r, i)
  <2>1. ~(n > 0 /\ T(n) >= p)
    <3>1. SUFFICES ASSUME n > 0
                   PROVE  ~(T(n) >= p)
      OBVIOUS
    <3>2. n \in 1..Len(r.Inputs)
      BY <1>1, <1>6, <3>1
    <3> QED
      BY <1>4, <1>6, <3>2
  <2> QED
    BY <1>6, <2>1 DEF n, T, p
<1>7. (/\ n \in 1..Len(r.Inputs)
       /\ Enough(r, n)
       /\ \A k \in 1..(n - 1) : ~Enough(r, k))
      \/ (/\ n = Len(r.Inputs)
          /\ \A i \in 1..Len(r.Inputs) : ~Enough(r, i))
  BY SelectedIs DEF n
<1> QED
  BY <1>5, <1>6, <1>7

\* A wallet decrypted is the file, sealed under that password.
LEMMA DecryptedIs ==
    ASSUME TypeOK, NEW p \in Passwords
    PROVE  IF file \in Wallet /\ file.password = p
           THEN Decrypted(p) = file /\ Decrypted(p) # NULL
           ELSE Decrypted(p) = NULL
BY WalletAssumption DEF TypeOK, Decrypted

\* The list detected is a list, and one the words are valid in, unless they are
\* traditional Chinese ones.
LEMMA DetectedIs ==
    ASSUME NEW w \in Wallet
    PROVE  /\ Detected(w) \in Lists
           /\ ~ValidIn(w, Detected(w)) => w.list = "chinese_traditional" /\ ~w.simplified
BY DEF Wallet, Detected, Lists, ValidIn

-----------------------------------------------------------------------------
(* The invariant *)

\* How a call can have ended without signing or dying.
LEMMA EndedIs ==
    ASSUME NEW o \in {"none", "true", "false", "res0"}, last' = Ended(o), TypeOK
    PROVE  /\ last'.outcome = o
           /\ last'.outcome \in {"none", "true", "false", "res0", "res1", "panic"}
           /\ last'.signer \in {NULL} \cup Wallet
           /\ last'.request \in {NULL, UNREADABLE} \cup Requests
           /\ last'.used \in Nat
           /\ last'.password \in {NULL} \cup Passwords
           /\ Ending' /\ PanicsOnlyOver'
           /\ last'.outcome # "res1"
BY DEF Ended, Ending, PanicsOnlyOver

LEMMA DiedOverRequest ==
    ASSUME last' = [Ended("panic") EXCEPT !.request = UNREADABLE]
    PROVE  /\ last'.outcome = "panic"
           /\ last'.outcome \in {"none", "true", "false", "res0", "res1", "panic"}
           /\ last'.signer \in {NULL} \cup Wallet
           /\ last'.request \in {NULL, UNREADABLE} \cup Requests
           /\ last'.used \in Nat
           /\ last'.password \in {NULL} \cup Passwords
           /\ Ending' /\ PanicsOnlyOver'
           /\ last'.outcome # "res1"
BY DEF Ended, Ending, PanicsOnlyOver

LEMMA InvInit == Init => Inv
BY WalletAssumption
   DEF Init, Ended, Lists, Inv, TypeOK, Writing, Reporting, Ending, CreatedIsKept,
       PanicsOnlyOver

LEMMA GenerateStep ==
    ASSUME Inv, GenerateMnWallet
    PROVE  Inv'
<1> USE WalletAssumption
<1>1. CASE GenerateRefused
  BY <1>1, EndedIs
     DEF GenerateRefused, Inv, TypeOK, Writing, Reporting, CreatedIsKept
<1>7. CASE GeneratePanics
  BY <1>7, DiedOverRequest
     DEF GeneratePanics, Inv, TypeOK, Writing, Reporting, CreatedIsKept
<1>2. ASSUME NEW language \in Lists \cup {"other"}, NEW p \in Passwords,
             NewMnemonic(language, p)
      PROVE  Inv'
  <2>1. wordList' \in Lists
    BY <1>2 DEF NewMnemonic, ListAfter, Inv, TypeOK
  <2>2. attempts' = attempts + 1 /\ attempts' \in 1..MaxWallets
    BY <1>2 DEF NewMnemonic, Inv, TypeOK
  <2>3. draft' \in Wallet /\ draft'.id = attempts'
    BY <1>2, <2>1, <2>2 DEF NewMnemonic, Wallet
  <2> QED
    BY <1>2, <2>1, <2>2, <2>3, EndedIs
       DEF NewMnemonic, Inv, TypeOK, Writing, Reporting, CreatedIsKept
<1>3. CASE OpenFile
  BY <1>3 DEF OpenFile, Inv, TypeOK, Writing, Reporting, Ending, CreatedIsKept,
              PanicsOnlyOver, Wallet
<1>4. CASE OpenFails
  BY <1>4, EndedIs
     DEF OpenFails, Inv, TypeOK, Writing, Reporting, CreatedIsKept
<1>5. CASE WriteAll
  BY <1>5, EndedIs
     DEF WriteAll, Inv, TypeOK, Writing, Reporting, CreatedIsKept, Wallet
<1>6. CASE WriteFails
  BY <1>6, EndedIs
     DEF WriteFails, Inv, TypeOK, Writing, Reporting, CreatedIsKept
<1> QED
  BY <1>1, <1>2, <1>3, <1>4, <1>5, <1>6, <1>7 DEF GenerateMnWallet

LEMMA ProcessStep ==
    ASSUME Inv, Crash \/ Restart
    PROVE  Inv'
<1>1. CASE Crash
  BY <1>1, EndedIs
     DEF Crash, Inv, TypeOK, Writing, Reporting, CreatedIsKept, Wallet
<1>2. CASE Restart
  BY <1>2 DEF Restart, Inv, TypeOK, Writing, Reporting, Ending, CreatedIsKept,
              PanicsOnlyOver, Lists
<1> QED
  BY <1>1, <1>2

LEMMA SignStep ==
    ASSUME Inv, NEW r \in Requests, NEW p \in Passwords,
           SignUnknownCoin(r) \/ SignPanics(r, p) \/ SignRawTransaction(r, p)
    PROVE  Inv'
<1>1. CASE SignUnknownCoin(r)
  BY <1>1, EndedIs
     DEF SignUnknownCoin, Inv, TypeOK, Writing, Reporting, CreatedIsKept
<1>2. CASE SignPanics(r, p)
  <2>1. /\ last'.outcome = "panic"
        /\ last'.password = p
        /\ last'.signer = NULL /\ last'.request = NULL /\ last'.used = 0
    BY <1>2 DEF SignPanics, Ended
  <2>2. wordList' \in Lists /\ PanicsOnlyOver'
    <3>1. CASE Decrypted(p) = NULL
      BY <1>2, <2>1, <3>1, DecryptedIs DEF SignPanics, Inv, TypeOK, PanicsOnlyOver
    <3>2. CASE Decrypted(p) # NULL
      <4>1. file \in Wallet /\ file.password = p /\ Decrypted(p) = file
        BY <3>2, DecryptedIs DEF Inv
      <4>2. wordList' = Detected(file) /\ ~ValidIn(file, Detected(file))
        BY <1>2, <3>2, <4>1 DEF SignPanics
      <4>3. file' = file
        BY <1>2 DEF SignPanics
      <4> QED
        BY <2>1, <4>1, <4>2, <4>3, DetectedIs DEF PanicsOnlyOver
    <3> QED
      BY <3>1, <3>2
  <2> QED
    BY <1>2, <2>1, <2>2
       DEF SignPanics, Inv, TypeOK, Writing, Reporting, Ending, CreatedIsKept
<1>3. CASE SignRawTransaction(r, p)
  <2>1. file \in Wallet /\ Decrypted(p) = file
    BY <1>3, DecryptedIs DEF SignRawTransaction, Inv
  <2>2. wordList' \in Lists
    BY <1>3, <2>1, DetectedIs DEF SignRawTransaction
  <2>3. CASE last' = Ended("res0")
    BY <1>3, <2>2, <2>3, EndedIs
       DEF SignRawTransaction, Inv, TypeOK, Writing, Reporting, CreatedIsKept
  <2>4. CASE last' = [Ended("res1") EXCEPT !.signer = file, !.request = r,
                                           !.used = Selected(r)]
    <3>1. /\ last'.outcome = "res1"
          /\ last'.signer = file
          /\ last'.request = r
          /\ last'.used = Selected(r)
          /\ last'.password = NULL
      BY <2>4 DEF Ended
    <3>2. Selected(r) \in Nat
      BY SelectedType
    <3> QED
      BY <1>3, <2>1, <2>2, <3>1, <3>2
         DEF SignRawTransaction, Inv, TypeOK, Writing, Reporting, Ending, CreatedIsKept,
             PanicsOnlyOver
  <2> QED
    BY <1>3, <2>1, <2>3, <2>4 DEF SignRawTransaction
<1> QED
  BY <1>1, <1>2, <1>3

LEMMA InvNext == Inv /\ [Next]_vars => Inv'
<1> SUFFICES ASSUME Inv, [Next]_vars
             PROVE  Inv'
  OBVIOUS
<1>1. CASE GenerateMnWallet
  BY <1>1, GenerateStep
<1>2. CASE HDSignRawTransaction
  <2>1. CASE SignUnreadable
    BY <2>1, DiedOverRequest
       DEF SignUnreadable, Inv, TypeOK, Writing, Reporting, CreatedIsKept
  <2> QED
    BY <1>2, <2>1, SignStep DEF HDSignRawTransaction
<1>3. CASE Crash \/ Restart
  BY <1>3, ProcessStep
<1>4. CASE UNCHANGED vars
  BY <1>4 DEF vars, Inv, TypeOK, Writing, Reporting, Ending, CreatedIsKept,
              PanicsOnlyOver
<1> QED
  BY <1>1, <1>2, <1>3, <1>4 DEF Next

-----------------------------------------------------------------------------
(* The theorems *)

LEMMA Invariant == Spec => []Inv
BY InvInit, InvNext, PTL DEF Spec

\* The file, the word list, the process and the history keep their types.
THEOREM TypeCorrect == Spec => []TypeOK
<1>1. Inv => TypeOK
  BY DEF Inv
<1> QED
  BY <1>1, Invariant, PTL

\* GenerateMnWallet and WriteFile: a wallet reported created stays in the file,
\* whole, and is the one that signs, until the file is opened for another, in
\* whatever order calls fail and the process dies.
THEOREM WalletIsKept == Spec => []CreatedIsKept
<1>1. Inv => CreatedIsKept
  BY DEF Inv
<1> QED
  BY <1>1, Invariant, PTL

\* HDSignRawTransaction, GenerateMnWallet and NewKey: whatever list an earlier
\* call left in the bip39 package, a call dies only over a request that cannot be
\* read, the file, the password, or traditional Chinese words.
THEOREM PanicCauses == Spec => []PanicsOnlyOver
<1>1. Inv => PanicsOnlyOver
  BY DEF Inv
<1> QED
  BY <1>1, Invariant, PTL

\* The loop of SignRawTransaction, for requests of any number of inputs and of
\* any int64s: what it signs covers what is paid, and no input more, unless the
\* sums wrap or the change is below 0.
THEOREM SpendingBound == Spec => []SpendsJustEnough
<1>1. Inv => SpendsJustEnough
  <2>1. SUFFICES ASSUME Inv, last.outcome = "res1", ~Wraps(last.request),
                        ~(last.request.Change < 0)
                 PROVE  SpendsJustEnough
    BY DEF SpendsJustEnough
  <2>2. last.request \in Requests /\ last.used = Selected(last.request)
    BY <2>1 DEF Inv, Ending
  <2> QED
    BY <2>1, <2>2, SelectedIsEnough DEF SpendsJustEnough
<1> QED
  BY <1>1, Invariant, PTL
=============================================================================
