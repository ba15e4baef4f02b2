------------------------- MODULE HIDTransport_proofs -------------------------
(***************************************************************************)
(* Proofs about HIDTransport, for commands and answers of every length and *)
(* every capacity of hidapi's queue: its types, that an answer taken for   *)
(* whole is, that such an exchange leaves no report behind, and that a     *)
(* short command reaches the device whole.                                 *)
(*                                                                         *)
(* What an exchange has read, what hidapi has queued and what the device   *)
(* has still to send are, one after the other, the start of one answer to  *)
(* the command (Exchanging): hidapi's thread only moves a report from the  *)
(* second to the third, unless it drops one, and an unplugged device only  *)
(* cuts the end off.  Reports that ask to wait come before that answer.    *)
(* How far SendData has got is a matter of arithmetic, of which Cut has    *)
(* all that is needed.                                                     *)
(***************************************************************************)
EXTENDS HIDTransport, SequenceTheorems, WellFoundedInduction, TLAPS

\* The reports that are still to be read.
Stream == queue \o out

\* The bytes the first m reports of n bytes carry.
Cut(n, m) ==
    IF m = 0 THEN 0
    ELSE IF m <= Continuations(n) THEN FIRST + ROUND * (m - 1)
    ELSE n

\* What has been read is the start of the answer of n bytes.
Received(n, p) ==
    LET m == Len(recv.pieces)
    IN  /\ m <= Continuations(n) + 1
        /\ recv.offset = Cut(n, m)
        /\ m > 0 => recv.total = n
        /\ \A i \in 1..m :
            /\ recv.pieces[i].report = Response(cmd, n, p)[i]
            /\ recv.pieces[i].bytes = Packets(n)[i]

\* What is to be read goes on from there, once w reports that ask to wait are
\* skipped; they come before anything is read.
Coming(n, p) ==
    LET m == Len(recv.pieces)
    IN  \E w \in 0..Len(Stream) :
            /\ m > 0 => w = 0
            /\ m + Len(Stream) - w <= Continuations(n) + 1
            /\ \A i \in 1..w : Stream[i].kind = "wait"
            /\ \A i \in 1..(Len(Stream) - w) : Stream[w + i] = Response(cmd, n, p)[m + i]

Exchanging ==
    (quiet /\ ~dropped) =>
        /\ pc \in {"writeInit", "write"} => Stream = <<>>
        /\ pc = "init" => Stream = <<>> \/ Stream = <<InitReply>>
        /\ (pc = "idle" /\ result = "OK") => Stream = <<>>
        /\ pc = "read" =>
            \/ Stream = <<>> /\ recv = Nothing
            \/ \E n \in RespLens, p \in Payloads : Received(n, p) /\ Coming(n, p)

\* SendData's locals: nothing is read before the command is written, no more
\* than was announced is read after it, and the command is the whole one.
Local ==
    /\ pc # "idle" => result = "none" /\ sent.len \in SendLens
    /\ pc \in {"writeInit", "init", "write"} => recv = Nothing
    /\ recv.offset <= recv.total
    /\ pc = "read" =>
        /\ recv.pieces = <<>> <=> recv.offset = 0
        /\ recv.offset = 0 \/ recv.offset < recv.total
        /\ sent.announced = Announced(sent.len)
        /\ sent.packets = Packets(sent.len)

Inv == TypeOK /\ Local /\ Exchanging /\ AnswerIntact

-----------------------------------------------------------------------------
(* Lengths *)

\* Where an answer or a command of n bytes is cut.
LEMMA CutIs ==
    ASSUME NEW n \in Nat \ {0}
    PROVE  /\ Continuations(n) \in Nat
           /\ Continuations(n) = 0 => n <= FIRST
           /\ Continuations(n) > 0 =>
                /\ FIRST + ROUND * (Continuations(n) - 1) < n
                /\ n <= FIRST + ROUND * Continuations(n)
<1>1. CASE n <= FIRST
  BY <1>1 DEF Continuations
<1>2. CASE n > FIRST
  <2> DEFINE c == Continuations(n)
  <2>1. c = (n + 1) \div 59
    BY <1>2 DEF Continuations, FIRST, ROUND
  <2>2. n > 57
    BY <1>2 DEF FIRST
  <2> HIDE DEF c
  <2>3. /\ c \in Nat
        /\ 59 * c <= n + 1
        /\ n + 1 < 59 * c + 59
    BY <2>1, <2>2
  <2>4. c > 0
    BY <2>2, <2>3
  <2> QED
    BY <2>3, <2>4 DEF c, FIRST, ROUND
<1> QED
  BY <1>1, <1>2 DEF FIRST

\* Every report but the last is full, and the last has what is left.
LEMMA CutStep ==
    ASSUME NEW n \in Nat \ {0}, NEW m \in 0..Continuations(n)
    PROVE  /\ Cut(n, m) \in Nat
           /\ Cut(n, m) < n
           /\ m > 0 <=> Cut(n, m) > 0
           /\ m + 1 \in 1..(Continuations(n) + 1)
           /\ Packets(n)[m + 1] \in Nat \ {0}
           /\ Packets(n)[m + 1] =
                IF m = 0 THEN Least(FIRST, n) ELSE Least(ROUND, n - Cut(n, m))
           /\ Cut(n, m) + Packets(n)[m + 1] = Cut(n, m + 1)
           /\ Packets(n)[m + 1] <= (IF m = 0 THEN FIRST ELSE ROUND)
           /\ m < Continuations(n) =>
                Packets(n)[m + 1] = IF m = 0 THEN FIRST ELSE ROUND
<1> DEFINE c == Continuations(n)
<1>1. /\ c \in Nat
      /\ c = 0 => n <= FIRST
      /\ c > 0 =>
            /\ FIRST + ROUND * (c - 1) < n
            /\ n <= FIRST + ROUND * c
  BY CutIs
<1>2. Packets(n)[m + 1] =
        IF m = 0 THEN Least(FIRST, n) ELSE Least(ROUND, n - FIRST - ROUND * (m - 1))
  <2>1. m + 1 \in 1..(c + 1) /\ (m + 1 = 1 <=> m = 0) /\ m + 1 - 2 = m - 1
    BY <1>1
  <2> QED
    BY <2>1 DEF Packets
<1> HIDE DEF c
<1>3. m \in 0..c
  BY DEF c
<1>4. m + 1 \in 1..(c + 1)
  BY <1>1, <1>3
<1>5. CASE m = 0
  BY <1>1, <1>2, <1>4, <1>5 DEF Cut, Least, FIRST, ROUND, c
<1>6. CASE m > 0
  <2>1. Cut(n, m) = FIRST + ROUND * (m - 1)
    BY <1>3, <1>6 DEF Cut, c
  <2>2. Cut(n, m + 1) = IF m + 1 <= c THEN FIRST + ROUND * m ELSE n
    BY <1>3, <1>6 DEF Cut, c
  <2>3. Packets(n)[m + 1] = Least(ROUND, n - Cut(n, m))
    BY <1>1, <1>2, <1>3, <1>6, <2>1 DEF FIRST, ROUND
  <2>4. CASE m < c
    <3>1. m <= c - 1 /\ c > 0
      BY <1>1, <1>3, <2>4
    <3>2. FIRST + ROUND * m < n
      BY <1>1, <1>3, <3>1 DEF FIRST, ROUND
    <3>3. Packets(n)[m + 1] = ROUND
      BY <1>3, <2>1, <2>3, <3>2 DEF FIRST, ROUND, Least
    <3>4. Cut(n, m) \in Nat /\ Cut(n, m) > 0 /\ Cut(n, m) < n
      BY <1>3, <1>6, <2>1, <3>2 DEF FIRST, ROUND
    <3>5. Cut(n, m + 1) = Cut(n, m) + ROUND
      BY <1>1, <1>3, <1>6, <2>1, <2>2, <2>4 DEF FIRST, ROUND
    <3> QED
      BY <1>3, <1>4, <1>6, <2>3, <2>4, <3>3, <3>4, <3>5 DEF ROUND, c
  <2>5. CASE m = c
    <3>1. Packets(n)[m + 1] = n - Cut(n, m) /\ n - Cut(n, m) \in 1..ROUND
      BY <1>1, <1>3, <1>6, <2>1, <2>3, <2>5 DEF FIRST, ROUND, Least
    <3> QED
      BY <1>3, <1>4, <1>6, <2>1, <2>2, <2>3, <2>5, <3>1 DEF FIRST, ROUND, c
  <2> QED
    BY <1>1, <1>3, <2>4, <2>5
<1> QED
  BY <1>3, <1>5, <1>6

\* The reports of a command, and those of an answer, are sequences.
LEMMA PacketsType ==
    ASSUME NEW n \in Nat \ {0}
    PROVE  /\ Packets(n) \in Seq(Nat)
           /\ Len(Packets(n)) = Continuations(n) + 1
<1>1. Continuations(n) \in Nat
  BY CutIs
<1>2. \A i \in 1..(Continuations(n) + 1) : Packets(n)[i] \in Nat
  <2>1. ASSUME NEW i \in 1..(Continuations(n) + 1)
        PROVE  Packets(n)[i] \in Nat
    <3>1. i - 1 \in 0..Continuations(n) /\ (i - 1) + 1 = i
      BY <1>1
    <3> QED
      BY <3>1, CutStep
  <2> QED
    BY <2>1
<1>3. Packets(n) \in [1..(Continuations(n) + 1) -> Nat]
  BY <1>2 DEF Packets
<1> QED
  BY <1>1, <1>3

\* A set of numbers that has 0 and every successor has them all.
LEMMA SetInduction ==
    ASSUME NEW S, 0 \in S, \A n \in Nat : n \in S => n + 1 \in S
    PROVE  \A n \in Nat : n \in S
<1> DEFINE Less == {ss \in Nat \X Nat : ss[1] < ss[2]}
           T == {n \in Nat : n \notin S}
<1>1. SUFFICES ASSUME T # {}
               PROVE  FALSE
  OBVIOUS
<1>2. PICK x \in T : \A y \in T : <<y, x>> \notin Less
  <2>1. IsWellFoundedOn(Less, Nat)
    BY NatLessThanWellFounded DEF OpToRel
  <2>2. T \subseteq Nat
    OBVIOUS
  <2> HIDE DEF Less, T
  <2> QED
    BY <1>1, <2>1, <2>2, WFMin
<1>3. x - 1 \in T /\ x - 1 < x
  BY <1>2
<1> QED
  BY <1>2, <1>3

\* The reports of a command carry all of it.
LEMMA PacketsSum ==
    ASSUME NEW n \in Nat \ {0}
    PROVE  Sum(Packets(n)) = n
<1> DEFINE l == Continuations(n) + 1
           g == [i \in 0..l |-> Cut(n, i)]
           f == CHOOSE h : h = [i \in 0..l |-> IF i = 0 THEN 0 ELSE h[i - 1] + Packets(n)[i]]
           S == {i \in Nat : i <= l => f[i] = Cut(n, i)}
<1>1. l \in Nat /\ Continuations(n) \in Nat /\ Len(Packets(n)) = l
  BY CutIs, PacketsType
<1>2. g = [i \in 0..l |-> IF i = 0 THEN 0 ELSE g[i - 1] + Packets(n)[i]]
  <2>1. ASSUME NEW i \in 0..l
        PROVE  g[i] = IF i = 0 THEN 0 ELSE g[i - 1] + Packets(n)[i]
    <3>1. CASE i = 0
      BY <3>1 DEF Cut
    <3>2. CASE i # 0
      <4>1. /\ i - 1 \in 0..Continuations(n) /\ (i - 1) + 1 = i
            /\ i - 1 \in 0..l
        BY <1>1, <3>2
      <4>2. g[i] = Cut(n, i) /\ g[i - 1] = Cut(n, i - 1)
        BY <4>1
      <4>3. Cut(n, i - 1) + Packets(n)[i] = Cut(n, i)
        BY <4>1, CutStep
      <4> QED
        BY <3>2, <4>2, <4>3
    <3> QED
      BY <3>1, <3>2
  <2>2. g = [i \in 0..l |-> g[i]]
    OBVIOUS
  <2> HIDE DEF g, l
  <2> QED
    BY <2>1, <2>2
<1>3. f = [i \in 0..l |-> IF i = 0 THEN 0 ELSE f[i - 1] + Packets(n)[i]]
  <2> HIDE DEF g, l
  <2> QED
    BY <1>2
<1>4. Sum(Packets(n)) = f[l]
  BY <1>1 DEF Sum
<1> HIDE DEF f
<1>5. 0 \in S
  BY <1>1, <1>3 DEF Cut
<1>6. ASSUME NEW i \in Nat, i \in S
      PROVE  i + 1 \in S
  <2>1. SUFFICES ASSUME i + 1 <= l
                 PROVE  f[i + 1] = Cut(n, i + 1)
    OBVIOUS
  <2>2. /\ i \in 0..Continuations(n)
        /\ i + 1 \in 0..l /\ i + 1 # 0 /\ (i + 1) - 1 = i
    BY <1>1, <2>1
  <2>3. f[i + 1] = f[i] + Packets(n)[i + 1]
    BY <1>3, <2>2
  <2>4. f[i] = Cut(n, i)
    BY <1>1, <1>6, <2>1
  <2> QED
    BY <2>2, <2>3, <2>4, CutStep
<1>7. \A i \in Nat : i \in S
  <2> HIDE DEF S
  <2> QED
    BY <1>5, <1>6, SetInduction
<1>8. f[l] = Cut(n, l) /\ Cut(n, l) = n
  BY <1>1, <1>7 DEF Cut
<1> QED
  BY <1>4, <1>8

-----------------------------------------------------------------------------
(* Reports *)

LEMMA ResponseIs ==
    ASSUME NEW k \in 0..MaxCmds, NEW n \in RespLens, NEW p \in Payloads
    PROVE  /\ Response(k, n, p) \in Seq(Report)
           /\ Len(Response(k, n, p)) = Continuations(n) + 1
           /\ Continuations(n) \in Nat
           /\ \A i \in 1..(Continuations(n) + 1) :
                /\ Response(k, n, p)[i].kind = IF i = 1 THEN "first" ELSE "next"
                /\ Response(k, n, p)[i].kind # "wait"
                /\ Response(k, n, p)[i].cmd = k
                /\ Response(k, n, p)[i].index = i
                /\ i = 1 => Response(k, n, p)[i].total = n
<1> DEFINE l == Continuations(n) + 1
           e(i) == [kind |-> IF i = 1 THEN "first" ELSE "next", cmd |-> k, index |-> i,
                    total |-> IF i = 1 THEN n ELSE p]
<1>1. n \in Nat \ {0} /\ p \in Nat
  BY HIDAssumption DEF Payloads
<1>2. l \in Nat /\ Continuations(n) \in Nat
  BY <1>1, CutIs
<1>3. Response(k, n, p) = [i \in 1..l |-> e(i)]
  BY DEF Response
<1>4. \A i \in 1..l : e(i) \in Report
  <2>1. ASSUME NEW i \in 1..l
        PROVE  e(i) \in Report
    <3>1. i \in Nat /\ (IF i = 1 THEN n ELSE p) \in Nat
      BY <1>1, <1>2
    <3> HIDE DEF l
    <3> QED
      BY <3>1 DEF Report
  <2> QED
    BY <2>1
<1>5. Response(k, n, p) \in [1..l -> Report]
  <2> HIDE DEF e, l
  <2> QED
    BY <1>3, <1>4
<1>6. Response(k, n, p) \in Seq(Report) /\ Len(Response(k, n, p)) = l
  <2> HIDE DEF l
  <2> QED
    BY <1>2, <1>5
<1> QED
  BY <1>2, <1>3, <1>6

\* A reply is nothing, or an answer.
LEMMA RepliesAre ==
    ASSUME NEW k \in 0..MaxCmds, NEW r \in DeviceReplies(k)
    PROVE  /\ r \in Seq(Report)
           /\ \/ r = <<>>
              \/ \E n \in RespLens, p \in Payloads : r = Response(k, n, p)
<1>1. CASE r = <<>>
  BY <1>1
<1>2. CASE r # <<>>
  BY <1>2, ResponseIs DEF DeviceReplies
<1> QED
  BY <1>1, <1>2

\* The stream is the queue and then what is to come.
LEMMA StreamIs ==
    ASSUME queue \in Seq(Report), out \in Seq(Report)
    PROVE  /\ Stream \in Seq(Report)
           /\ Len(Stream) = Len(queue) + Len(out)
           /\ \A i \in 1..Len(queue) : Stream[i] = queue[i]
           /\ \A i \in 1..Len(out) : Stream[Len(queue) + i] = out[i]
           /\ Stream = <<>> <=> queue = <<>> /\ out = <<>>
BY DEF Stream

\* A report that arrives leaves it as it is.
LEMMA Arriving ==
    ASSUME NEW q \in Seq(Report), NEW o \in Seq(Report), o # <<>>
    PROVE  Append(q, Head(o)) \o Tail(o) = q \o o
<1>1. /\ Head(o) \in Report /\ Head(o) = o[1]
      /\ Tail(o) \in Seq(Report)
      /\ Len(Tail(o)) = Len(o) - 1
      /\ \A i \in 1..Len(Tail(o)) : Tail(o)[i] = o[i + 1]
      /\ Len(o) \in Nat \ {0} /\ Len(q) \in Nat
  BY HeadTailProperties
<1> DEFINE a == Append(q, Head(o))
           b == a \o Tail(o)
           c == q \o o
<1>2. /\ a \in Seq(Report) /\ Len(a) = Len(q) + 1
      /\ \A i \in 1..Len(q) : a[i] = q[i]
      /\ a[Len(q) + 1] = o[1]
  BY <1>1
<1> HIDE DEF a
<1>3. /\ b \in Seq(Report) /\ Len(b) = Len(q) + Len(o)
      /\ \A i \in 1..Len(b) :
            b[i] = IF i <= Len(q) + 1 THEN a[i] ELSE Tail(o)[i - Len(q) - 1]
  <2> DEFINE t == Tail(o)
  <2>1. t \in Seq(Report) /\ Len(t) = Len(o) - 1
    BY <1>1
  <2>2. b = a \o t
    OBVIOUS
  <2> HIDE DEF t, b
  <2>3. b \in Seq(Report) /\ Len(b) = Len(a) + Len(t)
    BY <1>2, <2>1, <2>2, ConcatProperties
  <2>4. \A i \in 1..Len(b) : b[i] = IF i <= Len(a) THEN a[i] ELSE t[i - Len(a)]
    BY <1>2, <2>1, <2>2, <2>3, ConcatProperties
  <2>5. Len(a) + Len(t) = Len(q) + Len(o)
    BY <1>1, <1>2, <2>1
  <2>6. \A i \in 1..Len(b) : i - Len(a) = i - Len(q) - 1
    BY <1>1, <1>2, <2>3
  <2> QED
    BY <1>2, <2>3, <2>4, <2>5, <2>6 DEF t
<1>4. /\ c \in Seq(Report) /\ Len(c) = Len(q) + Len(o)
      /\ \A i \in 1..Len(c) : c[i] = IF i <= Len(q) THEN q[i] ELSE o[i - Len(q)]
  BY <1>1
<1> HIDE DEF b, c
<1>5. \A i \in 1..Len(b) : b[i] = c[i]
  <2>1. ASSUME NEW i \in 1..Len(b)
        PROVE  b[i] = c[i]
    <3>1. /\ b[i] = IF i <= Len(q) + 1 THEN a[i] ELSE Tail(o)[i - Len(q) - 1]
          /\ i \in Nat /\ i >= 1 /\ i <= Len(q) + Len(o)
      <4>1. b[i] = IF i <= Len(q) + 1 THEN a[i] ELSE Tail(o)[i - Len(q) - 1]
        BY <1>3
      <4>2. Len(b) = Len(q) + Len(o)
        BY <1>3
      <4>3. i \in 1..(Len(q) + Len(o))
        BY <4>2
      <4>4. Len(q) + Len(o) \in Nat
        BY <1>1
      <4> QED
        BY <4>1, <4>3, <4>4
    <3>2. c[i] = IF i <= Len(q) THEN q[i] ELSE o[i - Len(q)]
      BY <1>3, <1>4
    <3>3. CASE i <= Len(q)
      <4>1. i <= Len(q) + 1 /\ i \in 1..Len(q)
        BY <1>1, <3>1, <3>3
      <4>2. a[i] = q[i]
        BY <1>2, <4>1
      <4> QED
        BY <3>1, <3>2, <3>3, <4>1, <4>2
    <3>4. CASE i = Len(q) + 1
      <4>1. i <= Len(q) + 1 /\ ~(i <= Len(q)) /\ i - Len(q) = 1
        BY <1>1, <3>4
      <4>2. a[i] = o[1]
        BY <1>2, <3>4
      <4> QED
        BY <3>1, <3>2, <4>1, <4>2
    <3>5. CASE i > Len(q) + 1
      <4>1. /\ i - Len(q) - 1 \in 1..Len(Tail(o)) /\ i - Len(q) - 1 + 1 = i - Len(q)
            /\ ~(i <= Len(q) + 1) /\ ~(i <= Len(q))
        BY <1>1, <3>1, <3>5
      <4>2. Tail(o)[i - Len(q) - 1] = o[i - Len(q)]
        BY <1>1, <4>1
      <4> QED
        BY <3>1, <3>2, <4>1, <4>2
    <3>6. i <= Len(q) \/ i = Len(q) + 1 \/ i > Len(q) + 1
      BY <1>1, <3>1
    <3> QED
      BY <3>3, <3>4, <3>5, <3>6
  <2> QED
    BY <2>1
<1>6. b = c
  BY <1>3, <1>4, <1>5, SeqEqual
<1> QED
  BY <1>6 DEF a, b, c

\* A report that is read was the first of it.
LEMMA Reading ==
    ASSUME queue \in Seq(Report), out \in Seq(Report), queue # <<>>,
           queue' = Tail(queue), out' = out
    PROVE  /\ queue' \in Seq(Report) /\ Len(queue') = Len(queue) - 1
           /\ Len(Stream) \in Nat \ {0} /\ Len(Stream') = Len(Stream) - 1
           /\ Head(queue) = Stream[1] /\ Head(queue) \in Report
           /\ \A i \in 1..Len(Stream') : Stream'[i] = Stream[i + 1]
<1>1. /\ Head(queue) \in Report /\ Head(queue) = queue[1]
      /\ queue' \in Seq(Report)
      /\ Len(queue') = Len(queue) - 1
      /\ \A i \in 1..Len(queue') : queue'[i] = queue[i + 1]
      /\ Len(queue) \in Nat \ {0} /\ Len(out) \in Nat
  BY HeadTailProperties
<1>2. /\ Len(Stream) = Len(queue) + Len(out)
      /\ Stream[1] = queue[1]
      /\ \A i \in 1..Len(Stream) :
            Stream[i] = IF i <= Len(queue) THEN queue[i] ELSE out[i - Len(queue)]
  BY <1>1 DEF Stream
<1>3. /\ Len(Stream') = Len(queue') + Len(out)
      /\ \A i \in 1..Len(Stream') :
            Stream'[i] = IF i <= Len(queue') THEN queue'[i] ELSE out[i - Len(queue')]
  BY <1>1 DEF Stream
<1>4. ASSUME NEW i \in 1..Len(Stream')
      PROVE  Stream'[i] = Stream[i + 1]
  <2>1. i + 1 \in 1..Len(Stream) /\ i + 1 - Len(queue) = i - Len(queue')
    BY <1>1, <1>2, <1>3
  <2> QED
    BY <1>1, <1>2, <1>3, <2>1
<1> QED
  BY <1>1, <1>2, <1>3, <1>4

-----------------------------------------------------------------------------
(* The invariant: between calls *)

LEMMA NothingType == Nothing \in Answer /\ Nothing.offset = 0 /\ Nothing.total = 0
BY DEF Nothing, Answer

LEMMA InvInit == Init => Inv
<1> SUFFICES ASSUME Init
             PROVE  Inv
  OBVIOUS
<1> USE HIDAssumption DEF Init
<1>1. TypeOK
  <2>1. queue \in Seq(Report) /\ Len(queue) <= QueueMax /\ out \in Seq(Report)
    OBVIOUS
  <2>2. sent \in [len : SendLens \cup {0}, announced : 0..255, packets : Seq(Nat)]
    OBVIOUS
  <2>3. bFirstCmd \in BOOLEAN /\ plugged \in BOOLEAN /\ quiet \in BOOLEAN
    OBVIOUS
  <2>4. gone \in BOOLEAN /\ dropped \in BOOLEAN /\ (gone => handle # 0)
    OBVIOUS
  <2>5. /\ handle \in 0..MaxOpens /\ cmd \in 0..MaxCmds
        /\ opens \in 0..MaxOpens /\ unplugs \in 0..MaxUnplugs
    OBVIOUS
  <2> QED
    BY <2>1, <2>2, <2>3, <2>4, <2>5, NothingType DEF TypeOK, Results
<1>2. Local /\ Exchanging /\ AnswerIntact
  BY NothingType DEF Local, Exchanging, AnswerIntact
<1> QED
  BY <1>1, <1>2 DEF Inv

\* The types of what opening and closing change.
LEMMA OpenType ==
    ASSUME TypeOK, Open \/ OpenFails
    PROVE  /\ handle' \in 0..MaxOpens /\ opens' \in 0..MaxOpens
           /\ gone' \in BOOLEAN /\ (gone' => handle' # 0)
           /\ queue' \in Seq(Report) /\ Len(queue') <= QueueMax
           /\ Open => handle' # 0 /\ queue' = <<>>
           /\ OpenFails => result' \in Results /\ result' # "OK"
<1>1. OpenFails => result' \in Results /\ result' # "OK"
  BY DEF OpenFails, Results
<1>2. ASSUME Open
      PROVE  /\ handle' \in 0..MaxOpens /\ opens' \in 0..MaxOpens /\ handle' # 0
             /\ gone' = FALSE /\ queue' = <<>>
  BY <1>2, HIDAssumption DEF Open, TypeOK
<1>3. ASSUME OpenFails
      PROVE  /\ handle' \in 0..MaxOpens /\ opens' \in 0..MaxOpens
             /\ gone' \in BOOLEAN /\ (gone' => handle' # 0)
             /\ queue' \in Seq(Report) /\ Len(queue') <= QueueMax
  <2>1. opens' = opens /\ opens \in 0..MaxOpens
    BY <1>3 DEF OpenFails, TypeOK
  <2>2. CASE UNCHANGED <<handle, queue, gone>>
    <3>1. handle' = handle /\ queue' = queue /\ gone' = gone
      BY <2>2
    <3> QED
      BY <2>1, <3>1 DEF TypeOK
  <2>3. CASE handle' = 0 /\ queue' = <<>> /\ gone' = FALSE
    <3>1. 0 \in 0..MaxOpens /\ Len(queue') <= QueueMax /\ queue' \in Seq(Report)
      BY <2>3, HIDAssumption
    <3>2. gone' \in BOOLEAN /\ ~gone'
      BY <2>3
    <3> QED
      BY <2>1, <2>3, <3>1, <3>2
  <2> QED
    BY <1>3, <2>2, <2>3 DEF OpenFails
<1>4. <<>> \in Seq(Report) /\ Len(<<>>) <= QueueMax
  BY HIDAssumption
<1> QED
  BY <1>1, <1>2, <1>3, <1>4

LEMMA CloseType ==
    ASSUME Close
    PROVE  /\ handle' = 0 /\ gone' = FALSE /\ bFirstCmd' = FALSE
           /\ handle' \in 0..MaxOpens
           /\ queue' \in Seq(Report) /\ Len(queue') <= QueueMax
BY HIDAssumption DEF Close

\* A call that returns an error, or one of Connect and Disconnect.
LEMMA Ending ==
    ASSUME Inv, pc' = "idle", result' \in Results, result' # "OK",
           handle' \in 0..MaxOpens, opens' \in 0..MaxOpens, bFirstCmd' \in BOOLEAN,
           gone' \in BOOLEAN, gone' => handle' # 0,
           queue' \in Seq(Report), Len(queue') <= QueueMax, out' \in Seq(Report),
           UNCHANGED <<plugged, room, sent, recv, cmd, unplugs, quiet, dropped>>
    PROVE  Inv'
<1>1. TypeOK'
  BY DEF Inv, TypeOK
<1>2. Local'
  BY DEF Inv, Local
<1>3. Exchanging' /\ AnswerIntact'
  BY DEF Exchanging, AnswerIntact
<1> QED
  BY <1>1, <1>2, <1>3 DEF Inv

LEMMA IdleStep ==
    ASSUME Inv, Connect \/ Disconnect \/ SendNotConnected
    PROVE  Inv'
<1>1. TypeOK
  BY DEF Inv
<1>2. CASE Connect
  <2>1. /\ Open \/ OpenFails
        /\ pc' = "idle" /\ result' \in Results /\ result' # "OK"
    BY <1>1, <1>2, OpenType DEF Connect, Results
  <2> QED
    BY <1>1, <1>2, <2>1, OpenType, Ending DEF Connect, TypeOK
<1>3. CASE SendNotConnected
  BY <1>1, <1>3, OpenType, Ending DEF SendNotConnected, TypeOK
<1>4. CASE Disconnect
  <2>1. Close /\ pc' = "idle" /\ result' = "none"
    BY <1>4 DEF Disconnect
  <2> QED
    BY <1>1, <1>4, <2>1, CloseType, Ending DEF Disconnect, TypeOK, Results, history
<1> QED
  BY <1>2, <1>3, <1>4

LEMMA StartStep ==
    ASSUME Inv, NEW n \in SendLens, NEW size \in Rooms, SendStart(n, size)
    PROVE  Inv'
<1>1. TypeOK
  BY DEF Inv
<1>2. /\ bFirstCmd' = FALSE
      /\ pc' = IF bFirstCmd THEN "writeInit" ELSE "write"
      /\ room' = size
      /\ sent' = [len |-> n, announced |-> 0, packets |-> <<>>]
      /\ recv' = Nothing
      /\ result' = "none"
      /\ cmd < MaxCmds /\ cmd' = cmd + 1
      /\ quiet' = (out = <<>> /\ queue' = <<>>)
      /\ dropped' = FALSE
      /\ UNCHANGED <<plugged, out, unplugs>>
  BY DEF SendStart
<1>3. /\ handle' \in 0..MaxOpens /\ opens' \in 0..MaxOpens /\ handle' # 0
      /\ gone' \in BOOLEAN
      /\ queue' \in Seq(Report) /\ Len(queue') <= QueueMax
  <2>1. CASE handle = 0 /\ Open
    BY <1>1, <2>1, OpenType
  <2>2. CASE handle # 0 /\ UNCHANGED <<handle, opens, queue, gone>>
    BY <1>1, <2>2 DEF TypeOK
  <2> QED
    BY <2>1, <2>2 DEF SendStart
<1>4. pc' \in {"writeInit", "write"}
  BY <1>2
<1>5. TypeOK'
  <2>1. sent' \in [len : SendLens \cup {0}, announced : 0..255, packets : Seq(Nat)]
    BY <1>2
  <2>2. cmd' \in 0..MaxCmds
    BY <1>1, <1>2, HIDAssumption DEF TypeOK
  <2>3. quiet' \in BOOLEAN /\ dropped' \in BOOLEAN /\ bFirstCmd' \in BOOLEAN
    BY <1>2
  <2>4. recv' \in Answer /\ result' \in Results
    BY <1>2, NothingType DEF Results
  <2> QED
    BY <1>1, <1>2, <1>3, <1>4, <2>1, <2>2, <2>3, <2>4 DEF TypeOK
<1>6. Local'
  BY <1>2, <1>4, NothingType DEF Local
<1>7. Exchanging'
  <2>1. quiet' => queue' = <<>> /\ out' = <<>>
    BY <1>2
  <2>2. quiet' => Stream' = <<>>
    BY <1>3, <2>1 DEF Stream
  <2> QED
    BY <1>2, <1>4, <2>2 DEF Exchanging
<1>8. AnswerIntact'
  BY <1>2 DEF AnswerIntact
<1> QED
  BY <1>5, <1>6, <1>7, <1>8 DEF Inv

-----------------------------------------------------------------------------
(* The invariant: a call *)

\* What a step of SendData may not change, and what it finds.
LEMMA Busy ==
    ASSUME Inv, pc # "idle"
    PROVE  /\ TypeOK /\ Local /\ Exchanging
           /\ handle # 0 /\ result = "none" /\ result \in Results
           /\ sent.len \in SendLens /\ sent.len \in Nat \ {0}
           /\ queue \in Seq(Report) /\ out \in Seq(Report) /\ recv \in Answer
           /\ cmd \in 0..MaxCmds
BY HIDAssumption DEF Inv, TypeOK, Local

\* A step within a call that leaves the handle and the counters alone.
LEMMA Going ==
    ASSUME Inv, pc # "idle", pc' \in {"init", "write", "read"}, result' = result,
           queue' \in Seq(Report), Len(queue') <= QueueMax, out' \in Seq(Report),
           recv' \in Answer,
           sent' \in [len : SendLens \cup {0}, announced : 0..255, packets : Seq(Nat)],
           UNCHANGED <<device, gone, plugged, room, history>>
    PROVE  /\ TypeOK'
           /\ AnswerIntact'
           /\ result' = "none"
           /\ quiet' = quiet /\ dropped' = dropped /\ cmd' = cmd
<1>1. TypeOK'
  BY Busy DEF Inv, TypeOK, device, history
<1>2. AnswerIntact' /\ result' = "none"
  BY Busy DEF AnswerIntact
<1> QED
  BY <1>1, <1>2 DEF history

LEMMA WriteInitStep ==
    ASSUME Inv, WriteInit
    PROVE  Inv'
<1>1. /\ pc = "writeInit" /\ pc' = "init"
      /\ out' = out \/ out' = Append(out, InitReply)
      /\ UNCHANGED <<device, queue, gone, plugged, room, sent, recv, result, history>>
  BY DEF WriteInit
<1>2. InitReply \in Report
  BY HIDAssumption DEF InitReply, Report
<1>3. out' \in Seq(Report)
  BY <1>1, <1>2, Busy
<1>4. /\ TypeOK' /\ AnswerIntact' /\ result' = "none"
      /\ quiet' = quiet /\ dropped' = dropped
  BY <1>1, <1>3, Busy, Going DEF TypeOK
<1>5. Local'
  BY <1>1, <1>4, Busy DEF Local
<1>6. Exchanging'
  <2>1. SUFFICES ASSUME quiet, ~dropped
                 PROVE  Stream' = <<>> \/ Stream' = <<InitReply>>
    BY <1>1, <1>4 DEF Exchanging
  <2>2. queue = <<>> /\ out = <<>>
    BY <1>1, <2>1, Busy, StreamIs DEF Exchanging
  <2> QED
    BY <1>1, <1>2, <2>2 DEF Stream
<1> QED
  BY <1>4, <1>5, <1>6 DEF Inv

LEMMA ReadInitStep ==
    ASSUME Inv, ReadInit
    PROVE  Inv'
<1>1. /\ pc = "init" /\ pc' = "write"
      /\ queue # <<>> /\ queue' = Tail(queue)
      /\ UNCHANGED <<device, gone, plugged, out, room, sent, recv, result, history>>
  BY DEF ReadInit
<1>2. /\ queue' \in Seq(Report) /\ Len(queue') = Len(queue) - 1
      /\ Len(Stream) \in Nat \ {0} /\ Len(Stream') = Len(Stream) - 1
  BY <1>1, Busy, Reading
<1>3. Len(queue') <= QueueMax
  BY <1>1, <1>2, Busy, HIDAssumption DEF TypeOK
<1>4. /\ TypeOK' /\ AnswerIntact' /\ result' = "none"
      /\ quiet' = quiet /\ dropped' = dropped
  BY <1>1, <1>2, <1>3, Busy, Going DEF TypeOK
<1>5. Local'
  BY <1>1, <1>4, Busy DEF Local
<1>6. Exchanging'
  <2>1. SUFFICES ASSUME quiet, ~dropped
                 PROVE  Stream' = <<>>
    BY <1>1, <1>4 DEF Exchanging
  <2>2. Stream = <<>> \/ Stream = <<InitReply>>
    BY <1>1, <2>1, Busy DEF Exchanging
  <2>3. Len(Stream') = 0
    BY <1>2, <2>2
  <2>4. queue' \in Seq(Report) /\ out' \in Seq(Report)
    BY <1>1, <1>2, Busy
  <2> QED
    BY <2>3, <2>4 DEF Stream
<1> QED
  BY <1>4, <1>5, <1>6 DEF Inv

\* The command is written, and the device answers or does not.
LEMMA WriteStep ==
    ASSUME Inv, WritePackets
    PROVE  Inv'
<1>1. /\ pc = "write" /\ pc' = "read"
      /\ sent' = [sent EXCEPT !.announced = Announced(sent.len),
                              !.packets = Packets(sent.len)]
      /\ UNCHANGED <<device, queue, gone, plugged, room, recv, result, history>>
  BY DEF WritePackets
<1>2. PICK r \in DeviceReplies(cmd) : out' = out \o r
  BY DEF WritePackets
<1>3. r \in Seq(Report)
  BY Busy, <1>1, RepliesAre
<1>4. out' \in Seq(Report)
  BY <1>1, <1>2, <1>3, Busy
<1>5. /\ Announced(sent.len) \in 0..255 /\ Packets(sent.len) \in Seq(Nat)
  <2>1. sent.len \in Nat \ {0}
    BY <1>1, Busy
  <2> DEFINE n == sent.len
  <2> HIDE DEF n
  <2>2. n \in Nat \ {0}
    BY <2>1 DEF n
  <2>3. n % 256 \in 0..255
    BY <2>2
  <2>4. Packets(n) \in Seq(Nat)
    BY <2>2, PacketsType
  <2> QED
    BY <2>3, <2>4 DEF Announced, n
<1>6. /\ sent' \in [len : SendLens \cup {0}, announced : 0..255, packets : Seq(Nat)]
      /\ sent'.len = sent.len
      /\ sent'.announced = Announced(sent.len)
      /\ sent'.packets = Packets(sent.len)
  <2>1. sent \in [len : SendLens \cup {0}, announced : 0..255, packets : Seq(Nat)]
    BY DEF Inv, TypeOK
  <2> DEFINE a == Announced(sent.len)
             q == Packets(sent.len)
  <2>2. sent' = [sent EXCEPT !.announced = a, !.packets = q]
    BY <1>1
  <2>3. a \in 0..255 /\ q \in Seq(Nat)
    BY <1>5
  <2> HIDE DEF a, q
  <2>4. /\ sent' \in [len : SendLens \cup {0}, announced : 0..255, packets : Seq(Nat)]
        /\ sent'.len = sent.len /\ sent'.announced = a /\ sent'.packets = q
    BY <2>1, <2>2, <2>3
  <2> QED
    BY <2>4 DEF a, q
<1>7. /\ TypeOK' /\ AnswerIntact' /\ result' = "none"
      /\ quiet' = quiet /\ dropped' = dropped /\ cmd' = cmd
  BY <1>1, <1>4, <1>6, Busy, Going DEF TypeOK
<1>8. Local'
  <2>1. recv' = Nothing /\ sent'.len \in SendLens
    BY <1>1, <1>6, Busy DEF Local
  <2> QED
    BY <1>1, <1>6, <1>7, <2>1, NothingType DEF Local, Nothing
<1>9. Exchanging'
  <2>1. SUFFICES ASSUME quiet, ~dropped
                 PROVE  \/ Stream' = <<>> /\ recv' = Nothing
                        \/ \E n \in RespLens, p \in Payloads : Received(n, p)' /\ Coming(n, p)'
    BY <1>1, <1>7 DEF Exchanging
  <2>2. queue = <<>> /\ out = <<>> /\ recv = Nothing
    BY <1>1, <2>1, Busy, StreamIs DEF Exchanging, Local
  <2>3. Stream' = r /\ recv' = Nothing
    BY <1>1, <1>2, <1>3, <2>2 DEF Stream
  <2>4. CASE r = <<>>
    BY <2>3, <2>4
  <2>5. CASE \E n \in RespLens, p \in Payloads : r = Response(cmd, n, p)
    <3>1. PICK n \in RespLens, p \in Payloads : r = Response(cmd, n, p)
      BY <2>5
    <3>2. Len(recv'.pieces) = 0 /\ recv'.offset = 0
      BY <2>3 DEF Nothing
    <3>3. /\ Continuations(n) \in Nat
          /\ Len(r) = Continuations(n) + 1
      BY <1>1, <3>1, Busy, ResponseIs
    <3>4. Received(n, p)'
      BY <3>2, <3>3 DEF Received, Cut
    <3>5. Coming(n, p)'
      <4> DEFINE m == Len(recv'.pieces)
                 t == Stream'
      <4>1. m = 0 /\ t = r /\ cmd' = cmd
        BY <1>7, <2>3, <3>2
      <4> HIDE DEF m, t
      <4>2. /\ 0 \in 0..Len(t)
            /\ m > 0 => 0 = 0
            /\ m + Len(t) - 0 <= Continuations(n) + 1
            /\ \A i \in 1..0 : t[i].kind = "wait"
            /\ \A i \in 1..(Len(t) - 0) : t[0 + i] = Response(cmd', n, p)[m + i]
        BY <3>1, <3>3, <4>1
      <4> QED
        BY <4>2 DEF Coming, m, t
    <3> QED
      BY <3>4, <3>5
  <2> QED
    BY <1>1, <2>4, <2>5, Busy, RepliesAre
<1> QED
  BY <1>7, <1>8, <1>9 DEF Inv

\* Every way a call is given up.
LEMMA AbandonStep ==
    ASSUME Inv, ReadInitFails \/ WriteFails \/ ReadNothing
    PROVE  Inv'
<1>1. /\ Abandon
      /\ pc # "idle"
      /\ UNCHANGED <<plugged, room, sent, recv, history>>
  BY DEF ReadInitFails, WriteFails, ReadNothing
<1>2. out' \in Seq(Report)
  <2>1. CASE out' = out
    BY <1>1, <2>1, Busy
  <2>2. CASE \E r \in DeviceReplies(cmd) : out' = out \o r
    BY <1>1, <2>2, Busy, RepliesAre
  <2> QED
    BY <2>1, <2>2 DEF ReadInitFails, WriteFails, ReadNothing
<1>3. Close /\ pc' = "idle" /\ result' = "TRANSMIT_DEVICE_ERROR"
  BY <1>1 DEF Abandon, Return
<1> QED
  BY <1>1, <1>2, <1>3, CloseType, Busy, Ending DEF TypeOK, Results, history

LEMMA ReadWaitStep ==
    ASSUME Inv, ReadWait
    PROVE  Inv'
<1>1. /\ pc = "read" /\ pc' = "read"
      /\ queue # <<>> /\ queue' = Tail(queue)
      /\ Head(queue).kind = "wait"
      /\ UNCHANGED <<device, gone, plugged, out, room, sent, recv, result, history>>
  BY DEF ReadWait
<1>2. /\ queue' \in Seq(Report) /\ Len(queue') = Len(queue) - 1
      /\ Len(Stream) \in Nat \ {0} /\ Len(Stream') = Len(Stream) - 1
      /\ Head(queue) = Stream[1]
      /\ \A i \in 1..Len(Stream') : Stream'[i] = Stream[i + 1]
  BY <1>1, Busy, Reading
<1>3. Len(queue') <= QueueMax
  BY <1>1, <1>2, Busy, HIDAssumption DEF TypeOK
<1>4. /\ TypeOK' /\ AnswerIntact' /\ result' = "none"
      /\ quiet' = quiet /\ dropped' = dropped /\ cmd' = cmd
  BY <1>1, <1>2, <1>3, Busy, Going DEF TypeOK
<1>5. Local'
  BY <1>1, <1>4, Busy DEF Local
<1>6. Exchanging'
  <2>1. SUFFICES ASSUME quiet, ~dropped
                 PROVE  \E n \in RespLens, p \in Payloads : Received(n, p)' /\ Coming(n, p)'
    BY <1>1, <1>4 DEF Exchanging
  <2>2. Stream # <<>>
    BY <1>2
  <2>3. PICK n \in RespLens, p \in Payloads : Received(n, p) /\ Coming(n, p)
    BY <1>1, <2>1, <2>2, Busy DEF Exchanging
  <2>4. Received(n, p)'
    BY <1>1, <1>4, <2>3 DEF Received
  <2>5. Coming(n, p)'
    <3> DEFINE m == Len(recv.pieces)
    <3>1. PICK w \in 0..Len(Stream) :
                /\ m > 0 => w = 0
                /\ m + Len(Stream) - w <= Continuations(n) + 1
                /\ \A i \in 1..w : Stream[i].kind = "wait"
                /\ \A i \in 1..(Len(Stream) - w) : Stream[w + i] = Response(cmd, n, p)[m + i]
      BY <2>3 DEF Coming
    <3>2. m \in Nat /\ Continuations(n) \in Nat
      BY <1>1, Busy, ResponseIs DEF Answer
    <3> HIDE DEF m
    <3>3. w # 0
      <4>1. SUFFICES ASSUME w = 0
                     PROVE  FALSE
        OBVIOUS
      <4>2. 1 \in 1..(Len(Stream) - w) /\ m + 1 \in 1..(Continuations(n) + 1)
        BY <1>2, <3>1, <3>2, <4>1
      <4>3. Stream[1] = Response(cmd, n, p)[m + 1]
        BY <3>1, <4>1, <4>2
      <4> QED
        BY <1>1, <1>2, <4>2, <4>3, Busy, ResponseIs
    <3> DEFINE t == Stream'
               v == w - 1
    <3>4. /\ v \in 0..Len(t) /\ m = 0
          /\ m + Len(t) - v <= Continuations(n) + 1
      BY <1>2, <3>1, <3>2, <3>3
    <3>5. ASSUME NEW i \in 1..v
          PROVE  t[i].kind = "wait"
      <4>1. i \in 1..Len(t) /\ i + 1 \in 1..w
        BY <1>2, <3>1, <3>3
      <4> QED
        BY <1>2, <3>1, <4>1
    <3>6. ASSUME NEW i \in 1..(Len(t) - v)
          PROVE  t[v + i] = Response(cmd, n, p)[m + i]
      <4>1. /\ v + i \in 1..Len(t) /\ v + i + 1 = w + i
            /\ i \in 1..(Len(Stream) - w)
        BY <1>2, <3>1, <3>3
      <4> QED
        BY <1>2, <3>1, <4>1
    <3> HIDE DEF v
    <3>7. /\ v \in 0..Len(t)
          /\ m > 0 => v = 0
          /\ m + Len(t) - v <= Continuations(n) + 1
          /\ \A i \in 1..v : t[i].kind = "wait"
          /\ \A i \in 1..(Len(t) - v) : t[v + i] = Response(cmd, n, p)[m + i]
      <4> HIDE DEF t
      <4> QED
        BY <3>4, <3>5, <3>6
    <3>8. Len(recv'.pieces) = m /\ cmd' = cmd
      BY <1>1, <1>4 DEF m
    <3> QED
      BY <3>7, <3>8 DEF Coming
  <2> QED
    BY <2>4, <2>5
<1> QED
  BY <1>4, <1>5, <1>6 DEF Inv

LEMMA ReadTooMuchStep ==
    ASSUME Inv, ReadTooMuch
    PROVE  Inv'
<1>1. /\ pc = "read" /\ queue # <<>> /\ queue' = Tail(queue)
      /\ pc' = "idle" /\ result' = "BUFFER_TOO_SMALL"
      /\ UNCHANGED <<device, gone, plugged, out, room, sent, recv, history>>
  BY DEF ReadTooMuch, Return
<1>2. queue' \in Seq(Report) /\ Len(queue') = Len(queue) - 1
  BY <1>1, Busy, Reading
<1>3. Len(queue') <= QueueMax
  BY <1>1, <1>2, Busy, HIDAssumption DEF TypeOK
<1> QED
  BY <1>1, <1>2, <1>3, Busy, Ending DEF TypeOK, Results, device, history

\* What a report adds to what has been read.
LEMMA TakenIs ==
    ASSUME NEW a \in Answer, NEW p \in Report, a.offset <= a.total
    PROVE  LET n == IF a.offset = 0 THEN Least(FIRST, p.total)
                    ELSE Least(ROUND, a.total - a.offset)
           IN  /\ n \in Nat
               /\ Taken(a, p) \in Answer
               /\ Taken(a, p).offset = a.offset + n
               /\ Taken(a, p).total = IF a.offset = 0 THEN p.total ELSE a.total
               /\ Taken(a, p).pieces = Append(a.pieces, [report |-> p, bytes |-> n])
               /\ Taken(a, p).offset <= Taken(a, p).total
<1> DEFINE n == IF a.offset = 0 THEN Least(FIRST, p.total)
                ELSE Least(ROUND, a.total - a.offset)
           x == IF a.offset = 0 THEN p.total ELSE a.total
           d == [report |-> p, bytes |-> n]
<1>1. /\ a.offset \in Nat /\ a.total \in Nat /\ p.total \in Nat
      /\ a.pieces \in Seq([report : Report, bytes : Nat])
      /\ a = [total |-> a.total, offset |-> a.offset, pieces |-> a.pieces]
  BY DEF Answer, Report
<1>2. n \in Nat /\ x \in Nat /\ a.offset + n \in Nat /\ a.offset + n <= x
  BY <1>1 DEF Least, FIRST, ROUND
<1>3. Taken(a, p) = [total |-> x, offset |-> a.offset + n, pieces |-> Append(a.pieces, d)]
  <2>1. CASE a.offset = 0
    BY <1>1, <2>1 DEF Taken, Extended
  <2>2. CASE a.offset # 0
    BY <1>1, <2>2 DEF Taken, Extended
  <2> QED
    BY <2>1, <2>2
<1> HIDE DEF n, x
<1>4. d \in [report : Report, bytes : Nat]
  BY <1>2
<1> HIDE DEF d
<1>5. Append(a.pieces, d) \in Seq([report : Report, bytes : Nat])
  BY <1>1, <1>4
<1>6. /\ Taken(a, p) \in Answer
      /\ Taken(a, p).total = x
      /\ Taken(a, p).offset = a.offset + n
      /\ Taken(a, p).pieces = Append(a.pieces, d)
  BY <1>2, <1>3, <1>5 DEF Answer
<1> QED
  BY <1>2, <1>6 DEF n, x, d

\* In a quiet exchange the report read is the next one of the answer.
LEMMA NextReport ==
    ASSUME Inv, ReadReport, quiet, ~dropped
    PROVE  \E n \in RespLens, p \in Payloads :
            /\ Received(n, p)'
            /\ Len(recv.pieces) \in Nat
            /\ Len(recv'.pieces) = Len(recv.pieces) + 1
            /\ Len(Stream') <= Continuations(n) - Len(recv.pieces)
            /\ \A i \in 1..Len(Stream') :
                Stream'[i] = Response(cmd, n, p)[Len(recv'.pieces) + i]
<1>1. /\ pc = "read"
      /\ queue # <<>> /\ queue' = Tail(queue)
      /\ Head(queue).kind # "wait"
      /\ recv' = Taken(recv, Head(queue))
      /\ UNCHANGED <<device, gone, plugged, out, room, sent, history>>
  BY DEF ReadReport
<1>2. /\ Len(Stream) \in Nat \ {0} /\ Len(Stream') = Len(Stream) - 1
      /\ Head(queue) = Stream[1] /\ Head(queue) \in Report
      /\ \A i \in 1..Len(Stream') : Stream'[i] = Stream[i + 1]
  BY <1>1, Busy, Reading
<1>3. PICK n \in RespLens, p \in Payloads : Received(n, p) /\ Coming(n, p)
  BY <1>1, <1>2, Busy DEF Exchanging
<1> DEFINE m == Len(recv.pieces)
           c == Continuations(n)
           R == Response(cmd, n, p)
<1>4. /\ m \in Nat /\ c \in Nat /\ n \in Nat \ {0}
      /\ recv \in Answer /\ recv.offset <= recv.total
      /\ recv.pieces \in Seq([report : Report, bytes : Nat])
      /\ cmd' = cmd
  BY <1>1, Busy, ResponseIs, HIDAssumption DEF Answer, Local, history
<1>5. PICK w \in 0..Len(Stream) :
            /\ m > 0 => w = 0
            /\ m + Len(Stream) - w <= c + 1
            /\ \A i \in 1..w : Stream[i].kind = "wait"
            /\ \A i \in 1..(Len(Stream) - w) : Stream[w + i] = R[m + i]
  BY <1>3 DEF Coming
<1>6. /\ m <= c + 1
      /\ recv.offset = Cut(n, m)
      /\ m > 0 => recv.total = n
      /\ \A i \in 1..m : /\ recv.pieces[i].report = R[i]
                         /\ recv.pieces[i].bytes = Packets(n)[i]
  BY <1>3 DEF Received
<1> HIDE DEF m, c, R
<1>7. w = 0
  <2>1. SUFFICES ASSUME w # 0
                 PROVE  FALSE
    OBVIOUS
  <2>2. 1 \in 1..w
    BY <1>5, <2>1
  <2> QED
    BY <1>1, <1>2, <1>5, <2>2
<1>8. /\ Head(queue) = R[m + 1]
      /\ m \in 0..c /\ m + 1 \in 1..(c + 1)
      /\ Len(Stream') <= c - m
  <2>1. 1 \in 1..(Len(Stream) - w) /\ w + 1 = 1
    BY <1>2, <1>7
  <2>2. Head(queue) = R[m + 1]
    BY <1>2, <1>5, <1>7, <2>1
  <2> QED
    BY <1>2, <1>4, <1>5, <1>7, <2>2
<1>9. \A i \in 1..Len(Stream') : Stream'[i] = R[m + 1 + i]
  <2>1. ASSUME NEW i \in 1..Len(Stream')
        PROVE  Stream'[i] = R[m + 1 + i]
    <3>1. /\ i + 1 \in 1..(Len(Stream) - w) /\ w + (i + 1) = i + 1
          /\ m + (i + 1) = m + 1 + i
      BY <1>2, <1>4, <1>7
    <3> QED
      BY <1>2, <1>5, <3>1
  <2> QED
    BY <2>1
<1>10. /\ m = 0 => Head(queue).total = n
  BY <1>4, <1>8, Busy, <1>1, ResponseIs DEF R, c
<1> DEFINE b == IF recv.offset = 0 THEN Least(FIRST, Head(queue).total)
                ELSE Least(ROUND, recv.total - recv.offset)
<1>11. /\ Cut(n, m) \in Nat
       /\ m > 0 <=> Cut(n, m) > 0
       /\ Packets(n)[m + 1] =
            IF m = 0 THEN Least(FIRST, n) ELSE Least(ROUND, n - Cut(n, m))
       /\ Cut(n, m) + Packets(n)[m + 1] = Cut(n, m + 1)
  BY <1>4, <1>8, CutStep DEF c
<1>12. b = Packets(n)[m + 1]
  <2>1. CASE m = 0
    BY <1>6, <1>10, <1>11, <2>1
  <2>2. CASE m # 0
    BY <1>4, <1>6, <1>11, <2>2
  <2> QED
    BY <2>1, <2>2
<1>13. /\ recv'.offset = recv.offset + b
       /\ recv'.total = IF recv.offset = 0 THEN Head(queue).total ELSE recv.total
       /\ recv'.pieces = Append(recv.pieces, [report |-> Head(queue), bytes |-> b])
  BY <1>1, <1>2, <1>4, TakenIs
<1> HIDE DEF b
<1>14. recv'.offset = Cut(n, m + 1) /\ recv'.total = n
  <2>1. CASE m = 0
    BY <1>6, <1>10, <1>11, <1>12, <1>13, <2>1
  <2>2. CASE m # 0
    BY <1>4, <1>6, <1>11, <1>12, <1>13, <2>2
  <2> QED
    BY <2>1, <2>2
<1>15. /\ Len(recv'.pieces) = m + 1
       /\ \A i \in 1..m : recv'.pieces[i] = recv.pieces[i]
       /\ recv'.pieces[m + 1] = [report |-> Head(queue), bytes |-> b]
  BY <1>4, <1>13 DEF m
<1>16. ASSUME NEW i \in 1..(m + 1)
       PROVE  recv'.pieces[i].report = R[i] /\ recv'.pieces[i].bytes = Packets(n)[i]
  <2>1. CASE i = m + 1
    BY <1>8, <1>12, <1>15, <2>1
  <2>2. CASE i # m + 1
    <3>1. i \in 1..m
      BY <1>4, <2>2
    <3> QED
      BY <1>6, <1>15, <3>1
  <2> QED
    BY <2>1, <2>2
<1>17. Received(n, p)'
  <2>1. Len(recv'.pieces) <= c + 1
    BY <1>4, <1>8, <1>15
  <2> QED
    BY <1>4, <1>14, <1>15, <1>16, <2>1 DEF Received, R, c
<1> QED
  BY <1>4, <1>8, <1>9, <1>15, <1>17 DEF m, c, R

LEMMA ReadReportStep ==
    ASSUME Inv, ReadReport
    PROVE  Inv'
<1>1. /\ pc = "read"
      /\ queue # <<>> /\ queue' = Tail(queue)
      /\ recv' = Taken(recv, Head(queue))
      /\ IF recv'.offset >= recv'.total
         THEN pc' = "idle" /\ result' = "OK"
         ELSE UNCHANGED <<pc, result>>
      /\ UNCHANGED <<device, gone, plugged, out, room, sent, history>>
  BY DEF ReadReport, Return
<1>2. /\ queue' \in Seq(Report) /\ Len(queue') = Len(queue) - 1
      /\ Head(queue) \in Report
  BY <1>1, Busy, Reading
<1>3. Len(queue') <= QueueMax
  BY <1>1, <1>2, Busy, HIDAssumption DEF TypeOK
<1>4. /\ recv \in Answer /\ recv.offset <= recv.total
      /\ recv.offset \in Nat
      /\ recv.pieces \in Seq([report : Report, bytes : Nat])
  BY <1>1, Busy DEF Local, Answer
<1> DEFINE b == IF recv.offset = 0 THEN Least(FIRST, Head(queue).total)
                ELSE Least(ROUND, recv.total - recv.offset)
<1>5. /\ recv' \in Answer /\ recv'.offset <= recv'.total
      /\ recv'.offset = recv.offset + b /\ b \in Nat
      /\ recv'.pieces = Append(recv.pieces, [report |-> Head(queue), bytes |-> b])
      /\ recv'.offset \in Nat /\ recv'.total \in Nat
  BY <1>1, <1>2, <1>4, TakenIs DEF Answer
<1>6. (recv.offset # 0 \/ recv'.offset < recv'.total) => recv'.offset # 0
  <2>1. CASE recv.offset # 0
    <3> HIDE DEF b
    <3> QED
      BY <1>4, <1>5, <2>1
  <2>2. CASE recv.offset = 0 /\ recv'.offset < recv'.total
    <3>1. recv'.total = Head(queue).total /\ Head(queue).total \in Nat
      BY <1>1, <1>2, <1>4, <2>2, TakenIs DEF Report
    <3>2. b = Least(FIRST, Head(queue).total)
      BY <2>2
    <3> HIDE DEF b
    <3> QED
      BY <1>5, <2>2, <3>1, <3>2 DEF Least, FIRST
  <2> QED
    BY <2>1, <2>2
<1> HIDE DEF b
<1>7. recv'.pieces # <<>>
  <2> DEFINE d == [report |-> Head(queue), bytes |-> b]
  <2>1. d \in [report : Report, bytes : Nat]
    BY <1>2, <1>5
  <2>2. recv'.pieces = Append(recv.pieces, d)
    BY <1>5
  <2> HIDE DEF d
  <2>3. Len(recv'.pieces) = Len(recv.pieces) + 1 /\ Len(recv.pieces) \in Nat
    BY <1>4, <2>1, <2>2
  <2> QED
    BY <2>3
<1>8. Local'
  <2>1. CASE recv'.offset >= recv'.total
    BY <1>1, <1>5, <2>1, Busy DEF Local
  <2>2. CASE ~(recv'.offset >= recv'.total)
    <3>1. recv'.offset < recv'.total
      BY <1>5, <2>2
    <3> QED
      BY <1>1, <1>5, <1>6, <1>7, <2>2, <3>1, Busy DEF Local
  <2> QED
    BY <2>1, <2>2
<1>9. TypeOK'
  <2>1. pc' \in {"idle", "read"} /\ result' \in Results
    BY <1>1, Busy DEF Results
  <2> QED
    BY <1>1, <1>2, <1>3, <1>5, <2>1, Busy DEF TypeOK, device, history
<1>10. Exchanging' /\ AnswerIntact'
  <2>1. quiet' = quiet /\ dropped' = dropped /\ cmd' = cmd
    BY <1>1 DEF history
  <2>2. CASE ~(quiet /\ ~dropped)
    BY <2>1, <2>2 DEF Exchanging, AnswerIntact
  <2>3. CASE quiet /\ ~dropped
    <3>1. PICK n \in RespLens, p \in Payloads :
                /\ Received(n, p)'
                /\ Len(recv.pieces) \in Nat
                /\ Len(recv'.pieces) = Len(recv.pieces) + 1
                /\ Len(Stream') <= Continuations(n) - Len(recv.pieces)
                /\ \A i \in 1..Len(Stream') :
                    Stream'[i] = Response(cmd, n, p)[Len(recv'.pieces) + i]
      BY <2>3, NextReport
    <3> DEFINE m == Len(recv.pieces)
               c == Continuations(n)
    <3>2. /\ c \in Nat /\ n \in Nat \ {0} /\ cmd \in 0..MaxCmds
          /\ Stream' \in Seq(Report) /\ Len(Stream') \in Nat
      <4>1. Stream' \in Seq(Report)
        BY <1>1, <1>2, Busy DEF Stream
      <4> QED
        BY <1>1, <4>1, Busy, ResponseIs, HIDAssumption
    <3>3. /\ m + 1 <= c + 1
          /\ recv'.offset = Cut(n, m + 1)
          /\ recv'.total = n
          /\ Len(recv'.pieces) = m + 1
          /\ \A i \in 1..(m + 1) :
                /\ recv'.pieces[i].report = Response(cmd, n, p)[i]
                /\ recv'.pieces[i].bytes = Packets(n)[i]
      BY <2>1, <3>1 DEF Received
    <3>4. CASE recv'.offset >= recv'.total
      <4>1. m = c
        <5>1. SUFFICES ASSUME m # c
                       PROVE  FALSE
          OBVIOUS
        <5>2. m + 1 \in 0..c
          BY <3>1, <3>2, <3>3, <5>1
        <5>3. Cut(n, m + 1) < n /\ Cut(n, m + 1) \in Nat
          BY <3>2, <5>2, CutStep
        <5> QED
          BY <3>2, <3>3, <3>4, <5>3
      <4>2. Stream' = <<>>
        BY <3>1, <3>2, <4>1
      <4>3. Exchanging'
        BY <1>1, <3>4, <4>2 DEF Exchanging
      <4>4. IsAnswer(cmd, n)'
        <5>1. ASSUME NEW i \in 1..(c + 1)
              PROVE  /\ recv'.pieces[i].report.kind = IF i = 1 THEN "first" ELSE "next"
                     /\ recv'.pieces[i].report.cmd = cmd
                     /\ recv'.pieces[i].report.index = i
                     /\ recv'.pieces[i].bytes = Packets(n)[i]
          BY <3>2, <3>3, <4>1, ResponseIs
        <5> QED
          BY <2>1, <3>3, <4>1, <5>1 DEF IsAnswer
      <4> QED
        BY <2>1, <4>3, <4>4 DEF AnswerIntact
    <3>5. CASE ~(recv'.offset >= recv'.total)
      <4>1. pc' = "read" /\ result' = "none"
        BY <1>1, <3>5, Busy
      <4>2. Coming(n, p)'
        <5>1. /\ 0 \in 0..Len(Stream')
              /\ Len(recv'.pieces) + Len(Stream') - 0 <= c + 1
              /\ \A i \in 1..(Len(Stream') - 0) :
                    Stream'[0 + i] = Response(cmd, n, p)[Len(recv'.pieces) + i]
          BY <3>1, <3>2
        <5>2. \A i \in 1..0 : Stream'[i].kind = "wait"
          OBVIOUS
        <5> QED
          BY <2>1, <5>1, <5>2 DEF Coming
      <4> QED
        BY <3>1, <4>1, <4>2 DEF Exchanging, AnswerIntact
    <3> QED
      BY <3>4, <3>5
  <2> QED
    BY <2>2, <2>3
<1> QED
  BY <1>8, <1>9, <1>10 DEF Inv

-----------------------------------------------------------------------------
(* The invariant: the device and hidapi's thread *)

\* A step that leaves SendData where it is.
LEMMA Passive ==
    ASSUME Inv, queue' \in Seq(Report), Len(queue') <= QueueMax, out' \in Seq(Report),
           gone' \in BOOLEAN, gone' => handle # 0, plugged' \in BOOLEAN,
           unplugs' \in 0..MaxUnplugs, dropped' \in BOOLEAN, dropped => dropped',
           UNCHANGED <<device, pc, room, sent, recv, result, cmd, opens, quiet>>
    PROVE  TypeOK' /\ Local' /\ AnswerIntact'
<1>1. TypeOK'
  BY DEF Inv, TypeOK, device
<1>2. Local'
  BY DEF Inv, Local
<1>3. AnswerIntact'
  BY DEF Inv, AnswerIntact, IsAnswer
<1> QED
  BY <1>1, <1>2, <1>3

\* What is to be read may stay as it is, or lose its end.
LEMMA Shortened ==
    ASSUME Inv, queue' \in Seq(Report), out' \in Seq(Report), dropped => dropped',
           UNCHANGED <<pc, recv, result, cmd, quiet>>,
           ~dropped' => /\ Len(Stream') <= Len(Stream)
                        /\ \A i \in 1..Len(Stream') : Stream'[i] = Stream[i],
           dropped' \in BOOLEAN
    PROVE  Exchanging'
<1>1. SUFFICES ASSUME quiet, ~dropped, ~dropped'
               PROVE  Exchanging'
  BY DEF Exchanging
<1>2. /\ Stream \in Seq(Report) /\ Len(Stream) \in Nat
      /\ Stream' \in Seq(Report) /\ Len(Stream') \in Nat
  BY DEF Inv, TypeOK, Stream
<1>3. /\ Len(Stream') <= Len(Stream)
      /\ \A i \in 1..Len(Stream') : Stream'[i] = Stream[i]
  BY <1>1
<1>4. Stream = <<>> => Stream' = <<>>
  BY <1>2, <1>3
<1>5. Stream = <<InitReply>> => Stream' = <<>> \/ Stream' = <<InitReply>>
  <2>1. SUFFICES ASSUME Stream = <<InitReply>>, Stream' # <<>>
                 PROVE  Stream' = <<InitReply>>
    OBVIOUS
  <2>2. Len(Stream') = 1 /\ Stream'[1] = InitReply
    BY <1>2, <1>3, <2>1
  <2>3. Len(<<InitReply>>) = 1 /\ <<InitReply>>[1] = InitReply /\ <<InitReply>> \in Seq(Report)
    BY <1>2, <2>1
  <2> QED
    BY <1>2, <1>3, <2>1, <2>2, <2>3, SeqEqual
<1>6. ASSUME NEW n \in RespLens, NEW p \in Payloads, Received(n, p), Coming(n, p)
      PROVE  Received(n, p)' /\ Coming(n, p)'
  <2>1. Received(n, p)'
    BY <1>6 DEF Received
  <2> DEFINE m == Len(recv.pieces)
  <2>2. PICK w \in 0..Len(Stream) :
            /\ m > 0 => w = 0
            /\ m + Len(Stream) - w <= Continuations(n) + 1
            /\ \A i \in 1..w : Stream[i].kind = "wait"
            /\ \A i \in 1..(Len(Stream) - w) : Stream[w + i] = Response(cmd, n, p)[m + i]
    BY <1>6 DEF Coming
  <2>3. m \in Nat /\ Continuations(n) \in Nat
    BY CutIs, HIDAssumption DEF Inv, TypeOK, Answer
  <2> DEFINE t == Stream'
             v == Least(w, Len(t))
  <2>4. m' = m /\ cmd' = cmd
    OBVIOUS
  <2> HIDE DEF m
  <2>5. v \in 0..Len(t) /\ (v = w \/ (v = Len(t) /\ v <= w))
    BY <1>2, <2>2 DEF Least
  <2> HIDE DEF v
  <2>6. m > 0 => v = 0
    BY <1>2, <2>2, <2>5
  <2>7. m + Len(t) - v <= Continuations(n) + 1
    <3>1. CASE v = w
      BY <1>2, <1>3, <2>2, <2>3, <3>1
    <3>2. CASE v = Len(t) /\ v <= w
      <4>1. m + Len(t) - v = m /\ m <= m + Len(Stream) - w
        BY <1>2, <2>2, <2>3, <3>2
      <4> QED
        BY <1>2, <2>2, <2>3, <4>1
    <3> QED
      BY <2>5, <3>1, <3>2
  <2>8. ASSUME NEW i \in 1..v
        PROVE  t[i].kind = "wait"
    <3>1. i \in 1..w /\ i \in 1..Len(t)
      BY <1>2, <2>2, <2>5
    <3> QED
      BY <1>3, <2>2, <3>1
  <2>9. ASSUME NEW i \in 1..(Len(t) - v)
        PROVE  t[v + i] = Response(cmd, n, p)[m + i]
    <3>1. v = w /\ i \in 1..(Len(Stream) - w) /\ v + i \in 1..Len(t)
      BY <1>2, <1>3, <2>2, <2>5
    <3> QED
      BY <1>3, <2>2, <3>1
  <2>10. Coming(n, p)'
    <3>1. /\ v \in 0..Len(t)
          /\ m > 0 => v = 0
          /\ m + Len(t) - v <= Continuations(n) + 1
          /\ \A i \in 1..v : t[i].kind = "wait"
          /\ \A i \in 1..(Len(t) - v) : t[v + i] = Response(cmd, n, p)[m + i]
      <4> HIDE DEF t
      <4> QED
        BY <2>5, <2>6, <2>7, <2>8, <2>9
    <3>2. Len(recv'.pieces) = m
      BY DEF m
    <3> QED
      BY <3>1, <3>2 DEF Coming
  <2> QED
    BY <2>1, <2>10
<1> QED
  BY <1>1, <1>4, <1>5, <1>6 DEF Inv, Exchanging

LEMMA EnvironmentStep ==
    ASSUME Inv, ReportArrives \/ LoseReport \/ Unplug \/ Plug
    PROVE  Inv'
<1>1. /\ TypeOK
      /\ queue \in Seq(Report) /\ Len(queue) <= QueueMax /\ out \in Seq(Report)
      /\ Len(queue) \in Nat /\ QueueMax \in Nat \ {0} /\ <<>> \in Seq(Report)
  BY HIDAssumption DEF Inv, TypeOK
<1>2. CASE ReportArrives
  <2>1. /\ out # <<>>
        /\ queue' = IF Len(queue) < QueueMax THEN Append(queue, Head(out))
                    ELSE Append(Tail(queue), Head(out))
        /\ dropped' = (dropped \/ Len(queue) >= QueueMax)
        /\ out' = Tail(out)
        /\ UNCHANGED <<device, gone, plugged, pc, room, sent, recv, result, cmd, opens,
                       unplugs, quiet>>
    BY <1>2 DEF ReportArrives, Enqueue
  <2>2. Head(out) \in Report /\ Tail(out) \in Seq(Report)
    BY <1>1, <2>1, HeadTailProperties
  <2>3. queue' \in Seq(Report) /\ Len(queue') <= QueueMax
    <3>1. CASE Len(queue) < QueueMax
      BY <1>1, <2>1, <2>2, <3>1
    <3>2. CASE ~(Len(queue) < QueueMax)
      <4>1. queue # <<>>
        BY <1>1, <3>2
      <4>2. Tail(queue) \in Seq(Report) /\ Len(Tail(queue)) = Len(queue) - 1
        BY <1>1, <4>1, HeadTailProperties
      <4>3. /\ Append(Tail(queue), Head(out)) \in Seq(Report)
            /\ Len(Append(Tail(queue), Head(out))) = Len(queue)
        BY <1>1, <2>2, <4>2, AppendProperties
      <4> QED
        BY <1>1, <2>1, <3>2, <4>3
    <3> QED
      BY <3>1, <3>2
  <2>4. dropped' \in BOOLEAN /\ (dropped => dropped')
    BY <2>1
  <2>5. ~dropped' => Stream' = Stream
    <3>1. SUFFICES ASSUME ~dropped'
                   PROVE  Stream' = Stream
      OBVIOUS
    <3>2. ~(Len(queue) >= QueueMax)
      BY <2>1, <3>1
    <3>3. Len(queue) < QueueMax
      BY <1>1, <3>2
    <3>4. queue' = Append(queue, Head(out))
      BY <2>1, <3>3
    <3> QED
      BY <1>1, <2>1, <3>4, Arriving DEF Stream
  <2>6. gone' \in BOOLEAN /\ (gone' => handle # 0) /\ plugged' \in BOOLEAN
    BY <1>1, <2>1 DEF TypeOK
  <2>7. Len(Stream) \in Nat
    BY <1>1 DEF Stream
  <2>8. ~dropped' => /\ Len(Stream') <= Len(Stream)
                     /\ \A i \in 1..Len(Stream') : Stream'[i] = Stream[i]
    BY <2>5, <2>7
  <2>9. TypeOK' /\ Local' /\ AnswerIntact'
    BY <1>1, <2>1, <2>2, <2>3, <2>4, <2>6, Passive DEF TypeOK
  <2>10. Exchanging'
    BY <2>1, <2>2, <2>3, <2>4, <2>8, Shortened
  <2> QED
    BY <2>9, <2>10 DEF Inv
<1>3. CASE LoseReport
  <2>1. /\ out # <<>> /\ handle = 0 /\ out' = Tail(out)
        /\ UNCHANGED <<device, queue, gone, plugged, pc, room, sent, recv, result, history>>
    BY <1>3 DEF LoseReport
  <2>2. Tail(out) \in Seq(Report)
    BY <1>1, <2>1, HeadTailProperties
  <2>3. TypeOK' /\ Local' /\ AnswerIntact'
    BY <1>1, <2>1, <2>2, Passive DEF TypeOK, history
  <2>4. Exchanging'
    <3>1. pc = "idle"
      BY <1>1, <2>1 DEF TypeOK
    <3>2. (quiet /\ ~dropped /\ result = "OK") => out = <<>>
      BY <1>1, <3>1, StreamIs DEF Inv, Exchanging
    <3> QED
      BY <2>1, <3>1, <3>2 DEF Exchanging, history
  <2> QED
    BY <2>3, <2>4 DEF Inv
<1>4. CASE Unplug
  <2>1. /\ plugged' = FALSE /\ out' = <<>> /\ queue' = queue
        /\ gone' = (handle # 0)
        /\ unplugs < MaxUnplugs /\ unplugs' = unplugs + 1
        /\ UNCHANGED <<device, pc, room, sent, recv, result, cmd, opens, quiet, dropped>>
    BY <1>4 DEF Unplug
  <2>2. gone' \in BOOLEAN /\ (gone' => handle # 0) /\ plugged' \in BOOLEAN
    BY <2>1
  <2>3. unplugs' \in 0..MaxUnplugs
    BY <1>1, <2>1, HIDAssumption DEF TypeOK
  <2>4. dropped' \in BOOLEAN /\ (dropped => dropped')
    BY <1>1, <2>1 DEF TypeOK
  <2>5. TypeOK' /\ Local' /\ AnswerIntact'
    BY <1>1, <2>1, <2>2, <2>3, <2>4, Passive
  <2>6. /\ Len(Stream') <= Len(Stream)
        /\ \A i \in 1..Len(Stream') : Stream'[i] = Stream[i]
    <3>1. Stream' = queue
      BY <1>1, <2>1 DEF Stream
    <3> QED
      BY <1>1, <3>1, StreamIs
  <2>7. Exchanging'
    BY <1>1, <2>1, <2>4, <2>6, Shortened
  <2> QED
    BY <2>5, <2>7 DEF Inv
<1>5. CASE Plug
  <2>1. /\ plugged' = TRUE
        /\ UNCHANGED <<device, queue, gone, out, pc, room, sent, recv, result, history>>
    BY <1>5 DEF Plug
  <2>2. Stream' = Stream /\ Len(Stream) \in Nat
    BY <1>1, <2>1 DEF Stream
  <2>3. TypeOK' /\ Local' /\ AnswerIntact'
    BY <1>1, <2>1, Passive DEF TypeOK, history
  <2>4. Exchanging'
    BY <1>1, <2>1, <2>2, Shortened DEF TypeOK, history
  <2> QED
    BY <2>3, <2>4 DEF Inv
<1> QED
  BY <1>2, <1>3, <1>4, <1>5

\* A report more that asks to wait, before the answer has begun.
LEMMA AskStep ==
    ASSUME Inv, AskToWait
    PROVE  Inv'
<1> DEFINE r == WaitReport(Head(out).cmd)
<1>1. /\ TypeOK
      /\ queue \in Seq(Report) /\ Len(queue) <= QueueMax /\ out \in Seq(Report)
      /\ Len(queue) \in Nat /\ QueueMax \in Nat \ {0}
  BY HIDAssumption DEF Inv, TypeOK
<1>2. /\ out # <<>> /\ Head(out).kind = "first" /\ out' = out
      /\ queue' = IF Len(queue) < QueueMax THEN Append(queue, r)
                  ELSE Append(Tail(queue), r)
      /\ dropped' = (dropped \/ Len(queue) >= QueueMax)
      /\ UNCHANGED <<device, gone, plugged, pc, room, sent, recv, result, cmd, opens,
                     unplugs, quiet>>
  BY DEF AskToWait, Enqueue
<1>3. Head(out) \in Report /\ Head(out) = out[1] /\ Len(out) \in Nat \ {0}
  BY <1>1, <1>2, HeadTailProperties
<1>4. r \in Report /\ r.kind = "wait"
  BY <1>3 DEF WaitReport, Report
<1> HIDE DEF r
<1>5. queue' \in Seq(Report) /\ Len(queue') <= QueueMax
  <2>1. CASE Len(queue) < QueueMax
    BY <1>1, <1>2, <1>4, <2>1
  <2>2. CASE ~(Len(queue) < QueueMax)
    <3>1. queue # <<>>
      BY <1>1, <2>2
    <3>2. Tail(queue) \in Seq(Report) /\ Len(Tail(queue)) = Len(queue) - 1
      BY <1>1, <3>1, HeadTailProperties
    <3>3. /\ Append(Tail(queue), r) \in Seq(Report)
          /\ Len(Append(Tail(queue), r)) = Len(queue)
      BY <1>1, <1>4, <3>2, AppendProperties
    <3> QED
      BY <1>1, <1>2, <2>2, <3>3
  <2> QED
    BY <2>1, <2>2
<1>6. dropped' \in BOOLEAN /\ (dropped => dropped')
  BY <1>2
<1>7. gone' \in BOOLEAN /\ (gone' => handle # 0) /\ plugged' \in BOOLEAN
  BY <1>1, <1>2 DEF TypeOK
<1>8. TypeOK' /\ Local' /\ AnswerIntact'
  BY <1>1, <1>2, <1>5, <1>6, <1>7, Passive DEF TypeOK
<1>9. Exchanging'
  <2>1. SUFFICES ASSUME quiet', ~dropped'
                 PROVE  Exchanging'
    BY DEF Exchanging
  <2>2. quiet /\ ~dropped
    BY <1>2, <1>6, <2>1
  <2>3. queue' = Append(queue, r)
    <3>1. ~(Len(queue) >= QueueMax)
      BY <1>2, <2>1
    <3>2. Len(queue) < QueueMax
      BY <1>1, <3>1
    <3> QED
      BY <1>2, <3>2
  <2>4. /\ Stream \in Seq(Report)
        /\ Len(Stream) = Len(queue) + Len(out)
        /\ \A i \in 1..Len(queue) : Stream[i] = queue[i]
        /\ \A i \in 1..Len(out) : Stream[Len(queue) + i] = out[i]
        /\ Stream # <<>>
    BY <1>1, <1>2, StreamIs
  <2>5. Stream[Len(queue) + 1].kind = "first" /\ Len(queue) + 1 \in 1..Len(Stream)
    <3>1. 1 \in 1..Len(out) /\ Len(queue) + 1 \in 1..Len(Stream)
      BY <1>1, <1>3, <2>4
    <3> QED
      BY <1>2, <1>3, <2>4, <3>1
  <2>6. Stream # <<InitReply>>
    <3>1. SUFFICES ASSUME Stream = <<InitReply>>
                   PROVE  FALSE
      OBVIOUS
    <3>2. Len(queue) + 1 = 1 /\ Stream[1] = InitReply
      BY <1>1, <1>3, <2>4, <3>1
    <3> QED
      BY <2>5, <3>2 DEF InitReply
  <2>7. pc \notin {"writeInit", "write", "init"} /\ ~(pc = "idle" /\ result = "OK")
    BY <2>2, <2>4, <2>6 DEF Inv, Exchanging
  <2>8. pc' = pc /\ result' = result
    BY <1>2
  <2>9. CASE pc = "read"
    <3>1. PICK n \in RespLens, p \in Payloads : Received(n, p) /\ Coming(n, p)
      BY <2>2, <2>4, <2>9 DEF Inv, Exchanging
    <3>2. Received(n, p)'
      BY <1>2, <3>1 DEF Received
    <3> DEFINE m == Len(recv.pieces)
    <3>3. PICK w \in 0..Len(Stream) :
            /\ m > 0 => w = 0
            /\ m + Len(Stream) - w <= Continuations(n) + 1
            /\ \A i \in 1..w : Stream[i].kind = "wait"
            /\ \A i \in 1..(Len(Stream) - w) : Stream[w + i] = Response(cmd, n, p)[m + i]
      BY <3>1 DEF Coming
    <3>4. m \in Nat /\ Continuations(n) \in Nat
      BY <1>1, CutIs, HIDAssumption DEF TypeOK, Answer
    <3>5. cmd \in 0..MaxCmds
      BY <1>1 DEF TypeOK
    <3> HIDE DEF m
    <3>6. m = 0 /\ w = Len(queue)
      <4> DEFINE i == Len(queue) + 1 - w
      <4>1. ~(Len(queue) + 1 \in 1..w)
        BY <2>5, <3>3
      <4>2. i \in 1..(Len(Stream) - w) /\ w + i = Len(queue) + 1
        BY <1>1, <2>4, <2>5, <3>3, <4>1
      <4> HIDE DEF i
      <4>3. Response(cmd, n, p)[m + i].kind = "first"
        BY <2>5, <3>3, <4>2
      <4>4. m + i \in 1..(Continuations(n) + 1)
        BY <2>4, <3>3, <3>4, <4>2
      <4>5. m + i = 1
        BY <3>5, <4>3, <4>4, ResponseIs
      <4> QED
        BY <1>1, <3>3, <3>4, <4>2, <4>5
    <3> DEFINE t == Stream'
               v == w + 1
    <3>7. /\ t = Append(queue, r) \o out
          /\ Len(t) = Len(queue) + 1 + Len(out)
          /\ \A i \in 1..Len(queue) : t[i] = queue[i]
          /\ t[Len(queue) + 1] = r
          /\ \A i \in 1..Len(out) : t[Len(queue) + 1 + i] = out[i]
      <4> DEFINE a == Append(queue, r)
      <4>1. /\ a \in Seq(Report) /\ Len(a) = Len(queue) + 1
            /\ \A i \in 1..Len(queue) : a[i] = queue[i]
            /\ a[Len(queue) + 1] = r
        BY <1>1, <1>4
      <4>2. t = a \o out
        BY <1>2, <2>3 DEF Stream
      <4> HIDE DEF a, t
      <4>3. /\ Len(t) = Len(a) + Len(out)
            /\ \A i \in 1..Len(t) : t[i] = IF i <= Len(a) THEN a[i] ELSE out[i - Len(a)]
        <5>1. t \in Seq(Report) /\ Len(t) = Len(a) + Len(out)
          BY <1>1, <4>1, <4>2, ConcatProperties
        <5>2. \A i \in 1..Len(t) : t[i] = IF i <= Len(a) THEN a[i] ELSE out[i - Len(a)]
          BY <1>1, <4>1, <4>2, <5>1
        <5> QED
          BY <5>1, <5>2
      <4>4. ASSUME NEW i \in 1..Len(out)
            PROVE  t[Len(queue) + 1 + i] = out[i]
        <5>1. /\ Len(queue) + 1 + i \in 1..Len(t) /\ ~(Len(queue) + 1 + i <= Len(a))
              /\ Len(queue) + 1 + i - Len(a) = i
          BY <1>1, <1>3, <4>1, <4>3
        <5> QED
          BY <4>3, <5>1
      <4>5. \A i \in 1..(Len(queue) + 1) : t[i] = a[i]
        BY <1>1, <1>3, <4>1, <4>3
      <4> QED
        BY <1>1, <4>1, <4>2, <4>3, <4>4, <4>5 DEF a
    <3> HIDE DEF t
    <3>8. v \in 0..Len(t) /\ 0 + Len(t) - v <= Continuations(n) + 1
      BY <1>1, <1>3, <2>4, <3>3, <3>4, <3>6, <3>7
    <3>9. ASSUME NEW i \in 1..v
          PROVE  t[i].kind = "wait"
      <4>1. CASE i = Len(queue) + 1
        BY <1>4, <3>7, <4>1
      <4>2. CASE i # Len(queue) + 1
        <5>1. i \in 1..Len(queue) /\ i \in 1..w
          BY <1>1, <3>6, <4>2
        <5> QED
          BY <2>4, <3>3, <3>7, <5>1
      <4> QED
        BY <4>1, <4>2
    <3>10. ASSUME NEW i \in 1..(Len(t) - v)
           PROVE  t[v + i] = Response(cmd, n, p)[0 + i]
      <4>1. /\ i \in 1..Len(out) /\ v + i = Len(queue) + 1 + i /\ w + i = Len(queue) + i
            /\ i \in 1..(Len(Stream) - w)
        BY <1>1, <1>3, <2>4, <3>6, <3>7
      <4>2. t[v + i] = out[i] /\ Stream[w + i] = out[i]
        BY <2>4, <3>7, <4>1
      <4> QED
        BY <3>3, <3>6, <4>1, <4>2
    <3> HIDE DEF v
    <3>11. Len(recv'.pieces) = 0 /\ cmd' = cmd
      BY <1>2, <3>6 DEF m
    <3>12. Coming(n, p)'
      <4> DEFINE z == Len(recv'.pieces)
      <4>1. z = 0 /\ cmd' = cmd
        BY <3>11
      <4> HIDE DEF z
      <4>2. /\ v \in 0..Len(t)
            /\ z > 0 => v = 0
            /\ z + Len(t) - v <= Continuations(n) + 1
            /\ \A i \in 1..v : t[i].kind = "wait"
            /\ \A i \in 1..(Len(t) - v) : t[v + i] = Response(cmd', n, p)[z + i]
        BY <3>8, <3>9, <3>10, <4>1
      <4> QED
        BY <4>2 DEF Coming, t, z
    <3> QED
      BY <2>8, <2>9, <3>2, <3>12 DEF Exchanging
  <2>10. CASE pc # "read"
    BY <2>7, <2>8, <2>10 DEF Exchanging
  <2> QED
    BY <2>9, <2>10
<1> QED
  BY <1>8, <1>9 DEF Inv

LEMMA InvNext == Inv /\ [Next]_vars => Inv'
<1> SUFFICES ASSUME Inv, [Next]_vars
             PROVE  Inv'
  OBVIOUS
<1>1. CASE SendData
  BY <1>1, IdleStep, StartStep, WriteInitStep, ReadInitStep, WriteStep, AbandonStep,
     ReadWaitStep, ReadTooMuchStep, ReadReportStep DEF SendData
<1>2. CASE Connect \/ Disconnect
  BY <1>2, IdleStep
<1>3. CASE ReportArrives \/ LoseReport \/ Unplug \/ Plug
  BY <1>3, EnvironmentStep
<1>5. CASE AskToWait
  BY <1>5, AskStep
<1>4. CASE UNCHANGED vars
  <2> USE <1>4 DEF vars, device, history
  <2>1. TypeOK' /\ Local'
    BY DEF Inv, TypeOK, Local
  <2>2. Stream' = Stream
    BY DEF Stream
  <2>3. \A n, p : Received(n, p)' = Received(n, p) /\ Coming(n, p)' = Coming(n, p)
    BY <2>2 DEF Received, Coming
  <2>4. Exchanging'
    BY <2>2, <2>3 DEF Inv, Exchanging
  <2>5. AnswerIntact'
    BY DEF Inv, AnswerIntact, IsAnswer
  <2> QED
    BY <2>1, <2>4, <2>5 DEF Inv
<1> QED
  BY <1>1, <1>2, <1>3, <1>4, <1>5 DEF Next

-----------------------------------------------------------------------------
(* The theorems *)

LEMMA Invariant == Spec => []Inv
BY InvInit, InvNext, PTL DEF Spec

\* The members, hidapi's queue, the device and SendData's locals keep their types.
THEOREM TypeCorrect == Spec => []TypeOK
<1>1. Inv => TypeOK
  BY DEF Inv
<1> QED
  BY <1>1, Invariant, PTL

\* SendData: what it returns with JUBR_OK is the device's whole answer to its own
\* command, if nothing was outstanding and hidapi dropped nothing, for answers of
\* every length and a queue of every size.
THEOREM AnswerSound == Spec => []AnswerIntact
<1>1. Inv => AnswerIntact
  BY DEF Inv
<1> QED
  BY <1>1, Invariant, PTL

\* And it leaves no report of that answer in the queue or on its way.
THEOREM NothingLeft == Spec => []OKLeavesQuiet
<1>1. Inv => OKLeavesQuiet
  BY StreamIs DEF Inv, TypeOK, Exchanging, OKLeavesQuiet
<1> QED
  BY <1>1, Invariant, PTL

\* A command of less than 256 bytes is written whole, in full reports but for the
\* last.
THEOREM CommandIsWhole == Spec => []CommandWhole
<1>1. ASSUME Inv
      PROVE  CommandWhole
  <2>1. SUFFICES ASSUME pc = "read", sent.len < 256
                 PROVE  /\ sent.announced = sent.len
                        /\ Sum(sent.packets) = sent.len
                        /\ \A i \in 1..Len(sent.packets) :
                            LET most == IF i = 1 THEN FIRST ELSE ROUND
                            IN  /\ sent.packets[i] <= most
                                /\ i < Len(sent.packets) => sent.packets[i] = most
    BY DEF CommandWhole
  <2> DEFINE n == sent.len
             c == Continuations(n)
  <2>2. /\ n \in Nat \ {0} /\ n < 256
        /\ sent.announced = Announced(n)
        /\ sent.packets = Packets(n)
    BY <1>1, <2>1, Busy DEF Local
  <2>3. Len(Packets(n)) = c + 1 /\ c \in Nat
    BY <2>2, PacketsType, CutIs
  <2> HIDE DEF n, c
  <2>4. Announced(n) = n
    BY <2>2 DEF Announced
  <2>5. Sum(Packets(n)) = n
    BY <2>2, PacketsSum
  <2>6. ASSUME NEW i \in 1..(c + 1)
        PROVE  /\ Packets(n)[i] <= (IF i = 1 THEN FIRST ELSE ROUND)
               /\ i < c + 1 => Packets(n)[i] = IF i = 1 THEN FIRST ELSE ROUND
    <3>1. i - 1 \in 0..c /\ (i - 1) + 1 = i /\ (i - 1 = 0 <=> i = 1) /\ (i < c + 1 => i - 1 < c)
      BY <2>3
    <3> QED
      BY <2>2, <3>1, CutStep DEF c
  <2> QED
    BY <2>2, <2>3, <2>4, <2>5, <2>6 DEF n
<1> QED
  BY <1>1, Invariant, PTL
=============================================================================
