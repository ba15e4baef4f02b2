----------------------- MODULE SignTransaction_proofs -----------------------
(***************************************************************************)
(* Proofs about SignTransaction, for every set of transactions, lengths of *)
(* signed transactions, sizes of a pack and of a chunk, and bounds: its    *)
(* types, that the packs of a call are its upload, that the device's       *)
(* buffer is the beginning of one upload, that a transaction returned is   *)
(* the one asked for, whole, that a cancelled one was not signed, that the *)
(* user confirms nothing else, however late, and that a call is a          *)
(* SigningCall.                                                            *)
(*                                                                         *)
(* The argument counts APDUs, as that of SignETH_proofs does: the call     *)
(* under way began when Base APDUs had been issued, and at least pos - 1   *)
(* of the answers then outstanding, or of its own, are gone.  So an answer *)
(* taken for the length of the transaction, which cannot be one to a       *)
(* piece, is the device's own answer to the request to sign unless as many *)
(* answers were outstanding as the call has pieces, and more; and from     *)
(* there on nothing but the call's own answers is left.                    *)
(*                                                                         *)
(* While the device asks the user, it takes no APDU, so what it asks about *)
(* stays as it is; and the calls begun since can be answered with nothing  *)
(* sent after the request.                                                 *)
(***************************************************************************)
EXTENDS SignTransaction, SequenceTheorems, TLAPS

\* The packs of the call, and their number.
Packs == Pieces(calls, upload)
N == Len(Packs)

\* How many APDUs had been issued when the call began, and how many it has.
Base == issued - (pos - 1) - (IF pending THEN 1 ELSE 0)
Sent == IF pending THEN pos ELSE pos - 1

\* The pieces are of a call before c.
Before(ps, c) == \A i \in 1..Len(ps) : ps[i].call < c

\* Calls and exchanges nest, and answers are to what has been issued.
Nesting ==
    /\ latest <= issued
    /\ upload # NULL <=> calls > 0

\* What the device has is of calls that have been made.
Dated ==
    /\ Before(buf, calls + 1)
    /\ signed # NULL => Before(signed.pieces, calls + 1)

\* The arithmetic of a call under way; it copies nothing before it reads.
Calling ==
    result = "none" =>
        /\ Base \in Nat
        /\ Base + (pos - 1) <= latest + late
        /\ ~Reading => raw = <<>>

\* A piece that the device takes or refuses is answered without data.
PieceReplies ==
    result = "none" =>
        \A k \in 1..MaxCmds :
            (Base < k /\ k <= issued /\ k - Base <= N /\ replies[k] # NULL) =>
                replies[k].len = 0 /\ replies[k].sw # "6f09"

\* Unless answers could be mistaken, the buffer holds what the call has sent,
\* and a call that has lost a piece hears of it at once.
Buffered ==
    /\ (upload # NULL /\ (late = 0 \/ ~missed)) =>
            \/ Before(buf, calls)
            \/ Len(buf) <= N /\ \A i \in 1..Len(buf) : buf[i] = Packs[i]
    /\ (result = "none" /\ ~missed) =>
            IF Sent = 0
            THEN Before(buf, calls)
            ELSE /\ Len(buf) = (IF Sent <= N THEN Sent ELSE N)
                 /\ \A i \in 1..Len(buf) : buf[i] = Packs[i]
    /\ (result = "none" /\ missed /\ late = 0) =>
            /\ pending /\ Uploading
            /\ replies[issued] # NULL => replies[issued].sw = "6f00"

\* Before the request to confirm, this call has not been signed.
Unsigned ==
    (result = "none" /\ Sent <= N /\ signed # NULL) => Before(signed.pieces, calls)

\* The answer to the request to confirm.
SignReply ==
    (result = "none" /\ pending /\ Signing /\ replies[issued] # NULL) =>
        LET r == replies[issued]
        IN  /\ r.sw = "9000" =>
                /\ signed \in Signature
                /\ r.value = signed.len
                /\ r.value # 0
                /\ (late = 0 \/ ~missed) => signed.pieces = Packs
            /\ (r.sw = "6f09" /\ signed # NULL) => Before(signed.pieces, calls)

\* The answer to a read, once total is the length of the transaction.
ReadReply ==
    (result = "none" /\ pending /\ Reading /\ Accountable /\ replies[issued] # NULL) =>
        LET r == replies[issued]
        IN  r.sw = "9000" =>
                /\ signed # NULL
                /\ r.sig = signed
                /\ r.at = Offset
                /\ r.len = (IF IsRemainder THEN total - Offset ELSE kReadOnceLen)

\* The stretches are of signature s and stand where they belong.
AreOf(stretches, s) ==
    \A i \in 1..Len(stretches) :
        stretches[i].sig = s /\ stretches[i].at = stretches[i].to

\* They leave no gap in the first n bytes.
Cover(stretches, n) ==
    \A b \in 0..(n - 1) :
        \E i \in 1..Len(stretches) :
            b \in stretches[i].to..(stretches[i].to + stretches[i].len - 1)

\* What has been read, when nothing but the call's own answers is left.
Copied ==
    (result = "none" /\ Reading /\ Accountable) =>
        /\ latest >= Base + (pos - 1)
        /\ signed \in Signature
        /\ signed.pieces = Packs
        /\ total = signed.len
        /\ AreOf(raw, signed)
        /\ Cover(raw, Offset)
        /\ asked = 0

\* What the device asks the user about: the upload of an earlier call, or that of
\* this one, which it has not signed before.
Asking ==
    asked # 0 =>
        /\ latest < asked /\ asked <= issued
        /\ \A k \in 1..MaxCmds : asked <= k /\ k <= issued => replies[k] = NULL
        /\ asker # NULL => buf = Pieces(asker.call, asker.upload)
        /\ signed # NULL => Before(signed.pieces, calls)
        /\ \/ Before(buf, calls) /\ (result = "none" => asked <= Base)
           \/ result = "none" => asked = Base + N + 1

\* A call that has told its caller how the matter ended leaves nothing to confirm.
Settled ==
    (\/ result = "idle"
     \/ result \in {"OK", "USER_CANCEL"} /\ Accountable) => asked = 0

\* A call that returns JUBR_USER_CANCEL has not been signed.
CancelledIsUnsigned ==
    (result = "USER_CANCEL" /\ Accountable) =>
        (signed # NULL => \A i \in 1..Len(signed.pieces) : signed.pieces[i].call # calls)

\* From the first piece of a call on, what the device has received is the
\* beginning of that call's upload: nothing of an earlier upload that broke
\* off, and no piece is skipped or sent twice.
BufferIsOneUpload ==
    ((\E i \in 1..Len(buf) : buf[i].call = calls) /\ (late = 0 \/ ~missed)) =>
        /\ Len(buf) <= Len(Pieces(calls, upload))
        /\ buf = SubSeq(Pieces(calls, upload), 1, Len(buf))

Inv ==
    /\ TypeOK /\ Nesting /\ Dated /\ Calling
    /\ PieceReplies /\ Buffered /\ Unsigned
    /\ SignReply /\ ReadReply /\ Copied
    /\ Asking /\ Settled
    /\ SignedIsRequested /\ CancelledIsUnsigned

\* The TLV that ends an upload.
LastPart(u) == IF u.redeem = 0 THEN "change" ELSE "redeem"

\* A run of a call's pieces, which ends with the TLV last: each but the first
\* follows the one before it, the TLV is complete, and the mark is on the last.
Linked(ps, c, u, last, mark) ==
    /\ ps \in Seq(Piece)
    /\ Len(ps) \in Nat \ {0}
    /\ ps[1].from = 0
    /\ ps[Len(ps)].part = last
    /\ ps[Len(ps)].from + ps[Len(ps)].len = u[last]
    /\ \A i \in 1..Len(ps) : ps[i].call = c
    /\ \A i \in 2..Len(ps) : ps[i].part # "amounts" /\ Follows(ps[i], ps[i - 1], u)
    /\ \A i \in 1..Len(ps) :
          /\ ps[i].part # "amounts" => ps[i].len \in 1..kSendOnceLen
          /\ ps[i].p1 = (IF ps[i].part = "amounts" THEN 1
                         ELSE IF i = Len(ps) THEN mark ELSE 2)

\* s is a and then b.
IsConcat(s, a, b) ==
    /\ s \in Seq(Piece)
    /\ Len(s) = Len(a) + Len(b)
    /\ \A i \in 1..Len(s) : s[i] = IF i <= Len(a) THEN a[i] ELSE b[i - Len(a)]

-----------------------------------------------------------------------------
(* The packs *)

\* A number of bytes is some full packs, and a last one that is not empty.
LEMMA Division ==
    ASSUME NEW n \in Nat \ {0}, NEW K \in Nat \ {0}
    PROVE  LET q == (n - 1) \div K
           IN  /\ q \in Nat
               /\ q * K \in Nat
               /\ n - q * K \in 1..K
               /\ \A i \in 1..q : i * K < n
<1> DEFINE q == (n - 1) \div K
<1>1. q \in Nat /\ n - 1 = q * K + ((n - 1) % K) /\ (n - 1) % K \in 0..(K - 1)
  <2>1. n - 1 \in Nat
    OBVIOUS
  <2> DEFINE m == n - 1
  <2> HIDE DEF m
  <2>2. m \div K \in Nat /\ m = (m \div K) * K + (m % K) /\ m % K \in 0..(K - 1)
    BY <2>1 DEF m
  <2> QED
    BY <2>2 DEF m
<1> HIDE DEF q
<1>2. q * K \in Nat
  BY <1>1
<1>3. n - q * K \in 1..K
  BY <1>1, <1>2
<1>4. ASSUME NEW i \in 1..q
      PROVE  i * K < n
  <2>1. PICK d \in Nat : q = i + d
    <3>1. q - i \in Nat /\ q = i + (q - i)
      BY <1>1
    <3> QED
      BY <3>1
  <2>2. q * K = i * K + d * K /\ d * K \in Nat /\ i * K \in Nat
    BY <1>1, <2>1
  <2> QED
    BY <1>1, <1>2, <1>3, <2>2
<1> QED
  BY <1>1, <1>2, <1>3, <1>4 DEF q

\* What _TranPack makes of a TLV.
LEMMA TranPackIs ==
    ASSUME NEW c \in 1..MaxCalls, NEW u \in Upload,
           NEW part \in {"path", "tx", "change", "redeem"},
           NEW final \in BOOLEAN, u[part] \in Nat \ {0},
           NEW mark \in {2, 3}, mark = IF final THEN 3 ELSE 2
    PROVE  /\ Linked(TranPack(c, part, u[part], final), c, u, part, mark)
           /\ TranPack(c, part, u[part], final)[1].part = part
<1> DEFINE n == u[part]
           K == kSendOnceLen
           q == (n - 1) \div K
           T == TranPack(c, part, n, final)
           Len1(i) == IF i <= q THEN K ELSE n - q * K
           P1(i) == IF final /\ i > q THEN 3 ELSE 2
<1>1. K \in Nat \ {0} /\ n \in Nat \ {0}
  BY SignAssumption
<1>2. q \in Nat /\ q * K \in Nat /\ n - q * K \in 1..K /\ \A i \in 1..q : i * K < n
  BY <1>1, Division
<1>3. T = [i \in 1..(q + 1) |-> [call |-> c, part |-> part, from |-> (i - 1) * K,
                                len |-> Len1(i), p1 |-> P1(i)]]
  BY DEF TranPack
<1> HIDE DEF n, K, q, T
<1>4. \A i \in 1..(q + 1) : /\ T[i].call = c /\ T[i].part = part
                            /\ T[i].from = (i - 1) * K
                            /\ T[i].len = Len1(i) /\ T[i].p1 = P1(i)
  BY <1>3
<1>5. \A i \in 1..(q + 1) : Len1(i) \in 1..K /\ P1(i) \in 1..3 /\ (i - 1) * K \in Nat
  BY <1>1, <1>2
<1>6. T \in Seq(Piece) /\ Len(T) = q + 1
  <2>1. \A i \in 1..(q + 1) : T[i] \in Piece
    <3> SUFFICES ASSUME NEW i \in 1..(q + 1)
                 PROVE  T[i] \in Piece
      OBVIOUS
    <3>1. T[i] = [call |-> c, part |-> part, from |-> (i - 1) * K,
                  len |-> Len1(i), p1 |-> P1(i)]
      BY <1>3
    <3>2. Len1(i) \in Nat /\ P1(i) \in 1..3 /\ (i - 1) * K \in Nat
      BY <1>1, <1>5
    <3> HIDE DEF Len1, P1
    <3> QED
      BY <3>1, <3>2 DEF Piece
  <2>2. T \in [1..(q + 1) -> Piece]
    BY <1>3, <2>1
  <2> QED
    BY <1>2, <2>2
<1>7. T[q + 1].from + T[q + 1].len = n
  <2>1. q + 1 \in 1..(q + 1) /\ (q + 1) - 1 = q /\ ~(q + 1 <= q)
    BY <1>2
  <2>2. T[q + 1].from = q * K /\ T[q + 1].len = n - q * K
    BY <1>4, <2>1
  <2> QED
    BY <1>1, <1>2, <2>2
<1>8. ASSUME NEW i \in 2..(q + 1)
      PROVE  Follows(T[i], T[i - 1], u)
  <2>1. i - 1 \in 1..q /\ i - 1 \in 1..(q + 1) /\ i \in 1..(q + 1)
    BY <1>2
  <2>2. T[i - 1].from + T[i - 1].len = (i - 1) * K
    <3>1. T[i - 1].from = ((i - 1) - 1) * K /\ T[i - 1].len = K
      BY <1>4, <2>1
    <3> QED
      BY <1>1, <2>1, <3>1
  <2>3. (i - 1) * K < n /\ (i - 1) * K \in Nat
    BY <1>2, <1>5, <2>1
  <2>4. /\ T[i].from = (i - 1) * K /\ T[i].part = part /\ T[i - 1].part = part
    BY <1>4, <2>1
  <2>5. T[i - 1].from + T[i - 1].len # u[T[i - 1].part]
    BY <1>1, <2>2, <2>3, <2>4 DEF n
  <2> QED
    BY <2>2, <2>4, <2>5 DEF Follows
<1>9. Linked(T, c, u, part, mark)
  <2>1. T[1].from = 0 /\ T[1].part = part
    <3>1. 1 \in 1..(q + 1) /\ (1 - 1) * K = 0
      BY <1>1, <1>2
    <3> QED
      BY <1>4, <3>1
  <2>2. \A i \in 1..(q + 1) : T[i].len \in 1..K /\ T[i].call = c /\ T[i].part # "amounts"
    BY <1>4, <1>5
  <2>3. \A i \in 1..(q + 1) : T[i].p1 = IF i = q + 1 THEN mark ELSE 2
    BY <1>2, <1>4
  <2>4. q + 1 \in Nat \ {0} /\ T[q + 1].part = part
    BY <1>2, <1>4
  <2>5. \A i \in 2..(q + 1) : i \in 1..(q + 1)
    OBVIOUS
  <2> QED
    BY <1>6, <1>7, <1>8, <2>1, <2>2, <2>3, <2>4, <2>5 DEF Linked, n, K
<1> QED
  <2>1. 1 \in 1..(q + 1)
    BY <1>2
  <2> QED
    BY <1>4, <1>9, <2>1 DEF T, n

\* One run of pieces and the next.
LEMMA Joined ==
    ASSUME NEW c, NEW u, NEW last, NEW mark \in {2, 3}, NEW a, NEW b,
           NEW next \in {"path", "tx", "change", "redeem"},
           Linked(a, c, u, last, 2), Linked(b, c, u, next, mark),
           b[1].part = next, next = NextPart(last), NEW s, IsConcat(s, a, b)
    PROVE  /\ Linked(s, c, u, next, mark)
           /\ s[1] = a[1]
<1> DEFINE m == Len(a)
           n == Len(b)
<1>1. /\ a \in Seq(Piece) /\ b \in Seq(Piece)
      /\ m \in Nat \ {0} /\ n \in Nat \ {0}
  BY DEF Linked
<1>2. /\ s \in Seq(Piece) /\ Len(s) = m + n
      /\ \A i \in 1..(m + n) : s[i] = IF i <= m THEN a[i] ELSE b[i - m]
  BY DEF IsConcat
<1>3. s[1] = a[1] /\ s[m + n] = b[n] /\ Len(s) \in Nat \ {0}
  <2>1. 1 \in 1..(m + n) /\ m + n \in 1..(m + n) /\ ~(m + n <= m) /\ (m + n) - m = n
    BY <1>1
  <2> QED
    BY <1>1, <1>2, <2>1
<1> HIDE DEF m, n
<1>4. ASSUME NEW i \in 1..(m + n)
      PROVE  /\ s[i].call = c
             /\ s[i].part # "amounts" => s[i].len \in 1..kSendOnceLen
             /\ s[i].p1 = (IF s[i].part = "amounts" THEN 1
                           ELSE IF i = m + n THEN mark ELSE 2)
  <2>1. CASE i <= m
    <3>1. s[i] = a[i] /\ i \in 1..m /\ i # m + n
      BY <1>1, <1>2, <2>1
    <3> QED
      BY <3>1 DEF Linked, m
  <2>2. CASE ~(i <= m)
    <3>1. s[i] = b[i - m] /\ i - m \in 1..n /\ (i = m + n <=> i - m = n)
      BY <1>1, <1>2, <2>2
    <3> QED
      BY <3>1 DEF Linked, n
  <2> QED
    BY <2>1, <2>2
<1>5. ASSUME NEW i \in 2..(m + n)
      PROVE  s[i].part # "amounts" /\ Follows(s[i], s[i - 1], u)
  <2>0. i \in 1..(m + n) /\ i - 1 \in 1..(m + n)
    BY <1>1
  <2>1. CASE i <= m
    <3>1. s[i] = a[i] /\ s[i - 1] = a[i - 1] /\ i \in 2..m
      BY <1>1, <1>2, <2>0, <2>1
    <3> QED
      BY <3>1 DEF Linked, m
  <2>2. CASE i = m + 1
    <3>1. s[i] = b[1] /\ s[i - 1] = a[m]
      <4>1. ~(i <= m) /\ i - m = 1 /\ i - 1 = m /\ m <= m
        BY <1>1, <2>2
      <4> QED
        BY <1>2, <2>0, <4>1
    <3>2. /\ a[m].from + a[m].len = u[a[m].part] /\ NextPart(a[m].part) = b[1].part
          /\ b[1].from = 0
      BY DEF Linked, m
    <3> QED
      BY <3>1, <3>2 DEF Follows
  <2>3. CASE ~(i <= m + 1)
    <3>1. s[i] = b[i - m] /\ s[i - 1] = b[(i - m) - 1] /\ i - m \in 2..n
      <4>1. ~(i <= m) /\ ~(i - 1 <= m) /\ (i - 1) - m = (i - m) - 1 /\ i - m \in 2..n
        BY <1>1, <2>3
      <4> QED
        BY <1>2, <2>0, <4>1
    <3> QED
      BY <3>1 DEF Linked, n
  <2> QED
    BY <1>1, <2>1, <2>2, <2>3
<1>6. /\ s[1].from = 0
      /\ s[m + n].part = next /\ s[m + n].from + s[m + n].len = u[next]
  BY <1>3 DEF Linked, n
<1>7. Linked(s, c, u, next, mark)
  BY <1>2, <1>3, <1>4, <1>5, <1>6 DEF Linked
<1> QED
  BY <1>3, <1>7

\* The packs of a call, whatever the lengths.
LEMMA PiecesAre ==
    ASSUME NEW c \in 1..MaxCalls, NEW u \in Uploads
    PROVE  /\ Linked(Pieces(c, u), c, u, LastPart(u), 3)
           /\ Pieces(c, u)[1] = [call |-> c, part |-> "amounts", from |-> 0,
                                 len |-> u.amounts, p1 |-> 1]
<1>1. /\ u \in Upload
      /\ u.amounts \in Nat \ {0} /\ u.path \in Nat \ {0} /\ u.tx \in Nat \ {0}
      /\ u.change \in Nat \ {0} /\ u.redeem \in Nat
  BY SignAssumption DEF Upload
<1> DEFINE z == (u.redeem = 0)
           mark == IF z THEN 3 ELSE 2
           p0 == [call |-> c, part |-> "amounts", from |-> 0, len |-> u.amounts, p1 |-> 1]
           s0 == <<p0>>
           s1 == TranPack(c, "path", u.path, FALSE)
           s2 == TranPack(c, "tx", u.tx, FALSE)
           s3 == TranPack(c, "change", u.change, z)
           s4 == TranPack(c, "redeem", u.redeem, TRUE)
<1>2. Pieces(c, u) = s0 \o s1 \o s2 \o s3 \o (IF z THEN <<>> ELSE s4)
  BY DEF Pieces
<1>3. Linked(s0, c, u, "amounts", 2) /\ s0[1] = p0
  <2>1. p0 \in Piece
    BY <1>1 DEF Piece
  <2>2. s0 \in Seq(Piece) /\ Len(s0) = 1 /\ s0[1] = p0
    BY <2>1
  <2>3. p0.from + p0.len = u["amounts"]
    BY <1>1
  <2> QED
    BY <2>2, <2>3 DEF Linked
<1>4. Linked(s1, c, u, "path", 2) /\ s1[1].part = "path"
  BY <1>1, TranPackIs
<1>5. Linked(s2, c, u, "tx", 2) /\ s2[1].part = "tx"
  BY <1>1, TranPackIs
<1>6. Linked(s3, c, u, "change", mark) /\ s3[1].part = "change"
  <2>1. z \in BOOLEAN /\ mark \in {2, 3} /\ mark = IF z THEN 3 ELSE 2
    OBVIOUS
  <2> HIDE DEF z, mark
  <2> QED
    BY <1>1, <2>1, TranPackIs
<1>7. ~z => Linked(s4, c, u, "redeem", 3) /\ s4[1].part = "redeem"
  <2> SUFFICES ASSUME ~z
               PROVE  Linked(s4, c, u, "redeem", 3) /\ s4[1].part = "redeem"
    OBVIOUS
  <2>1. u["redeem"] \in Nat \ {0}
    BY <1>1
  <2> QED
    BY <1>1, <2>1, TranPackIs
<1>8. /\ NextPart("amounts") = "path" /\ NextPart("path") = "tx"
      /\ NextPart("tx") = "change" /\ NextPart("change") = "redeem"
      /\ mark \in {2, 3}
  BY DEF NextPart
<1> HIDE DEF s0, s1, s2, s3, s4, p0, mark, z
<1> DEFINE t1 == s0 \o s1
           t2 == t1 \o s2
           t3 == t2 \o s3
           t4 == t3 \o s4
<1>9. ASSUME NEW a \in Seq(Piece), NEW b \in Seq(Piece)
      PROVE  IsConcat(a \o b, a, b)
  BY ConcatProperties DEF IsConcat
<1>10. Pieces(c, u) = t3 \o (IF z THEN <<>> ELSE s4)
  BY <1>2
<1>11. Linked(t1, c, u, "path", 2) /\ t1[1] = p0
  <2>1. IsConcat(t1, s0, s1)
    BY <1>3, <1>4, <1>9 DEF Linked
  <2> HIDE DEF t1
  <2> QED
    BY <1>3, <1>4, <1>8, <2>1, Joined
<1> HIDE DEF t1
<1>12. Linked(t2, c, u, "tx", 2) /\ t2[1] = p0
  <2>1. IsConcat(t2, t1, s2)
    BY <1>5, <1>9, <1>11 DEF Linked
  <2> HIDE DEF t2
  <2> QED
    BY <1>5, <1>8, <1>11, <2>1, Joined
<1> HIDE DEF t2
<1>13. Linked(t3, c, u, "change", mark) /\ t3[1] = p0
  <2>1. IsConcat(t3, t2, s3)
    BY <1>6, <1>9, <1>12 DEF Linked
  <2> HIDE DEF t3
  <2> QED
    BY <1>6, <1>8, <1>12, <2>1, Joined
<1> HIDE DEF t3
<1>14. CASE z
  <2>1. Pieces(c, u) = t3
    BY <1>10, <1>13, <1>14, ConcatEmptySeq DEF Linked
  <2>2. mark = 3
    BY <1>14 DEF mark
  <2> QED
    BY <1>13, <1>14, <2>1, <2>2 DEF LastPart, p0, z
<1>15. CASE ~z
  <2>1. Pieces(c, u) = t4 /\ IsConcat(t4, t3, s4)
    BY <1>7, <1>9, <1>10, <1>13, <1>15 DEF Linked
  <2> HIDE DEF t4
  <2>2. mark = 2
    BY <1>15 DEF mark
  <2>3. Linked(t3, c, u, "change", 2)
    BY <1>13, <2>2
  <2>4. Linked(t4, c, u, "redeem", 3) /\ t4[1] = p0
    <3>1. Linked(s4, c, u, "redeem", 3) /\ s4[1].part = "redeem"
      BY <1>7, <1>15
    <3>2. Linked(t4, c, u, "redeem", 3) /\ t4[1] = t3[1]
      BY <1>8, <2>1, <2>3, <3>1, Joined
    <3> QED
      BY <1>13, <3>2
  <2> QED
    BY <1>15, <2>1, <2>4 DEF LastPart, p0, z
<1> QED
  BY <1>14, <1>15

LEMMA PacksAre ==
    ASSUME NEW c \in 1..MaxCalls, NEW u \in Uploads
    PROVE  LET ps == Pieces(c, u)
               n == Len(ps)
           IN  /\ ps \in Seq(Piece)
               /\ n \in Nat /\ n > 1
               /\ IsUpload(ps, c, u)
               /\ \A i \in 1..n : /\ ps[i] \in Piece /\ ps[i].call = c
                                  /\ (ps[i].p1 = 1) <=> (i = 1)
                                  /\ (ps[i].p1 = 3) <=> (i = n)
<1> DEFINE ps == Pieces(c, u)
           n == Len(ps)
<1>1. /\ Linked(ps, c, u, LastPart(u), 3)
      /\ ps[1].part = "amounts" /\ ps[1].from = 0 /\ ps[1].len = u.amounts
  <2> DEFINE p0 == [call |-> c, part |-> "amounts", from |-> 0, len |-> u.amounts, p1 |-> 1]
  <2>1. Linked(ps, c, u, LastPart(u), 3) /\ ps[1] = p0
    BY PiecesAre
  <2> HIDE DEF ps, n
  <2> QED
    BY <2>1
<1>2. ps \in Seq(Piece) /\ n \in Nat /\ n > 1
  <2>1. ps \in Seq(Piece) /\ n \in Nat \ {0}
    BY <1>1 DEF Linked
  <2>2. ps[n].part # "amounts"
    BY <1>1 DEF Linked, LastPart
  <2>3. n # 1
    BY <1>1, <2>2
  <2> HIDE DEF ps, n
  <2> QED
    BY <2>1, <2>3
<1> HIDE DEF ps, n
<1>3. \A i \in 2..n : i \in 1..n /\ ps[i].part # "amounts"
  BY <1>1 DEF Linked, n
<1>4. \A i \in 1..n : /\ ps[i] \in Piece /\ ps[i].call = c
                      /\ ps[i].p1 = IF i = 1 THEN 1 ELSE IF i = n THEN 3 ELSE 2
  <2>1. \A i \in 1..n : i = 1 \/ i \in 2..n
    BY <1>2
  <2>2. \A i \in 1..n : ps[i] \in Piece /\ ps[i].call = c
    BY <1>1, <1>2 DEF Linked, n
  <2> QED
    BY <1>1, <1>3, <2>1, <2>2 DEF Linked, n
<1>5. IsUpload(ps, c, u)
  <2>1. \A i \in 2..n : Follows(ps[i], ps[i - 1], u) /\ ps[i].len \in 1..kSendOnceLen
    BY <1>1, <1>3 DEF Linked, n
  <2>2. ps[n].part = LastPart(u) /\ ps[n].from + ps[n].len = u[ps[n].part]
    BY <1>1 DEF Linked, n
  <2>3. \A i \in 1..n : ps[i].p1 = (CASE i = 1 -> 1 [] i = n -> 3 [] OTHER -> 2)
    BY <1>2, <1>4
  <2> QED
    BY <1>1, <1>2, <1>4, <2>1, <2>2, <2>3 DEF IsUpload, LastPart, n
<1> QED
  <2>1. \A i \in 1..n : /\ (ps[i].p1 = 1) <=> (i = 1)
                        /\ (ps[i].p1 = 3) <=> (i = n)
    BY <1>2, <1>4
  <2> QED
    BY <1>1, <1>2, <1>4, <1>5, <2>1 DEF ps, n

-----------------------------------------------------------------------------
(* What the other operators return *)

LEMMA StatusIs ==
    /\ NoSig \in Signature
    /\ \A sw \in {"9000", "6f00", "6f09"} :
        /\ Status(sw) \in Replies
        /\ Status(sw).sw = sw
        /\ Status(sw).len = 0
<1>1. NoSig \in Signature
  BY DEF NoSig, Signature
<1> QED
  BY <1>1 DEF Status, Reply, Replies

LEMMA ReplyIs ==
    ASSUME NEW n \in Nat, NEW v \in Nat, NEW g \in Signature, NEW at \in Nat
    PROVE  LET r == Reply("9000", n, v, g, at)
           IN  /\ r \in Replies
               /\ r.sw = "9000" /\ r.len = n /\ r.value = v /\ r.sig = g /\ r.at = at
BY DEF Reply, Replies

\* The one connection of the transport.
LEMMA LinkTypes ==
    /\ (/\ issued \in 0..MaxCmds /\ pending \in BOOLEAN
        /\ outcome \in {"none", "answer", "error"}) => Link!TypeOK
    /\ (/\ issued' \in 0..MaxCmds /\ pending' \in BOOLEAN
        /\ outcome' \in {"none", "answer", "error"}) => Link!TypeOK'
<1>1. \A n : [k \in 1..MaxCmds |-> IF k <= n THEN 1 ELSE 0] \in [1..MaxCmds -> 0..1]
  OBVIOUS
<1> QED
  BY <1>1 DEF Link!TypeOK

\* An answer is newer than those before it.
LEMMA AnswerIs ==
    ASSUME NEW k \in 1..MaxCmds, latest \in Nat, MaxCmds \in Nat, Link!Answer(k, 1)
    PROVE  /\ pending /\ ~pending' /\ pending' \in BOOLEAN
           /\ k <= issued /\ latest < k
           /\ issued' = issued /\ outcome' = "answer"
<1> DEFINE given == [j \in 1..MaxCmds |-> IF j <= latest THEN 1 ELSE 0]
<1>1. /\ pending /\ pending' = FALSE /\ k <= issued
      /\ issued' = issued /\ outcome' = "answer"
      /\ given[k] = 0
  BY DEF Link!Answer
<1>2. ~(k <= latest)
  BY <1>1
<1> HIDE DEF given
<1>3. latest < k
  BY <1>2
<1>4. ~pending' /\ pending' \in BOOLEAN
  BY <1>1
<1> QED
  BY <1>1, <1>3, <1>4

\* The packs of the call under way.
LEMMA CallIs ==
    ASSUME TypeOK, Nesting, upload # NULL
    PROVE  /\ calls \in 1..MaxCalls /\ upload \in Uploads
           /\ Packs \in Seq(Piece)
           /\ N \in Nat /\ N > 1
           /\ IsUpload(Packs, calls, upload)
           /\ \A i \in 1..N : /\ Packs[i] \in Piece /\ Packs[i].call = calls
                              /\ (Packs[i].p1 = 1) <=> (i = 1)
                              /\ (Packs[i].p1 = 3) <=> (i = N)
<1>1. calls \in 1..MaxCalls /\ upload \in Uploads
  BY SignAssumption DEF TypeOK, Nesting
<1> QED
  BY <1>1, PacksAre DEF Packs, N

\* What depends on the call and its position only.
LEMMA SameCall ==
    ASSUME UNCHANGED <<calls, upload>>
    PROVE  /\ Packs' = Packs /\ N' = N
           /\ Uploading' <=> pos' <= N
           /\ Signing' <=> pos' = N + 1
           /\ Reading' <=> pos' > N + 1
           /\ Offset' = (pos' - N - 2) * kReadOnceLen
           /\ Accountable' <=> (late' = 0 \/ (~missed' /\ late' <= N))
BY DEF Packs, N, Uploading, Signing, Reading, Offset, Accountable

LEMMA Positions ==
    /\ Uploading <=> pos <= N
    /\ Signing <=> pos = N + 1
    /\ Reading <=> pos > N + 1
    /\ Offset = (pos - N - 2) * kReadOnceLen
    /\ Accountable <=> (late = 0 \/ (~missed /\ late <= N))
BY DEF Packs, N, Uploading, Signing, Reading, Offset, Accountable

LEMMA Later ==
    ASSUME NEW ps \in Seq(Piece), NEW c \in Nat, Before(ps, c)
    PROVE  Before(ps, c + 1)
<1>1. \A i \in 1..Len(ps) : ps[i].call \in Nat
  <2>1. \A i \in 1..Len(ps) : ps[i] \in Piece
    OBVIOUS
  <2> QED
    BY <2>1 DEF Piece
<1> QED
  BY <1>1 DEF Before

\* A piece that follows those in the buffer.
LEMMA Appended ==
    ASSUME NEW b \in Seq(Piece), NEW ps, NEW p \in Piece,
           \A i \in 1..Len(b) : b[i] = ps[i], p = ps[Len(b) + 1]
    PROVE  /\ Append(b, p) \in Seq(Piece)
           /\ Len(Append(b, p)) = Len(b) + 1
           /\ \A i \in 1..(Len(b) + 1) : Append(b, p)[i] = ps[i]
<1>1. /\ Append(b, p) \in Seq(Piece) /\ Len(Append(b, p)) = Len(b) + 1
      /\ Len(b) \in Nat
      /\ \A i \in 1..(Len(b) + 1) :
            Append(b, p)[i] = IF i <= Len(b) THEN b[i] ELSE p
  OBVIOUS
<1>2. ASSUME NEW i \in 1..(Len(b) + 1)
      PROVE  Append(b, p)[i] = ps[i]
  BY <1>1
<1> QED
  BY <1>1, <1>2

\* A stretch that goes on where the others end.
LEMMA Covered ==
    ASSUME NEW ss \in Seq(Stretch), NEW st \in Stretch, NEW s, NEW n \in Nat,
           AreOf(ss, s), st.sig = s, st.at = st.to,
           Cover(ss, st.to), n <= st.to + st.len
    PROVE  LET t == Append(ss, st)
           IN  t \in Seq(Stretch) /\ AreOf(t, s) /\ Cover(t, n)
<1> DEFINE t == Append(ss, st)
           m == Len(ss)
<1>1. /\ t \in Seq(Stretch) /\ Len(t) = m + 1 /\ m \in Nat
      /\ \A i \in 1..(m + 1) : t[i] = IF i <= m THEN ss[i] ELSE st
  OBVIOUS
<1>2. /\ \A i \in 1..m : t[i] = ss[i] /\ i \in 1..Len(t)
      /\ t[m + 1] = st /\ m + 1 \in 1..Len(t)
  BY <1>1
<1>3. st.to \in Nat /\ st.len \in Nat
  BY DEF Stretch
<1> HIDE DEF t
<1>4. AreOf(t, s)
  BY <1>1 DEF AreOf
<1>5. ASSUME NEW b \in 0..(n - 1)
      PROVE  \E i \in 1..Len(t) : b \in t[i].to..(t[i].to + t[i].len - 1)
  <2>1. CASE b < st.to
    <3>1. b \in 0..(st.to - 1)
      BY <1>3, <2>1
    <3>2. PICK i \in 1..m : b \in ss[i].to..(ss[i].to + ss[i].len - 1)
      BY <3>1 DEF Cover
    <3> QED
      BY <1>2, <3>2
  <2>2. CASE b >= st.to
    <3>1. b \in st.to..(st.to + st.len - 1)
      BY <1>3, <2>2
    <3> QED
      BY <1>2, <3>1
  <2> QED
    BY <1>3, <2>1, <2>2
<1> QED
  BY <1>1, <1>4, <1>5 DEF Cover, t

-----------------------------------------------------------------------------
(* The invariant *)

LEMMA InvInit == Init => Inv
<1> SUFFICES ASSUME Init
             PROVE  Inv
  OBVIOUS
<1> USE SignAssumption DEF Init, Link!Init
<1>1. TypeOK
  <2>1. Link!TypeOK
    <3>1. pending \in BOOLEAN
      OBVIOUS
    <3>2. issued \in 0..MaxCmds
      OBVIOUS
    <3>3. outcome \in {"none", "answer", "error"}
      OBVIOUS
    <3> QED
      BY <3>1, <3>2, <3>3, LinkTypes
  <2>2. replies \in [1..MaxCmds -> Replies \cup {NULL}]
    OBVIOUS
  <2>3. missed \in BOOLEAN
    OBVIOUS
  <2>4. result \in Results /\ result # "none" /\ ~pending
    BY DEF Results
  <2>5. buf \in Seq(Piece) /\ raw \in Seq(Stretch)
    OBVIOUS
  <2>6. /\ calls \in 0..MaxCalls /\ pos \in Nat \ {0} /\ total \in Nat
        /\ ulRetLen \in 0..kReadOnceLen
        /\ late \in 0..MaxCmds /\ misses \in 0..MaxMisses
        /\ latest \in 0..MaxCmds /\ asked \in 0..MaxCmds
    OBVIOUS
  <2>7. /\ signed \in Signature \cup {NULL} /\ upload \in Uploads \cup {NULL}
        /\ asker \in [call : 1..MaxCalls, upload : Uploads] \cup {NULL}
    OBVIOUS
  <2> QED
    BY <2>1, <2>2, <2>3, <2>4, <2>5, <2>6, <2>7 DEF TypeOK
<1>2. result # "none" /\ result # "OK" /\ result # "USER_CANCEL"
  OBVIOUS
<1>3. Nesting /\ Dated
  BY DEF Nesting, Dated, Before
<1>4. /\ Calling /\ PieceReplies /\ Unsigned /\ SignReply /\ ReadReply /\ Copied
      /\ SignedIsRequested /\ CancelledIsUnsigned
  BY <1>2 DEF Calling, PieceReplies, Unsigned, SignReply, ReadReply, Copied,
              SignedIsRequested, CancelledIsUnsigned
<1>5. Buffered
  BY <1>2 DEF Buffered
<1>6. Asking /\ Settled
  BY DEF Asking, Settled
<1> QED
  BY <1>1, <1>3, <1>4, <1>5, <1>6 DEF Inv

\* A call begins.
LEMMA SignTXStep ==
    ASSUME Inv, NEW u \in Uploads, SignTX(u)
    PROVE  Inv'
<1>1. /\ issued \in 0..MaxCmds /\ latest \in 0..MaxCmds /\ MaxCmds \in Nat
      /\ latest <= issued /\ ~pending
      /\ calls \in 0..MaxCalls /\ MaxCalls \in Nat
  BY SignAssumption DEF Inv, TypeOK, Link!TypeOK, Nesting, SignTX
<1>2. /\ calls < MaxCalls /\ calls' = calls + 1
      /\ upload' = u /\ pos' = 1 /\ total' = 0 /\ ulRetLen' = kReadOnceLen
      /\ raw' = <<>> /\ result' = "none" /\ late' = issued - latest
      /\ ~missed' /\ missed' = FALSE
      /\ issued' = issued /\ pending' = pending
      /\ latest' = latest /\ outcome' = outcome
      /\ replies' = replies /\ buf' = buf /\ signed' = signed /\ misses' = misses
      /\ asked' = asked /\ asker' = asker
  BY DEF SignTX, link, device
<1>3. u # NULL
  BY SignAssumption
<1>4. Nesting'
  BY <1>1, <1>2, <1>3 DEF Nesting
<1>5. calls' \in 1..MaxCalls /\ N' \in Nat /\ N' > 1
  <2>1. calls' \in 1..MaxCalls
    BY <1>1, <1>2
  <2>2. Len(Pieces(calls', u)) \in Nat /\ Len(Pieces(calls', u)) > 1
    BY <2>1, PacksAre
  <2>3. N' = Len(Pieces(calls', u))
    BY <1>2 DEF N, Packs
  <2> QED
    BY <2>1, <2>2, <2>3
<1>6. ~Signing' /\ ~Reading' /\ Uploading'
  <2> DEFINE n == N'
  <2>1. pos' <= n /\ pos' # n + 1 /\ ~(pos' > n + 1)
    <3>1. pos' = 1 /\ n \in Nat /\ n > 1
      BY <1>2, <1>5
    <3> HIDE DEF n
    <3> QED
      BY <3>1
  <2> QED
    BY <2>1 DEF Uploading, Signing, Reading, N, Packs
<1>7. Base' = issued' /\ Sent' = 0
  <2>1. ~pending'
    BY <1>1, <1>2
  <2> QED
    BY <1>1, <1>2, <2>1 DEF Base, Sent
<1>8. TypeOK'
  <2>1. Link!TypeOK'
    <3>1. /\ issued' \in 0..MaxCmds /\ pending' \in BOOLEAN
          /\ outcome' \in {"none", "answer", "error"}
      BY <1>2 DEF Inv, TypeOK, Link!TypeOK
    <3> QED
      BY <3>1, LinkTypes
  <2>2. missed' \in BOOLEAN
    BY <1>2
  <2>3. late' \in 0..MaxCmds
    BY <1>1, <1>2
  <2>4. ulRetLen' \in 0..kReadOnceLen /\ pos' \in Nat \ {0} /\ total' \in Nat
    BY <1>2, SignAssumption
  <2>5. result' \in Results /\ (pending' => result' = "none") /\ raw' \in Seq(Stretch)
    BY <1>1, <1>2 DEF Results
  <2>6. upload' \in Uploads \cup {NULL} /\ upload' # NULL /\ calls' > 0
        /\ calls' \in 0..MaxCalls
    BY <1>2, <1>3, <1>5
  <2> QED
    BY <1>2, <1>6, <2>1, <2>2, <2>3, <2>4, <2>5, <2>6 DEF Inv, TypeOK
<1>9. Dated' /\ Before(buf', calls') /\ (signed' # NULL => Before(signed'.pieces, calls'))
  <2>1. Before(buf, calls + 1) /\ (signed # NULL => Before(signed.pieces, calls + 1))
    BY DEF Inv, Dated
  <2>2. Before(buf, calls') /\ (signed # NULL => Before(signed.pieces, calls'))
    BY <1>2, <2>1
  <2>3. buf \in Seq(Piece) /\ (signed # NULL => signed.pieces \in Seq(Piece))
    BY DEF Inv, TypeOK, Signature
  <2>4. /\ Before(buf, calls' + 1)
        /\ signed # NULL => Before(signed.pieces, calls' + 1)
    BY <1>5, <2>2, <2>3, Later
  <2> QED
    BY <1>2, <2>2, <2>4 DEF Dated
<1>10. Calling'
  BY <1>1, <1>2, <1>6, <1>7 DEF Calling
<1>11. PieceReplies'
  BY <1>1, <1>2, <1>7 DEF PieceReplies
<1>12. Buffered'
  BY <1>2, <1>7, <1>9 DEF Buffered
<1>13. Unsigned'
  BY <1>9 DEF Unsigned
<1>14. /\ SignReply' /\ ReadReply' /\ Copied'
       /\ SignedIsRequested' /\ CancelledIsUnsigned'
  BY <1>2, <1>6 DEF SignReply, ReadReply, Copied, SignedIsRequested, CancelledIsUnsigned
<1>15. Asking'
  <2>1. SUFFICES ASSUME asked # 0
                 PROVE  /\ latest < asked /\ asked <= issued
                        /\ \A k \in 1..MaxCmds : asked <= k /\ k <= issued => replies[k] = NULL
                        /\ asker # NULL => buf = Pieces(asker.call, asker.upload)
    BY <1>2, <1>7, <1>9 DEF Asking
  <2> QED
    BY <2>1 DEF Inv, Asking
<1>16. Settled'
  BY <1>2 DEF Settled
<1> QED
  BY <1>4, <1>8, <1>9, <1>10, <1>11, <1>12, <1>13, <1>14, <1>15, <1>16 DEF Inv

\* A call that has ended, or a function that is not a call of this kind.
LEMMA Ended ==
    ASSUME Inv, Link!TypeOK', ~pending', latest' \in 0..MaxCmds, latest' <= issued',
           result' \in Results, result' # "none",
           replies' \in [1..MaxCmds -> Replies \cup {NULL}],
           \A k \in 1..MaxCmds : replies'[k] # NULL => replies'[k] = replies[k],
           asked # 0 => latest' < asked,
           pos' \in Nat \ {0}, total' \in Nat,
           ulRetLen' \in 0..kReadOnceLen, raw' \in Seq(Stretch),
           UNCHANGED <<issued, buf, signed, asked, asker, calls, upload, late, missed, misses>>,
           SignedIsRequested', CancelledIsUnsigned', Settled'
    PROVE  Inv'
<1>1. TypeOK'
  BY DEF Inv, TypeOK
<1>2. Nesting' /\ Dated'
  BY DEF Inv, Nesting, Dated
<1>3. Buffered'
  <2>1. Packs' = Packs /\ N' = N
    BY SameCall
  <2> QED
    BY <2>1 DEF Inv, Buffered
<1>4. /\ Calling' /\ PieceReplies' /\ Unsigned' /\ SignReply' /\ ReadReply' /\ Copied'
  BY DEF Calling, PieceReplies, Unsigned, SignReply, ReadReply, Copied
<1>5. Asking'
  BY DEF Inv, Asking
<1> QED
  BY <1>1, <1>2, <1>3, <1>4, <1>5 DEF Inv

\* The steps that end with an error whatever is in line.
LEMMA ErrorStep ==
    ASSUME Inv, SignTXUnsupported \/ SendApduRefused \/ SendApduFails
    PROVE  Inv'
<1>1. /\ result' \in {"IMPL_NOT_SUPPORT", "TRANSMIT_DEVICE_ERROR"}
      /\ UNCHANGED <<latest, replies, buf, signed, asked, asker, calls, upload, late, pos,
                     total, ulRetLen, raw, missed, misses>>
  BY DEF SignTXUnsupported, SendApduRefused, SendApduFails, link, device, call
<1>2. /\ Link!TypeOK' /\ ~pending' /\ issued' = issued
      /\ latest' \in 0..MaxCmds /\ latest' <= issued'
  <2>1. /\ issued \in 0..MaxCmds /\ pending \in BOOLEAN
        /\ outcome \in {"none", "answer", "error"}
        /\ latest \in 0..MaxCmds /\ latest <= issued /\ (pending => result = "none")
    BY DEF Inv, TypeOK, Link!TypeOK, Nesting
  <2>2. /\ issued' = issued /\ ~pending' /\ pending' \in BOOLEAN
        /\ outcome' \in {"none", "answer", "error"}
    <3>1. CASE SignTXUnsupported
      BY <2>1, <3>1 DEF SignTXUnsupported, link
    <3>2. CASE SendApduRefused
      BY <2>1, <3>2 DEF SendApduRefused, Link!Refuse
    <3>3. CASE SendApduFails
      BY <2>1, <3>3 DEF SendApduFails, Link!Fail
    <3> QED
      BY <3>1, <3>2, <3>3
  <2>3. Link!TypeOK'
    BY <2>1, <2>2, LinkTypes
  <2> QED
    BY <1>1, <2>1, <2>2, <2>3
<1>3. /\ result' \in Results /\ result' # "none" /\ result' # "OK" /\ result' # "USER_CANCEL"
      /\ result' # "idle"
  BY <1>1 DEF Results
<1>4. SignedIsRequested' /\ CancelledIsUnsigned' /\ Settled'
  BY <1>3 DEF SignedIsRequested, CancelledIsUnsigned, Settled
<1>5. /\ replies' \in [1..MaxCmds -> Replies \cup {NULL}]
      /\ pos' \in Nat \ {0} /\ total' \in Nat
      /\ ulRetLen' \in 0..kReadOnceLen /\ raw' \in Seq(Stretch)
  BY <1>1 DEF Inv, TypeOK
<1>6. asked # 0 => latest' < asked
  BY <1>1 DEF Inv, Asking
<1> QED
  BY <1>1, <1>2, <1>3, <1>4, <1>5, <1>6, Ended

-----------------------------------------------------------------------------
(* Sending *)

\* The call that is about to send, or waits for an answer.
LEMMA Under ==
    ASSUME Inv, result = "none"
    PROVE  /\ issued \in 0..MaxCmds /\ latest \in 0..MaxCmds /\ late \in 0..MaxCmds
           /\ MaxCmds \in Nat /\ latest <= issued
           /\ pos \in Nat \ {0} /\ Base \in Nat
           /\ issued = Base + Sent
           /\ Sent = IF pending THEN pos ELSE pos - 1
           /\ upload # NULL /\ calls \in 1..MaxCalls
           /\ Packs \in Seq(Piece) /\ N \in Nat /\ N > 1
           /\ \A i \in 1..N : /\ Packs[i] \in Piece /\ Packs[i].call = calls
                              /\ (Packs[i].p1 = 1) <=> (i = 1)
                              /\ (Packs[i].p1 = 3) <=> (i = N)
<1>1. /\ issued \in 0..MaxCmds /\ latest \in 0..MaxCmds /\ late \in 0..MaxCmds
      /\ MaxCmds \in Nat /\ latest <= issued
      /\ pos \in Nat \ {0} /\ Base \in Nat
      /\ upload # NULL
  BY SignAssumption DEF Inv, TypeOK, Link!TypeOK, Nesting, Calling
<1>2. issued = Base + Sent /\ Sent = IF pending THEN pos ELSE pos - 1
  BY <1>1 DEF Base, Sent
<1> QED
  BY <1>1, <1>2, CallIs DEF Inv

\* What an APDU that is issued leaves true, whatever it will be answered with.
LEMMA Issued ==
    ASSUME Inv, result = "none", Link!Request,
           NEW r, r \in Replies \cup {NULL},
           replies' = [replies EXCEPT ![issued'] = r],
           UNCHANGED <<latest, calls, upload, late, pos, total, ulRetLen, raw, result>>
    PROVE  /\ ~pending /\ pending' /\ issued' \in 1..MaxCmds /\ issued' = issued + 1
           /\ latest' = latest /\ latest' < issued'
           /\ Link!TypeOK'
           /\ replies' \in [1..MaxCmds -> Replies \cup {NULL}]
           /\ Base' = Base /\ issued' = Base + pos
           /\ Sent = pos - 1 /\ Sent' = pos
           /\ Packs' = Packs /\ N' = N
           /\ (Uploading' <=> Uploading) /\ (Signing' <=> Signing) /\ (Reading' <=> Reading)
           /\ Offset' = Offset /\ (IsRemainder' <=> IsRemainder)
           /\ Nesting' /\ Calling'
           /\ SignedIsRequested' /\ CancelledIsUnsigned'
           /\ replies'[issued'] = r
           /\ \A k \in 1..MaxCmds : k # issued' => replies'[k] = replies[k]
<1>1. /\ issued \in 0..MaxCmds /\ latest \in 0..MaxCmds /\ MaxCmds \in Nat
      /\ latest <= issued /\ pos \in Nat \ {0} /\ Base \in Nat
  BY Under
<1>2. /\ ~pending /\ issued < MaxCmds
      /\ issued' = issued + 1 /\ pending' = TRUE /\ outcome' = "none"
  BY DEF Link!Request
<1>3. pending' /\ pending' \in BOOLEAN
  BY <1>2
<1>4. issued' \in 1..MaxCmds /\ issued' \in 0..MaxCmds
  BY <1>1, <1>2
<1>5. Link!TypeOK' /\ latest' < issued'
  <2>1. Link!TypeOK'
    BY <1>2, <1>3, <1>4, LinkTypes
  <2> QED
    BY <1>1, <1>2, <2>1
<1>6. /\ Base' = Base /\ issued' = Base + pos
      /\ Sent = pos - 1 /\ Sent' = pos
  BY <1>1, <1>2, <1>3 DEF Base, Sent
<1>7. /\ replies' \in [1..MaxCmds -> Replies \cup {NULL}]
      /\ replies'[issued'] = r
      /\ \A k \in 1..MaxCmds : k # issued' => replies'[k] = replies[k]
  BY <1>4 DEF Inv, TypeOK
<1>8. /\ Packs' = Packs /\ N' = N
      /\ (Uploading' <=> Uploading) /\ (Signing' <=> Signing) /\ (Reading' <=> Reading)
      /\ Offset' = Offset /\ (IsRemainder' <=> IsRemainder)
  BY DEF Packs, N, Uploading, Signing, Reading, Offset, IsRemainder
<1>9. Nesting'
  BY <1>1, <1>2 DEF Inv, Nesting
<1>10. Calling'
  BY <1>2, <1>6, <1>8 DEF Inv, Calling
<1>11. SignedIsRequested' /\ CancelledIsUnsigned'
  BY DEF SignedIsRequested, CancelledIsUnsigned
<1> QED
  BY <1>2, <1>3, <1>4, <1>5, <1>6, <1>7, <1>8, <1>9, <1>10, <1>11

\* What has been issued before.
LEMMA PieceRepliesStep ==
    ASSUME Inv, result = "none", result' = "none", Base' = Base, N' = N,
           issued \in Nat, issued' = issued + 1,
           \A k \in 1..MaxCmds : k # issued' => replies'[k] = replies[k],
           (issued' - Base <= N /\ replies'[issued'] # NULL) =>
                replies'[issued'].len = 0 /\ replies'[issued'].sw # "6f09"
    PROVE  PieceReplies'
<1> SUFFICES ASSUME NEW k \in 1..MaxCmds,
                    Base < k, k <= issued', k - Base <= N, replies'[k] # NULL
             PROVE  replies'[k].len = 0 /\ replies'[k].sw # "6f09"
  BY DEF PieceReplies
<1>1. CASE k = issued'
  BY <1>1
<1>2. CASE k # issued'
  <2>1. k <= issued
    BY <1>2
  <2> QED
    BY <1>2, <2>1 DEF Inv, PieceReplies
<1> QED
  BY <1>1, <1>2

\* When nothing of the call is pending, it has lost no piece, or answers that
\* are not its own can come.
LEMMA NothingLost ==
    ASSUME Inv, result = "none", ~pending, late = 0 \/ ~missed
    PROVE  /\ ~missed
           /\ IF Sent = 0
              THEN Before(buf, calls)
              ELSE /\ Len(buf) = (IF Sent <= N THEN Sent ELSE N)
                   /\ \A i \in 1..Len(buf) : buf[i] = Packs[i]
<1>1. ~missed
  BY DEF Inv, Buffered
<1> QED
  BY <1>1 DEF Inv, Buffered

\* The device takes a piece.
LEMMA SendPieceStep ==
    ASSUME Inv, SendApdu, Uploading
    PROVE  Inv'
<1> DEFINE p == Packs[pos]
<1>1. /\ result = "none" /\ Link!Request
      /\ UNCHANGED <<calls, upload, late, pos, total, ulRetLen, raw, result, missed, misses,
                     latest, signed>>
      /\ asked = 0
  BY DEF SendApdu, call, progress
<1>2. PICK r \in DeviceDoes : /\ buf' = r.buf
                              /\ replies' = [replies EXCEPT ![issued'] = r.reply]
  BY DEF SendApdu
<1>3. /\ issued \in 0..MaxCmds /\ latest \in 0..MaxCmds /\ MaxCmds \in Nat
      /\ pos \in Nat \ {0} /\ Base \in Nat
      /\ upload # NULL /\ calls \in 1..MaxCalls
      /\ N \in Nat /\ N > 1 /\ pos <= N
      /\ p \in Piece /\ p.call = calls /\ ((p.p1 = 1) <=> (pos = 1))
  <2>1. pos \in 1..N
    BY <1>1, Under, Positions
  <2> QED
    BY <1>1, <2>1, Under, Positions
<1>4. r = TakesPiece(p)
  <2>1. DeviceDoes = {TakesPiece(Pieces(calls, upload)[pos])}
    BY <1>3, Positions DEF DeviceDoes
  <2> QED
    BY <2>1 DEF Packs
<1>5. /\ buf' = IF p.p1 = 1 THEN <<p>> ELSE Append(buf, p)
      /\ signed' = signed
      /\ r.reply = Status("9000")
  BY <1>1, <1>2, <1>4 DEF TakesPiece
<1>6. r.reply \in Replies /\ r.reply.len = 0 /\ r.reply.sw = "9000"
  BY <1>5, StatusIs
<1>7. /\ ~pending /\ pending' /\ issued' \in 1..MaxCmds /\ issued' = issued + 1
      /\ latest' = latest /\ latest' < issued' /\ Link!TypeOK'
      /\ replies' \in [1..MaxCmds -> Replies \cup {NULL}]
      /\ Base' = Base /\ Sent = pos - 1 /\ Sent' = pos
      /\ Packs' = Packs /\ N' = N
      /\ (Uploading' <=> Uploading) /\ (Signing' <=> Signing) /\ (Reading' <=> Reading)
      /\ Nesting' /\ Calling'
      /\ SignedIsRequested' /\ CancelledIsUnsigned'
      /\ replies'[issued'] = r.reply
      /\ \A k \in 1..MaxCmds : k # issued' => replies'[k] = replies[k]
  BY <1>1, <1>2, <1>6, Issued
<1>8. Uploading' /\ ~Signing' /\ ~Reading'
  BY <1>3, <1>7, Positions
<1> HIDE DEF p
<1>9. /\ buf' \in Seq(Piece) /\ Before(buf', calls' + 1)
      /\ ~missed => /\ Len(buf') = pos
                    /\ \A i \in 1..Len(buf') : buf'[i] = Packs[i]
  <2>1. buf \in Seq(Piece) /\ Before(buf, calls + 1)
    BY DEF Inv, TypeOK, Dated
  <2>2. CASE pos = 1
    <3>1. buf' = <<p>>
      BY <1>3, <1>5, <2>2
    <3>2. Len(buf') = 1 /\ buf'[1] = p /\ buf' \in Seq(Piece)
      BY <1>3, <3>1
    <3> QED
      BY <1>1, <1>3, <2>2, <3>2 DEF Before, p
  <2>3. CASE pos # 1
    <3>1. buf' = Append(buf, p)
      BY <1>3, <1>5, <2>3
    <3>2. /\ buf' \in Seq(Piece) /\ Len(buf') = Len(buf) + 1 /\ Len(buf) \in Nat
          /\ \A i \in 1..(Len(buf) + 1) : buf'[i] = IF i <= Len(buf) THEN buf[i] ELSE p
      BY <1>3, <2>1, <3>1
    <3>3. Before(buf', calls' + 1)
      BY <1>1, <1>3, <2>1, <3>2 DEF Before
    <3>4. ASSUME ~missed
          PROVE  Len(buf') = pos /\ \A i \in 1..Len(buf') : buf'[i] = Packs[i]
      <4>1. Len(buf) = pos - 1 /\ \A i \in 1..Len(buf) : buf[i] = Packs[i]
        <5>1. Sent # 0 /\ Sent <= N /\ Sent = pos - 1
          BY <1>3, <1>7, <2>3
        <5> QED
          BY <1>1, <1>7, <3>4, <5>1, NothingLost
      <4> QED
        BY <1>3, <3>2, <4>1 DEF p
    <3> QED
      BY <3>2, <3>3, <3>4
  <2> QED
    BY <2>2, <2>3
<1>a. asked' = 0 /\ asker' = asker
  <2>1. ~Signing
    BY <1>3, Positions
  <2> QED
    BY <1>1, <2>1 DEF SendApdu
<1>10. TypeOK'
  BY <1>1, <1>5, <1>7, <1>8, <1>9, <1>a DEF Inv, TypeOK
<1>b. Asking' /\ Settled'
  BY <1>a DEF Asking, Settled
<1>11. Dated' /\ Unsigned'
  <2>1. Sent <= N
    BY <1>3, <1>7
  <2> QED
    BY <1>1, <1>5, <1>9, <2>1 DEF Inv, Dated, Unsigned
<1>12. PieceReplies'
  BY <1>1, <1>3, <1>6, <1>7, PieceRepliesStep
<1>13. Buffered'
  <2>1. late = 0 => ~missed
    BY <1>1, <1>7, NothingLost
  <2> QED
    BY <1>1, <1>3, <1>7, <1>9, <2>1 DEF Buffered
<1>14. SignReply' /\ ReadReply' /\ Copied'
  BY <1>8 DEF SignReply, ReadReply, Copied
<1> QED
  BY <1>7, <1>10, <1>b, <1>11, <1>12, <1>13, <1>14 DEF Inv

\* The device shows the user what it has got.
LEMMA SendSignStep ==
    ASSUME Inv, SendApdu, Signing
    PROVE  Inv'
<1>1. /\ result = "none" /\ Link!Request
      /\ UNCHANGED <<calls, upload, late, pos, total, ulRetLen, raw, result, missed, misses,
                     latest, signed>>
      /\ asked = 0
  BY DEF SendApdu, call, progress
<1>2. PICK r \in DeviceDoes : /\ buf' = r.buf
                              /\ replies' = [replies EXCEPT ![issued'] = r.reply]
  BY DEF SendApdu
<1>3. /\ issued \in Nat /\ pos \in Nat \ {0} /\ Base \in Nat
      /\ upload # NULL /\ N \in Nat /\ N > 1 /\ pos = N + 1
      /\ calls \in 1..MaxCalls /\ upload \in Uploads
      /\ Packs \in Seq(Piece)
      /\ buf \in Seq(Piece)
  BY <1>1, Under, Positions DEF Inv, TypeOK
<1>4. buf' = buf /\ r.reply = NULL
  <2>1. ~Uploading
    BY <1>3, Positions
  <2>2. r = [buf |-> buf, reply |-> NULL]
    BY <2>1 DEF DeviceDoes
  <2> QED
    BY <1>2, <2>2
<1>5. /\ asked' = issued'
      /\ asker' = IF late = 0 \/ ~missed THEN [call |-> calls, upload |-> upload] ELSE NULL
  BY DEF SendApdu
<1>6. /\ ~pending /\ pending' /\ issued' \in 1..MaxCmds /\ issued' = issued + 1
      /\ latest' = latest /\ latest' < issued' /\ Link!TypeOK'
      /\ replies' \in [1..MaxCmds -> Replies \cup {NULL}]
      /\ Base' = Base /\ issued' = Base + pos /\ Sent = pos - 1 /\ Sent' = pos
      /\ Packs' = Packs /\ N' = N
      /\ (Uploading' <=> Uploading) /\ (Signing' <=> Signing) /\ (Reading' <=> Reading)
      /\ Nesting' /\ Calling'
      /\ SignedIsRequested' /\ CancelledIsUnsigned'
      /\ replies'[issued'] = NULL
      /\ \A k \in 1..MaxCmds : k # issued' => replies'[k] = replies[k]
  BY <1>1, <1>2, <1>4, Issued
<1>7. ~Uploading' /\ Signing' /\ ~Reading'
  BY <1>3, <1>6, Positions
<1>8. TypeOK'
  <2>1. asked' \in 0..MaxCmds
    BY <1>5, <1>6
  <2>2. asker' \in [call : 1..MaxCalls, upload : Uploads] \cup {NULL}
    BY <1>3, <1>5
  <2> QED
    BY <1>1, <1>4, <1>6, <1>7, <2>1, <2>2 DEF Inv, TypeOK
<1>9. Dated' /\ Unsigned'
  <2>1. ~(Sent' <= N')
    BY <1>3, <1>6
  <2> QED
    BY <1>1, <1>4, <2>1 DEF Inv, Dated, Unsigned
<1>10. PieceReplies'
  <2>1. ~(issued' - Base <= N)
    BY <1>3, <1>6
  <2> QED
    BY <1>1, <1>3, <1>6, <2>1, PieceRepliesStep
<1>11. late = 0 \/ ~missed => ~missed /\ Len(buf) = N /\ \A i \in 1..N : buf[i] = Packs[i]
  <2>1. SUFFICES ASSUME late = 0 \/ ~missed
                 PROVE  ~missed /\ Len(buf) = N /\ \A i \in 1..N : buf[i] = Packs[i]
    OBVIOUS
  <2>2. Sent = N /\ N # 0 /\ N <= N
    BY <1>3, <1>6
  <2>3. ~missed /\ Len(buf) = N /\ \A i \in 1..Len(buf) : buf[i] = Packs[i]
    BY <1>1, <1>6, <2>1, <2>2, NothingLost
  <2> QED
    BY <2>3
<1>12. Buffered'
  <2>1. ~(Sent' <= N') /\ Sent' # 0
    BY <1>3, <1>6
  <2>2. late = 0 => ~missed
    BY <1>11
  <2>3. ~missed => Len(buf) = N /\ \A i \in 1..Len(buf) : buf[i] = Packs[i]
    BY <1>11
  <2> QED
    BY <1>1, <1>4, <1>6, <2>1, <2>2, <2>3 DEF Inv, Buffered
<1>13. Asking'
  <2>1. asker' # NULL => buf' = Pieces(asker'.call, asker'.upload)
    <3>1. SUFFICES ASSUME late = 0 \/ ~missed
                   PROVE  buf' = Pieces(asker'.call, asker'.upload)
      BY <1>5
    <3>2. buf = Packs
      BY <1>3, <1>11, <3>1, SeqEqual DEF N
    <3>3. asker'.call = calls /\ asker'.upload = upload
      BY <1>5, <3>1
    <3> QED
      BY <1>4, <3>2, <3>3 DEF Packs
  <2>2. signed' # NULL => Before(signed'.pieces, calls')
    <3>1. Sent <= N
      BY <1>3, <1>6
    <3> QED
      BY <1>1, <3>1 DEF Inv, Unsigned
  <2>3. asked' = Base' + N' + 1
    BY <1>3, <1>5, <1>6
  <2>4. \A k \in 1..MaxCmds : asked' <= k /\ k <= issued' => replies'[k] = NULL
    BY <1>5, <1>6
  <2> QED
    BY <1>5, <1>6, <2>1, <2>2, <2>3, <2>4 DEF Asking
<1>14. SignReply' /\ ReadReply' /\ Copied'
  BY <1>6, <1>7 DEF SignReply, ReadReply, Copied
<1>15. Settled'
  BY <1>1 DEF Settled
<1> QED
  BY <1>6, <1>8, <1>9, <1>10, <1>12, <1>13, <1>14, <1>15 DEF Inv

\* What the device returns of a transaction.
LEMMA ChunksAre ==
    ASSUME NEW at \in Nat, NEW le \in Nat, signed \in Signature, at < signed.len,
           NEW r \in Chunks(at, le)
    PROVE  /\ r.buf = buf
           /\ r.reply \in Replies
           /\ r.reply.sw = "9000" /\ r.reply.sig = signed /\ r.reply.at = at
           /\ r.reply.len = LET rest == signed.len - at
                                max == IF le = 0 THEN kReadOnceLen ELSE le
                            IN  IF rest < max THEN rest ELSE max
<1> DEFINE rest == signed.len - at
           max == IF le = 0 THEN kReadOnceLen ELSE le
           n == IF rest < max THEN rest ELSE max
<1>1. n \in Nat
  BY SignAssumption DEF Signature
<1>2. PICK v \in (IF n = 2 THEN SigLens \cup {0} ELSE {0}) :
              r = [buf |-> buf, reply |-> Reply("9000", n, v, signed, at)]
  BY DEF Chunks
<1>3. v \in Nat
  BY <1>2, SignAssumption
<1> HIDE DEF n
<1>4. r.buf = buf /\ r.reply = Reply("9000", n, v, signed, at)
  BY <1>2
<1>5. LET y == Reply("9000", n, v, signed, at)
      IN  y \in Replies /\ y.sw = "9000" /\ y.len = n /\ y.sig = signed /\ y.at = at
  BY <1>1, <1>3, ReplyIs
<1>6. /\ r.reply \in Replies /\ r.reply.sw = "9000" /\ r.reply.sig = signed
      /\ r.reply.at = at /\ r.reply.len = n
  BY <1>4, <1>5
<1> QED
  BY <1>4, <1>6 DEF n

\* What a read asks for.
LEMMA ReadIs ==
    ASSUME Inv, result = "none", Reading
    PROVE  /\ Offset \in Nat /\ total \in Nat /\ Offset < total
           /\ Le \in Nat
           /\ IsRemainder => Le = total - Offset /\ Le # 0 /\ total - Offset < kReadOnceLen
           /\ ~IsRemainder => Le = 0 /\ total - Offset >= kReadOnceLen
           /\ kReadOnceLen \in Nat \ {0, 1}
<1>1. kReadOnceLen \in Nat \ {0, 1}
  BY SignAssumption
<1>2. pos - N - 2 \in Nat
  BY Under, Positions
<1> DEFINE q == pos - N - 2
<1>3. q * kReadOnceLen \in Nat
  <2> HIDE DEF q
  <2> QED
    BY <1>1, <1>2 DEF q
<1>4. Offset \in Nat
  BY <1>3, Positions
<1>5. total \in Nat /\ Offset < total
  BY DEF Inv, TypeOK
<1> QED
  BY <1>1, <1>4, <1>5 DEF Le, IsRemainder

\* The device is asked for some of the signed transaction.
LEMMA SendReadStep ==
    ASSUME Inv, SendApdu, Reading
    PROVE  Inv'
<1>1. /\ result = "none" /\ Link!Request
      /\ UNCHANGED <<calls, upload, late, pos, total, ulRetLen, raw, result, missed, misses,
                     latest, signed>>
      /\ asked = 0
  BY DEF SendApdu, call, progress
<1>2. PICK r \in DeviceDoes : /\ buf' = r.buf
                              /\ replies' = [replies EXCEPT ![issued'] = r.reply]
  BY DEF SendApdu
<1>3. /\ issued \in Nat /\ pos \in Nat \ {0} /\ Base \in Nat
      /\ upload # NULL /\ N \in Nat /\ N > 1 /\ pos > N + 1
  BY <1>1, Under, Positions
<1>4. /\ Offset \in Nat /\ total \in Nat /\ Le \in Nat
      /\ IsRemainder => Le = total - Offset /\ Le # 0 /\ total - Offset < kReadOnceLen
      /\ ~IsRemainder => Le = 0 /\ total - Offset >= kReadOnceLen
      /\ kReadOnceLen \in Nat
  BY <1>1, ReadIs
<1>5. signed # NULL /\ Offset < signed.len /\ r \in Chunks(Offset, Le)
  <2>1. ~Uploading /\ ~Signing
    BY <1>3, Positions
  <2> QED
    BY <2>1 DEF DeviceDoes
<1>6. signed \in Signature /\ signed.len \in Nat
  BY <1>5 DEF Inv, TypeOK, Signature
<1>7. /\ buf' = buf /\ signed' = signed
      /\ r.reply \in Replies
      /\ r.reply.sw = "9000" /\ r.reply.sig = signed /\ r.reply.at = Offset
      /\ r.reply.len = LET rest == signed.len - Offset
                           max == IF Le = 0 THEN kReadOnceLen ELSE Le
                       IN  IF rest < max THEN rest ELSE max
  BY <1>1, <1>2, <1>4, <1>5, <1>6, ChunksAre
<1>8. /\ ~pending /\ pending' /\ issued' \in 1..MaxCmds /\ issued' = issued + 1
      /\ latest' = latest /\ latest' < issued' /\ Link!TypeOK'
      /\ replies' \in [1..MaxCmds -> Replies \cup {NULL}]
      /\ Base' = Base /\ issued' = Base + pos /\ Sent = pos - 1 /\ Sent' = pos
      /\ Packs' = Packs /\ N' = N
      /\ (Uploading' <=> Uploading) /\ (Signing' <=> Signing) /\ (Reading' <=> Reading)
      /\ Offset' = Offset /\ (IsRemainder' <=> IsRemainder)
      /\ Nesting' /\ Calling'
      /\ SignedIsRequested' /\ CancelledIsUnsigned'
      /\ replies'[issued'] = r.reply
      /\ \A k \in 1..MaxCmds : k # issued' => replies'[k] = replies[k]
  BY <1>1, <1>2, <1>7, Issued
<1>9. ~Uploading' /\ ~Signing' /\ Reading'
  BY <1>3, <1>8, Positions
<1>a. asked' = 0 /\ asker' = asker
  <2>1. ~Signing
    BY <1>3, Positions
  <2> QED
    BY <1>1, <2>1 DEF SendApdu
<1>b. Asking' /\ Settled'
  BY <1>a DEF Asking, Settled
<1>10. TypeOK'
  BY <1>1, <1>7, <1>8, <1>a DEF Inv, TypeOK
<1>11. Dated' /\ Unsigned'
  <2>1. ~(Sent' <= N')
    BY <1>3, <1>8
  <2> QED
    BY <1>1, <1>7, <2>1 DEF Inv, Dated, Unsigned
<1>12. PieceReplies'
  <2>1. ~(issued' - Base <= N)
    BY <1>3, <1>8
  <2> QED
    BY <1>1, <1>3, <1>8, <2>1, PieceRepliesStep
<1>13. Buffered'
  <2>1. ~(Sent' <= N') /\ Sent' # 0 /\ Sent # 0 /\ (IF Sent <= N THEN Sent ELSE N) = N
    BY <1>3, <1>8
  <2>2. late = 0 => ~missed
    BY <1>1, <1>8, NothingLost
  <2>3. ~missed => Len(buf) = N /\ \A i \in 1..Len(buf) : buf[i] = Packs[i]
    BY <1>1, <1>8, <2>1, NothingLost
  <2> QED
    BY <1>1, <1>7, <1>8, <2>1, <2>2, <2>3 DEF Inv, Buffered
<1>14. SignReply'
  BY <1>9 DEF SignReply
<1>15. Accountable' => Accountable
  BY <1>1, <1>8, SameCall, Positions
<1>16. ReadReply'
  <2>1. ASSUME Accountable
        PROVE  r.reply.len = (IF IsRemainder THEN total - Offset ELSE kReadOnceLen)
    <3>1. total = signed.len
      BY <1>1, <2>1 DEF Inv, Copied
    <3> QED
      BY <1>4, <1>6, <1>7, <3>1
  <2> QED
    BY <1>1, <1>5, <1>7, <1>8, <1>15, <2>1 DEF ReadReply
<1>17. Copied'
  BY <1>1, <1>7, <1>8, <1>15, <1>a DEF Inv, Copied
<1> QED
  BY <1>8, <1>10, <1>b, <1>11, <1>12, <1>13, <1>14, <1>16, <1>17 DEF Inv

\* The APDU is lost, or refused.
LEMMA InVainStep ==
    ASSUME Inv, SendApduInVain
    PROVE  Inv'
<1>1. /\ result = "none" /\ Link!Request
      /\ UNCHANGED <<calls, upload, late, pos, total, ulRetLen, raw, result, latest>>
      /\ buf' = buf /\ signed' = signed /\ asked' = asked /\ asker' = asker
      /\ misses' = IF asked = 0 /\ misses < MaxMisses THEN misses + 1 ELSE misses
      /\ missed' = (missed \/ Uploading)
  BY DEF SendApduInVain, call, progress, device
<1>2. PICK r \in {NULL, Status("6f00")} :
              /\ asked # 0 => r = NULL
              /\ replies' = [replies EXCEPT ![issued'] = r]
  BY DEF SendApduInVain
<1>3. r \in Replies \cup {NULL} /\ (r # NULL => r.len = 0 /\ r.sw = "6f00")
  BY StatusIs
<1>4. /\ issued \in Nat /\ pos \in Nat \ {0} /\ Base \in Nat
      /\ upload # NULL /\ N \in Nat /\ N > 1
  BY <1>1, Under
<1>5. /\ ~pending /\ pending' /\ issued' \in 1..MaxCmds /\ issued' = issued + 1
      /\ latest' = latest /\ latest' < issued' /\ Link!TypeOK'
      /\ replies' \in [1..MaxCmds -> Replies \cup {NULL}]
      /\ Base' = Base /\ issued' = Base + pos /\ Sent = pos - 1 /\ Sent' = pos
      /\ Packs' = Packs /\ N' = N
      /\ (Uploading' <=> Uploading) /\ (Signing' <=> Signing) /\ (Reading' <=> Reading)
      /\ Offset' = Offset /\ (IsRemainder' <=> IsRemainder)
      /\ Nesting' /\ Calling'
      /\ SignedIsRequested' /\ CancelledIsUnsigned'
      /\ replies'[issued'] = r
      /\ \A k \in 1..MaxCmds : k # issued' => replies'[k] = replies[k]
  BY <1>1, <1>2, <1>3, Issued
<1>6. TypeOK'
  <2>1. missed' \in BOOLEAN
    BY <1>1
  <2>2. misses' \in 0..MaxMisses
    BY <1>1, SignAssumption DEF Inv, TypeOK
  <2>3. /\ latest' \in 0..MaxCmds /\ buf' \in Seq(Piece) /\ signed' \in Signature \cup {NULL}
        /\ asked' \in 0..MaxCmds
        /\ asker' \in [call : 1..MaxCalls, upload : Uploads] \cup {NULL}
        /\ calls' \in 0..MaxCalls /\ upload' \in Uploads \cup {NULL}
        /\ pos' \in Nat \ {0} /\ total' \in Nat /\ ulRetLen' \in 0..kReadOnceLen
        /\ raw' \in Seq(Stretch) /\ result' \in Results /\ late' \in 0..MaxCmds
    BY <1>1 DEF Inv, TypeOK
  <2>4. /\ pending' => result' = "none"
        /\ result' = "none" => calls' > 0 /\ upload' # NULL /\ (Reading' => Offset' < total')
    BY <1>1, <1>5 DEF Inv, TypeOK
  <2> QED
    BY <1>5, <2>1, <2>2, <2>3, <2>4 DEF TypeOK
<1>7. Dated' /\ Unsigned'
  <2>1. Sent' <= N' => Sent <= N
    BY <1>4, <1>5
  <2> QED
    BY <1>1, <2>1 DEF Inv, Dated, Unsigned
<1>8. PieceReplies'
  <2>1. "6f00" # "6f09"
    OBVIOUS
  <2> QED
    BY <1>1, <1>3, <1>4, <1>5, <2>1, PieceRepliesStep
<1>9. (late = 0 \/ ~missed) =>
        /\ ~missed
        /\ IF Sent = 0
           THEN Before(buf, calls)
           ELSE /\ Len(buf) = (IF Sent <= N THEN Sent ELSE N)
                /\ \A i \in 1..Len(buf) : buf[i] = Packs[i]
  BY <1>1, <1>5, NothingLost
<1>10. Buffered'
  <2>1. CASE Uploading
    <3>1. missed' /\ Uploading' /\ pos <= N
      BY <1>1, <1>5, <2>1, Positions
    <3>2. late = 0 => \/ Before(buf, calls)
                      \/ Len(buf) <= N /\ \A i \in 1..Len(buf) : buf[i] = Packs[i]
      <4>1. Sent <= N
        BY <1>4, <1>5, <3>1
      <4> QED
        BY <1>4, <1>5, <1>9, <4>1
    <3> QED
      BY <1>1, <1>3, <1>5, <3>1, <3>2 DEF Buffered
  <2>2. CASE ~Uploading
    <3>1. (missed' <=> missed) /\ pos > N
      <4>1. missed' <=> missed
        BY <1>1, <2>2
      <4>2. ~(pos <= N)
        BY <2>2, Positions
      <4>3. pos > N
        BY <1>4, <4>2
      <4> QED
        BY <4>1, <4>3
    <3>2. /\ Sent # 0 /\ Sent' # 0 /\ (IF Sent <= N THEN Sent ELSE N) = N
          /\ (IF Sent' <= N THEN Sent' ELSE N) = N
      BY <1>4, <1>5, <3>1
    <3> QED
      BY <1>1, <1>4, <1>5, <1>9, <3>1, <3>2 DEF Buffered
  <2> QED
    BY <2>1, <2>2
<1>11. SignReply' /\ ReadReply'
  BY <1>3, <1>5 DEF SignReply, ReadReply
<1>12. Accountable' => Accountable
  BY <1>1, <1>5, SameCall, Positions
<1>13. Copied'
  BY <1>1, <1>5, <1>12 DEF Inv, Copied
<1>14. Asking'
  <2> SUFFICES ASSUME asked # 0
               PROVE  Asking'
    BY <1>1 DEF Asking
  <2>1. /\ latest < asked /\ asked <= issued
        /\ \A k \in 1..MaxCmds : asked <= k /\ k <= issued => replies[k] = NULL
        /\ asker # NULL => buf = Pieces(asker.call, asker.upload)
        /\ signed # NULL => Before(signed.pieces, calls)
        /\ \/ Before(buf, calls) /\ asked <= Base
           \/ asked = Base + N + 1
    BY <1>1 DEF Inv, Asking
  <2>2. asked \in Nat /\ asked <= issued'
    BY <1>4, <1>5, <2>1, SignAssumption DEF Inv, TypeOK
  <2>3. \A k \in 1..MaxCmds : asked <= k /\ k <= issued' => replies'[k] = NULL
    <3> SUFFICES ASSUME NEW k \in 1..MaxCmds, asked <= k, k <= issued'
                 PROVE  replies'[k] = NULL
      OBVIOUS
    <3>1. CASE k = issued'
      BY <1>2, <1>5, <3>1
    <3>2. CASE k # issued'
      <4>1. k <= issued
        BY <1>4, <1>5, <3>2
      <4> QED
        BY <1>5, <2>1, <3>2, <4>1
    <3> QED
      BY <3>1, <3>2
  <2> QED
    BY <1>1, <1>5, <2>1, <2>2, <2>3 DEF Asking
<1>15. Settled'
  BY <1>1 DEF Settled
<1> QED
  BY <1>5, <1>6, <1>7, <1>8, <1>10, <1>11, <1>13, <1>14, <1>15 DEF Inv

-----------------------------------------------------------------------------
(* Receiving *)

\* What an answer leaves: fewer answers outstanding, and those of this call alone
\* when none was at its beginning.
LEMMA Answered ==
    ASSUME Inv, NEW k \in 1..MaxCmds, Receive(k)
    PROVE  /\ result = "none" /\ pending /\ ~pending' /\ issued' = issued
           /\ k <= issued /\ latest' = k /\ latest' <= issued'
           /\ latest < k
           /\ issued = Base + pos
           /\ late = 0 => k = issued
           /\ Base + pos <= k + late
           /\ replies[k] \in Replies /\ replies[k] # NULL
           /\ Link!TypeOK' /\ latest' \in 0..MaxCmds
           /\ replies' \in [1..MaxCmds -> Replies \cup {NULL}]
           /\ \A j \in 1..MaxCmds : replies'[j] # NULL => replies'[j] = replies[j]
           /\ asked # 0 => k < asked
           /\ UNCHANGED <<buf, signed, asked, asker, calls, upload, late, missed, misses>>
<1>1. /\ Link!Answer(k, 1) /\ latest' = k
      /\ replies[k] # NULL
      /\ replies' = [j \in 1..MaxCmds |-> IF j <= k THEN NULL ELSE replies[j]]
      /\ UNCHANGED <<buf, signed, asked, asker, calls, upload, late, missed, misses>>
  BY DEF Receive, device, call
<1>2. /\ pending /\ k <= issued /\ latest < k
      /\ ~pending' /\ pending' \in BOOLEAN /\ issued' = issued
      /\ outcome' = "answer"
  <2>1. latest \in Nat /\ MaxCmds \in Nat
    BY SignAssumption DEF Inv, TypeOK
  <2> QED
    BY <1>1, <2>1, AnswerIs
<1>3. result = "none"
  BY <1>2 DEF Inv, TypeOK
<1>4. /\ issued \in 0..MaxCmds /\ latest \in 0..MaxCmds /\ MaxCmds \in Nat
      /\ late \in 0..MaxCmds /\ pos \in Nat \ {0} /\ Base \in Nat
      /\ issued = Base + pos
      /\ Base + (pos - 1) <= latest + late
  BY <1>2, <1>3, Under DEF Inv, Calling
<1>5. /\ k <= issued /\ latest < k /\ latest' <= issued'
      /\ Base + pos <= k + late /\ (late = 0 => k = issued)
  BY <1>1, <1>2, <1>4
<1>6. replies \in [1..MaxCmds -> Replies \cup {NULL}]
  BY DEF Inv, TypeOK
<1>7. /\ replies' \in [1..MaxCmds -> Replies \cup {NULL}] /\ replies[k] \in Replies
      /\ \A j \in 1..MaxCmds : replies'[j] # NULL => replies'[j] = replies[j]
  BY <1>1, <1>6
<1>8. Link!TypeOK' /\ latest' \in 0..MaxCmds
  <2>1. issued' \in 0..MaxCmds /\ latest' \in 0..MaxCmds
    BY <1>1, <1>2, <1>4
  <2> QED
    BY <1>2, <2>1, LinkTypes
<1>9. asked # 0 => k < asked
  <2>1. SUFFICES ASSUME asked # 0, ~(k < asked)
                 PROVE  FALSE
    OBVIOUS
  <2>2. asked \in Nat
    BY SignAssumption DEF Inv, TypeOK
  <2>3. asked <= k
    BY <2>1, <2>2
  <2> QED
    BY <1>1, <1>2, <2>1, <2>3 DEF Inv, Asking
<1> QED
  BY <1>1, <1>2, <1>3, <1>4, <1>5, <1>7, <1>8, <1>9

\* The call goes on to its next APDU.
LEMMA GoesOn ==
    ASSUME Inv, NEW k \in 1..MaxCmds, Receive(k),
           pos' = pos + 1, result' = result,
           total' \in Nat, ulRetLen' \in 0..kReadOnceLen, raw' \in Seq(Stretch),
           Uploading => replies[k].sw = "9000",
           Reading' => Offset' < total',
           ~Reading' => raw' = <<>>,
           Copied'
    PROVE  Inv'
<1>1. /\ result = "none" /\ pending /\ ~pending' /\ issued' = issued
      /\ k <= issued /\ latest' = k /\ latest' <= issued'
      /\ issued = Base + pos
      /\ late = 0 => k = issued
      /\ Base + pos <= k + late
      /\ replies[k] # NULL
      /\ Link!TypeOK' /\ latest' \in 0..MaxCmds
      /\ replies' \in [1..MaxCmds -> Replies \cup {NULL}]
      /\ \A j \in 1..MaxCmds : replies'[j] # NULL => replies'[j] = replies[j]
      /\ asked # 0 => k < asked
      /\ UNCHANGED <<buf, signed, asked, asker, calls, upload, late, missed, misses>>
  BY Answered
<1>2. /\ issued \in Nat /\ pos \in Nat \ {0} /\ Base \in Nat
      /\ upload # NULL /\ calls \in 1..MaxCalls /\ N \in Nat
  BY <1>1, Under
<1>3. Packs' = Packs /\ N' = N
  BY <1>1, SameCall
<1>4. Base' = Base /\ Sent' = Sent
  BY <1>1, <1>2 DEF Base, Sent
<1>5. TypeOK'
  <2>1. calls > 0 /\ pos' \in Nat \ {0} /\ result' \in Results
    BY <1>1, <1>2 DEF Results
  <2> QED
    BY <1>1, <1>2, <2>1 DEF Inv, TypeOK
<1>6. Nesting' /\ Dated'
  BY <1>1 DEF Inv, Nesting, Dated
<1>7. Calling'
  <2>1. Base' + (pos' - 1) <= latest' + late'
    BY <1>1, <1>2, <1>4
  <2> QED
    BY <1>2, <1>4, <2>1 DEF Calling
<1>8. PieceReplies'
  BY <1>1, <1>3, <1>4 DEF Inv, PieceReplies
<1>9. Buffered'
  <2>1. ~(missed /\ late = 0)
    <3>1. SUFFICES ASSUME missed, late = 0
                   PROVE  FALSE
      OBVIOUS
    <3>2. Uploading /\ replies[issued].sw = "6f00" /\ k = issued
      BY <1>1, <3>1 DEF Inv, Buffered
    <3> QED
      BY <3>2
  <2> QED
    BY <1>1, <1>3, <1>4, <2>1 DEF Inv, Buffered
<1>10. Unsigned'
  BY <1>1, <1>3, <1>4 DEF Inv, Unsigned
<1>11. SignReply' /\ ReadReply'
  BY <1>1 DEF SignReply, ReadReply
<1>12. SignedIsRequested' /\ CancelledIsUnsigned' /\ Settled'
  BY <1>1 DEF SignedIsRequested, CancelledIsUnsigned, Settled
<1>13. Asking'
  BY <1>1, <1>3, <1>4 DEF Inv, Asking
<1> QED
  BY <1>5, <1>6, <1>7, <1>8, <1>9, <1>10, <1>11, <1>12, <1>13 DEF Inv

\* The call ends; a transaction, and that there is none, have to be accounted for.
LEMMA Returns ==
    ASSUME Inv, NEW k \in 1..MaxCmds, Receive(k),
           result' \in Results, result' # "none",
           pos' = pos, total' \in Nat, ulRetLen' \in 0..kReadOnceLen, raw' \in Seq(Stretch),
           SignedIsRequested', CancelledIsUnsigned', Settled'
    PROVE  Inv'
<1>1. /\ ~pending' /\ latest' \in 0..MaxCmds /\ latest' <= issued' /\ Link!TypeOK'
      /\ replies' \in [1..MaxCmds -> Replies \cup {NULL}]
      /\ \A j \in 1..MaxCmds : replies'[j] # NULL => replies'[j] = replies[j]
      /\ asked # 0 => latest' < asked
      /\ UNCHANGED <<issued, buf, signed, asked, asker, calls, upload, late, missed, misses>>
  BY Answered
<1>2. pos' \in Nat \ {0}
  BY DEF Inv, TypeOK
<1> QED
  BY <1>1, <1>2, Ended

LEMMA Stopped ==
    ASSUME Inv, NEW k \in 1..MaxCmds, Receive(k),
           NEW r \in {"TRANSMIT_DEVICE_ERROR", "BUFFER_TOO_SMALL", "USER_CANCEL"}, Stop(r),
           r = "USER_CANCEL" => CancelledIsUnsigned' /\ Settled'
    PROVE  Inv'
<1>1. /\ result' = r /\ pos' = pos /\ total' = total
      /\ ulRetLen' = ulRetLen /\ raw' = raw
  BY DEF Stop
<1>2. /\ result' \in Results /\ result' # "none" /\ result' # "OK" /\ result' # "idle"
  BY <1>1 DEF Results
<1>3. SignedIsRequested' /\ CancelledIsUnsigned' /\ Settled'
  BY <1>1, <1>2 DEF SignedIsRequested, CancelledIsUnsigned, Settled
<1>4. total' \in Nat /\ ulRetLen' \in 0..kReadOnceLen /\ raw' \in Seq(Stretch)
  BY <1>1 DEF Inv, TypeOK
<1> QED
  BY <1>1, <1>2, <1>3, <1>4, Returns

\* The answer to a piece.
LEMMA PieceStep ==
    ASSUME Inv, NEW k \in 1..MaxCmds, Receive(k), Uploading, PieceAnswered(replies[k])
    PROVE  Inv'
<1>1. CASE Stop("TRANSMIT_DEVICE_ERROR")
  BY <1>1, Stopped
<1>2. CASE /\ replies[k].sw = "9000" /\ pos' = pos + 1
           /\ UNCHANGED <<total, ulRetLen, raw, result>>
  <2>1. /\ UNCHANGED <<calls, upload>> /\ result = "none"
        /\ pos \in Nat /\ N \in Nat /\ pos <= N
    BY Answered, Under, Positions
  <2>2. ~(pos > N + 1) /\ ~(pos' > N + 1)
    BY <1>2, <2>1
  <2>3. ~Reading /\ ~Reading'
    BY <2>1, <2>2, SameCall, Positions
  <2>4. raw = <<>>
    BY <2>1, <2>3 DEF Inv, Calling
  <2>5. Copied'
    BY <2>3 DEF Copied
  <2>6. total' \in Nat /\ ulRetLen' \in 0..kReadOnceLen /\ raw' \in Seq(Stretch)
    BY <1>2 DEF Inv, TypeOK
  <2> QED
    BY <1>2, <2>3, <2>4, <2>5, <2>6, GoesOn
<1> QED
  BY <1>1, <1>2 DEF PieceAnswered, GoOn

\* An answer of two bytes, or a no, is the answer to the request to confirm.
LEMMA OwnReply ==
    ASSUME Inv, NEW k \in 1..MaxCmds, Receive(k), Signing, Accountable,
           replies[k].sw = "6f09" \/ replies[k].len = 2
    PROVE  /\ k = issued
           /\ asked = 0
           /\ LET r == replies[k]
              IN  /\ r.sw = "9000" =>
                      /\ signed \in Signature
                      /\ r.value = signed.len
                      /\ r.value # 0
                      /\ signed.pieces = Packs
                  /\ (r.sw = "6f09" /\ signed # NULL) => Before(signed.pieces, calls)
<1>1. /\ result = "none" /\ pending
      /\ k <= issued
      /\ issued = Base + pos
      /\ late = 0 => k = issued
      /\ Base + pos <= k + late
      /\ replies[k] # NULL
  BY Answered
<1>2. /\ issued \in Nat /\ pos \in Nat \ {0} /\ Base \in Nat /\ late \in Nat
      /\ N \in Nat /\ pos = N + 1
      /\ late = 0 \/ (~missed /\ late <= N)
  BY <1>1, Under, Positions
<1>3. k = issued
  <2>1. CASE late = 0
    BY <1>1, <2>1
  <2>2. CASE late <= N
    <3>1. Base < k
      BY <1>1, <1>2, <2>2
    <3>2. ~(k - Base <= N)
      BY <1>1, <3>1 DEF Inv, PieceReplies
    <3> QED
      BY <1>1, <1>2, <3>1, <3>2
  <2> QED
    BY <1>2, <2>1, <2>2
<1>4. late = 0 \/ ~missed
  BY <1>2
<1>5. asked = 0
  <2>1. asked # 0 => k < asked /\ asked <= issued /\ asked \in Nat
    BY Answered, SignAssumption DEF Inv, Asking, TypeOK
  <2> QED
    BY <1>2, <1>3, <2>1
<1> QED
  BY <1>1, <1>3, <1>4, <1>5 DEF Inv, SignReply

\* The answer to the request to confirm.
LEMMA SignatureStep ==
    ASSUME Inv, NEW k \in 1..MaxCmds, Receive(k), Signing, SignAnswered(replies[k])
    PROVE  Inv'
<1> DEFINE r == replies[k]
<1>1. /\ result = "none" /\ pending /\ ~pending' /\ issued' = issued
      /\ latest' = k /\ issued = Base + pos
      /\ r \in Replies
      /\ UNCHANGED <<buf, signed, asked, asker, calls, upload, late, missed, misses>>
  BY Answered
<1>2. /\ issued \in Nat /\ pos \in Nat \ {0} /\ Base \in Nat /\ late \in Nat
      /\ N \in Nat /\ pos = N + 1
  BY <1>1, Under, Positions
<1>3. (Accountable' <=> Accountable) /\ Packs' = Packs /\ N' = N
  BY <1>1, SameCall, Positions
<1>4. ~Reading /\ raw = <<>>
  <2>1. ~(pos > N + 1)
    BY <1>2
  <2>2. ~Reading
    BY <2>1, Positions
  <2> QED
    BY <1>1, <2>2 DEF Inv, Calling
<1>5. ASSUME NEW x \in {"TRANSMIT_DEVICE_ERROR", "BUFFER_TOO_SMALL"}, Stop(x)
      PROVE  Inv'
  BY <1>5, Stopped
<1>6. CASE r.sw = "6f09" /\ Stop("USER_CANCEL")
  <2>1. CancelledIsUnsigned'
    <3>1. SUFFICES ASSUME Accountable, signed # NULL,
                          NEW i \in 1..Len(signed.pieces)
                   PROVE  signed.pieces[i].call # calls
      BY <1>1, <1>3 DEF CancelledIsUnsigned
    <3>2. signed.pieces[i].call < calls
      BY <1>6, <3>1, OwnReply DEF Before
    <3>3. signed.pieces[i].call \in Nat /\ calls \in Nat
      <4>1. signed.pieces \in Seq(Piece)
        BY <3>1 DEF Inv, TypeOK, Signature
      <4>2. signed.pieces[i] \in Piece
        BY <3>1, <4>1
      <4>3. signed.pieces[i].call \in Nat
        BY <4>2 DEF Piece
      <4>4. calls \in Nat
        BY SignAssumption DEF Inv, TypeOK
      <4> QED
        BY <4>3, <4>4
    <3> QED
      BY <3>2, <3>3
  <2>2. Settled'
    <3>1. Accountable => asked = 0
      BY <1>6, OwnReply
    <3>2. result' = "USER_CANCEL"
      BY <1>6 DEF Stop
    <3> QED
      BY <1>1, <1>3, <3>1, <3>2 DEF Settled
  <2> QED
    BY <1>6, <2>1, <2>2, Stopped
<1>7. CASE /\ r.sw = "9000" /\ r.len = 2 /\ total' = r.value
           /\ r.value = 0 /\ result' = "OK" /\ pos' = pos
           /\ UNCHANGED <<ulRetLen, raw>>
  <2>1. ~Accountable
    BY <1>7, OwnReply
  <2>2. SignedIsRequested' /\ CancelledIsUnsigned' /\ Settled'
    BY <1>3, <1>7, <2>1 DEF SignedIsRequested, CancelledIsUnsigned, Settled
  <2>3. /\ result' \in Results /\ result' # "none"
        /\ total' \in Nat /\ ulRetLen' \in 0..kReadOnceLen /\ raw' \in Seq(Stretch)
    BY <1>7 DEF Inv, TypeOK, Results
  <2> QED
    BY <1>7, <2>2, <2>3, Returns
<1>8. CASE /\ r.sw = "9000" /\ r.len = 2 /\ total' = r.value
           /\ r.value # 0 /\ pos' = pos + 1 /\ result' = result
           /\ UNCHANGED <<ulRetLen, raw>>
  <2>1. pos' - N - 2 = 0 /\ pos' > N + 1
    BY <1>2, <1>8
  <2>2. Reading' /\ Offset' = 0
    <3>1. Offset' = 0 * kReadOnceLen
      BY <1>1, <2>1, SameCall
    <3> QED
      BY <1>1, <2>1, <3>1, SameCall, SignAssumption
  <2>3. r.value \in Nat \ {0}
    BY <1>1, <1>8 DEF Replies
  <2>4. Offset' < total'
    BY <1>8, <2>2, <2>3
  <2>5. Copied'
    <3>1. SUFFICES ASSUME Accountable
                   PROVE  /\ latest' >= Base' + (pos' - 1)
                          /\ signed' \in Signature
                          /\ signed'.pieces = Packs'
                          /\ total' = signed'.len
                          /\ AreOf(raw', signed')
                          /\ Cover(raw', Offset')
                          /\ asked' = 0
      BY <1>3 DEF Copied
    <3>2. /\ k = issued /\ asked = 0 /\ signed \in Signature
          /\ r.value = signed.len /\ signed.pieces = Packs
      BY <1>8, <3>1, OwnReply
    <3>3. Base' = Base
      BY <1>1, <1>2, <1>8 DEF Base
    <3>4. latest' >= Base' + (pos' - 1)
      BY <1>1, <1>2, <1>8, <3>2, <3>3
    <3>5. AreOf(raw', signed') /\ Cover(raw', Offset')
      BY <1>4, <1>8, <2>2 DEF AreOf, Cover
    <3> QED
      BY <1>1, <1>3, <1>8, <3>2, <3>4, <3>5
  <2>6. total' \in Nat /\ ulRetLen' \in 0..kReadOnceLen /\ raw' \in Seq(Stretch)
    BY <1>8, <2>3 DEF Inv, TypeOK
  <2>7. ~Uploading
    <3>1. ~(pos <= N)
      BY <1>2
    <3> QED
      BY <3>1, Positions
  <2> QED
    BY <1>8, <2>2, <2>4, <2>5, <2>6, <2>7, GoesOn
<1> QED
  BY <1>5, <1>6, <1>7, <1>8 DEF SignAnswered, IsTotalLength, GoOn

\* The answer to a read.
LEMMA ReadStep ==
    ASSUME Inv, NEW k \in 1..MaxCmds, Receive(k), Reading, ReadAnswered(replies[k])
    PROVE  Inv'
<1> DEFINE r == replies[k]
           room == IF IsRemainder THEN total - Offset ELSE ulRetLen
           st == [sig |-> r.sig, at |-> r.at, len |-> r.len, to |-> Offset]
<1>1. /\ result = "none" /\ pending /\ ~pending' /\ issued' = issued
      /\ k <= issued /\ latest < k /\ latest' = k /\ issued = Base + pos
      /\ r \in Replies /\ r # NULL
      /\ UNCHANGED <<buf, signed, asked, asker, calls, upload, late, missed, misses>>
  BY Answered
<1>2. /\ issued \in Nat /\ pos \in Nat \ {0} /\ Base \in Nat
      /\ latest \in Nat /\ N \in Nat /\ pos > N + 1
  BY <1>1, Under, Positions
<1>3. (Accountable' <=> Accountable) /\ Packs' = Packs /\ N' = N
  BY <1>1, SameCall, Positions
<1>4. /\ Offset \in Nat /\ total \in Nat /\ Offset < total
      /\ IsRemainder => total - Offset < kReadOnceLen
      /\ ~IsRemainder => total - Offset >= kReadOnceLen
      /\ kReadOnceLen \in Nat \ {0, 1}
  BY <1>1, ReadIs
<1>5. /\ r.sig \in Signature /\ r.at \in Nat /\ r.len \in Nat
      /\ ulRetLen \in 0..kReadOnceLen /\ raw \in Seq(Stretch)
  BY <1>1 DEF Inv, TypeOK, Replies
<1>6. ASSUME NEW x \in {"TRANSMIT_DEVICE_ERROR", "BUFFER_TOO_SMALL"}, Stop(x)
      PROVE  Inv'
  BY <1>6, Stopped
<1>7. CASE /\ r.len <= room /\ r.sw = "9000"
           /\ ulRetLen' = r.len
           /\ raw' = Append(raw, st)
           /\ IF LastRead THEN result' = "OK" /\ UNCHANGED pos
              ELSE GoOn /\ UNCHANGED result
           /\ UNCHANGED total
  <2>1. room \in Nat /\ room <= kReadOnceLen
    BY <1>4, <1>5
  <2>2. st \in Stretch /\ st.to = Offset /\ st.sig = r.sig /\ st.at = r.at /\ st.len = r.len
    BY <1>4, <1>5 DEF Stretch
  <2>3. ulRetLen' \in 0..kReadOnceLen /\ raw' \in Seq(Stretch) /\ total' = total
    <3> HIDE DEF st, room
    <3> QED
      BY <1>4, <1>5, <1>7, <2>1, <2>2
  <2> HIDE DEF st, room, r
  <2>4. Accountable =>
          /\ k = issued /\ asked = 0
          /\ signed \in Signature /\ signed # NULL
          /\ signed.pieces = Packs /\ total = signed.len
          /\ AreOf(raw, signed) /\ Cover(raw, st.to)
          /\ st.sig = signed /\ st.at = st.to
          /\ st.len = (IF IsRemainder THEN total - Offset ELSE kReadOnceLen)
    <3>1. SUFFICES ASSUME Accountable
                   PROVE  /\ k = issued /\ asked = 0
                          /\ signed \in Signature /\ signed # NULL
                          /\ signed.pieces = Packs /\ total = signed.len
                          /\ AreOf(raw, signed) /\ Cover(raw, st.to)
                          /\ st.sig = signed /\ st.at = st.to
                          /\ st.len = (IF IsRemainder THEN total - Offset
                                       ELSE kReadOnceLen)
      OBVIOUS
    <3>2. /\ latest >= Base + (pos - 1) /\ asked = 0
          /\ signed \in Signature /\ signed.pieces = Packs /\ total = signed.len
          /\ AreOf(raw, signed) /\ Cover(raw, st.to)
      BY <1>1, <2>2, <3>1 DEF Inv, Copied
    <3>3. k = issued
      BY <1>1, <1>2, <3>2
    <3>4. /\ signed # NULL
          /\ r.sig = signed
          /\ r.at = Offset
          /\ r.len = (IF IsRemainder THEN total - Offset ELSE kReadOnceLen)
      BY <1>1, <1>7, <3>1, <3>3 DEF Inv, ReadReply, r
    <3> QED
      BY <2>2, <3>2, <3>3, <3>4
  <2>5. ASSUME Accountable, NEW n \in Nat, n <= st.to + st.len
        PROVE  AreOf(raw', signed) /\ Cover(raw', n)
    <3>1. st \in Stretch /\ raw \in Seq(Stretch)
      BY <1>5, <2>2
    <3> QED
      BY <1>7, <2>4, <2>5, <3>1, Covered
  <2>6. CASE LastRead
    <3>1. result' = "OK" /\ pos' = pos /\ total - Offset <= kReadOnceLen
      BY <1>7, <2>6 DEF LastRead
    <3>2. SignedIsRequested'
      <4>1. SUFFICES ASSUME Accountable
                     PROVE  /\ signed # NULL
                            /\ IsUpload(signed.pieces, calls, upload)
                            /\ total = signed.len
                            /\ IsWhole(raw', signed)
        BY <1>1, <1>3, <2>3 DEF SignedIsRequested
      <4>2. IsUpload(Packs, calls, upload)
        BY <1>1, CallIs DEF Inv, TypeOK
      <4>3. total <= st.to + st.len
        <5>1. st.to = Offset /\ st.len = (IF IsRemainder THEN total - Offset ELSE kReadOnceLen)
          BY <2>2, <2>4, <4>1
        <5> QED
          BY <1>4, <3>1, <5>1
      <4>4. AreOf(raw', signed) /\ Cover(raw', total)
        BY <1>4, <2>5, <4>1, <4>3
      <4>5. IsWhole(raw', signed)
        BY <2>4, <4>1, <4>4 DEF IsWhole, AreOf, Cover
      <4> QED
        BY <2>4, <4>1, <4>2, <4>5
    <3>3. CancelledIsUnsigned' /\ result' \in Results /\ result' # "none"
      BY <3>1 DEF CancelledIsUnsigned, Results
    <3>4. Settled'
      BY <1>1, <1>3, <2>4, <3>1 DEF Settled
    <3> QED
      BY <1>4, <2>3, <3>1, <3>2, <3>3, <3>4, Returns
  <2>7. CASE ~LastRead
    <3>1. result' = result /\ pos' = pos + 1 /\ ~(total - Offset <= kReadOnceLen)
      BY <1>7, <2>7 DEF LastRead, GoOn
    <3>2. total - Offset > kReadOnceLen
      BY <1>4, <3>1
    <3>3. Offset' = Offset + kReadOnceLen /\ Reading'
      <4> DEFINE q == pos - N - 2
      <4>1. q \in Nat /\ pos' - N - 2 = q + 1 /\ pos' > N + 1
        BY <1>2, <3>1
      <4>2. (q + 1) * kReadOnceLen = q * kReadOnceLen + kReadOnceLen
        <5> HIDE DEF q
        <5> QED
          BY <1>4, <4>1
      <4>3. Offset' = (q + 1) * kReadOnceLen /\ Offset = q * kReadOnceLen
        BY <1>1, <4>1, SameCall, Positions
      <4>4. Reading'
        BY <1>1, <4>1, SameCall
      <4> QED
        BY <4>2, <4>3, <4>4
    <3>4. Offset' < total' /\ Offset' \in Nat
      BY <1>4, <2>3, <3>2, <3>3
    <3>5. Copied'
      <4>1. SUFFICES ASSUME Accountable
                     PROVE  /\ latest' >= Base' + (pos' - 1)
                            /\ signed' \in Signature
                            /\ signed'.pieces = Packs'
                            /\ total' = signed'.len
                            /\ AreOf(raw', signed')
                            /\ Cover(raw', Offset')
                            /\ asked' = 0
        BY <1>3 DEF Copied
      <4>2. Base' = Base
        BY <1>1, <1>2, <3>1 DEF Base
      <4>3. k = issued
        BY <2>4, <4>1
      <4>4. latest' >= Base' + (pos' - 1)
        BY <1>1, <1>2, <3>1, <4>2, <4>3
      <4>5. Offset' <= st.to + st.len
        <5>1. st.to = Offset /\ st.len = (IF IsRemainder THEN total - Offset ELSE kReadOnceLen)
          BY <2>2, <2>4, <4>1
        <5>2. ~IsRemainder
          BY <1>4, <3>2
        <5> QED
          BY <1>4, <3>3, <5>1, <5>2
      <4>6. AreOf(raw', signed) /\ Cover(raw', Offset')
        BY <2>5, <3>4, <4>1, <4>5
      <4> QED
        BY <1>1, <1>3, <2>3, <2>4, <4>1, <4>4, <4>6
    <3>6. ~Uploading
      <4>1. ~(pos <= N)
        BY <1>2
      <4> QED
        BY <4>1, Positions
    <3> QED
      BY <1>4, <2>3, <3>1, <3>3, <3>4, <3>5, <3>6, GoesOn
  <2> QED
    BY <2>6, <2>7
<1> QED
  BY <1>6, <1>7 DEF ReadAnswered

-----------------------------------------------------------------------------
(* The user *)

\* What the device answers to the request to confirm, once the user has decided.
LEMMA Decided ==
    ASSUME Inv, UserConfirms \/ UserCancels
    PROVE  /\ asked # 0 /\ asked' = 0 /\ asker' = NULL
           /\ UNCHANGED <<issued, pending, outcome, latest, buf, calls, upload, late, pos,
                          total, ulRetLen, raw, result, missed, misses>>
           /\ signed' \in Signature \cup {NULL}
           /\ signed' = signed \/ signed'.pieces = buf
           /\ replies' \in [1..MaxCmds -> Replies \cup {NULL}]
           /\ \A k \in 1..MaxCmds : k # asked => replies'[k] = replies[k]
           /\ asked \in 1..MaxCmds
           /\ replies'[asked].sw \in {"9000", "6f09"}
           /\ replies'[asked].sw = "9000" =>
                /\ signed' \in Signature /\ signed'.pieces = buf
                /\ replies'[asked].value = signed'.len /\ replies'[asked].value # 0
           /\ replies'[asked].sw = "6f09" => signed' = signed
<1>1. /\ asked # 0 /\ asked' = 0 /\ asker' = NULL
      /\ UNCHANGED <<issued, pending, outcome, latest, buf, calls, upload, late, pos,
                     total, ulRetLen, raw, result, missed, misses>>
  BY DEF UserConfirms, UserCancels, link, call, progress
<1>2. /\ asked \in 1..MaxCmds
      /\ replies \in [1..MaxCmds -> Replies \cup {NULL}]
      /\ buf \in Seq(Piece) /\ signed \in Signature \cup {NULL}
  BY <1>1, SignAssumption DEF Inv, TypeOK
<1>3. CASE UserConfirms
  <2>1. PICK n \in SigLens :
                /\ signed' = [pieces |-> buf, len |-> n]
                /\ replies' = [replies EXCEPT ![asked] = Reply("9000", 2, n, NoSig, 0)]
    BY <1>3 DEF UserConfirms
  <2>2. n \in Nat \ {0}
    BY SignAssumption
  <2> DEFINE y == Reply("9000", 2, n, NoSig, 0)
  <2>3. y \in Replies /\ y.sw = "9000" /\ y.value = n
    BY <2>2, StatusIs, ReplyIs
  <2>4. signed' \in Signature /\ signed'.pieces = buf /\ signed'.len = n
    BY <1>2, <2>1, <2>2 DEF Signature
  <2> HIDE DEF y
  <2>6. /\ replies' \in [1..MaxCmds -> Replies \cup {NULL}]
        /\ replies'[asked] = y
        /\ \A k \in 1..MaxCmds : k # asked => replies'[k] = replies[k]
    BY <1>2, <2>1, <2>3 DEF y
  <2>7. /\ y.sw \in {"9000", "6f09"} /\ y.sw # "6f09"
    BY <2>3
  <2> QED
    BY <1>1, <1>2, <2>2, <2>3, <2>4, <2>6, <2>7
<1>4. CASE UserCancels
  <2>1. signed' = signed /\ replies' = [replies EXCEPT ![asked] = Status("6f09")]
    BY <1>4 DEF UserCancels
  <2>2. Status("6f09") \in Replies /\ Status("6f09").sw = "6f09"
    BY StatusIs
  <2> DEFINE y == Status("6f09")
  <2>3. y.sw \in {"9000", "6f09"} /\ y.sw # "9000"
    BY <2>2
  <2> HIDE DEF y
  <2>4. /\ replies' \in [1..MaxCmds -> Replies \cup {NULL}]
        /\ replies'[asked] = y
        /\ \A k \in 1..MaxCmds : k # asked => replies'[k] = replies[k]
    BY <1>2, <2>1, <2>2 DEF y
  <2> QED
    BY <1>1, <1>2, <2>1, <2>3, <2>4
<1> QED
  BY <1>3, <1>4

\* The user decides, when the call that asked is under way or long after.
LEMMA UserStep ==
    ASSUME Inv, UserConfirms \/ UserCancels
    PROVE  Inv'
<1>1. /\ asked # 0 /\ asked' = 0 /\ asker' = NULL
      /\ UNCHANGED <<issued, pending, outcome, latest, buf, calls, upload, late, pos,
                     total, ulRetLen, raw, result, missed, misses>>
      /\ signed' \in Signature \cup {NULL}
      /\ signed' = signed \/ signed'.pieces = buf
      /\ replies' \in [1..MaxCmds -> Replies \cup {NULL}]
      /\ \A k \in 1..MaxCmds : k # asked => replies'[k] = replies[k]
      /\ asked \in 1..MaxCmds
      /\ replies'[asked].sw \in {"9000", "6f09"}
      /\ replies'[asked].sw = "9000" =>
            /\ signed' \in Signature /\ signed'.pieces = buf
            /\ replies'[asked].value = signed'.len /\ replies'[asked].value # 0
      /\ replies'[asked].sw = "6f09" => signed' = signed
  BY Decided
<1>2. /\ latest < asked /\ asked <= issued
      /\ \A k \in 1..MaxCmds : asked <= k /\ k <= issued => replies[k] = NULL
      /\ signed # NULL => Before(signed.pieces, calls)
      /\ \/ Before(buf, calls) /\ (result = "none" => asked <= Base)
         \/ result = "none" => asked = Base + N + 1
  BY <1>1 DEF Inv, Asking
<1>3. /\ Packs' = Packs /\ N' = N /\ Offset' = Offset
      /\ (Uploading' <=> Uploading) /\ (Signing' <=> Signing) /\ (Reading' <=> Reading)
      /\ (IsRemainder' <=> IsRemainder) /\ (Accountable' <=> Accountable)
      /\ Base' = Base /\ Sent' = Sent
  BY <1>1 DEF Packs, N, Offset, Uploading, Signing, Reading, IsRemainder, Accountable,
              Base, Sent
<1>4. TypeOK'
  <2>1. Link!TypeOK'
    <3>1. /\ issued' \in 0..MaxCmds /\ pending' \in BOOLEAN
          /\ outcome' \in {"none", "answer", "error"}
      BY <1>1 DEF Inv, TypeOK, Link!TypeOK
    <3> QED
      BY <3>1, LinkTypes
  <2>2. asked' \in 0..MaxCmds
    BY <1>1, SignAssumption
  <2> QED
    BY <1>1, <1>3, <2>1, <2>2 DEF Inv, TypeOK
<1>5. Nesting' /\ Calling'
  BY <1>1, <1>3 DEF Inv, Nesting, Calling
<1>6. Dated'
  BY <1>1 DEF Inv, Dated
\* The answer is the one to this call's own request, or to an APDU of another.
<1>7. result = "none" =>
        /\ asked \in Nat /\ Base \in Nat /\ N \in Nat /\ issued = Base + Sent
        /\ pos \in Nat \ {0} /\ Sent = IF pending THEN pos ELSE pos - 1
        /\ \/ Before(buf, calls) /\ asked <= Base
           \/ asked = Base + N + 1
  BY <1>1, <1>2, Under
<1>8. PieceReplies'
  <2> SUFFICES ASSUME result = "none", NEW k \in 1..MaxCmds,
                      Base < k, k <= issued, k - Base <= N, replies'[k] # NULL
               PROVE  replies'[k].len = 0 /\ replies'[k].sw # "6f09"
    BY <1>1, <1>3 DEF PieceReplies
  <2>1. k # asked
    BY <1>7
  <2> QED
    BY <1>1, <2>1 DEF Inv, PieceReplies
<1>9. Buffered'
  <2>1. (result = "none" /\ pending /\ Uploading) => replies'[issued] = replies[issued]
    <3>1. SUFFICES ASSUME result = "none", pending, Uploading
                   PROVE  issued # asked /\ issued \in 1..MaxCmds
      BY <1>1
    <3>2. pos <= N
      BY <3>1, Positions
    <3>3. issued \in 0..MaxCmds
      BY <3>1, Under
    <3> QED
      BY <1>7, <3>1, <3>2, <3>3
  <2>2. \/ (result = "none" /\ missed /\ late = 0) => pending /\ Uploading
        \/ ~(result = "none")
    BY DEF Inv, Buffered
  <2> QED
    BY <1>1, <1>3, <2>1, <2>2 DEF Inv, Buffered
<1>10. Unsigned'
  <2>1. (result = "none" /\ Sent <= N) => Before(buf, calls)
    <3>1. SUFFICES ASSUME result = "none", Sent <= N, asked = Base + N + 1
                   PROVE  FALSE
      BY <1>7
    <3>2. Sent \in Nat
      BY <1>7, <3>1
    <3> QED
      BY <1>2, <1>7, <3>1, <3>2
  <2> QED
    BY <1>1, <1>3, <2>1 DEF Inv, Unsigned
<1>11. SignReply'
  <2> SUFFICES ASSUME result = "none", pending, Signing, replies'[issued] # NULL
               PROVE  LET r == replies'[issued]
                      IN  /\ r.sw = "9000" =>
                              /\ signed' \in Signature
                              /\ r.value = signed'.len
                              /\ r.value # 0
                              /\ (late = 0 \/ ~missed) => signed'.pieces = Packs
                          /\ (r.sw = "6f09" /\ signed' # NULL) => Before(signed'.pieces, calls)
    BY <1>1, <1>3 DEF SignReply
  <2>1. pos = N + 1 /\ issued = Base + pos /\ issued \in 1..MaxCmds
    BY <1>7, Under, Positions
  <2>2. asked = issued
    <3>1. SUFFICES ASSUME asked # issued
                   PROVE  FALSE
      OBVIOUS
    <3>2. replies'[issued] = replies[issued] /\ asked <= issued
      BY <1>1, <1>2, <2>1, <3>1
    <3> QED
      BY <1>2, <2>1, <3>2
  <2>3. (late = 0 \/ ~missed) => buf = Packs
    <3> SUFFICES ASSUME late = 0 \/ ~missed
                 PROVE  buf = Packs
      OBVIOUS
    <3>1. ~Uploading
      BY <1>7, <2>1, Positions
    <3>2. ~missed
      BY <3>1 DEF Inv, Buffered
    <3>3. ~(Sent <= N) /\ Sent # 0
      BY <1>7, <2>1
    <3>4. Len(buf) = N /\ \A i \in 1..Len(buf) : buf[i] = Packs[i]
      BY <3>2, <3>3 DEF Inv, Buffered
    <3>5. buf \in Seq(Piece) /\ Packs \in Seq(Piece)
      BY Under DEF Inv, TypeOK
    <3> QED
      BY <3>4, <3>5, SeqEqual DEF N
  <2> QED
    BY <1>1, <1>2, <2>2, <2>3
<1>12. ReadReply' /\ Copied'
  BY <1>1, <1>3 DEF Inv, Copied, ReadReply
<1>13. Asking' /\ Settled'
  BY <1>1 DEF Asking, Settled
<1>14. SignedIsRequested' /\ CancelledIsUnsigned'
  BY <1>1, <1>3 DEF Inv, Settled, SignedIsRequested, CancelledIsUnsigned
<1> QED
  BY <1>4, <1>5, <1>6, <1>8, <1>9, <1>10, <1>11, <1>12, <1>13, <1>14 DEF Inv

LEMMA InvNext == Inv /\ [Next]_vars => Inv'
<1> SUFFICES ASSUME Inv, [Next]_vars
             PROVE  Inv'
  OBVIOUS
<1>1. ASSUME NEW u \in Uploads, SignTX(u)
      PROVE  Inv'
  BY <1>1, SignTXStep
<1>2. CASE SignTXUnsupported \/ SendApduRefused \/ SendApduFails
  BY <1>2, ErrorStep
<1>3. CASE SendApdu
  <2>1. Uploading \/ Signing \/ Reading
    <3>1. result = "none"
      BY <1>3 DEF SendApdu
    <3>2. pos \in Nat /\ N \in Nat
      BY <3>1, Under
    <3>3. pos <= N \/ pos = N + 1 \/ pos > N + 1
      BY <3>2
    <3> QED
      BY <3>3, Positions
  <2> QED
    BY <1>3, <2>1, SendPieceStep, SendSignStep, SendReadStep
<1>4. CASE SendApduInVain
  BY <1>4, InVainStep
<1>a. CASE UserConfirms \/ UserCancels
  BY <1>a, UserStep
<1>5. ASSUME NEW k \in 1..MaxCmds, Receive(k)
      PROVE  Inv'
  <2>1. CASE Uploading /\ PieceAnswered(replies[k])
    BY <1>5, <2>1, PieceStep
  <2>2. CASE Signing /\ SignAnswered(replies[k])
    BY <1>5, <2>2, SignatureStep
  <2>3. CASE Reading /\ ReadAnswered(replies[k])
    BY <1>5, <2>3, ReadStep
  <2> QED
    BY <1>5, <2>1, <2>2, <2>3 DEF Receive
<1>6. CASE UNCHANGED vars
  <2> USE <1>6 DEF vars, link, device, call, progress
  <2>1. /\ Packs' = Packs /\ N' = N /\ Offset' = Offset
        /\ (Uploading' <=> Uploading) /\ (Signing' <=> Signing) /\ (Reading' <=> Reading)
        /\ (IsRemainder' <=> IsRemainder) /\ (Accountable' <=> Accountable)
        /\ Base' = Base /\ Sent' = Sent
    BY DEF Packs, N, Offset, Uploading, Signing, Reading, IsRemainder, Accountable, Base, Sent
  <2>2. TypeOK' /\ Nesting' /\ Dated' /\ Calling'
    BY <2>1 DEF Inv, TypeOK, Link!TypeOK, Nesting, Dated, Calling
  <2>3. PieceReplies' /\ Buffered' /\ Unsigned'
    BY <2>1 DEF Inv, PieceReplies, Buffered, Unsigned
  <2>4. SignReply' /\ ReadReply' /\ Copied'
    BY <2>1 DEF Inv, SignReply, ReadReply, Copied
  <2>6. Asking' /\ Settled'
    BY <2>1 DEF Inv, Asking, Settled
  <2>5. SignedIsRequested' /\ CancelledIsUnsigned'
    BY <2>1 DEF Inv, SignedIsRequested, CancelledIsUnsigned
  <2> QED
    BY <2>2, <2>3, <2>4, <2>5, <2>6 DEF Inv
<1> QED
  BY <1>1, <1>2, <1>3, <1>4, <1>a, <1>5, <1>6 DEF Next

-----------------------------------------------------------------------------
(* The theorems *)

LEMMA Invariant == Spec => []Inv
BY InvInit, InvNext, PTL DEF Spec

\* The transport, the device and the call keep their types, and a read asks for
\* something that is there.
THEOREM TypeCorrect == Spec => []TypeOK
<1>1. Inv => TypeOK
  BY DEF Inv
<1> QED
  BY <1>1, Invariant, PTL

\* _TranPack and the functions that call it: whatever the lengths of the TLVs,
\* the packs are the upload, and the last of them carries the mark.
THEOREM PacksSound == Spec => []PacksAreUpload
<1>1. Inv => PacksAreUpload
  BY CallIs DEF Inv, PacksAreUpload, Packs
<1> QED
  BY <1>1, Invariant, PTL

\* SignTXBTC and SignTXMultisigBTC: what they return is the whole of what the
\* device has signed, and that is the upload of this call, unless more answers
\* were outstanding than the call has pieces.
THEOREM SignatureSound == Spec => []SignedIsRequested
<1>1. Inv => SignedIsRequested
  BY DEF Inv
<1> QED
  BY <1>1, Invariant, PTL

\* A call that returns JUBR_USER_CANCEL has not been signed.
THEOREM CancelSound == Spec => []CancelledIsUnsigned
<1>1. Inv => CancelledIsUnsigned
  BY DEF Inv
<1> QED
  BY <1>1, Invariant, PTL

\* The device's buffer is the beginning of one call's upload.
THEOREM BufferSound == Spec => []BufferIsOneUpload
<1>1. ASSUME Inv
      PROVE  BufferIsOneUpload
  <2>1. SUFFICES ASSUME NEW j \in 1..Len(buf), buf[j].call = calls, late = 0 \/ ~missed
                 PROVE  Len(buf) <= N /\ buf = SubSeq(Packs, 1, Len(buf))
    BY DEF BufferIsOneUpload, N, Packs
  <2>2. buf \in Seq(Piece) /\ Len(buf) \in Nat
    BY <1>1 DEF Inv, TypeOK
  <2>3. buf[j].call \in 1..MaxCalls
    <3>1. buf[j] \in Piece
      BY <2>2
    <3> QED
      BY <3>1 DEF Piece
  <2>4. ~Before(buf, calls)
    BY <2>1, <2>3, SignAssumption DEF Before
  <2>5. upload # NULL
    <3>1. calls > 0
      BY <2>1, <2>3, SignAssumption
    <3> QED
      BY <1>1, <3>1 DEF Inv, Nesting
  <2>6. Len(buf) <= N /\ \A i \in 1..Len(buf) : buf[i] = Packs[i]
    BY <1>1, <2>1, <2>4, <2>5 DEF Inv, Buffered
  <2>7. Packs \in Seq(Piece) /\ N \in Nat
    BY <1>1, <2>5, CallIs DEF Inv
  <2> DEFINE n == Len(buf)
             s == SubSeq(Packs, 1, n)
  <2>8. s \in Seq(Piece) /\ Len(s) = n /\ \A i \in 1..n : s[i] = Packs[i]
    <3>1. \A i \in 1..n : Packs[i] \in Piece
      BY <2>2, <2>6, <2>7 DEF N
    <3>2. /\ s \in Seq(Piece)
          /\ Len(s) = IF 1 <= n THEN n - 1 + 1 ELSE 0
          /\ \A i \in 1..(n - 1 + 1) : s[i] = Packs[1 + i - 1]
      BY <2>2, <3>1, SubSeqProperties
    <3> HIDE DEF s
    <3> QED
      BY <2>2, <3>2
  <2> HIDE DEF s, n
  <2>9. buf = s
    BY <2>2, <2>6, <2>8, SeqEqual DEF n
  <2> QED
    BY <2>6, <2>9 DEF s, n
<1> QED
  BY <1>1, Invariant, PTL
-----------------------------------------------------------------------------
(* What the user confirms *)

\* Only the user has the device sign.
LEMMA DeviceSigns ==
    ASSUME [Next]_vars, signed' # signed
    PROVE  UserConfirms
<1>1. ~(\/ SendApdu \/ SendApduInVain \/ SendApduRefused \/ SendApduFails \/ UserCancels
        \/ SignTXUnsupported \/ UNCHANGED vars)
  BY DEF SendApdu, SendApduInVain, SendApduRefused, SendApduFails, UserCancels,
         SignTXUnsupported, vars, device
<1>2. ASSUME NEW u \in Uploads, SignTX(u)
      PROVE  FALSE
  BY <1>2 DEF SignTX, device
<1>3. ASSUME NEW k \in 1..MaxCmds, Receive(k)
      PROVE  FALSE
  BY <1>3 DEF Receive, device
<1> QED
  BY <1>1, <1>2, <1>3 DEF Next

\* What a user confirms, however late, is the upload of the call that asked him,
\* unless that call met earlier answers and lost a piece.
THEOREM ConfirmationSound == Spec => ConfirmsRequested
<1>1. ASSUME Inv, [Next]_vars, signed' # signed, asker # NULL
      PROVE  IsUpload(signed'.pieces, asker.call, asker.upload)
  <2>1. UserConfirms
    BY <1>1, DeviceSigns
  <2>2. asked # 0 /\ signed'.pieces = buf
    BY <2>1 DEF UserConfirms
  <2>3. buf = Pieces(asker.call, asker.upload)
    BY <1>1, <2>2 DEF Inv, Asking
  <2>4. asker.call \in 1..MaxCalls /\ asker.upload \in Uploads
    BY <1>1 DEF Inv, TypeOK
  <2>5. IsUpload(Pieces(asker.call, asker.upload), asker.call, asker.upload)
    BY <2>4, PacksAre
  <2> QED
    BY <2>2, <2>3, <2>5
<1>2. Inv /\ [Next]_vars =>
        (signed' # signed /\ asker # NULL =>
            IsUpload(signed'.pieces, asker.call, asker.upload))
  BY <1>1
<1> QED
  BY <1>2, Invariant, PTL DEF Spec, ConfirmsRequested

-----------------------------------------------------------------------------
(* The call as its caller sees it: the steps of SigningCall *)

\* A signed transaction has one of the lengths such a transaction may have.
SignedLength == signed # NULL => signed.len \in SigLens

LEMMA SignedLengthNext == Inv /\ SignedLength /\ [Next]_vars => SignedLength'
<1> SUFFICES ASSUME Inv, SignedLength, [Next]_vars, signed' # NULL
             PROVE  signed'.len \in SigLens
  BY DEF SignedLength
<1>1. CASE signed' = signed
  BY <1>1 DEF SignedLength
<1>2. CASE signed' # signed
  <2>1. PICK n \in SigLens : signed' = [pieces |-> buf, len |-> n]
    BY <1>2, DeviceSigns DEF UserConfirms
  <2> QED
    BY <2>1
<1> QED
  BY <1>1, <1>2

LEMMA OutcomeIs ==
    ASSUME result \in Results
    PROVE  /\ CallOutcome = "none" <=> result = "none"
           /\ result = "OK" => CallOutcome = IF Accountable THEN "signature" ELSE "unknown"
           /\ result = "USER_CANCEL" =>
                CallOutcome = IF Accountable THEN "cancelled" ELSE "unknown"
           /\ result \in {"TRANSMIT_DEVICE_ERROR", "BUFFER_TOO_SMALL", "IMPL_NOT_SUPPORT"} =>
                CallOutcome = "error"
BY DEF CallOutcome, Results

\* Pieces of earlier calls are not the upload of this one.
LEMMA NotUpload ==
    ASSUME NEW ps \in Seq(Piece), NEW c \in Nat, NEW u, Before(ps, c)
    PROVE  ~IsUpload(ps, c, u)
<1>1. SUFFICES ASSUME Len(ps) > 1, ps[1].call = c
               PROVE  FALSE
  <2>1. ASSUME IsUpload(ps, c, u)
        PROVE  Len(ps) > 1 /\ ps[1].call = c
    <3>1. Len(ps) > 1 /\ \A i \in 1..Len(ps) : ps[i].call = c
      BY <2>1 DEF IsUpload
    <3>2. 1 \in 1..Len(ps)
      BY <3>1
    <3> QED
      BY <3>1, <3>2
  <2> QED
    BY <1>1, <2>1
<1>2. 1 \in 1..Len(ps)
  BY <1>1
<1>3. ps[1].call < c
  BY <1>2 DEF Before
<1> QED
  BY <1>1, <1>3

\* A call that ends with an error, or ends or goes on with nothing signed.
LEMMA SignedSame ==
    ASSUME UNCHANGED <<signed, calls, upload>>
    PROVE  CallSigned' = CallSigned
BY DEF CallSigned, SignatureOf

LEMMA NothingReturned ==
    /\ CallOutcome # "signature" => CallReturned = NULL
    /\ CallOutcome' # "signature" => CallReturned' = NULL
BY DEF CallReturned

\* A call begins with nothing signed.
LEMMA BeginStep ==
    ASSUME Inv, Inv', NEW u \in Uploads, SignTX(u)
    PROVE  Abstract!Begin(u)
<1>1. /\ result # "none" /\ result' = "none" /\ calls' = calls + 1 /\ upload' = u
      /\ signed' = signed
  BY DEF SignTX, device
<1>2. CallOutcome # "none"
  BY <1>1, OutcomeIs DEF Inv, TypeOK
<1>3. CallOutcome' = "none"
  BY <1>1, OutcomeIs DEF CallOutcome
<1>4. CallReturned' = NULL
  BY <1>3, NothingReturned
<1>5. CallSigned' = NULL
  <2>1. CASE signed = NULL
    BY <1>1, <2>1 DEF CallSigned, SignatureOf
  <2>2. CASE signed # NULL
    <3>1. signed.pieces \in Seq(Piece)
      BY <2>2 DEF Inv, TypeOK, Signature
    <3>2. calls + 1 \in Nat
      BY SignAssumption DEF Inv, TypeOK
    <3>3. Before(signed.pieces, calls + 1)
      BY <2>2 DEF Inv, Dated
    <3>4. ~IsUpload(signed.pieces, calls + 1, u)
      BY <3>1, <3>2, <3>3, NotUpload
    <3> QED
      BY <1>1, <3>4 DEF CallSigned, SignatureOf
  <2> QED
    BY <2>1, <2>2
<1> QED
  BY <1>1, <1>2, <1>3, <1>4, <1>5 DEF Abstract!Begin

\* A call ends with an error.
LEMMA FailStep ==
    ASSUME Inv, UNCHANGED <<signed, calls, upload>>,
           result' \in {"TRANSMIT_DEVICE_ERROR", "BUFFER_TOO_SMALL", "IMPL_NOT_SUPPORT"}
    PROVE  Abstract!Fail \/ Abstract!Refuse
<1>1. CallOutcome' = "error"
  BY DEF CallOutcome
<1>2. CallReturned' = NULL
  BY <1>1, NothingReturned
<1>3. CallSigned' = CallSigned
  BY SignedSame
<1> QED
  BY <1>1, <1>2, <1>3 DEF Abstract!Fail, Abstract!Refuse, Abstract!End

\* The user decides; the device signs at most once for a call, and never when
\* the caller has been told how the matter ended.
LEMMA ConfirmStep ==
    ASSUME Inv, UserConfirms \/ UserCancels
    PROVE  [Abstract!Next]_(Abstract!vars)
<1>1. /\ asked # 0
      /\ UNCHANGED <<calls, upload, late, raw, total, result, missed>>
      /\ \/ signed' = signed
         \/ \E n \in SigLens : signed' = [pieces |-> buf, len |-> n]
  BY DEF UserConfirms, UserCancels, call, progress
<1>2. CallOutcome \in {"none", "error", "unknown"} /\ CallOutcome' = CallOutcome
  <2>1. CallOutcome' = CallOutcome
    BY <1>1 DEF CallOutcome, Accountable
  <2>2. result \in Results /\ result # "idle"
    BY <1>1 DEF Inv, TypeOK, Settled
  <2>3. result \in {"OK", "USER_CANCEL"} => ~Accountable
    BY <1>1 DEF Inv, Settled
  <2> QED
    BY <2>1, <2>2, <2>3, OutcomeIs DEF Results
<1>3. CallReturned' = NULL /\ CallReturned = NULL
  BY <1>2, NothingReturned
<1>4. CallSigned = NULL
  <2>1. CASE signed = NULL
    BY <2>1 DEF CallSigned, SignatureOf
  <2>2. CASE signed # NULL
    <3>1. signed.pieces \in Seq(Piece)
      BY <2>2 DEF Inv, TypeOK, Signature
    <3>2. calls \in Nat
      BY SignAssumption DEF Inv, TypeOK
    <3>3. Before(signed.pieces, calls)
      BY <1>1, <2>2 DEF Inv, Asking
    <3>4. ~IsUpload(signed.pieces, calls, upload)
      BY <3>1, <3>2, <3>3, NotUpload
    <3> QED
      BY <3>4 DEF CallSigned, SignatureOf
  <2> QED
    BY <2>1, <2>2
<1>5. CASE CallSigned' = CallSigned
  BY <1>1, <1>2, <1>3, <1>5 DEF Abstract!vars
<1>6. CASE CallSigned' # CallSigned
  <2>1. signed' # signed
    BY <1>1, <1>6, SignedSame
  <2>2. PICK n \in SigLens : signed' = [pieces |-> buf, len |-> n]
    BY <1>1, <2>1
  <2>3. CallSigned' = [request |-> upload, len |-> n]
    <3>1. signed'.len = n
      BY <2>2
    <3>2. \/ CallSigned' = NULL
          \/ CallSigned' = [request |-> upload, len |-> n]
      BY <1>1, <3>1 DEF CallSigned, SignatureOf
    <3> QED
      BY <1>4, <1>6, <3>2
  <2>4. Abstract!Confirm
    BY <1>1, <1>2, <1>3, <1>4, <2>3 DEF Abstract!Confirm
  <2> QED
    BY <2>4 DEF Abstract!Next
<1> QED
  BY <1>5, <1>6

\* What makes a whole signature is not nothing, and is of that signature.
LEMMA WholeStretches ==
    ASSUME NEW s \in Signature, s.len # 0, NEW w \in Seq(Stretch), IsWhole(w, s)
    PROVE  w # <<>> /\ w[1].sig = s
<1>1. 0 \in 0..(s.len - 1)
  BY DEF Signature
<1>2. PICK i \in 1..Len(w) : TRUE
  BY <1>1 DEF IsWhole
<1>3. w # <<>> /\ 1 \in 1..Len(w)
  BY <1>2
<1> QED
  BY <1>3 DEF IsWhole

\* A call that succeeds hands out what the device has signed in this call.
LEMMA DeliverStep ==
    ASSUME Inv, Inv', SignedLength, NEW k \in 1..MaxCmds, Receive(k), result' = "OK"
    PROVE  Abstract!Deliver \/ Abstract!Disown
<1>1. result = "none" /\ UNCHANGED <<signed, calls, upload, late, missed>>
  BY Answered
<1>2. CallOutcome = "none" /\ CallSigned' = CallSigned
  BY <1>1, OutcomeIs, SignedSame DEF Inv, TypeOK
<1>3. CASE ~Accountable'
  <2>1. CallOutcome' = "unknown"
    BY <1>3 DEF CallOutcome
  <2>2. CallReturned' = NULL
    BY <2>1, NothingReturned
  <2> QED
    BY <1>1, <1>2, <2>1, <2>2 DEF Abstract!Disown, Abstract!End
<1>4. CASE Accountable'
  <2>1. CallOutcome' = "signature"
    BY <1>4 DEF CallOutcome
  <2>2. /\ signed # NULL /\ IsUpload(signed.pieces, calls, upload)
        /\ total' = signed.len /\ IsWhole(raw', signed)
    BY <1>1, <1>4 DEF Inv, SignedIsRequested
  <2>3. signed \in Signature /\ raw' \in Seq(Stretch)
    BY <2>2 DEF Inv, TypeOK
  <2>4. signed.len \in SigLens /\ signed.len # 0 /\ signed.len \in Nat
    BY <2>2, SignAssumption DEF SignedLength
  <2>5. raw' # <<>> /\ raw'[1].sig = signed
    BY <2>2, <2>3, <2>4, WholeStretches
  <2>6. CallSigned = [request |-> upload, len |-> signed.len]
    BY <2>2 DEF CallSigned, SignatureOf
  <2>7. CallReturned' = CallSigned
    <3>1. CallReturned' = [request |-> upload', len |-> raw'[1].sig.len]
      BY <1>1, <2>1, <2>2, <2>5 DEF CallReturned, SignatureOf
    <3> QED
      BY <1>1, <2>5, <2>6, <3>1
  <2>8. CallSigned # NULL
    <3>1. upload \in Uploads
      BY <1>1, Under, CallIs DEF Inv
    <3>2. CallSigned \in [request : Upload, len : Nat]
      BY <2>4, <2>6, <3>1, SignAssumption
    <3> QED
      BY <3>2, SignAssumption
  <2> QED
    BY <1>1, <1>2, <2>1, <2>7, <2>8 DEF Abstract!Deliver, Abstract!End
<1> QED
  BY <1>3, <1>4

\* A call that reports a cancellation has had nothing signed.
LEMMA CancelStep ==
    ASSUME Inv, Inv', NEW k \in 1..MaxCmds, Receive(k), result' = "USER_CANCEL"
    PROVE  Abstract!Cancel \/ Abstract!Disown
<1>1. result = "none" /\ UNCHANGED <<signed, calls, upload, late, missed>>
  BY Answered
<1>2. CallOutcome = "none" /\ CallSigned' = CallSigned
  BY <1>1, OutcomeIs, SignedSame DEF Inv, TypeOK
<1>3. CASE ~Accountable'
  <2>1. CallOutcome' = "unknown"
    BY <1>3 DEF CallOutcome
  <2>2. CallReturned' = NULL
    BY <2>1, NothingReturned
  <2> QED
    BY <1>1, <1>2, <2>1, <2>2 DEF Abstract!Disown, Abstract!End
<1>4. CASE Accountable'
  <2>1. CallOutcome' = "cancelled"
    BY <1>4 DEF CallOutcome
  <2>2. CallReturned' = NULL
    BY <2>1, NothingReturned
  <2>3. signed # NULL => \A i \in 1..Len(signed.pieces) : signed.pieces[i].call # calls
    BY <1>1, <1>4 DEF Inv, CancelledIsUnsigned
  <2>4. CallSigned = NULL
    <3>1. SUFFICES ASSUME signed # NULL, IsUpload(signed.pieces, calls, upload)
                   PROVE  FALSE
      BY DEF CallSigned, SignatureOf
    <3>2. Len(signed.pieces) > 1 /\ \A i \in 1..Len(signed.pieces) : signed.pieces[i].call = calls
      BY <3>1 DEF IsUpload
    <3>3. signed.pieces \in Seq(Piece)
      BY <3>1 DEF Inv, TypeOK, Signature
    <3>4. 1 \in 1..Len(signed.pieces)
      BY <3>2, <3>3
    <3> QED
      BY <2>3, <3>1, <3>2, <3>4
  <2> QED
    BY <1>1, <1>2, <2>1, <2>2, <2>4 DEF Abstract!Cancel, Abstract!End
<1> QED
  BY <1>3, <1>4

\* The call goes on.
LEMMA GoingOn ==
    ASSUME Inv, result = "none", result' = "none", calls' = calls, upload' = upload,
           CallSigned' = CallSigned
    PROVE  UNCHANGED Abstract!vars
<1>1. CallOutcome = "none"
  BY OutcomeIs DEF Inv, TypeOK
<1>2. CallOutcome' = "none"
  BY DEF CallOutcome
<1>3. CallReturned' = NULL /\ CallReturned = NULL
  BY <1>1, <1>2, NothingReturned
<1> QED
  BY <1>1, <1>2, <1>3 DEF Abstract!vars

LEMMA CallStep ==
    ASSUME Inv, Inv', SignedLength, [Next]_vars
    PROVE  [Abstract!Next]_(Abstract!vars)
<1>1. ASSUME NEW u \in Uploads, SignTX(u)
      PROVE  Abstract!Next
  <2>1. Abstract!Begin(u)
    BY <1>1, BeginStep
  <2> QED
    BY <2>1 DEF Abstract!Next
<1>2. CASE SignTXUnsupported \/ SendApduRefused \/ SendApduFails
  <2>1. /\ UNCHANGED <<signed, calls, upload>>
        /\ result' \in {"TRANSMIT_DEVICE_ERROR", "BUFFER_TOO_SMALL", "IMPL_NOT_SUPPORT"}
    BY <1>2 DEF SignTXUnsupported, SendApduRefused, SendApduFails, device, call
  <2>2. Abstract!Fail \/ Abstract!Refuse
    BY <2>1, FailStep
  <2> QED
    BY <2>2 DEF Abstract!Next
<1>3. CASE SendApdu \/ SendApduInVain
  <2>1. /\ result = "none" /\ result' = "none"
        /\ UNCHANGED <<signed, calls, upload>>
    BY <1>3 DEF SendApdu, SendApduInVain, call, progress, device
  <2>2. CallSigned' = CallSigned
    BY <2>1, SignedSame
  <2> QED
    BY <2>1, <2>2, GoingOn
<1>a. CASE UserConfirms \/ UserCancels
  BY <1>a, ConfirmStep
<1>4. ASSUME NEW k \in 1..MaxCmds, Receive(k)
      PROVE  [Abstract!Next]_(Abstract!vars)
  <2>1. result = "none" /\ UNCHANGED <<signed, calls, upload>>
    BY <1>4, Answered
  <2>2. result' \in Results /\ result' \notin {"idle"}
    <3>1. result' # "idle"
      BY <1>4, <2>1 DEF Receive, PieceAnswered, SignAnswered, ReadAnswered, Stop
    <3> QED
      BY <3>1 DEF Inv, TypeOK
  <2>3. CASE result' = "none"
    <3>1. CallSigned' = CallSigned
      BY <2>1, SignedSame
    <3> QED
      BY <2>1, <2>3, <3>1, GoingOn
  <2>4. CASE result' = "OK"
    <3>1. Abstract!Deliver \/ Abstract!Disown
      BY <1>4, <2>4, DeliverStep
    <3> QED
      BY <3>1 DEF Abstract!Next
  <2>5. CASE result' = "USER_CANCEL"
    <3>1. Abstract!Cancel \/ Abstract!Disown
      BY <1>4, <2>5, CancelStep
    <3> QED
      BY <3>1 DEF Abstract!Next
  <2>6. CASE result' \in {"TRANSMIT_DEVICE_ERROR", "BUFFER_TOO_SMALL", "IMPL_NOT_SUPPORT"}
    <3>1. Abstract!Fail \/ Abstract!Refuse
      BY <2>1, <2>6, FailStep
    <3> QED
      BY <3>1 DEF Abstract!Next
  <2> QED
    BY <2>2, <2>3, <2>4, <2>5, <2>6 DEF Results
<1>5. CASE UNCHANGED vars
  <2>1. UNCHANGED <<signed, calls, upload, result, late, missed, raw, total>>
    BY <1>5 DEF vars, device, call, progress
  <2>2. CallSigned' = CallSigned
    BY <2>1, SignedSame
  <2>3. CallOutcome' = CallOutcome
    BY <2>1 DEF CallOutcome, Accountable
  <2>4. CallReturned' = CallReturned
    BY <2>1, <2>3 DEF CallReturned, SignatureOf
  <2> QED
    BY <2>1, <2>2, <2>3, <2>4 DEF Abstract!vars
<1> QED
  BY <1>1, <1>2, <1>3, <1>a, <1>4, <1>5 DEF Next

\* SignTXBTC and SignTXMultisigBTC do what SigningCall promises: the device signs
\* at most one transaction for a call, the one asked for; JUBR_OK returns that very
\* one, JUBR_USER_CANCEL means that there is none and will be none, and only after
\* an error may the user still confirm it.
THEOREM CallRefines == Spec => ImplementsSigningCall
<1>1. Init => Abstract!Init
  BY DEF Init, Abstract!Init, CallSigned, SignatureOf, CallOutcome, CallReturned
<1>2. Init => SignedLength
  BY DEF Init, SignedLength
<1>3. SignedLength /\ Inv /\ [Next]_vars => SignedLength'
  BY SignedLengthNext
<1>4. SignedLength /\ Inv /\ Inv' /\ [Next]_vars => [Abstract!Next]_(Abstract!vars)
  BY CallStep
<1> QED
  BY <1>1, <1>2, <1>3, <1>4, Invariant, PTL DEF Spec, ImplementsSigningCall, Abstract!Spec
=============================================================================
