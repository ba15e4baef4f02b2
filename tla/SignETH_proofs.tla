--------------------------- MODULE SignETH_proofs ---------------------------
(***************************************************************************)
(* Proofs about SignETH, for every set of transactions, paths and bounds,  *)
(* every chain ID and every size of a pack: its types, that what is signed *)
(* is what was asked for, when the recovery value is right, and when an    *)
(* answer is read past its end.                                            *)
(*                                                                         *)
(* The argument counts APDUs.  A call that is about to send, or has sent,  *)
(* its APDU number pos began when Base APDUs had been issued, and each of  *)
(* its answers was newer than the one before: so at least pos - 1 of those *)
(* outstanding are gone, and with late of them at the start, an answer it  *)
(* gets after late others is its own.  What its own APDUs can be answered  *)
(* with is Replying.                                                       *)
(***************************************************************************)
EXTENDS SignETH, TLAPS

\* How many APDUs had been issued when the call began.
Base == issued - (pos - 1) - (IF pending THEN 1 ELSE 0)

Pieces == [req : Requests, part : Nat, final : BOOLEAN]

Buffering == buf \in Seq(Pieces)

\* The number of the next APDU is that of one the call has.
Placed == req \in Requests => pos \in 1..(Packs(req) + 2)

\* Calls and exchanges nest, and answers are to what has been issued.
Nesting ==
    /\ result # "none" => ~pending
    /\ latest <= issued

\* The arithmetic of a call under way.
Calling ==
    result = "none" =>
        /\ req \in Requests
        /\ req.kind = "plain" => pos = 1
        /\ Base \in Nat
        /\ Base + (pos - 1) <= latest + late

\* What the APDUs of the call under way are answered with, when they are not
\* refused: nothing for a piece, then a signature, then the key.
Replying ==
    result = "none" =>
        \A k \in 1..MaxCmds :
            (Base < k /\ k <= issued /\ replies[k] # NULL /\ replies[k].sw = "9000") =>
                LET data == replies[k].data
                IN  /\ k - Base <= Packs(req) => data.is = "none"
                    /\ k - Base = Packs(req) + 1 =>
                        IF req.kind = "plain"
                        THEN data.tx = req.tx /\ data.chain = ChainByte(req) /\ data.path = req.path
                        ELSE data.is = "sig"
                    /\ k - Base = Packs(req) + 2 => data.is = "key" /\ data.path = req.path

\* With nothing outstanding, what is taken for the signature is one.
Remembering ==
    (result = "none" /\ pos = Packs(req) + 2 /\ late = 0) => signatureRaw.is = "sig"

\* What a call returned, SignContract with a recovery value.
Returned ==
    result = "OK" =>
        /\ out \in [sig : Data, v : Byte]
        /\ req \in Requests
        /\ req.kind # "plain" =>
            /\ out.sig.chain = ChainByte(req)
            /\ out.v = RecoveryValue(out.sig.rec)
            /\ out.v # 255

Inv ==
    /\ TypeOK /\ Buffering /\ Placed /\ Nesting
    /\ Calling /\ Replying /\ Remembering
    /\ Returned /\ SignedIsRequested /\ CrashOnlyOverLate

Answers == [sw : {"9000", "6f00", "6f09"}, data : Data]

-----------------------------------------------------------------------------
(* What the operators return *)

\* A request has a transaction, a path, a chain byte and a number of pieces.
LEMMA RequestType ==
    ASSUME NEW q \in Requests
    PROVE  /\ q.kind \in {"plain", "create", "contract"}
           /\ q.tx \in Txs
           /\ q.path \in Paths
           /\ ChainID[q.tx] \in Nat
           /\ ChainByte(q) \in Byte
           /\ ChainByte(q) = ChainID[q.tx] % 256
           /\ Packs(q) \in Nat
           /\ q.kind # "contract" => Packs(q) = 0
<1>1. PICK plain \in BOOLEAN, t \in Txs, p \in Paths : q = Request(plain, t, p)
  BY DEF Requests
<1>2. /\ q.kind \in {"plain", "create", "contract"}
      /\ q.tx \in Txs
      /\ q.path \in Paths
  BY <1>1 DEF Request
<1>3. ChainID[q.tx] \in Nat /\ InputLen[q.tx] \in Nat
  BY <1>2, SignETHAssumption
<1>4. ChainByte(q) = ChainID[q.tx] % 256 /\ ChainByte(q) \in Byte
  BY <1>3 DEF ChainByte, Byte
<1>5. kSendOnceLen \in Nat \ {0}
  BY SignETHAssumption
<1> DEFINE L == InputLen[q.tx]
<1>6. L \div kSendOnceLen \in Nat
  <2> HIDE DEF L
  <2>1. L \in Nat
    BY <1>3 DEF L
  <2> QED
    BY <1>5, <2>1
<1>7. Packs(q) \in Nat
  BY <1>6 DEF Packs
<1> QED
  BY <1>2, <1>3, <1>4, <1>7 DEF Packs

LEMMA DataTypes ==
    /\ NoData \in Data /\ NoData.is = "none"
    /\ \A p \in Paths : Key(p) \in Data /\ Key(p).is = "key" /\ Key(p).path = p
    /\ \A is \in {"sig", "raw"}, q \in Requests, i \in RecIDs :
        /\ Sig(is, q, i) \in Data
        /\ Sig(is, q, i).is = is
        /\ Sig(is, q, i).tx = q.tx
        /\ Sig(is, q, i).chain = ChainByte(q)
        /\ Sig(is, q, i).path = q.path
        /\ [Sig(is, q, i) EXCEPT !.tx = NULL] \in Data
        /\ [Sig(is, q, i) EXCEPT !.tx = NULL].is = is
<1>1. NoData \in Data /\ NoData.is = "none"
  BY DEF NoData, Data, Byte
<1>2. ASSUME NEW p \in Paths
      PROVE  Key(p) \in Data /\ Key(p).is = "key" /\ Key(p).path = p
  <2> DEFINE d == [is |-> "key", tx |-> NULL, chain |-> 0, path |-> p, rec |-> 0]
  <2>1. Key(p) = d
    <3> DEFINE e == [is |-> "key", tx |-> NULL, chain |-> 0, path |-> NULL, rec |-> 0]
    <3>1. [NoData EXCEPT !.is = "key"] = e
      BY DEF NoData
    <3>2. [e EXCEPT !.path = p] = d
      OBVIOUS
    <3>3. Key(p) = [[NoData EXCEPT !.is = "key"] EXCEPT !.path = p]
      BY DEF Key
    <3> QED
      BY <3>1, <3>2, <3>3
  <2>2. d \in Data /\ d.is = "key" /\ d.path = p
    BY DEF Data, Byte
  <2> QED
    BY <2>1, <2>2
<1>3. ASSUME NEW is \in {"sig", "raw"}, NEW q \in Requests, NEW i \in RecIDs
      PROVE  /\ Sig(is, q, i) \in Data
             /\ Sig(is, q, i).is = is
             /\ Sig(is, q, i).tx = q.tx
             /\ Sig(is, q, i).chain = ChainByte(q)
             /\ Sig(is, q, i).path = q.path
             /\ [Sig(is, q, i) EXCEPT !.tx = NULL] \in Data
             /\ [Sig(is, q, i) EXCEPT !.tx = NULL].is = is
  <2>1. i \in 0..2
    BY SignETHAssumption
  <2> QED
    BY <2>1, RequestType DEF Sig, Data
<1> QED
  BY <1>1, <1>2, <1>3

\* What the device signs from its buffer is a signature.
LEMMA SignsBufferIs ==
    ASSUME TypeOK, Buffering, NEW r \in SignsBuffer
    PROVE  r \in Answers /\ r.data.is = "sig"
<1>1. buf # <<>> /\ Len(buf) \in Nat
  BY DEF SignsBuffer, Buffering
<1>2. 1 \in 1..Len(buf)
  BY <1>1 DEF Buffering
<1>3. buf[1].req \in Requests
  BY <1>2 DEF TypeOK
<1>4. PICK i \in RecIDs :
            r = Reply("9000", [Sig("sig", buf[1].req, i) EXCEPT
                                  !.tx = IF IsWhole(buf) THEN @ ELSE NULL])
  BY DEF SignsBuffer
<1> DEFINE g == Sig("sig", buf[1].req, i)
<1>5. r = Reply("9000", [g EXCEPT !.tx = NULL]) \/ r = Reply("9000", g)
  BY <1>4 DEF Sig
<1>6. g \in Data /\ g.is = "sig" /\ [g EXCEPT !.tx = NULL] \in Data
      /\ [g EXCEPT !.tx = NULL].is = "sig"
  BY <1>3, DataTypes
<1> HIDE DEF g
<1>7. \A d \in Data : Reply("9000", d) \in Answers /\ Reply("9000", d).data = d
  BY DEF Reply, Answers
<1> QED
  BY <1>5, <1>6, <1>7

\* What the device answers to the APDU number pos of the call.
LEMMA DeviceAnswersAre ==
    ASSUME TypeOK, Buffering, Placed, req \in Requests, NEW r \in DeviceAnswers
    PROVE  /\ r \in Answers
           /\ Uploading => r.data.is = "none"
           /\ (Signing /\ r.sw = "9000") =>
                IF req.kind = "plain"
                THEN /\ r.data.tx = req.tx
                     /\ r.data.chain = ChainByte(req)
                     /\ r.data.path = req.path
                ELSE r.data.is = "sig"
           /\ ~Uploading /\ ~Signing => r.data.is = "key" /\ r.data.path = req.path
<1>1. /\ req.kind \in {"plain", "create", "contract"}
      /\ req.path \in Paths
      /\ Packs(req) \in Nat
      /\ pos \in Nat
  BY RequestType DEF Placed
<1>2. ~(Uploading /\ Signing)
  BY <1>1 DEF Uploading, Signing
<1>3. CASE Uploading
  <2>1. r = Reply("9000", NoData)
    BY <1>2, <1>3 DEF DeviceAnswers
  <2> QED
    BY <1>2, <1>3, <2>1, DataTypes DEF Reply, Answers
<1>4. CASE Signing
  <2>1. CASE r = Reply("6f09", NoData)
    BY <1>2, <1>4, <2>1, DataTypes DEF Reply, Answers
  <2>2. CASE r # Reply("6f09", NoData)
    <3>1. r \in (CASE req.kind = "plain"    -> {Reply("9000", Sig("raw", req, i)) : i \in RecIDs}
                   [] req.kind = "create"   -> {Reply("9000", Sig("sig", req, i)) : i \in RecIDs}
                   [] req.kind = "contract" -> SignsBuffer)
      BY <1>2, <1>4, <2>2 DEF DeviceAnswers
    <3>2. CASE req.kind = "plain"
      <4>1. PICK i \in RecIDs : r = Reply("9000", Sig("raw", req, i))
        BY <3>1, <3>2
      <4> QED
        BY <1>2, <1>4, <3>2, <4>1, DataTypes DEF Reply, Answers
    <3>3. CASE req.kind = "create"
      <4>1. PICK i \in RecIDs : r = Reply("9000", Sig("sig", req, i))
        BY <3>1, <3>3
      <4> QED
        BY <1>2, <1>4, <3>3, <4>1, DataTypes DEF Reply, Answers
    <3>4. CASE req.kind = "contract"
      <4>1. r \in SignsBuffer
        BY <3>1, <3>4
      <4> QED
        BY <1>2, <1>4, <3>4, <4>1, SignsBufferIs
    <3> QED
      BY <1>1, <3>2, <3>3, <3>4
  <2> QED
    BY <2>1, <2>2
<1>5. CASE ~Uploading /\ ~Signing
  <2>1. r = Reply("9000", Key(req.path))
    BY <1>5 DEF DeviceAnswers
  <2> QED
    BY <1>1, <1>5, <2>1, DataTypes DEF Reply, Answers
<1> QED
  BY <1>3, <1>4, <1>5

-----------------------------------------------------------------------------
(* The invariant *)

\* The one connection of the transport.
LEMMA LinkTypes ==
    /\ (/\ issued \in 0..MaxCmds /\ pending \in BOOLEAN
        /\ outcome \in {"none", "answer", "error"}) => Link!TypeOK
    /\ (/\ issued' \in 0..MaxCmds /\ pending' \in BOOLEAN
        /\ outcome' \in {"none", "answer", "error"}) => Link!TypeOK'
<1>1. \A n : [k \in 1..MaxCmds |-> IF k <= n THEN 1 ELSE 0] \in [1..MaxCmds -> 0..1]
  OBVIOUS
<1> QED
  BY <1>1 DEF Link!TypeOK

\* An answer is newer than those before it.
LEMMA AnswerIs ==
    ASSUME NEW k \in 1..MaxCmds, latest \in Nat, MaxCmds \in Nat, Link!Answer(k, 1)
    PROVE  /\ pending /\ ~pending' /\ pending' \in BOOLEAN
           /\ k <= issued /\ latest < k
           /\ issued' = issued /\ outcome' = "answer"
<1> DEFINE given == [j \in 1..MaxCmds |-> IF j <= latest THEN 1 ELSE 0]
<1>1. /\ pending /\ pending' = FALSE /\ k <= issued
      /\ issued' = issued /\ outcome' = "answer"
      /\ given[k] = 0
  BY DEF Link!Answer
<1>2. ~(k <= latest)
  BY <1>1
<1> HIDE DEF given
<1>3. latest < k
  BY <1>2
<1>4. ~pending' /\ pending' \in BOOLEAN
  BY <1>1
<1> QED
  BY <1>1, <1>3, <1>4

LEMMA InvInit == Init => Inv
<1> SUFFICES ASSUME Init
             PROVE  Inv
  OBVIOUS
<1> USE SignETHAssumption DEF Init, Link!Init
<1>1. TypeOK
  <2>1. Link!TypeOK
    <3>1. pending \in BOOLEAN
      OBVIOUS
    <3>2. issued \in 0..MaxCmds /\ latest \in 0..MaxCmds
      OBVIOUS
    <3>3. outcome \in {"none", "answer", "error"}
      OBVIOUS
    <3> QED
      BY <3>1, <3>2, <3>3, LinkTypes
  <2>2. replies \in [1..MaxCmds -> Answers \cup {NULL}]
    OBVIOUS
  <2>3. signatureRaw \in Data
    BY DataTypes
  <2>4. Len(buf) = 0
    OBVIOUS
  <2>5. latest \in 0..MaxCmds
    OBVIOUS
  <2> QED
    BY <2>1, <2>2, <2>3, <2>4, <2>5 DEF TypeOK, Answers
<1>2. Placed
  BY RequestType DEF Placed
<1>3. Buffering /\ Nesting /\ Calling /\ Replying /\ Remembering
  BY DEF Buffering, Nesting, Calling, Replying, Remembering
<1>4. Returned /\ SignedIsRequested /\ CrashOnlyOverLate
  BY DEF Returned, SignedIsRequested, CrashOnlyOverLate
<1> QED
  BY <1>1, <1>2, <1>3, <1>4 DEF Inv

\* A call begins.
LEMMA SignStep ==
    ASSUME Inv, NEW q \in Requests, Sign(q)
    PROVE  Inv'
<1>1. /\ issued \in 0..MaxCmds /\ latest \in 0..MaxCmds /\ MaxCmds \in Nat
      /\ ~pending /\ latest <= issued
  BY SignETHAssumption DEF Inv, TypeOK, Link!TypeOK, Nesting, Sign
<1>2. /\ calls < MaxCalls /\ calls' = calls + 1
      /\ req' = q /\ pos' = 1 /\ signatureRaw' = NoData
      /\ result' = "none" /\ out' = NULL /\ late' = issued - latest
      /\ issued' = issued /\ pending' = pending
      /\ latest' = latest /\ outcome' = outcome
      /\ replies' = replies /\ buf' = buf /\ misses' = misses
  BY DEF Sign, link
<1>3. Packs(q) \in Nat
  BY RequestType
<1>4. late' \in 0..MaxCmds
  BY <1>1, <1>2
<1>a. Link!TypeOK'
  <2>1. /\ issued' \in 0..MaxCmds /\ pending' \in BOOLEAN
        /\ outcome' \in {"none", "answer", "error"}
    BY <1>2 DEF Inv, TypeOK, Link!TypeOK
  <2> QED
    BY <2>1, LinkTypes
<1>5. TypeOK'
  BY <1>1, <1>2, <1>3, <1>4, <1>a, DataTypes, SignETHAssumption DEF Inv, TypeOK
<1>6. Base' = issued
  BY <1>1, <1>2 DEF Base
<1>7. Calling' /\ Placed' /\ Replying'
  BY <1>1, <1>2, <1>3, <1>6 DEF Calling, Placed, Replying
<1>8. Remembering' /\ Nesting' /\ Buffering'
  BY <1>1, <1>2, <1>3 DEF Inv, Remembering, Nesting, Buffering
<1>9. Returned' /\ SignedIsRequested' /\ CrashOnlyOverLate'
  BY <1>2 DEF Returned, SignedIsRequested, CrashOnlyOverLate
<1> QED
  BY <1>5, <1>7, <1>8, <1>9 DEF Inv

LEMMA RefusedStep ==
    ASSUME Inv, SignTransactionRefused
    PROVE  Inv'
<1>1. /\ result # "none"
      /\ result' = "ARGUMENTS_BAD" /\ out' = NULL
      /\ issued' = issued /\ pending' = pending
      /\ latest' = latest /\ outcome' = outcome
      /\ UNCHANGED <<replies, buf, calls, req, pos, signatureRaw, late, misses>>
  BY DEF SignTransactionRefused, link
<1>2. TypeOK' /\ Buffering' /\ Placed' /\ Nesting'
  BY <1>1 DEF Inv, TypeOK, Link!TypeOK, Buffering, Placed, Nesting
<1>3. /\ Calling' /\ Replying' /\ Remembering'
      /\ Returned' /\ SignedIsRequested' /\ CrashOnlyOverLate'
  BY <1>1 DEF Calling, Replying, Remembering, Returned, SignedIsRequested,
              CrashOnlyOverLate
<1> QED
  BY <1>2, <1>3 DEF Inv

\* What an APDU that is issued leaves true, whatever it will be answered with.
LEMMA Issued ==
    ASSUME Inv, result = "none", Link!Request, latest' = latest,
           NEW r, r \in Answers \cup {NULL},
           replies' = [replies EXCEPT ![issued'] = r],
           UNCHANGED <<calls, req, pos, signatureRaw, result, out, late>>
    PROVE  /\ issued' \in 1..MaxCmds /\ Link!TypeOK'
           /\ replies' \in [1..MaxCmds -> Answers \cup {NULL}]
           /\ Base' = Base /\ issued' - Base' = pos
           /\ Placed' /\ Nesting' /\ Calling' /\ Remembering'
           /\ Returned' /\ SignedIsRequested' /\ CrashOnlyOverLate'
           /\ replies'[issued'] = r
           /\ \A k \in 1..MaxCmds : k # issued' => replies'[k] = replies[k]
<1>1. /\ issued \in 0..MaxCmds /\ latest \in 0..MaxCmds /\ MaxCmds \in Nat
      /\ ~pending /\ latest <= issued
      /\ issued' = issued + 1 /\ pending' = TRUE /\ issued < MaxCmds
      /\ latest' = latest /\ outcome' = "none"
  BY SignETHAssumption DEF Inv, TypeOK, Link!TypeOK, Link!Request, Nesting
<1>2. req \in Requests /\ pos \in 1..(Packs(req) + 2) /\ Packs(req) \in Nat
  BY RequestType DEF Inv, Calling, Placed
<1>3. issued' \in 1..MaxCmds /\ Link!TypeOK'
  <2>1. issued' \in 1..MaxCmds
    BY <1>1
  <2>2. issued' \in 0..MaxCmds
    BY <2>1
  <2>3. pending' \in BOOLEAN
    BY <1>1
  <2>4. outcome' \in {"none", "answer", "error"}
    BY <1>1
  <2> QED
    BY <2>1, <2>2, <2>3, <2>4, LinkTypes
<1>4. Base' = Base /\ issued' - Base' = pos
  BY <1>1, <1>2 DEF Base
<1>5. /\ replies' \in [1..MaxCmds -> Answers \cup {NULL}]
      /\ replies'[issued'] = r
      /\ \A k \in 1..MaxCmds : k # issued' => replies'[k] = replies[k]
  BY <1>3 DEF Inv, TypeOK, Answers
<1>6. Placed' /\ Nesting' /\ Calling' /\ Remembering'
  BY <1>1, <1>4 DEF Inv, Placed, Nesting, Calling, Remembering
<1>7. Returned' /\ SignedIsRequested' /\ CrashOnlyOverLate'
  BY DEF Inv, Returned, SignedIsRequested, CrashOnlyOverLate
<1> QED
  BY <1>3, <1>4, <1>5, <1>6, <1>7

\* The device takes the APDU, and its answer is one to that APDU.
LEMMA SendStep ==
    ASSUME Inv, SendApdu
    PROVE  Inv'
<1>1. /\ result = "none" /\ Link!Request /\ latest' = latest
      /\ UNCHANGED <<calls, req, pos, signatureRaw, result, out, late, misses>>
  BY DEF SendApdu
<1>2. PICK r \in DeviceAnswers : replies' = [replies EXCEPT ![issued'] = r]
  BY DEF SendApdu
<1>3. req \in Requests /\ pos \in 1..(Packs(req) + 2) /\ Packs(req) \in Nat
  BY <1>1, RequestType DEF Inv, Calling, Placed
<1>4. /\ r \in Answers
      /\ Uploading => r.data.is = "none"
      /\ (Signing /\ r.sw = "9000") =>
           IF req.kind = "plain"
           THEN /\ r.data.tx = req.tx
                /\ r.data.chain = ChainByte(req)
                /\ r.data.path = req.path
           ELSE r.data.is = "sig"
      /\ ~Uploading /\ ~Signing => r.data.is = "key" /\ r.data.path = req.path
  BY <1>3, DeviceAnswersAre DEF Inv
<1>5. /\ issued' \in 1..MaxCmds /\ Link!TypeOK'
      /\ replies' \in [1..MaxCmds -> Answers \cup {NULL}]
      /\ Base' = Base /\ issued' - Base' = pos
      /\ Placed' /\ Nesting' /\ Calling' /\ Remembering'
      /\ Returned' /\ SignedIsRequested' /\ CrashOnlyOverLate'
      /\ replies'[issued'] = r
      /\ \A k \in 1..MaxCmds : k # issued' => replies'[k] = replies[k]
  BY <1>1, <1>2, <1>4, Issued
<1>6. Buffering' /\ \A i \in 1..Len(buf') : buf'[i].req \in Requests
  <2>1. Piece(req, pos) \in Pieces
    BY <1>3 DEF Piece, Pieces
  <2>2. buf' \in Seq(Pieces)
    <3>1. CASE buf' = buf
      BY <3>1 DEF Inv, Buffering
    <3>2. CASE buf' = <<Piece(req, 1)>> /\ pos = 1
      BY <2>1, <3>2
    <3>3. CASE buf' = Append(buf, Piece(req, pos))
      BY <2>1, <3>3 DEF Inv, Buffering
    <3> QED
      BY <3>1, <3>2, <3>3 DEF SendApdu
  <2>3. \A i \in 1..Len(buf') : buf'[i] \in Pieces
    BY <2>2
  <2> QED
    BY <2>2, <2>3 DEF Buffering, Pieces
<1>7. TypeOK'
  BY <1>1, <1>5, <1>6 DEF Inv, TypeOK, Answers
<1>8. Replying'
  <2>1. SUFFICES ASSUME NEW k \in 1..MaxCmds, Base < k, k <= issued',
                        replies'[k] # NULL, replies'[k].sw = "9000"
                 PROVE  LET data == replies'[k].data
                        IN  /\ k - Base <= Packs(req) => data.is = "none"
                            /\ k - Base = Packs(req) + 1 =>
                                IF req.kind = "plain"
                                THEN /\ data.tx = req.tx
                                     /\ data.chain = ChainByte(req)
                                     /\ data.path = req.path
                                ELSE data.is = "sig"
                            /\ k - Base = Packs(req) + 2 =>
                                data.is = "key" /\ data.path = req.path
    <3>1. ChainByte(req)' = ChainByte(req) /\ Packs(req)' = Packs(req)
      BY <1>1 DEF ChainByte, Packs
    <3> QED
      BY <1>1, <1>5, <2>1, <3>1 DEF Replying
  <2>2. CASE k = issued'
    BY <1>3, <1>4, <1>5, <2>1, <2>2 DEF Uploading, Signing
  <2>3. CASE k # issued'
    <3>1. k <= issued
      BY <1>1, <1>5, <2>1, <2>3, SignETHAssumption DEF Link!Request, Inv, TypeOK, Link!TypeOK
    <3> QED
      BY <1>1, <1>5, <2>1, <2>3, <3>1 DEF Inv, Replying
  <2> QED
    BY <2>2, <2>3
<1> QED
  BY <1>5, <1>6, <1>7, <1>8 DEF Inv

LEMMA InVainStep ==
    ASSUME Inv, SendApduInVain
    PROVE  Inv'
<1>1. /\ result = "none" /\ Link!Request /\ latest' = latest
      /\ UNCHANGED <<buf, calls, req, pos, signatureRaw, result, out, late>>
      /\ misses < MaxMisses /\ misses' = misses + 1
  BY DEF SendApduInVain
<1>2. PICK r \in {NULL, Reply("6f00", NoData)} : replies' = [replies EXCEPT ![issued'] = r]
  BY DEF SendApduInVain
<1>3. r \in Answers \cup {NULL} /\ (r # NULL => r.sw # "9000")
  BY DataTypes DEF Reply, Answers
<1>4. /\ issued' \in 1..MaxCmds /\ Link!TypeOK'
      /\ replies' \in [1..MaxCmds -> Answers \cup {NULL}]
      /\ Base' = Base
      /\ Placed' /\ Nesting' /\ Calling' /\ Remembering'
      /\ Returned' /\ SignedIsRequested' /\ CrashOnlyOverLate'
      /\ replies'[issued'] = r
      /\ \A k \in 1..MaxCmds : k # issued' => replies'[k] = replies[k]
  BY <1>1, <1>2, <1>3, Issued
<1>5. Buffering' /\ TypeOK'
  BY <1>1, <1>4, SignETHAssumption DEF Inv, Buffering, TypeOK, Answers
<1>6. Replying'
  <2>1. \A k \in 1..MaxCmds :
            (k <= issued' /\ replies'[k] # NULL /\ replies'[k].sw = "9000")
                => k <= issued /\ replies'[k] = replies[k]
    <3>1. issued' = issued + 1
      BY <1>1 DEF Link!Request
    <3>2. issued \in Nat /\ MaxCmds \in Nat
      BY SignETHAssumption DEF Inv, TypeOK, Link!TypeOK
    <3>3. SUFFICES ASSUME NEW k \in 1..MaxCmds,
                          k <= issued', replies'[k] # NULL, replies'[k].sw = "9000"
                   PROVE  k <= issued /\ replies'[k] = replies[k]
      OBVIOUS
    <3>4. k # issued'
      BY <1>3, <1>4, <3>3
    <3>5. k <= issued
      BY <3>1, <3>2, <3>3, <3>4
    <3> QED
      BY <1>4, <3>4, <3>5
  <2>2. ChainByte(req)' = ChainByte(req) /\ Packs(req)' = Packs(req)
    BY <1>1 DEF ChainByte, Packs
  <2> QED
    BY <1>1, <1>4, <2>1, <2>2 DEF Inv, Replying
<1> QED
  BY <1>4, <1>5, <1>6 DEF Inv

\* A call that ends, with an error or a crash that is excused.
LEMMA Stopped ==
    ASSUME Inv, req \in Requests, Link!TypeOK', ~pending', latest' <= issued',
           latest' \in 0..MaxCmds,
           NEW r \in {"TRANSMIT_DEVICE_ERROR", "USER_CANCEL", "ARGUMENTS_BAD", "crash"},
           Stop(r), r = "crash" => late > 0,
           replies' \in [1..MaxCmds -> Answers \cup {NULL}],
           UNCHANGED <<buf, calls, req, late, misses>>
    PROVE  Inv'
<1>1. result' = r /\ out' = NULL /\ pos' = 1 /\ signatureRaw' = NoData
  BY DEF Stop, Return
<1>2. Packs(req) \in Nat
  BY RequestType
<1>3. TypeOK'
  BY <1>1, <1>2, DataTypes DEF Inv, TypeOK, Answers
<1>4. Buffering' /\ Placed' /\ Nesting'
  BY <1>1, <1>2 DEF Inv, Buffering, Placed, Nesting
<1>5. /\ Calling' /\ Replying' /\ Remembering'
      /\ Returned' /\ SignedIsRequested' /\ CrashOnlyOverLate'
  BY <1>1 DEF Calling, Replying, Remembering, Returned, SignedIsRequested,
              CrashOnlyOverLate
<1> QED
  BY <1>3, <1>4, <1>5 DEF Inv

LEMMA FailsStep ==
    ASSUME Inv, SendApduFails
    PROVE  Inv'
<1>1. /\ result = "none"
      /\ latest' = latest /\ (Link!Refuse \/ Link!Fail)
      /\ Stop("TRANSMIT_DEVICE_ERROR")
      /\ UNCHANGED <<replies, buf, calls, req, late, misses>>
  BY DEF SendApduFails
<1>2. Link!TypeOK' /\ ~pending' /\ latest' <= issued' /\ latest' \in 0..MaxCmds
  <2>1. Link!TypeOK /\ latest <= issued /\ latest \in 0..MaxCmds
    BY DEF Inv, TypeOK, Nesting
  <2>2. ~pending' /\ pending' \in BOOLEAN
    <3>1. CASE Link!Refuse
      <4>1. ~pending /\ pending' = pending
        BY <3>1 DEF Link!Refuse
      <4> QED
        BY <2>1, <4>1 DEF Link!TypeOK
    <3>2. CASE Link!Fail
      BY <3>2 DEF Link!Fail
    <3> QED
      BY <1>1, <3>1, <3>2
  <2>3. outcome' = "error" /\ issued' = issued /\ latest' = latest
    BY <1>1 DEF SendApduFails, Link!Refuse, Link!Fail
  <2>4. issued' \in 0..MaxCmds /\ outcome' \in {"none", "answer", "error"}
    BY <2>1, <2>3 DEF Link!TypeOK
  <2> QED
    BY <2>1, <2>2, <2>3, <2>4, LinkTypes
<1>3. req \in Requests /\ replies \in [1..MaxCmds -> Answers \cup {NULL}]
  BY <1>1 DEF Inv, Calling, TypeOK, Answers
<1> QED
  BY <1>1, <1>2, <1>3, Stopped

\* What an answer leaves: fewer answers outstanding, and those of this call alone
\* when none was at its beginning.
LEMMA Answered ==
    ASSUME Inv, NEW k \in 1..MaxCmds, Receive(k)
    PROVE  /\ result = "none" /\ pending /\ ~pending' /\ issued' = issued
           /\ k \in (latest + 1)..issued /\ latest' = k
           /\ req \in Requests
           /\ pos \in 1..(Packs(req) + 2) /\ Packs(req) \in Nat
           /\ issued = Base + pos
           /\ late = 0 => k = issued
           /\ Base + pos <= k + late
           /\ replies[k] \in Answers
           /\ Link!TypeOK'
           /\ replies' \in [1..MaxCmds -> Answers \cup {NULL}]
           /\ UNCHANGED <<buf, calls, req, late, misses>>
<1>1. /\ Link!Answer(k, 1) /\ latest' = k
      /\ replies[k] # NULL
      /\ replies' = [j \in 1..MaxCmds |-> IF j <= k THEN NULL ELSE replies[j]]
      /\ UNCHANGED <<buf, calls, req, late, misses>>
  BY DEF Receive
<1>2. /\ pending /\ k \in (latest + 1)..issued
      /\ ~pending' /\ latest' = k /\ issued' = issued
      /\ outcome' = "answer" /\ pending' \in BOOLEAN
  <2>1. latest \in Nat /\ MaxCmds \in Nat /\ issued \in Nat
    BY SignETHAssumption DEF Inv, TypeOK, Link!TypeOK
  <2>2. /\ pending /\ ~pending' /\ pending' \in BOOLEAN
        /\ k <= issued /\ latest < k
        /\ issued' = issued /\ outcome' = "answer"
    BY <1>1, <2>1, AnswerIs
  <2>3. k \in (latest + 1)..issued
    BY <2>1, <2>2
  <2> QED
    BY <1>1, <2>2, <2>3
<1>3. /\ issued \in 0..MaxCmds /\ latest \in 0..MaxCmds /\ MaxCmds \in Nat
      /\ late \in 0..MaxCmds
      /\ result = "none"
  BY <1>2, SignETHAssumption DEF Inv, TypeOK, Link!TypeOK, Nesting
<1>4. /\ req \in Requests
      /\ pos \in 1..(Packs(req) + 2) /\ Packs(req) \in Nat
      /\ Base + (pos - 1) <= latest + late
  BY <1>3, RequestType DEF Inv, Calling, Placed
<1>5. issued = Base + pos
  BY <1>2, <1>3, <1>4 DEF Base
<1>6. Base + pos <= k + late /\ (late = 0 => k = issued)
  BY <1>2, <1>3, <1>4, <1>5 DEF Inv, Calling
<1>7. replies \in [1..MaxCmds -> Answers \cup {NULL}]
  BY DEF Inv, TypeOK, Answers
<1>8. replies' \in [1..MaxCmds -> Answers \cup {NULL}] /\ replies[k] \in Answers
  BY <1>1, <1>7
<1>9. Link!TypeOK'
  <2>1. issued' \in 0..MaxCmds
    BY <1>2, <1>3
  <2> QED
    BY <1>2, <2>1, LinkTypes
<1> QED
  BY <1>1, <1>2, <1>3, <1>4, <1>5, <1>6, <1>8, <1>9

\* An answer of this call, by the number of the APDU it is to.
LEMMA OwnAnswer ==
    ASSUME Inv, NEW k \in 1..MaxCmds, Receive(k), Base < k, replies[k].sw = "9000"
    PROVE  /\ k - Base <= Packs(req) => replies[k].data.is = "none"
           /\ k - Base = Packs(req) + 1 =>
                IF req.kind = "plain"
                THEN /\ replies[k].data.tx = req.tx
                     /\ replies[k].data.chain = ChainByte(req)
                     /\ replies[k].data.path = req.path
                ELSE replies[k].data.is = "sig"
           /\ k - Base = Packs(req) + 2 =>
                replies[k].data.is = "key" /\ replies[k].data.path = req.path
<1>1. result = "none" /\ k <= issued
  <2>1. issued \in Nat /\ latest \in Nat
    BY SignETHAssumption DEF Inv, TypeOK, Link!TypeOK
  <2> QED
    BY <2>1, Answered
<1>2. replies[k] # NULL
  BY DEF Receive
<1> QED
  BY <1>1, <1>2 DEF Inv, Replying

\* The call goes on to its next APDU.
LEMMA GoesOn ==
    ASSUME Inv, NEW k \in 1..MaxCmds, Receive(k),
           req.kind # "plain", pos <= Packs(req) + 1,
           pos' = pos + 1, signatureRaw' \in Data,
           UNCHANGED <<result, out>>,
           (pos = Packs(req) + 1 /\ late = 0) => signatureRaw'.is = "sig"
    PROVE  Inv'
<1>1. /\ result = "none" /\ pending /\ ~pending' /\ issued' = issued
      /\ k \in (latest + 1)..issued /\ latest' = k
      /\ req \in Requests
      /\ pos \in 1..(Packs(req) + 2) /\ Packs(req) \in Nat
      /\ issued = Base + pos
      /\ Base + pos <= k + late
      /\ Link!TypeOK'
      /\ replies' \in [1..MaxCmds -> Answers \cup {NULL}]
      /\ UNCHANGED <<buf, calls, req, late, misses>>
  BY Answered
<1>2. /\ issued \in 0..MaxCmds /\ latest \in 0..MaxCmds /\ MaxCmds \in Nat
      /\ late \in 0..MaxCmds
  BY SignETHAssumption DEF Inv, TypeOK, Link!TypeOK
<1>3. Packs(req)' = Packs(req) /\ ChainByte(req)' = ChainByte(req)
  BY <1>1 DEF Packs, ChainByte
<1>4. Base' = Base /\ Base \in Nat
  BY <1>1, <1>2 DEF Base, Inv, Calling
<1>5. Placed' /\ Calling'
  BY <1>1, <1>2, <1>3, <1>4 DEF Placed, Calling
<1>6. Nesting' /\ Buffering' /\ Remembering'
  BY <1>1, <1>2, <1>3 DEF Inv, Nesting, Buffering, Remembering
<1>7. Replying'
  <2>1. \A j \in 1..MaxCmds : replies'[j] # NULL => replies'[j] = replies[j]
    BY DEF Receive
  <2> QED
    BY <1>1, <1>3, <1>4, <2>1 DEF Inv, Replying
<1>8. TypeOK'
  BY <1>1, <1>5 DEF Inv, TypeOK, Placed, Answers
<1>9. Returned' /\ SignedIsRequested' /\ CrashOnlyOverLate'
  BY <1>1 DEF Returned, SignedIsRequested, CrashOnlyOverLate
<1> QED
  BY <1>5, <1>6, <1>7, <1>8, <1>9 DEF Inv

\* The call returns a transaction.
LEMMA ReturnsOK ==
    ASSUME Inv, NEW k \in 1..MaxCmds, Receive(k),
           NEW d \in Data, NEW v \in Byte, Return("OK", [sig |-> d, v |-> v]),
           req.kind # "plain" =>
               /\ d.tx = req.tx /\ d.chain = ChainByte(req)
               /\ v = RecoveryValue(d.rec) /\ v # 255,
           (req.kind = "plain" /\ late = 0) =>
               d.tx = req.tx /\ d.chain = ChainByte(req) /\ d.path = req.path,
           (req.kind # "plain" /\ late < Packs(req) + 2) => d.path = req.path
    PROVE  Inv'
<1>1. /\ ~pending' /\ issued' = issued
      /\ k \in (latest + 1)..issued /\ latest' = k
      /\ req \in Requests /\ Packs(req) \in Nat
      /\ Link!TypeOK'
      /\ replies' \in [1..MaxCmds -> Answers \cup {NULL}]
      /\ UNCHANGED <<buf, calls, req, late, misses>>
  BY Answered
<1>2. /\ result' = "OK" /\ pos' = 1 /\ signatureRaw' = NoData
      /\ out' = [sig |-> d, v |-> v]
  BY DEF Return
<1>3. out'.sig = d /\ out'.v = v /\ out' \in [sig : Data, v : Byte]
  BY <1>2
<1>4. /\ Packs(req)' = Packs(req) /\ ChainByte(req)' = ChainByte(req)
      /\ \A i : RecoveryValue(i)' = RecoveryValue(i)
  BY <1>1 DEF Packs, ChainByte, RecoveryValue
<1>5. TypeOK'
  BY <1>1, <1>2, <1>3, DataTypes DEF Inv, TypeOK, Answers
<1>6. Buffering' /\ Placed' /\ Nesting'
  <2>1. latest' <= issued'
    BY <1>1
  <2> QED
    BY <1>1, <1>2, <2>1 DEF Inv, Buffering, Placed, Nesting
<1>7. Calling' /\ Replying' /\ Remembering' /\ CrashOnlyOverLate'
  BY <1>2 DEF Calling, Replying, Remembering, CrashOnlyOverLate
<1>8. Returned'
  BY <1>1, <1>3, <1>4 DEF Returned
<1>9. SignedIsRequested'
  BY <1>1, <1>3, <1>4 DEF SignedIsRequested
<1> QED
  BY <1>5, <1>6, <1>7, <1>8, <1>9 DEF Inv

\* The answer to the request for the key.
LEMMA KeyStep ==
    ASSUME Inv, NEW k \in 1..MaxCmds, Receive(k), AskingKey, KeyAnswered(replies[k])
    PROVE  Inv'
<1> DEFINE r == replies[k]
<1>1. /\ result = "none" /\ ~pending' /\ issued' = issued
      /\ k \in (latest + 1)..issued /\ latest' = k
      /\ req \in Requests
      /\ pos \in 1..(Packs(req) + 2) /\ Packs(req) \in Nat
      /\ issued = Base + pos
      /\ late = 0 => k = issued
      /\ Base + pos <= k + late
      /\ r \in Answers
      /\ Link!TypeOK'
      /\ replies' \in [1..MaxCmds -> Answers \cup {NULL}]
      /\ UNCHANGED <<buf, calls, req, late, misses>>
  BY Answered
<1>2. /\ pos = Packs(req) + 2 /\ req.kind # "plain"
      /\ issued \in Nat /\ latest \in Nat /\ late \in Nat /\ Base \in Nat
  <2>1. pos = Packs(req) + 2
    BY DEF AskingKey
  <2>2. issued \in Nat /\ latest \in Nat /\ late \in Nat
    BY SignETHAssumption DEF Inv, TypeOK, Link!TypeOK
  <2>3. result = "none"
    BY <1>1
  <2>4. Base \in Nat /\ (req.kind = "plain" => pos = 1)
    BY <2>3 DEF Inv, Calling
  <2>5. Packs(req) \in Nat
    BY <1>1
  <2>6. pos # 1
    BY <2>1, <2>5
  <2> QED
    BY <2>1, <2>2, <2>4, <2>6
<1>3. latest' <= issued'
  <2>1. issued' = issued /\ k \in (latest + 1)..issued /\ latest' = k
    BY <1>1
  <2> QED
    BY <1>2, <2>1
<1>4. ASSUME NEW x \in {"TRANSMIT_DEVICE_ERROR", "ARGUMENTS_BAD"}, Stop(x)
      PROVE  Inv'
  BY <1>1, <1>3, <1>4, Stopped
<1>5. CASE r.sw = "9000" /\ ReadsPastEnd(r.data)
  <2>1. late > 0
    <3>1. SUFFICES ASSUME late = 0
                   PROVE  FALSE
      BY <1>2
    <3>2. k - Base = Packs(req) + 2 /\ Base < k
      BY <1>1, <1>2, <3>1
    <3>3. r.data.is = "key"
      BY <1>5, <3>2, OwnAnswer
    <3>4. signatureRaw.is = "sig"
      BY <1>1, <1>2, <3>1 DEF Inv, Remembering
    <3> QED
      BY <1>5, <3>3, <3>4 DEF ReadsPastEnd
  <2>2. CASE Stop("crash")
    BY <1>1, <1>3, <2>1, <2>2, Stopped
  <2>3. CASE Stop("ARGUMENTS_BAD")
    BY <1>4, <2>3
  <2>4. ~Recovers(signatureRaw, r.data)
    BY <1>5 DEF ReadsPastEnd, Recovers
  <2> QED
    BY <1>5, <2>2, <2>3, <2>4 DEF KeyAnswered
<1>6. CASE /\ r.sw = "9000"
           /\ Recovers(signatureRaw, r.data)
           /\ RecoveryValue(signatureRaw.rec) # 255
           /\ Return("OK", [sig |-> signatureRaw, v |-> RecoveryValue(signatureRaw.rec)])
  <2>1. signatureRaw \in Data /\ signatureRaw.rec \in Nat
    BY DEF Inv, TypeOK, Data
  <2>2. RecoveryValue(signatureRaw.rec) \in Byte
    <3>1. ChainByte(req) \in Nat
      BY <1>1, RequestType DEF Byte
    <3>2. (signatureRaw.rec + ChainByte(req) * 2 + 35) \in Nat
      BY <2>1, <3>1
    <3> HIDE DEF r
    <3> QED
      BY <3>2 DEF RecoveryValue, Byte
  <2>3. /\ signatureRaw.tx = req.tx /\ signatureRaw.chain = ChainByte(req)
        /\ signatureRaw.path = r.data.path /\ r.data.is = "key"
    BY <1>6 DEF Recovers
  <2>4. ASSUME late < Packs(req) + 2
        PROVE  signatureRaw.path = req.path
    <3>1. Base < k /\ k - Base <= Packs(req) + 2 /\ k - Base \in Nat
      BY <1>1, <1>2, <2>4
    <3>0. /\ k - Base <= Packs(req) => r.data.is = "none"
          /\ k - Base = Packs(req) + 1 => r.data.is = "sig"
          /\ k - Base = Packs(req) + 2 => r.data.path = req.path
      BY <1>2, <1>6, <3>1, OwnAnswer
    <3>2. /\ ~(k - Base <= Packs(req)) /\ k - Base # Packs(req) + 1
      BY <2>3, <3>0
    <3>3. k - Base = Packs(req) + 2
      <4> DEFINE j == k - Base
                 n == Packs(req)
      <4>1. n \in Nat /\ j \in Nat /\ j <= n + 2 /\ ~(j <= n) /\ j # n + 1
        BY <1>1, <3>1, <3>2
      <4> HIDE DEF j, n
      <4>2. j = n + 2
        BY <4>1
      <4> QED
        BY <4>2 DEF j, n
    <3> QED
      BY <2>3, <3>0, <3>3
  <2> QED
    BY <1>2, <1>6, <2>1, <2>2, <2>3, <2>4, ReturnsOK
<1> QED
  BY <1>4, <1>5, <1>6 DEF KeyAnswered

\* The answer to the request to sign.
LEMMA SignatureStep ==
    ASSUME Inv, NEW k \in 1..MaxCmds, Receive(k), Signing, SignAnswered(replies[k])
    PROVE  Inv'
<1> DEFINE r == replies[k]
<1>1. /\ result = "none" /\ ~pending' /\ issued' = issued
      /\ k \in (latest + 1)..issued /\ latest' = k
      /\ req \in Requests
      /\ pos \in 1..(Packs(req) + 2) /\ Packs(req) \in Nat
      /\ issued = Base + pos
      /\ late = 0 => k = issued
      /\ r \in Answers
      /\ Link!TypeOK'
      /\ replies' \in [1..MaxCmds -> Answers \cup {NULL}]
      /\ UNCHANGED <<buf, calls, req, late, misses>>
  BY Answered
<1>2. /\ pos = Packs(req) + 1
      /\ issued \in Nat /\ latest \in Nat /\ late \in Nat /\ Base \in Nat
  BY <1>1, SignETHAssumption
     DEF Signing, Inv, Calling, TypeOK, Link!TypeOK
<1>3. latest' <= issued' /\ r.data \in Data
  BY <1>1, <1>2 DEF Answers
<1>4. late = 0 => k - Base = Packs(req) + 1 /\ Base < k
  BY <1>1, <1>2
<1>5. ASSUME NEW x \in {"TRANSMIT_DEVICE_ERROR", "USER_CANCEL"}, Stop(x)
      PROVE  Inv'
  BY <1>1, <1>3, <1>5, Stopped
<1>6. CASE /\ r.sw = "9000" /\ req.kind = "plain"
           /\ Return("OK", [sig |-> r.data, v |-> 0])
  <2>1. 0 \in Byte
    BY DEF Byte
  <2>2. late = 0 => /\ r.data.tx = req.tx
                    /\ r.data.chain = ChainByte(req)
                    /\ r.data.path = req.path
    BY <1>4, <1>6, OwnAnswer
  <2> HIDE DEF r
  <2> QED
    BY <1>3, <1>6, <2>1, <2>2, ReturnsOK
<1>7. CASE /\ r.sw = "9000" /\ req.kind # "plain"
           /\ pos' = pos + 1 /\ signatureRaw' = r.data
           /\ UNCHANGED <<result, out>>
  <2>1. late = 0 => r.data.is = "sig"
    BY <1>4, <1>7, OwnAnswer
  <2>2. pos <= Packs(req) + 1
    BY <1>1, <1>2
  <2> HIDE DEF r
  <2> QED
    BY <1>3, <1>7, <2>1, <2>2, GoesOn
<1> QED
  BY <1>5, <1>6, <1>7 DEF SignAnswered

\* The answer to a piece.
LEMMA PieceStep ==
    ASSUME Inv, NEW k \in 1..MaxCmds, Receive(k), Uploading, PieceAnswered(replies[k])
    PROVE  Inv'
<1>1. /\ ~pending' /\ issued' = issued
      /\ k \in (latest + 1)..issued /\ latest' = k
      /\ req \in Requests
      /\ pos \in 1..(Packs(req) + 2) /\ Packs(req) \in Nat
      /\ Link!TypeOK'
      /\ replies' \in [1..MaxCmds -> Answers \cup {NULL}]
      /\ UNCHANGED <<buf, calls, req, late, misses>>
  BY Answered
<1>2. /\ pos <= Packs(req)
      /\ issued \in Nat /\ latest \in Nat
  BY SignETHAssumption DEF Uploading, Inv, TypeOK, Link!TypeOK
<1>3. latest' <= issued'
  BY <1>1, <1>2
<1>4. CASE Stop("TRANSMIT_DEVICE_ERROR")
  BY <1>1, <1>3, <1>4, Stopped
<1>5. CASE pos' = pos + 1 /\ UNCHANGED <<signatureRaw, result, out>>
  <2>1. /\ req.kind # "plain" /\ pos <= Packs(req) + 1 /\ pos # Packs(req) + 1
        /\ signatureRaw' \in Data
    BY <1>1, <1>2, <1>5, RequestType DEF Inv, TypeOK
  <2> QED
    BY <1>5, <2>1, GoesOn
<1> QED
  BY <1>4, <1>5 DEF PieceAnswered

LEMMA InvNext == Inv /\ [Next]_vars => Inv'
<1> SUFFICES ASSUME Inv, [Next]_vars
             PROVE  Inv'
  OBVIOUS
<1>1. ASSUME NEW q \in Requests, Sign(q)
      PROVE  Inv'
  BY <1>1, SignStep
<1>2. CASE SignTransactionRefused
  BY <1>2, RefusedStep
<1>3. CASE SendApdu
  BY <1>3, SendStep
<1>4. CASE SendApduInVain
  BY <1>4, InVainStep
<1>5. CASE SendApduFails
  BY <1>5, FailsStep
<1>6. ASSUME NEW k \in 1..MaxCmds, Receive(k)
      PROVE  Inv'
  <2>1. CASE Uploading /\ PieceAnswered(replies[k])
    BY <1>6, <2>1, PieceStep
  <2>2. CASE Signing /\ SignAnswered(replies[k])
    BY <1>6, <2>2, SignatureStep
  <2>3. CASE AskingKey /\ KeyAnswered(replies[k])
    BY <1>6, <2>3, KeyStep
  <2> QED
    BY <1>6, <2>1, <2>2, <2>3 DEF Receive
<1>7. CASE UNCHANGED vars
  <2> USE <1>7 DEF vars, link
  <2>1. TypeOK' /\ Buffering' /\ Placed' /\ Nesting'
    BY DEF Inv, TypeOK, Link!TypeOK, Buffering, Placed, Nesting
  <2>2. Base' = Base /\ Packs(req)' = Packs(req) /\ ChainByte(req)' = ChainByte(req)
    BY DEF Base, Packs, ChainByte
  <2>3. Calling' /\ Replying' /\ Remembering'
    BY <2>2 DEF Inv, Calling, Replying, Remembering
  <2>4. \A i : RecoveryValue(i)' = RecoveryValue(i)
    BY <2>2 DEF RecoveryValue
  <2>5. Returned' /\ SignedIsRequested' /\ CrashOnlyOverLate'
    BY <2>2, <2>4 DEF Inv, Returned, SignedIsRequested, CrashOnlyOverLate
  <2> QED
    BY <2>1, <2>3, <2>5 DEF Inv
<1> QED
  BY <1>1, <1>2, <1>3, <1>4, <1>5, <1>6, <1>7 DEF Next

-----------------------------------------------------------------------------
(* The theorems *)

LEMMA Invariant == Spec => []Inv
BY InvInit, InvNext, PTL DEF Spec

\* The transport, the device and the call keep their types.
THEOREM TypeCorrect == Spec => []TypeOK
<1>1. Inv => TypeOK
  BY DEF Inv
<1> QED
  BY <1>1, Invariant, PTL

\* ContextETH: what SignContract returns is signed for the transaction and the
\* chain it was asked for, and by the path's key unless a whole call's answers
\* were outstanding; SignTransaction's is all of it when no answer was.
THEOREM SignatureSound == Spec => []SignedIsRequested
<1>1. Inv => SignedIsRequested
  BY DEF Inv
<1> QED
  BY <1>1, Invariant, PTL

\* The recovery value, for every chain ID: EIP-155's below 110, and not from
\* there on.
THEOREM RecoveryValueSound == Spec => []RecoveryIsEIP155
<1>1. ASSUME Inv
      PROVE  RecoveryIsEIP155
  <2>1. SUFFICES ASSUME result = "OK", req.kind # "plain"
                 PROVE  (/\ out.v = out.sig.rec + 2 * ChainID[req.tx] + 35
                         /\ out.sig.chain = ChainID[req.tx]) <=> ChainID[req.tx] < 110
    BY DEF RecoveryIsEIP155
  <2> DEFINE c == ChainID[req.tx]
             i == out.sig.rec
             b == ChainByte(req)
             v == out.v
  <2>2. /\ req \in Requests /\ out.sig.chain = b
        /\ v = RecoveryValue(i) /\ v # 255
        /\ out \in [sig : Data, v : Byte]
    BY <1>1, <2>1 DEF Inv, Returned
  <2>3. i \in 0..2
    BY <2>2 DEF Data
  <2>4. c \in Nat /\ b = c % 256
    BY <2>2, RequestType
  <2>5. v = (i + b * 2 + 35) % 256
    BY <2>2 DEF RecoveryValue
  <2> HIDE DEF c, i, b, v
  <2>6. CASE c < 110
    <3>1. b = c
      BY <2>4, <2>6
    <3>2. i + b * 2 + 35 \in 0..255
      BY <2>3, <2>4, <2>6, <3>1
    <3>3. v = i + b * 2 + 35
      BY <2>5, <3>2
    <3> QED
      BY <2>2, <2>3, <2>4, <2>6, <3>1, <3>3 DEF c, i, b, v
  <2>7. CASE ~(c < 110)
    <3>1. v <= 255 /\ v \in Nat
      BY <2>3, <2>4, <2>5
    <3>2. v # i + 2 * c + 35
      BY <2>2, <2>3, <2>4, <2>7, <3>1
    <3> QED
      BY <2>7, <3>2 DEF c, i, b, v
  <2> QED
    BY <2>6, <2>7 DEF c, i, b, v
<1> QED
  BY <1>1, Invariant, PTL

\* SignContract reads past the end of an answer only when one it was not owed
\* could come.
THEOREM CrashCause == Spec => []CrashOnlyOverLate
<1>1. Inv => CrashOnlyOverLate
  BY DEF Inv
<1> QED
  BY <1>1, Invariant, PTL
=============================================================================
