--------------------------- MODULE SignTransaction ---------------------------
(***************************************************************************)
(* Signing a Bitcoin transaction: the chain of APDUs that                  *)
(* JubiterBLDImpl::SignTXBTC and SignTXMultisigBTC exchange with a device. *)
(*                                                                         *)
(* The transaction goes to the device in pieces of at most kSendOnceLen    *)
(* bytes, the first of which starts the device's buffer anew and the last  *)
(* of which is marked; then the user is asked to confirm; then the signed  *)
(* transaction is read back, kReadOnceLen bytes at a time.                 *)
(*                                                                         *)
(* Each APDU is one exchange of the transport, which the module takes from *)
(* Exchange, over one connection: it may end with an error, and it may end *)
(* with the answer to an earlier APDU that had timed out.  Nothing in an   *)
(* answer says which APDU it belongs to.  So a call made after a timeout   *)
(* may see every answer one exchange late, and the question is what it     *)
(* then returns.                                                           *)
(*                                                                         *)
(* The user takes his time: what the device shows him he may confirm when  *)
(* the call that asked has timed out, and while later calls are under way. *)
(*                                                                         *)
(* An answer is abstracted to its status, the number of its bytes, and     *)
(* what they are: a length, or a stretch of a signed transaction.          *)
(*                                                                         *)
(* The device is external.                                                 *)
(***************************************************************************)
EXTENDS Naturals, Sequences

CONSTANTS
    kSendOnceLen,
    kReadOnceLen,
    Uploads,        \* the TLV lengths of the transactions that may be signed
    SigLens,        \* the lengths a signed transaction may have
    MaxCalls,       \* bound: calls of SignTXBTC and SignTXMultisigBTC
    MaxCmds,        \* bound: APDUs sent
    MaxMisses,      \* bound: APDUs that do not reach the device or are refused
    NULL

\* TLV lengths.  Only SignTXMultisigBTC sends redeem scripts.
Upload == [amounts : Nat \ {0}, path : Nat \ {0}, tx : Nat \ {0},
           change : Nat \ {0}, redeem : Nat]

ASSUME SignAssumption ==
    /\ kSendOnceLen \in Nat \ {0}
    /\ kReadOnceLen \in Nat \ {0, 1}
    /\ Uploads \subseteq Upload
    /\ NULL \notin Upload
    /\ NULL \notin [request : Upload, len : Nat]
    /\ NULL \notin [call : Nat, upload : Upload]
    /\ SigLens \subseteq Nat \ {0}
    /\ MaxCalls \in Nat
    /\ MaxCmds \in Nat
    /\ MaxMisses \in Nat

VARIABLES
    \* the transport, see Exchange
    issued, pending, outcome,
    latest,         \* the APDU whose answer has come last, 0 before
    replies,        \* the device's answer to each APDU, while it may still come
    \* the device
    buf,            \* the pieces it has received
    signed,         \* the transaction it has signed last, or NULL
    asked,          \* the APDU that had it ask the user to confirm, 0 if it asks nothing
    \* the call
    calls,          \* number of the call, 0 before the first
    upload,         \* what it signs, or NULL
    pos,            \* number of its next APDU
    total,          \* totalReadLen
    ulRetLen,       \* the room left for the next answer
    raw,            \* the stretches copied to sigRawTx, and to where
    result,
    \* history
    late,           \* answers that were outstanding when the call began
    missed,         \* a piece of this call has not got into the device's buffer
    asker,          \* the call that had the device ask, if it is sure of the buffer
    misses

link == <<issued, pending, outcome, latest>>
device == <<buf, signed, asked, asker>>
call == <<calls, upload, late>>
progress == <<pos, total, ulRetLen, raw, result>>
vars == <<link, replies, device, call, progress, missed, misses>>

\* All APDUs go over one connection, so the answers come in their order, and
\* one that has been passed over does not come any more.
Link == INSTANCE Exchange WITH
            MaxConns <- 1,
            answered <- [k \in 1..MaxCmds |-> IF k <= latest THEN 1 ELSE 0]

-----------------------------------------------------------------------------
(* The APDUs of a call *)

Piece == [call : 1..MaxCalls, part : {"amounts", "path", "tx", "change", "redeem"},
          from : Nat, len : Nat, p1 : 1..3]

\* Mutant of TranPack: a last pack that is full is not split off.
TranPackUnsplit(c, part, n, final) ==
    LET nextTimes == n \div kSendOnceLen
        packs == IF n % kSendOnceLen = 0 THEN nextTimes ELSE nextTimes + 1
    IN  [i \in 1..packs |->
            [call |-> c,
             part |-> part,
             from |-> (i - 1) * kSendOnceLen,
             len  |-> IF i <= nextTimes THEN kSendOnceLen ELSE n % kSendOnceLen,
             p1   |-> IF final /\ i > nextTimes THEN 3 ELSE 2]]

\* _TranPack, for n > 0 bytes: full packs, and a last one with what is left.
TranPack(c, part, n, final) ==
    LET nextTimes == (n - 1) \div kSendOnceLen
    IN  [i \in 1..(nextTimes + 1) |->
            [call |-> c,
             part |-> part,
             from |-> (i - 1) * kSendOnceLen,
             len  |-> IF i <= nextTimes THEN kSendOnceLen ELSE n - nextTimes * kSendOnceLen,
             p1   |-> IF final /\ i > nextTimes THEN 3 ELSE 2]]

\* The first pack carries the input count and the amounts, whatever their
\* length, and then the other TLVs follow.
Pieces(c, u) ==
    <<[call |-> c, part |-> "amounts", from |-> 0, len |-> u.amounts, p1 |-> 1]>>
        \o TranPack(c, "path", u.path, FALSE)
        \o TranPack(c, "tx", u.tx, FALSE)
        \o TranPack(c, "change", u.change, u.redeem = 0)
        \o (IF u.redeem = 0 THEN <<>> ELSE TranPack(c, "redeem", u.redeem, TRUE))

Uploading == pos <= Len(Pieces(calls, upload))
Signing == pos = Len(Pieces(calls, upload)) + 1
Reading == pos > Len(Pieces(calls, upload)) + 1

\* The offset a read asks for, and the length: le is 0 in the APDUs that read
\* a full chunk, since SetApdu() resets it.
Offset == (pos - Len(Pieces(calls, upload)) - 2) * kReadOnceLen
IsRemainder == total - Offset < kReadOnceLen
Le == IF IsRemainder THEN total - Offset ELSE 0

\* Mutant of LastRead: a remainder of no bytes is read as well.
LastReadTooLate == total - Offset < kReadOnceLen

\* Whether the APDU is the last: nothing is left to read after it.
LastRead == total - Offset <= kReadOnceLen

-----------------------------------------------------------------------------
(* The device *)

NoSig == [pieces |-> <<>>, len |-> 0]

\* What an answer is: its status, its length without the status, the number
\* its bytes spell if they are two, and the stretch of a signed transaction
\* they are.
Reply(sw, len, value, sig, at) ==
    [sw |-> sw, len |-> len, value |-> value, sig |-> sig, at |-> at]

Status(sw) == Reply(sw, 0, 0, NoSig, 0)

\* A piece is added to the buffer, which the first piece starts anew.
TakesPiece(p) ==
    [buf |-> IF p.p1 = 1 THEN <<p>> ELSE Append(buf, p), reply |-> Status("9000")]

\* The buffer ends with a last piece: the device may ask the user to confirm.
Uploaded == buf # <<>> /\ buf[Len(buf)].p1 = 3

\* It returns what it has from an offset on, as much as was asked for; two
\* bytes of a transaction may spell any length.
Chunks(at, le) ==
    LET rest == signed.len - at
        max == IF le = 0 THEN kReadOnceLen ELSE le
        n == IF rest < max THEN rest ELSE max
    IN  {[buf |-> buf, reply |-> Reply("9000", n, v, signed, at)] :
            v \in IF n = 2 THEN SigLens \cup {0} ELSE {0}}

\* What it may do with the APDU in line, when it does not refuse it.  The answer
\* to a request to confirm is up to the user.
DeviceDoes ==
    CASE Uploading -> {TakesPiece(Pieces(calls, upload)[pos])}
      [] Signing   -> IF Uploaded THEN {[buf |-> buf, reply |-> NULL]} ELSE {}
      [] OTHER     -> IF signed # NULL /\ Offset < signed.len
                      THEN Chunks(Offset, Le)
                      ELSE {}

\* The user confirms what the device shows, and it signs what it has got.
UserConfirms ==
    /\ asked # 0
    /\ \E n \in SigLens :
          /\ signed' = [pieces |-> buf, len |-> n]
          /\ replies' = [replies EXCEPT ![asked] = Reply("9000", 2, n, NoSig, 0)]
    /\ asked' = 0
    /\ asker' = NULL
    /\ UNCHANGED <<link, buf, call, progress, missed, misses>>

\* The user cancels, or the device gives up asking.
UserCancels ==
    /\ asked # 0
    /\ replies' = [replies EXCEPT ![asked] = Status("6f09")]
    /\ asked' = 0
    /\ asker' = NULL
    /\ UNCHANGED <<link, buf, signed, call, progress, missed, misses>>

-----------------------------------------------------------------------------
(* The call *)

\* The call begins.  Answers that earlier calls did not wait for may still come.
SignTX(u) ==
    /\ result # "none"
    /\ calls < MaxCalls
    /\ calls' = calls + 1
    /\ upload' = u
    /\ pos' = 1
    /\ total' = 0
    /\ ulRetLen' = kReadOnceLen
    /\ raw' = <<>>
    /\ result' = "none"
    /\ late' = issued - latest
    /\ missed' = FALSE
    /\ UNCHANGED <<link, replies, device, misses>>

\* A script type the function does not know.
SignTXUnsupported ==
    /\ result # "none"
    /\ result' = "IMPL_NOT_SUPPORT"
    /\ UNCHANGED <<link, replies, device, call, pos, total, ulRetLen, raw, missed, misses>>

\* _SendApdu sends the APDU in line; the device takes it, and answers or not.
\* While it asks the user, it takes none.  (One that it keeps until the user has
\* decided is, for the call, one that is sent then.)
SendApdu ==
    /\ result = "none"
    /\ asked = 0
    /\ UNCHANGED latest
    /\ Link!Request
    /\ \E r \in DeviceDoes :
          /\ buf' = r.buf
          /\ replies' = [replies EXCEPT ![issued'] = r.reply]
    /\ IF Signing
       THEN /\ asked' = issued'
            /\ asker' = IF late = 0 \/ ~missed
                        THEN [call |-> calls, upload |-> upload] ELSE NULL
       ELSE UNCHANGED <<asked, asker>>
    /\ UNCHANGED <<signed, call, progress, missed, misses>>

\* The APDU does not reach the device, which may be asking the user, or the
\* device refuses it.
SendApduInVain ==
    /\ result = "none"
    /\ UNCHANGED latest
    /\ Link!Request
    /\ asked # 0 \/ misses < MaxMisses \/ (~Uploading /\ DeviceDoes = {})
    /\ misses' = IF asked = 0 /\ misses < MaxMisses THEN misses + 1 ELSE misses
    /\ missed' = (missed \/ Uploading)
    /\ \E r \in {NULL, Status("6f00")} :
          /\ asked # 0 => r = NULL
          /\ replies' = [replies EXCEPT ![issued'] = r]
    /\ UNCHANGED <<device, call, progress>>

\* The transport has no connection.
SendApduRefused ==
    /\ result = "none"
    /\ UNCHANGED latest
    /\ Link!Refuse
    /\ result' = "TRANSMIT_DEVICE_ERROR"
    /\ UNCHANGED <<replies, device, call, pos, total, ulRetLen, raw, missed, misses>>

\* Mutant of SendApduFails: a request to confirm that gets no answer is repeated.
SendApduFailsAndRetries ==
    /\ UNCHANGED latest
    /\ Link!Fail
    /\ result' = IF Signing THEN result ELSE "TRANSMIT_DEVICE_ERROR"
    /\ UNCHANGED <<replies, device, call, pos, total, ulRetLen, raw, missed, misses>>

\* The exchange ends with an error; the answer may come later.
SendApduFails ==
    /\ UNCHANGED latest
    /\ Link!Fail
    /\ result' = "TRANSMIT_DEVICE_ERROR"
    /\ UNCHANGED <<replies, device, call, pos, total, ulRetLen, raw, missed, misses>>

Stop(r) ==
    /\ result' = r
    /\ UNCHANGED <<pos, total, ulRetLen, raw>>

GoOn == pos' = pos + 1

\* Mutant of PieceAnswered: the status is not looked at.
PieceAnsweredAnyhow(r) == GoOn /\ UNCHANGED <<total, ulRetLen, raw, result>>

\* A piece: only the status of the answer is looked at.
PieceAnswered(r) ==
    \/ r.sw = "9000" /\ GoOn /\ UNCHANGED <<total, ulRetLen, raw, result>>
    \/ r.sw # "9000" /\ Stop("TRANSMIT_DEVICE_ERROR")

\* Mutant of IsTotalLength: any answer with a good status will do.
FitsTotalLength(r) == r.len <= 2

\* Whether an answer can be the length of what is to be read.
IsTotalLength(r) == r.len = 2

\* The request to confirm.  (An answer without data leaves totalReadLen 0, and
\* of nothing there is nothing to read.)
SignAnswered(r) ==
    \/ r.len > 2 /\ Stop("BUFFER_TOO_SMALL")
    \/ r.len <= 2 /\ r.sw = "6f09" /\ Stop("USER_CANCEL")
    \/ r.len <= 2 /\ r.sw \notin {"9000", "6f09"} /\ Stop("TRANSMIT_DEVICE_ERROR")
    \/ /\ r.len <= 2 /\ r.sw = "9000" /\ ~IsTotalLength(r)
       /\ Stop("TRANSMIT_DEVICE_ERROR")
    \/ /\ r.len <= 2 /\ r.sw = "9000" /\ IsTotalLength(r)
       /\ total' = r.value
       /\ IF r.value = 0
          THEN result' = "OK" /\ UNCHANGED pos
          ELSE GoOn /\ UNCHANGED result
       /\ UNCHANGED <<ulRetLen, raw>>

\* A read: the answer is copied to where it belongs if there is room.  The
\* room for a full chunk is what the answer before it took.
ReadAnswered(r) ==
    LET room == IF IsRemainder THEN total - Offset ELSE ulRetLen
    IN  \/ r.len > room /\ Stop("BUFFER_TOO_SMALL")
        \/ r.len <= room /\ r.sw # "9000" /\ Stop("TRANSMIT_DEVICE_ERROR")
        \/ /\ r.len <= room /\ r.sw = "9000"
           /\ ulRetLen' = r.len
           /\ raw' = Append(raw, [sig |-> r.sig, at |-> r.at, len |-> r.len, to |-> Offset])
           /\ IF LastRead
              THEN result' = "OK" /\ UNCHANGED pos
              ELSE GoOn /\ UNCHANGED result
           /\ UNCHANGED total

\* The exchange ends with the answer to this APDU or to an earlier one.
Receive(k) ==
    /\ latest' = k
    /\ Link!Answer(k, 1)
    /\ replies[k] # NULL
    /\ \/ Uploading /\ PieceAnswered(replies[k])
       \/ Signing /\ SignAnswered(replies[k])
       \/ Reading /\ ReadAnswered(replies[k])
    /\ replies' = [j \in 1..MaxCmds |-> IF j <= k THEN NULL ELSE replies[j]]
    /\ UNCHANGED <<device, call, missed, misses>>

Init ==
    /\ latest = 0
    /\ Link!Init
    /\ replies = [k \in 1..MaxCmds |-> NULL]
    /\ buf = <<>>
    /\ signed = NULL
    /\ asked = 0
    /\ asker = NULL
    /\ calls = 0
    /\ upload = NULL
    /\ pos = 1
    /\ total = 0
    /\ ulRetLen = 0
    /\ raw = <<>>
    /\ result = "idle"
    /\ late = 0
    /\ missed = FALSE
    /\ misses = 0

Next ==
    \/ \E u \in Uploads : SignTX(u)
    \/ SignTXUnsupported
    \/ SendApdu
    \/ SendApduInVain
    \/ UserConfirms
    \/ UserCancels
    \/ SendApduRefused
    \/ SendApduFails
    \/ \E k \in 1..MaxCmds : Receive(k)

Spec == Init /\ [][Next]_vars

-----------------------------------------------------------------------------
(* Properties *)

Results == {"idle", "none", "OK", "USER_CANCEL", "TRANSMIT_DEVICE_ERROR",
            "BUFFER_TOO_SMALL", "IMPL_NOT_SUPPORT"}

Signature == [pieces : Seq(Piece), len : Nat]

Replies == [sw : {"9000", "6f00", "6f09"}, len : Nat, value : Nat,
            sig : Signature, at : Nat]

Stretch == [sig : Signature, at : Nat, len : Nat, to : Nat]

\* The types of the device's and the call's variables.  A call that is under
\* way has an APDU in line, and a read asks for something that is there.
TypeOK ==
    /\ Link!TypeOK
    /\ latest \in 0..MaxCmds
    /\ replies \in [1..MaxCmds -> Replies \cup {NULL}]
    /\ buf \in Seq(Piece)
    /\ signed \in Signature \cup {NULL}
    /\ asked \in 0..MaxCmds
    /\ asker \in [call : 1..MaxCalls, upload : Uploads] \cup {NULL}
    /\ calls \in 0..MaxCalls
    /\ upload \in Uploads \cup {NULL}
    /\ pos \in Nat \ {0}
    /\ total \in Nat
    /\ ulRetLen \in 0..kReadOnceLen
    /\ raw \in Seq(Stretch)
    /\ result \in Results
    /\ late \in 0..MaxCmds
    /\ missed \in BOOLEAN
    /\ misses \in 0..MaxMisses
    /\ pending => result = "none"
    /\ result = "none" => /\ calls > 0
                          /\ upload # NULL
                          /\ Reading => Offset < total

\* What the call can answer for.  Either it began with no answer outstanding;
\* or the device took every piece of it, and the answers outstanding were not
\* so many that an earlier call's answers last beyond the pieces.
Accountable ==
    \/ late = 0
    \/ ~missed /\ late <= Len(Pieces(calls, upload))

\* The TLV that follows another one.
NextPart(part) == CASE part = "amounts" -> "path"
                    [] part = "path"    -> "tx"
                    [] part = "tx"      -> "change"
                    [] part = "change"  -> "redeem"

\* Piece q goes on where p ended, or starts the next TLV when p's is complete.
Follows(q, p, u) ==
    IF p.from + p.len = u[p.part]
    THEN q.part = NextPart(p.part) /\ q.from = 0
    ELSE q.part = p.part /\ q.from = p.from + p.len

\* ps is upload u of call c: it starts with the first pack, each piece follows
\* the one before it, none is empty or, the first apart, too long, and only the
\* last is marked as the last.
IsUpload(ps, c, u) ==
    LET n == Len(ps)
    IN  /\ n > 1
        /\ ps[1].part = "amounts" /\ ps[1].from = 0 /\ ps[1].len = u.amounts
        /\ \A i \in 1..n : ps[i].call = c
        /\ \A i \in 2..n : Follows(ps[i], ps[i - 1], u)
        /\ \A i \in 2..n : ps[i].len \in 1..kSendOnceLen
        /\ \A i \in 1..n : ps[i].p1 = (CASE i = 1 -> 1 [] i = n -> 3 [] OTHER -> 2)
        /\ ps[n].part = (IF u.redeem = 0 THEN "change" ELSE "redeem")
        /\ ps[n].from + ps[n].len = u[ps[n].part]

\* The stretches are all of signature s, from its first byte to its last.
IsWhole(stretches, s) ==
    /\ \A i \in 1..Len(stretches) :
          /\ stretches[i].sig = s
          /\ stretches[i].at = stretches[i].to
    /\ \A b \in 0..(s.len - 1) :
          \E i \in 1..Len(stretches) :
              b \in stretches[i].to..(stretches[i].to + stretches[i].len - 1)

\* Whatever the lengths of the TLVs, the packs of a call are its upload, and the
\* last of them, full or not, carries the mark the device waits for.
PacksAreUpload == upload # NULL => IsUpload(Pieces(calls, upload), calls, upload)

\* A call that returns JUBR_OK returns a whole signed transaction, no byte more
\* and none missing, and what the device has signed is the upload of this very
\* call, piece by piece.  Late answers cannot pass off the signature of an
\* earlier call for it, because the answer to a piece is not two bytes long.
SignedIsRequested ==
    (result = "OK" /\ Accountable) =>
        /\ signed # NULL
        /\ IsUpload(signed.pieces, calls, upload)
        /\ total = signed.len
        /\ IsWhole(raw, signed)

\* What the user is asked to confirm, and what the device then signs, is the
\* whole upload of the call that asked, however late he confirms: when that call
\* has timed out, when a later one is under way and has sent pieces of its own.
\* It may be something else only when the call that asked had met answers of
\* earlier calls and had a piece of its own lost or refused.
ConfirmsRequested ==
    [][signed' # signed /\ asker # NULL =>
          IsUpload(signed'.pieces, asker.call, asker.upload)]_vars

\* A signature as SigningCall sees it: s, if it is one of what the call under way
\* has uploaded.
SignatureOf(s) ==
    IF s # NULL /\ IsUpload(s.pieces, calls, upload)
    THEN [request |-> upload, len |-> s.len]
    ELSE NULL

CallSigned == SignatureOf(signed)

CallOutcome ==
    CASE result \in {"OK", "USER_CANCEL"} /\ ~Accountable -> "unknown"
      [] result = "OK" /\ Accountable                     -> "signature"
      [] result = "USER_CANCEL" /\ Accountable            -> "cancelled"
      [] result \in {"idle", "none"}                      -> result
      [] OTHER                                            -> "error"

\* What the stretches put together for the caller are, if one whole signature.
CallReturned ==
    IF /\ CallOutcome = "signature"
       /\ raw # <<>> /\ IsWhole(raw, raw[1].sig) /\ total = raw[1].sig.len
    THEN SignatureOf(raw[1].sig)
    ELSE NULL

\* The call as its caller sees it.  The device signs at most one transaction of
\* a call, the one asked for, and maybe only when the call has failed; JUBR_OK
\* returns it, JUBR_USER_CANCEL means there is none and will be none, and a call
\* that is not Accountable promises nothing.
Abstract == INSTANCE SigningCall WITH
                Requests <- Uploads,
                Lengths  <- SigLens,
                call     <- calls,
                request  <- upload,
                signed   <- CallSigned,
                returned <- CallReturned,
                outcome  <- CallOutcome
ImplementsSigningCall == Abstract!Spec
=============================================================================
