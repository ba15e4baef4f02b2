------------------------------ MODULE SignETH ------------------------------
(***************************************************************************)
(* Signing an Ethereum transaction: ContextETH::SignTransaction and        *)
(* SignContract, and the APDUs they exchange with a device.                *)
(*                                                                         *)
(* SignTransaction sends the transaction in one APDU, and what the device  *)
(* answers is what the caller gets.  SignContract sends it in pieces, or   *)
(* only its hash when it creates a contract, reads the signature and then  *)
(* the public key, and looks for the recovery value with which the one     *)
(* gives the other.                                                        *)
(*                                                                         *)
(* As in SignTransaction, the transport is taken from Exchange, over one   *)
(* connection: an APDU may be answered with the answer to an earlier one   *)
(* that had timed out, which it may have as soon as that one was sent: it  *)
(* makes no difference to the call when the user confirmed.                *)
(* An answer is abstracted to its status and what its bytes are; bytes     *)
(* that are no signature verify nowhere, and bytes that are no public key  *)
(* are none.                                                               *)
(*                                                                         *)
(* The device is external.                                                 *)
(***************************************************************************)
EXTENDS Naturals, Sequences

CONSTANTS
    kSendOnceLen,
    Txs,            \* the transactions that may be signed
    InputLen,       \* the TLV length of each one's input, 0 if it has no
                    \* recipient: it creates a contract
    Paths,
    ChainID,        \* the chain ID of the context each transaction is signed with
    RecIDs,         \* the recovery IDs of the signatures, among 0 to 2
    MaxCalls,       \* bound: calls
    MaxCmds,        \* bound: APDUs sent
    MaxMisses,      \* bound: APDUs that do not reach the device or are refused
    NULL

ASSUME SignETHAssumption ==
    /\ kSendOnceLen \in Nat \ {0}
    /\ InputLen \in [Txs -> Nat]
    /\ ChainID \in [Txs -> Nat]
    /\ RecIDs \subseteq 0..2
    /\ MaxCalls \in Nat /\ MaxCmds \in Nat /\ MaxMisses \in Nat
    /\ NULL \notin Txs \cup Paths

VARIABLES
    \* the transport, see Exchange
    issued, pending, outcome,
    latest,         \* the APDU whose answer has come last, 0 before
    replies,        \* the device's answer to each APDU, while it may still come
    \* the device
    buf,            \* the pieces it has received
    \* the call
    calls,          \* number of the call, 0 before the first
    req,            \* what it was asked, or NULL
    pos,            \* number of its next APDU
    signatureRaw,   \* the bytes taken for the signature
    result,
    out,            \* the transaction returned: its signature and its v, or NULL
    \* history
    late,           \* answers that were outstanding when the call began
    misses

link == <<issued, pending, outcome, latest>>
vars == <<link, replies, buf, calls, req, pos, signatureRaw, result, out, late, misses>>

\* All APDUs go over one connection, as in SignTransaction.
Link == INSTANCE Exchange WITH
            MaxConns <- 1,
            answered <- [k \in 1..MaxCmds |-> IF k <= latest THEN 1 ELSE 0]

Byte == 0..255

-----------------------------------------------------------------------------
(* The APDUs of a call *)

\* How SignTransaction and SignContract sign: a single APDU whose answer is the
\* transaction; pieces, a request to sign and one for the key; or a hash and
\* the request for the key.
Request(plain, t, p) ==
    [kind |-> IF plain THEN "plain" ELSE IF InputLen[t] = 0 THEN "create" ELSE "contract",
     tx   |-> t,
     path |-> p]

Requests == {Request(plain, t, p) : plain \in BOOLEAN, t \in Txs, p \in Paths}

\* vChainID: a byte.
ChainByte(q) == ChainID[q.tx] % 256

\* The first pack and those of the input; none but for a contract call.
Packs(q) ==
    IF q.kind = "contract"
    THEN 1 + InputLen[q.tx] \div kSendOnceLen
           + (IF InputLen[q.tx] % kSendOnceLen = 0 THEN 0 ELSE 1)
    ELSE 0

\* The part of q that its APDU number i carries: the last is marked.
Piece(q, i) == [req |-> q, part |-> i, final |-> i = Packs(q)]

Uploading == pos <= Packs(req)
Signing == pos = Packs(req) + 1
AskingKey == pos = Packs(req) + 2

-----------------------------------------------------------------------------
(* The device *)

\* The bytes of an answer: none, a signature (the device's own byte for v is
\* overwritten), a public key, or a signed transaction.
NoData == [is |-> "none", tx |-> NULL, chain |-> 0, path |-> NULL, rec |-> 0]
Sig(is, q, i) ==
    [is |-> is, tx |-> q.tx, chain |-> ChainByte(q), path |-> q.path, rec |-> i]
Key(p) == [NoData EXCEPT !.is = "key", !.path = p]

Reply(sw, data) == [sw |-> sw, data |-> data]

\* What the device has is one transaction, whole.
IsWhole(b) ==
    /\ Len(b) = Packs(b[1].req)
    /\ \A i \in 1..Len(b) : b[i] = Piece(b[1].req, i)

\* It signs what it has got when the last piece is there: the transaction, or
\* whatever the pieces of several amount to.
SignsBuffer ==
    IF buf = <<>> \/ ~buf[Len(buf)].final THEN {}
    ELSE {Reply("9000", [Sig("sig", buf[1].req, i) EXCEPT
                            !.tx = IF IsWhole(buf) THEN @ ELSE NULL]) : i \in RecIDs}

\* What it may answer when it does not refuse.
DeviceAnswers ==
    CASE Uploading -> {Reply("9000", NoData)}
      [] Signing   ->
            {Reply("6f09", NoData)} \cup
            (CASE req.kind = "plain"    -> {Reply("9000", Sig("raw", req, i)) : i \in RecIDs}
               [] req.kind = "create"   -> {Reply("9000", Sig("sig", req, i)) : i \in RecIDs}
               [] req.kind = "contract" -> SignsBuffer)
      [] OTHER     -> {Reply("9000", Key(req.path))}

-----------------------------------------------------------------------------
(* The call *)

Sign(q) ==
    /\ result \notin {"none", "crash"} /\ calls < MaxCalls
    /\ calls' = calls + 1
    /\ req' = q
    /\ pos' = 1
    /\ signatureRaw' = NoData
    /\ result' = "none"
    /\ out' = NULL
    /\ late' = issued - latest
    /\ UNCHANGED <<link, replies, buf, misses>>

\* SignTransaction refuses an input that is no hexadecimal number; SignContract
\* takes it for none.
SignTransactionRefused ==
    /\ result \notin {"none", "crash"}
    /\ result' = "ARGUMENTS_BAD"
    /\ out' = NULL
    /\ UNCHANGED <<link, replies, buf, calls, req, pos, signatureRaw, late, misses>>

\* _SendApdu sends the APDU in line; the device takes it, and answers or not.
SendApdu ==
    /\ result = "none"
    /\ UNCHANGED latest
    /\ Link!Request
    /\ \E r \in DeviceAnswers : replies' = [replies EXCEPT ![issued'] = r]
    /\ buf' = IF ~Uploading THEN buf
              ELSE IF pos = 1 THEN <<Piece(req, 1)>>
              ELSE Append(buf, Piece(req, pos))
    /\ UNCHANGED <<calls, req, pos, signatureRaw, result, out, late, misses>>

\* The APDU does not reach the device, or the device refuses it.
SendApduInVain ==
    /\ result = "none"
    /\ UNCHANGED latest
    /\ Link!Request
    /\ misses < MaxMisses
    /\ misses' = misses + 1
    /\ \E r \in {NULL, Reply("6f00", NoData)} : replies' = [replies EXCEPT ![issued'] = r]
    /\ UNCHANGED <<buf, calls, req, pos, signatureRaw, result, out, late>>

\* The call returns, and with it its local variables go.
Return(r, o) ==
    /\ result' = r
    /\ out' = o
    /\ pos' = 1
    /\ signatureRaw' = NoData

Stop(r) == Return(r, NULL)

\* The transport has no connection, or the exchange ends with an error.
SendApduFails ==
    /\ result = "none"
    /\ UNCHANGED latest
    /\ Link!Refuse \/ Link!Fail
    /\ Stop("TRANSMIT_DEVICE_ERROR")
    /\ UNCHANGED <<replies, buf, calls, req, late, misses>>

\* A piece: only the status of the answer is looked at.
PieceAnswered(r) ==
    \/ r.sw = "9000" /\ pos' = pos + 1 /\ UNCHANGED <<signatureRaw, result, out>>
    \/ r.sw # "9000" /\ Stop("TRANSMIT_DEVICE_ERROR")

\* Mutant of SignAnswered: the status of a signature is not looked at.
SignAnsweredAnyhow(r) ==
    \/ /\ req.kind = "plain"
       /\ Return("OK", [sig |-> r.data, v |-> 0])
    \/ /\ req.kind # "plain"
       /\ pos' = pos + 1 /\ signatureRaw' = r.data
       /\ UNCHANGED <<result, out>>

\* The request to sign.  Only a contract call tells a cancellation from an error.
SignAnswered(r) ==
    \/ r.sw = "6f09" /\ req.kind = "contract" /\ Stop("USER_CANCEL")
    \/ /\ r.sw # "9000" /\ (r.sw = "6f09" => req.kind # "contract")
       /\ Stop("TRANSMIT_DEVICE_ERROR")
    \/ /\ r.sw = "9000" /\ req.kind = "plain"
       /\ Return("OK", [sig |-> r.data, v |-> 0])
    \/ /\ r.sw = "9000" /\ req.kind # "plain"
       /\ pos' = pos + 1 /\ signatureRaw' = r.data
       /\ UNCHANGED <<result, out>>

\* Mutant of Recovers: the key that is recovered is not compared.
RecoversAny(sig, key) == sig.is = "sig"

\* ecdsa_recover_pub_from_sig gives that key from the signature and the call's
\* own preimage.
Recovers(sig, key) ==
    /\ sig.is = "sig" /\ key.is = "key"
    /\ sig.tx = req.tx /\ sig.chain = ChainByte(req)
    /\ sig.path = key.path

\* Mutants of RecoveryValue: no byte, and the value before EIP-155.
RecoveryValueInt(i) == i + ChainByte(req) * 2 + 35
RecoveryValueOld(i) == i + 27

\* v, a uint8_t.
RecoveryValue(i) == (i + ChainByte(req) * 2 + 35) % 256

\* An answer without data leaves &vPubkey[1] at the end of the vector, and
\* signatureRaw is read for 64 bytes, of which a public key has 33.
ReadsPastEnd(key) ==
    \/ key.is = "none"
    \/ key.is = "key" /\ signatureRaw.is \in {"none", "key"}

\* The public key.  The value that says none was found, 0xFF, may be one.
KeyAnswered(r) ==
    \/ r.sw # "9000" /\ Stop("TRANSMIT_DEVICE_ERROR")
    \/ r.sw = "9000" /\ ReadsPastEnd(r.data) /\ Stop("crash")
    \/ /\ r.sw = "9000"
       /\ ~Recovers(signatureRaw, r.data) \/ RecoveryValue(signatureRaw.rec) = 255
       /\ Stop("ARGUMENTS_BAD")
    \/ /\ r.sw = "9000"
       /\ Recovers(signatureRaw, r.data) /\ RecoveryValue(signatureRaw.rec) # 255
       /\ Return("OK", [sig |-> signatureRaw, v |-> RecoveryValue(signatureRaw.rec)])

\* The exchange ends with the answer to this APDU or to an earlier one.
Receive(k) ==
    /\ latest' = k
    /\ Link!Answer(k, 1)
    /\ replies[k] # NULL
    /\ \/ Uploading /\ PieceAnswered(replies[k])
       \/ Signing /\ SignAnswered(replies[k])
       \/ AskingKey /\ KeyAnswered(replies[k])
    /\ replies' = [j \in 1..MaxCmds |-> IF j <= k THEN NULL ELSE replies[j]]
    /\ UNCHANGED <<buf, calls, req, late, misses>>

Init ==
    /\ latest = 0
    /\ Link!Init
    /\ replies = [k \in 1..MaxCmds |-> NULL]
    /\ buf = <<>>
    /\ calls = 0
    /\ req = NULL
    /\ pos = 1
    /\ signatureRaw = NoData
    /\ result = "idle"
    /\ out = NULL
    /\ late = 0
    /\ misses = 0

Next ==
    \/ \E q \in Requests : Sign(q)
    \/ SignTransactionRefused
    \/ SendApdu
    \/ SendApduInVain
    \/ SendApduFails
    \/ \E k \in 1..MaxCmds : Receive(k)

Spec == Init /\ [][Next]_vars

-----------------------------------------------------------------------------
(* Properties *)

Data == [is : {"none", "sig", "key", "raw"}, tx : Txs \cup {NULL}, chain : Byte,
         path : Paths \cup {NULL}, rec : 0..2]

\* The transport, the device and the call keep their types.
TypeOK ==
    /\ Link!TypeOK
    /\ latest \in 0..MaxCmds
    /\ replies \in [1..MaxCmds -> [sw : {"9000", "6f00", "6f09"}, data : Data] \cup {NULL}]
    /\ \A i \in 1..Len(buf) : buf[i].req \in Requests
    /\ calls \in 0..MaxCalls
    /\ req \in Requests \cup {NULL}
    /\ req # NULL => pos \in 1..(Packs(req) + 2)
    /\ signatureRaw \in Data
    /\ result \in {"idle", "none", "OK", "USER_CANCEL", "TRANSMIT_DEVICE_ERROR",
                   "ARGUMENTS_BAD", "crash"}
    /\ out \in [sig : Data, v : Byte] \cup {NULL}
    /\ out # NULL => result = "OK"
    /\ late \in 0..MaxCmds
    /\ misses \in 0..MaxMisses

\* What SignContract returns with JUBR_OK is a signature of the transaction the
\* call was asked to sign, for the (shortened) chain ID, whatever answers were
\* late and whatever pieces got lost; and by the key of the path it was asked
\* for, unless a whole call's answers were outstanding.  SignTransaction looks
\* at nothing, so it can say the same only when none was.
SignedIsRequested ==
    (result = "OK" /\ out # NULL) =>
        /\ req.kind # "plain" \/ late = 0 =>
            out.sig.tx = req.tx /\ out.sig.chain = ChainByte(req)
        /\ (IF req.kind = "plain" THEN late = 0 ELSE late < Packs(req) + 2) =>
            out.sig.path = req.path

\* The v that SignContract returns is the one EIP-155 asks for, of the chain of
\* the context, exactly when the chain ID is below 110: above, the byte wraps,
\* and from 256 on the signature is for another chain.
RecoveryIsEIP155 ==
    (result = "OK" /\ req.kind # "plain") =>
        LET c == ChainID[req.tx]
        IN  (out.v = out.sig.rec + 2 * c + 35 /\ out.sig.chain = c) <=> c < 110

\* SignContract reads past the end of an answer only when answers were
\* outstanding when it began.
CrashOnlyOverLate == result = "crash" => late > 0
=============================================================================
