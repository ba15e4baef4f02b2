---------------------------- MODULE BLETransport ----------------------------
(***************************************************************************)
(* The Bluetooth transport of HardWalletSDK: JubiterBLEDevice::SendData    *)
(* and the Fido singleton it shares with the callbacks of the BLE library. *)
(*                                                                         *)
(* Two threads touch the shared state.  The SDK thread runs SendData: it   *)
(* clears the receive buffer, wraps the APDU, hands it to the library,     *)
(* waits on a condition variable, and then looks at the buffer.  The BLE   *)
(* thread runs RecvCallBack once per packet and BLE_DiscCallBack when the  *)
(* link drops.  The mutex `dog` guards the wait only, none of the state,   *)
(* and the wait has no predicate; so every interleaving of the steps below *)
(* is possible.  RecvCallBack is cut in two: what it decides from a packet *)
(* on entry, and what it then does to the buffer.                          *)
(*                                                                         *)
(* A packet is abstracted to its first byte, its length, the length the    *)
(* message header announces, and the command it answers.  The last of      *)
(* these is not on the wire: no action of the code reads it.               *)
(*                                                                         *)
(* Nothing in the code keeps a second connection from being made while one *)
(* is up: the device object remembers the newest only, and the callbacks   *)
(* do not look at the connection they are called for.  Packets keep their  *)
(* order on one connection, and have none between two.                     *)
(*                                                                         *)
(* The devices, the links and the FT_BLE library are external.             *)
(***************************************************************************)
EXTENDS Naturals, Sequences

CONSTANTS
    MaxCmds,        \* bound: commands issued
    MaxLoss,        \* bound: packets the link loses
    MaxDup,         \* bound: packets the link delivers twice
    MaxConns,       \* bound: connections made
    MaxSpurious,    \* bound: spurious wake-ups of the condition variable
    RespLens,       \* lengths, in bytes, of the answers the device may give
    TempSize        \* the size of parseFidoApdu's tempMsg: 512

ASSUME TransportAssumption ==
    /\ MaxCmds \in Nat
    /\ MaxLoss \in Nat
    /\ MaxDup \in Nat
    /\ MaxConns \in Nat
    /\ MaxSpurious \in Nat
    /\ RespLens \subseteq Nat \ {0}
    /\ \A n \in RespLens : n <= 2449     \* 17 + 19 * 128: packets 0 to 0x7F
    /\ TempSize \in Nat

CMD_KEEP_ALIVE == 130       \* 0x82
CMD_MSG == 131              \* 0x83
CMD_ERROR == 191            \* 0xBF
FIDO_HEADER_LEN == 3
FIDO_BLOCK_SIZE == 20
FIDO_DATA_BLOCK_SIZE == 19

Byte == {b \in Nat : b <= 255}
Packet == [byte0 : Byte, len : Nat, total : Nat, cmd : 0..MaxCmds]
NoPacket == [byte0 |-> 0, len |-> 0, total |-> 0, cmd |-> 0]

Results == {"none", "OK", "NOT_CONNECT_DEVICE", "TRANSACT_TIMEOUT",
            "TRANSMIT_DEVICE_ERROR"}

VARIABLES
    \* members of the Fido singleton
    mRecvMsg,       \* the packets received, and their size in bytes
    cmdHeader,
    pkgSeq,
    hasError,
    \* members of the JubiterBLEDevice singleton
    handle,         \* _handle: 0, or the number of a connection
    bConnected,     \* _bConnected
    \* the SDK thread
    pc,             \* where it stands in SendData
    woken,          \* its wait has been notified
    result,         \* what the last SendData returned
    answer,         \* the packets that SendData handed to its caller
    \* the BLE thread
    cb,             \* the packet RecvCallBack has let through, or NoPacket
    discPending,    \* connections the library is about to call BLE_DiscCallBack for
    \* the links and the devices
    up,             \* the connections that are up
    link,           \* the packets on their way over each of them, oldest first
    conns,          \* connections made so far
    \* history
    cmd,            \* commands issued so far
    via,            \* the connection each command went out over, or 0
    answered,       \* the commands whose answers were handed out
    early,          \* this exchange was notified while it was not waiting
    quiet,          \* this exchange began with no packet outstanding
    disturbed,      \* a fault, a spurious wake-up, a link lost or made befell it
    mixed,          \* packets have been on their way over two connections at once
    faults          \* packets lost, delivered twice, and spurious wake-ups

fido == <<mRecvMsg, cmdHeader, pkgSeq, hasError>>
device == <<handle, bConnected>>
caller == <<pc, result, answer, cmd, answered>>
wire == <<up, link, conns, discPending, via, mixed>>
vars == <<fido, device, caller, woken, cb, wire, early, quiet, disturbed, faults>>

Conns == 1..MaxConns

-----------------------------------------------------------------------------
(* Framing *)

\* How many packets follow the first one of a message of n bytes.
Continuations(n) ==
    IF n <= FIDO_BLOCK_SIZE - FIDO_HEADER_LEN
    THEN 0
    ELSE (n - (FIDO_BLOCK_SIZE - FIDO_HEADER_LEN) + FIDO_DATA_BLOCK_SIZE - 1)
            \div FIDO_DATA_BLOCK_SIZE

\* What the bytes of packet 0 happen to say where a header has the length:
\* they are payload, so anything; the two extremes are enough.
Payloads == {0, 65535}

\* The packets of an answer of n bytes to command k: full packets, and a
\* last one with what is left.
Response(k, n, payload) ==
    LET last == Continuations(n) + 1
        size == n + FIDO_HEADER_LEN + Continuations(n)
    IN  [i \in 1..last |->
            [byte0 |-> IF i = 1 THEN CMD_MSG ELSE i - 2,
             len   |-> IF i = last THEN size - FIDO_BLOCK_SIZE * (last - 1)
                                   ELSE FIDO_BLOCK_SIZE,
             total |-> IF i = 1 THEN n ELSE IF i = 2 THEN payload ELSE 0,
             cmd   |-> k]]

Responses(k) == {Response(k, n, p) : n \in RespLens, p \in Payloads}

KeepAlive(k) == [byte0 |-> CMD_KEEP_ALIVE, len |-> 4, total |-> 0, cmd |-> k]
ErrorPacket(k) == [byte0 |-> CMD_ERROR, len |-> 4, total |-> 0, cmd |-> k]

EmptyMsg == [chunks |-> <<>>, size |-> 0]

\* Fido::checkResponse: what the buffer m amounts to.
ResponseStatus(m) ==
    IF m.chunks = <<>> THEN "empty"
    ELSE IF m.size <= FIDO_HEADER_LEN THEN "invalid"
    ELSE IF Head(m.chunks).byte0 # cmdHeader THEN "badHeader"
    ELSE LET n == Head(m.chunks).total
         IN  IF n + FIDO_HEADER_LEN + Continuations(n) <= m.size
             THEN "done"
             ELSE "receiving"

\* Mutant of SeqOK: the packet's number need only not go back.
SeqAscending(x, seq) == x >= seq

\* CHECK_SEQ: may a packet that starts with x follow one numbered seq?
SeqOK(x, seq) ==
    \/ x = 0 /\ x = seq
    \/ x = seq + 1 /\ x <= 127

\* removePkgIndex: the message left when the packet numbers are taken out of
\* m has the announced length, or fits in one packet.
ParsesOK(m) ==
    LET n == Head(m.chunks).total + FIDO_HEADER_LEN
        numbers == (m.size - FIDO_BLOCK_SIZE + FIDO_BLOCK_SIZE - 1) \div FIDO_BLOCK_SIZE
    IN  n <= FIDO_BLOCK_SIZE \/ n = m.size - numbers

\* Mutant of Unpacked: the packet numbers are copied as well.
UnpackedNumbered(m) == m.size

\* How many bytes it then copies to tempMsg: a message that fits in one packet
\* with whatever follows it, another one without the packet numbers.
Unpacked(m) ==
    LET n == Head(m.chunks).total + FIDO_HEADER_LEN
    IN  IF n <= FIDO_BLOCK_SIZE THEN m.size ELSE n

-----------------------------------------------------------------------------
(* Fido::stopReceiving: notify_one, without the mutex and without leaving  *)
(* a trace for a thread that is not waiting yet.                           *)

StopReceiving ==
    /\ woken' = (woken \/ pc = "wait")
    /\ early' = (early \/ pc # "wait")

-----------------------------------------------------------------------------
(* The SDK thread: JubiterBLEDevice::SendData *)

Return(r) ==
    /\ pc' = "idle"
    /\ result' = r

\* Nothing of an earlier exchange can still reach the buffer.
Quiet == (\A c \in Conns : link[c] = <<>>) /\ cb = NoPacket

\* FT_BLE_IsConn
IsConn(h) == h \in up

\* Without a live connection the call ends at once.
SendNotConnected ==
    /\ pc = "idle"
    /\ handle = 0 \/ ~IsConn(handle)
    /\ Return("NOT_CONNECT_DEVICE")
    /\ answer' = <<>>
    /\ UNCHANGED <<fido, device, cmd, answered, woken, cb, wire, early, quiet, disturbed, faults>>

\* Mutant of SendClear: clear() resets the flags and forgets the buffer.
SendClearKeepsBuffer ==
    /\ pc = "idle"
    /\ handle # 0 /\ IsConn(handle)
    /\ cmd < MaxCmds
    /\ cmdHeader' = 0
    /\ pkgSeq' = 0
    /\ hasError' = FALSE
    /\ pc' = "wrap"
    /\ cmd' = cmd + 1
    /\ answer' = <<>>
    /\ result' = "none"
    /\ woken' = FALSE
    /\ early' = FALSE
    /\ quiet' = Quiet
    /\ disturbed' = FALSE
    /\ UNCHANGED <<mRecvMsg, device, answered, cb, wire, faults>>

\* Otherwise Fido::clear forgets the previous exchange.
SendClear ==
    /\ pc = "idle"
    /\ handle # 0 /\ IsConn(handle)
    /\ cmd < MaxCmds
    /\ mRecvMsg' = EmptyMsg
    /\ cmdHeader' = 0
    /\ pkgSeq' = 0
    /\ hasError' = FALSE
    /\ pc' = "wrap"
    /\ cmd' = cmd + 1
    /\ answer' = <<>>
    /\ result' = "none"
    /\ woken' = FALSE
    /\ early' = FALSE
    /\ quiet' = Quiet
    /\ disturbed' = FALSE
    /\ UNCHANGED <<device, answered, cb, wire, faults>>

\* Mutant of SendWrap: the header remembered is that of an error.
SendWrapExpectsError ==
    /\ pc = "wrap"
    /\ cmdHeader' = CMD_ERROR
    /\ pc' = "send"
    /\ UNCHANGED <<mRecvMsg, pkgSeq, hasError, device, result, answer, cmd,
                   answered, woken, cb, wire, early, quiet, disturbed, faults>>

\* wrapFidoApdu remembers the header the answer must carry.
SendWrap ==
    /\ pc = "wrap"
    /\ cmdHeader' = CMD_MSG
    /\ pc' = "send"
    /\ UNCHANGED <<mRecvMsg, pkgSeq, hasError, device, result, answer, cmd,
                   answered, woken, cb, wire, early, quiet, disturbed, faults>>

\* What the device puts on the link for command k: an answer, perhaps after
\* a keep-alive, or an error packet, or nothing at all.
DeviceReplies(k) ==
    {<<>>, <<ErrorPacket(k)>>}
        \cup Responses(k)
        \cup {<<KeepAlive(k)>> \o r : r \in Responses(k)}

\* The command reaches the device at the other end of the connection.
Transmit ==
    /\ IsConn(handle)
    /\ \E r \in DeviceReplies(cmd) : link' = [link EXCEPT ![handle] = @ \o r]
    /\ via' = [via EXCEPT ![cmd] = handle]
    /\ mixed' = (mixed \/ \E c, d \in Conns : c # d /\ <<>> \notin {link'[c], link'[d]})
    /\ UNCHANGED <<up, conns, discPending>>

\* FT_BLE_SendAPDU reports success.
SendApdu ==
    /\ pc = "send"
    /\ Transmit
    /\ pc' = "sent"
    /\ UNCHANGED <<fido, device, result, answer, cmd, answered, woken, cb,
                   early, quiet, disturbed, faults>>

\* FT_BLE_SendAPDU reports an error; the command may have got through.
SendApduFails ==
    /\ pc = "send"
    /\ UNCHANGED wire \/ Transmit
    /\ Return("TRANSMIT_DEVICE_ERROR")
    /\ UNCHANGED <<fido, device, answer, cmd, answered, woken, cb,
                   early, quiet, disturbed, faults>>

\* waitForReceive takes the mutex and starts to wait.
WaitForReceive ==
    /\ pc = "sent"
    /\ pc' = "wait"
    /\ UNCHANGED <<fido, device, result, answer, cmd, answered, woken, cb,
                   wire, early, quiet, disturbed, faults>>

\* The wait is over with cv_status::no_timeout.
AfterWait ==
    /\ woken' = FALSE
    /\ IF bConnected
       THEN pc' = "check" /\ UNCHANGED result
       ELSE Return("NOT_CONNECT_DEVICE")
    /\ UNCHANGED <<fido, device, answer, cmd, answered, cb, wire, early>>

Notified ==
    /\ pc = "wait"
    /\ woken
    /\ AfterWait
    /\ UNCHANGED <<quiet, disturbed, faults>>

SpuriousWakeup ==
    /\ pc = "wait"
    /\ ~woken
    /\ faults.spurious < MaxSpurious
    /\ AfterWait
    /\ disturbed' = TRUE
    /\ UNCHANGED quiet
    /\ faults' = [faults EXCEPT !.spurious = @ + 1]

\* Mutant of Timeout: SendData waits again.
TimeoutWaitsAgain == pc = "wait" /\ ~woken /\ UNCHANGED vars

\* The wait is over with cv_status::timeout.
Timeout ==
    /\ pc = "wait"
    /\ ~woken
    /\ Return(IF bConnected THEN "TRANSACT_TIMEOUT" ELSE "NOT_CONNECT_DEVICE")
    /\ UNCHANGED <<fido, device, answer, cmd, answered, woken, cb, wire,
                   early, quiet, disturbed, faults>>

\* SendData looks at the buffer itself; checkResponse may set hasError.
CheckResponse ==
    /\ pc = "check"
    /\ LET s == ResponseStatus(mRecvMsg)
       IN  /\ hasError' = (hasError \/ s = "badHeader")
           /\ \/ s = "done" /\ pc' = "copy" /\ UNCHANGED result
              \/ s = "receiving" /\ Return("TRANSACT_TIMEOUT")
              \/ s \in {"empty", "invalid", "badHeader"} /\ Return("TRANSMIT_DEVICE_ERROR")
    /\ UNCHANGED <<mRecvMsg, cmdHeader, pkgSeq, device, answer, cmd, answered,
                   woken, cb, wire, early, quiet, disturbed, faults>>

\* response() copies the buffer and parseFidoApdu unpacks the copy.  Nothing is
\* known of a thread that has overrun its stack: it may go on as if it had not,
\* or never come back.
CopyResponse ==
    /\ pc = "copy"
    /\ \/ /\ ParsesOK(mRecvMsg)
          /\ Return("OK")
          /\ answer' = mRecvMsg.chunks
          /\ answered' = answered \cup {Head(mRecvMsg.chunks).cmd}
       \/ /\ ~ParsesOK(mRecvMsg)
          /\ Return("TRANSMIT_DEVICE_ERROR")
          /\ UNCHANGED <<answer, answered>>
       \/ /\ ParsesOK(mRecvMsg) /\ Unpacked(mRecvMsg) > TempSize
          /\ pc' = "overrun"
          /\ UNCHANGED <<result, answer, answered>>
    /\ UNCHANGED <<fido, device, cmd, woken, cb, wire, early, quiet, disturbed, faults>>

-----------------------------------------------------------------------------
(* The BLE thread *)

\* RecvCallBack up to the sequence check, for packet p.
Receive(p) ==
    \/ /\ hasError \/ p.byte0 = CMD_KEEP_ALIVE
       /\ UNCHANGED <<fido, woken, early, cb>>
    \/ /\ ~hasError /\ p.byte0 = CMD_ERROR
       /\ StopReceiving
       /\ UNCHANGED <<fido, cb>>
    \/ /\ ~hasError /\ p.byte0 \notin {CMD_KEEP_ALIVE, CMD_ERROR}
       /\ mRecvMsg.size > 0 /\ ~SeqOK(p.byte0, pkgSeq)
       /\ hasError' = TRUE
       /\ StopReceiving
       /\ UNCHANGED <<mRecvMsg, cmdHeader, pkgSeq, cb>>
    \/ /\ ~hasError /\ p.byte0 \notin {CMD_KEEP_ALIVE, CMD_ERROR}
       /\ mRecvMsg.size > 0 => SeqOK(p.byte0, pkgSeq)
       /\ pkgSeq' = IF mRecvMsg.size > 0 THEN p.byte0 ELSE pkgSeq
       /\ cb' = p
       /\ UNCHANGED <<mRecvMsg, cmdHeader, hasError, woken, early>>

\* It does not look at the connection, and takes whatever packet comes next.
RecvCallBack ==
    /\ cb = NoPacket
    /\ \E c \in Conns :
        /\ link[c] # <<>>
        /\ Receive(Head(link[c]))
        /\ link' = [link EXCEPT ![c] = Tail(@)]
    /\ UNCHANGED <<device, caller, up, conns, discPending, via, mixed, quiet, disturbed,
                   faults>>

\* A link delivers the packet and will deliver it again.
DuplicatePacket ==
    /\ cb = NoPacket
    /\ faults.dup < MaxDup
    /\ \E c \in Conns :
        /\ link[c] # <<>>
        /\ Receive(Head(link[c]))
        /\ faults' = [faults EXCEPT !.dup = @ + 1,
                                    !.dupOfZero = @ \/ Head(link[c]).byte0 = 0]
    /\ disturbed' = TRUE
    /\ UNCHANGED <<device, caller, wire, quiet>>

LosePacket ==
    /\ faults.loss < MaxLoss
    /\ \E c \in Conns : link[c] # <<>> /\ link' = [link EXCEPT ![c] = Tail(@)]
    /\ disturbed' = TRUE
    /\ faults' = [faults EXCEPT !.loss = @ + 1]
    /\ UNCHANGED <<fido, device, caller, woken, cb, up, conns, discPending, via, mixed, early,
                   quiet>>

\* RecvCallBack merges the packet and, for some outcomes, notifies.
MergeAndNotify(notified) ==
    /\ cb # NoPacket
    /\ LET m == [chunks |-> Append(mRecvMsg.chunks, cb), size |-> mRecvMsg.size + cb.len]
           s == ResponseStatus(m)
       IN  /\ mRecvMsg' = m
           /\ hasError' = (hasError \/ s = "badHeader")
           /\ IF s \in notified THEN StopReceiving ELSE UNCHANGED <<woken, early>>
    /\ cb' = NoPacket
    /\ UNCHANGED <<cmdHeader, pkgSeq, device, caller, wire, quiet, disturbed, faults>>

\* Mutants of MergePackage: a notification for every packet, and none for an
\* answer checkResponse calls invalid.
MergeNotifiesAlways ==
    MergeAndNotify({"done", "invalid", "badHeader", "receiving"})
MergeIgnoresInvalid == MergeAndNotify({"done", "badHeader"})

\* It notifies unless more packets must come.
MergePackage == MergeAndNotify({"done", "invalid", "badHeader"})

\* BLE_DiscCallBack.  It does not look at which connection was lost.
DiscCallBack ==
    /\ cb = NoPacket
    /\ \E c \in discPending : discPending' = discPending \ {c}
    /\ handle' = 0
    /\ bConnected' = FALSE
    /\ StopReceiving
    /\ UNCHANGED <<fido, caller, cb, up, link, conns, via, mixed, quiet, disturbed, faults>>

-----------------------------------------------------------------------------
(* Connections: the calls an application thread may make at any time *)

\* What was on its way over c is gone.
Close(c) ==
    /\ c \in up
    /\ up' = up \ {c}
    /\ link' = [link EXCEPT ![c] = <<>>]
    /\ disturbed' = TRUE
    /\ UNCHANGED <<conns, via, mixed>>

\* A link drops.
LinkDown ==
    /\ \E c \in up : Close(c) /\ discPending' = discPending \cup {c}
    /\ UNCHANGED <<fido, device, caller, woken, cb, early, quiet, faults>>

\* Connect(uuid, ...) when FT_BLE_ConnDev succeeds (it changes nothing otherwise),
\* whether or not an earlier connection is still up.
Connect ==
    /\ conns < MaxConns
    /\ up' = up \cup {conns + 1}
    /\ conns' = conns + 1
    /\ handle' = conns + 1
    /\ bConnected' = TRUE
    /\ disturbed' = TRUE
    /\ UNCHANGED <<fido, caller, woken, cb, link, discPending, via, mixed, early, quiet, faults>>

\* The device object lets go of its handle, whichever connection c the call is
\* about, and the library closes the link or not.
Forget(c) ==
    /\ handle' = 0
    /\ bConnected' = FALSE
    /\ \/ UNCHANGED <<wire, disturbed>>
       \/ Close(c) /\ discPending' \in {discPending, discPending \cup {c}}
    /\ UNCHANGED <<fido, caller, woken, cb, early, quiet, faults>>

\* Disconnect(handle) when FT_BLE_DisConn succeeds, for the handle of this
\* connection or of an earlier one, and CancelConnect in any case.
Disconnect == \E c \in 1..conns : Forget(c)

Init ==
    /\ mRecvMsg = EmptyMsg
    /\ cmdHeader = 0
    /\ pkgSeq = 0
    /\ hasError = FALSE
    /\ handle = 0
    /\ bConnected = FALSE
    /\ pc = "idle"
    /\ woken = FALSE
    /\ result = "none"
    /\ answer = <<>>
    /\ cb = NoPacket
    /\ discPending = {}
    /\ up = {}
    /\ link = [c \in Conns |-> <<>>]
    /\ conns = 0
    /\ cmd = 0
    /\ via = [k \in 1..MaxCmds |-> 0]
    /\ answered = {}
    /\ early = FALSE
    /\ quiet = TRUE
    /\ disturbed = FALSE
    /\ mixed = FALSE
    /\ faults = [loss |-> 0, dup |-> 0, dupOfZero |-> FALSE, spurious |-> 0]

SendData ==
    \/ SendNotConnected \/ SendClear \/ SendWrap \/ SendApdu \/ SendApduFails
    \/ WaitForReceive \/ Notified \/ SpuriousWakeup \/ Timeout
    \/ CheckResponse \/ CopyResponse

BLEThread == RecvCallBack \/ MergePackage \/ DiscCallBack

Environment == DuplicatePacket \/ LosePacket \/ LinkDown \/ Connect \/ Disconnect

Next == SendData \/ BLEThread \/ Environment

Spec == Init /\ [][Next]_vars

\* The library keeps calling back while it has something to report, and the
\* SDK thread keeps running; wait_for gives up in the end.  Nothing is assumed
\* of the link, of the device or of the application.
Fairness ==
    /\ WF_vars(SendWrap \/ SendApdu \/ SendApduFails)
    /\ WF_vars(WaitForReceive \/ Notified \/ Timeout)
    /\ WF_vars(CheckResponse \/ CopyResponse)
    /\ WF_vars(BLEThread)

FairSpec == Spec /\ Fairness

-----------------------------------------------------------------------------
(* Properties *)

Msg == [chunks : Seq(Packet), size : Nat]

FidoTypes ==
    /\ mRecvMsg \in Msg
    /\ cmdHeader \in {0, CMD_MSG}
    /\ pkgSeq \in Byte
    /\ hasError \in BOOLEAN

DeviceTypes ==
    /\ handle \in 0..MaxConns
    /\ bConnected \in BOOLEAN

CallerTypes ==
    /\ pc \in {"idle", "wrap", "send", "sent", "wait", "check", "copy", "overrun"}
    /\ result \in Results
    /\ answer \in Seq(Packet)
    /\ cmd \in 0..MaxCmds
    /\ answered \subseteq 0..MaxCmds

WireTypes ==
    /\ up \subseteq 1..conns
    /\ link \in [Conns -> Seq(Packet)]
    /\ conns \in 0..MaxConns
    /\ discPending \subseteq 1..conns
    /\ via \in [1..MaxCmds -> 0..MaxConns]
    /\ mixed \in BOOLEAN

Faults == [loss : 0..MaxLoss, dup : 0..MaxDup, dupOfZero : BOOLEAN,
           spurious : 0..MaxSpurious]

\* The types of the members of Fido and JubiterBLEDevice, of the threads'
\* positions and of the link.
TypeOK ==
    /\ FidoTypes
    /\ DeviceTypes
    /\ CallerTypes
    /\ WireTypes
    /\ cb \in Packet
    /\ woken \in BOOLEAN
    /\ early \in BOOLEAN
    /\ quiet \in BOOLEAN
    /\ disturbed \in BOOLEAN
    /\ faults \in Faults

\* Its inductive form: once checkResponse has found the answer complete, there
\* is a first packet to copy.
TypeInv == TypeOK /\ (pc = "copy" => mRecvMsg.chunks # <<>>)

\* What CHECK_SEQ and the announced length are good for.  An answer SendData
\* hands out with JUBR_OK is one whole answer of a device, in order: as long as
\* the links are faultless, even if the previous exchange timed out and its
\* packets are still coming, unless packets come over two connections at once;
\* and whatever packets are lost or repeated, if the exchange began on quiet
\* links and no continuation packet 0 is repeated (which follows itself as far as
\* CHECK_SEQ goes).
AnswerIntact ==
    (/\ result = "OK"
     /\ quiet \/ (faults.loss + faults.dup = 0 /\ ~mixed)
     /\ ~faults.dupOfZero)
        => \E k \in 1..cmd : answer \in Responses(k)

\* Nothing on the wire says which command an answer belongs to.  Still, when
\* no packet of an earlier exchange is outstanding as SendData clears the
\* buffer, every packet of an answer it returns with JUBR_OK answers its own
\* command, whatever the link then does.
AnswerFresh ==
    (quiet /\ result = "OK") => \A i \in 1..Len(answer) : answer[i].cmd = cmd

\* The buffer is not guarded by the mutex.  SendData reads it only while the
\* BLE thread is not about to write it, in every exchange that starts on quiet
\* links and sees no fault, no spurious wake-up and no link lost or made.
NoBufferRace ==
    (quiet /\ ~disturbed /\ pc \in {"check", "copy"}) => cb = NoPacket

\* The lost wake-up: SendData sleeps over a complete answer, or over an answer
\* that RecvCallBack has refused, only if the notification came before it
\* began to wait.  (It then sleeps until the timeout.)  The one other packet
\* it can sleep over is a late one that slipped in between clear() and
\* wrapFidoApdu(), whose header nobody has compared yet.
SleepsOnlyIfEarly ==
    (pc = "wait" /\ ~woken /\ ~early) =>
        /\ ResponseStatus(mRecvMsg) \notin {"done", "invalid"}
        /\ ~hasError

\* The inductive forms of SleepsOnlyIfEarly and AnswerFresh, which the proofs
\* use.  Before it waits, too, SendData misses no notification without `early`
\* saying so.
EarlyInv ==
    (pc \in {"wrap", "send", "sent", "wait"} /\ ~woken /\ ~early) =>
        /\ ResponseStatus(mRecvMsg) \notin {"done", "invalid"}
        /\ ~hasError
        /\ pc = "wrap" => ResponseStatus(mRecvMsg) # "badHeader"

\* In an exchange that began on a quiet link there is no packet of another
\* command, neither on the link nor in the callback nor in the buffer.
OwnPackets(s) == \A i \in 1..Len(s) : s[i].cmd = cmd

FreshInv ==
    quiet =>
        /\ \A c \in Conns : OwnPackets(link[c])
        /\ cb # NoPacket => cb.cmd = cmd
        /\ OwnPackets(mRecvMsg.chunks)
        /\ result = "OK" => OwnPackets(answer)

\* tempMsg, on the stack, is overrun only if the device gives answers that do not
\* fit it, under the conditions of AnswerIntact: what is copied there is never
\* more than the device's own answer.  (Without them it may be: a short answer
\* to one command with the late packets of a longer one behind it.)
StackOverrunOnlyOver ==
    (/\ pc = "overrun"
     /\ quiet \/ (faults.loss + faults.dup = 0 /\ ~mixed)
     /\ ~faults.dupOfZero)
        => \E n \in RespLens : n + FIDO_HEADER_LEN > TempSize

\* SendData always returns, whatever the device and the link do.
SendDataReturns == pc # "idle" ~> pc = "idle"

\* Commands and answers as the caller sees them.  When no packet is delivered
\* twice, no answer is handed out twice, and none is older than one handed out
\* before that came over the same connection; over two connections the older may
\* well come last.
Outcome == CASE result = "none" -> "none"
             [] result = "OK" -> "answer"
             [] OTHER -> "error"

Abstract == INSTANCE Exchange WITH
                issued <- cmd, pending <- pc # "idle", outcome <- Outcome,
                answered <- [k \in 1..MaxCmds |-> IF k \in answered THEN via[k] ELSE 0]
ImplementsExchange == Abstract!Spec
=============================================================================
