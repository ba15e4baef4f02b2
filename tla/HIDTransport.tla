---------------------------- MODULE HIDTransport ----------------------------
(***************************************************************************)
(* The USB transport of HardWalletSDK: JubiterHidDevice::SendData on top   *)
(* of hidapi.                                                              *)
(*                                                                         *)
(* The SDK thread writes a command in reports of 64 bytes and reads the    *)
(* reports of the answer.  hidapi's own thread puts the device's reports   *)
(* into a queue, from which it drops the oldest one when the queue is      *)
(* full.  On every error but one SendData closes the device, which empties *)
(* the queue; the next command opens it again.  Reports the device had not *)
(* sent by then may be lost or may come to the new handle.                 *)
(*                                                                         *)
(* A report is abstracted to its kind, the command it answers, its place   *)
(* in the answer and the length an answer's first report announces.  The   *)
(* code looks at neither the channel nor the sequence number of a report.  *)
(*                                                                         *)
(* The device and the USB are external: whether a report that was sent     *)
(* comes, when, and how often the device asks to wait before it answers,   *)
(* which may be without end.                                               *)
(***************************************************************************)
EXTENDS Naturals, Sequences

CONSTANTS
    MaxCmds,        \* bound: commands issued
    MaxOpens,       \* bound: handles opened
    MaxUnplugs,     \* bound: times the device is unplugged
    QueueMax,       \* reports hidapi queues: 32
    SendLens,       \* lengths of the commands
    RespLens,       \* lengths of the answers the device may give
    Rooms           \* sizes of the caller's buffer

ASSUME HIDAssumption ==
    /\ MaxCmds \in Nat
    /\ MaxOpens \in Nat
    /\ MaxUnplugs \in Nat
    /\ QueueMax \in Nat \ {0}
    /\ SendLens \subseteq Nat \ {0}
    /\ RespLens \subseteq Nat \ {0}
    /\ Rooms \subseteq Nat

FIRST == 57     \* HID_PACKET_GNU_SIZE - HID_PACKET_RHEAD_FRIST
ROUND == 59     \* HID_PACKET_GNU_SIZE - HID_PACKET_RHEAD_ROUND

Results == {"none", "OK", "INIT_DEVICE_LIB_ERROR", "CONNECT_DEVICE_ERROR",
            "TRANSMIT_DEVICE_ERROR", "BUFFER_TOO_SMALL"}

VARIABLES
    \* members of JubiterHidDevice
    handle,         \* _handle: 0, or the number of an open handle
    bFirstCmd,      \* _bFirstCmd
    \* hidapi
    queue,          \* input_reports of the handle
    gone,           \* disconnected: the handle's device has been unplugged
    \* the device
    plugged,
    out,            \* reports it has still to send
    \* SendData
    pc,
    room,           \* *pulRetDataLen
    sent,           \* the length of the command, and what was written of it
    recv,           \* the answer so far: ulPlayloadSize, offset and the reports
    result,         \* what the last call returned
    \* history
    cmd,            \* commands issued so far
    opens,          \* handles opened so far
    unplugs,
    quiet,          \* this exchange began with no report outstanding
    dropped         \* hidapi has dropped a report during it

device == <<handle, bFirstCmd>>
history == <<cmd, opens, unplugs, quiet, dropped>>
vars == <<device, queue, gone, plugged, out, pc, room, sent, recv, result, history>>

-----------------------------------------------------------------------------
(* Reports *)

Report == [kind : {"init", "wait", "first", "next"}, cmd : 0..MaxCmds, index : Nat,
           total : Nat]

\* What the bytes of a continuation report happen to say where a first one has
\* the length: payload, so anything; the two extremes are enough.
Payloads == {0, 65535}

\* Reports that follow the first one of an answer of n bytes.
Continuations(n) == IF n <= FIRST THEN 0 ELSE (n - FIRST + ROUND - 1) \div ROUND

Response(k, n, payload) ==
    [i \in 1..(Continuations(n) + 1) |->
        [kind |-> IF i = 1 THEN "first" ELSE "next", cmd |-> k, index |-> i,
         total |-> IF i = 1 THEN n ELSE payload]]

\* What the device sends for command k, reports that ask to wait aside: nothing,
\* or an answer.
DeviceReplies(k) == {<<>>} \cup {Response(k, n, p) : n \in RespLens, p \in Payloads}

WaitReport(k) == [kind |-> "wait", cmd |-> k, index |-> 0, total |-> 1]

InitReply == [kind |-> "init", cmd |-> 0, index |-> 0, total |-> 0]

Least(a, b) == IF a < b THEN a ELSE b

\* Mutant of Packets: the first report is taken to hold as much as the others.
PacketsAllRound(n) ==
    [i \in 1..((n + ROUND - 1) \div ROUND) |-> Least(ROUND, n - ROUND * (i - 1))]

\* The bytes of a command of n bytes that each report written carries.
Packets(n) ==
    [i \in 1..(Continuations(n) + 1) |->
        IF i = 1 THEN Least(FIRST, n) ELSE Least(ROUND, n - FIRST - ROUND * (i - 2))]

\* The length in the header: of (JUB_BYTE)(ulSendLen & 0xff00) nothing is left.
Announced(n) == n % 256

-----------------------------------------------------------------------------
(* Opening and closing *)

\* Connect: hid_init, then hid_open_path.  An older handle is forgotten.
Open ==
    /\ plugged
    /\ opens < MaxOpens
    /\ handle' = opens + 1
    /\ opens' = opens + 1
    /\ queue' = <<>>
    /\ gone' = FALSE

\* The library cannot be initialised, and nothing changes, or the device
\* cannot be opened.
OpenFails ==
    /\ \/ result' = "INIT_DEVICE_LIB_ERROR" /\ UNCHANGED <<handle, queue, gone>>
       \/ /\ result' = "CONNECT_DEVICE_ERROR"
          /\ handle' = 0
          /\ queue' = <<>>
          /\ gone' = FALSE
    /\ UNCHANGED opens

\* Disconnect; hid_close empties the queue, and hid_exit does not fail.
Close ==
    /\ bFirstCmd' = FALSE
    /\ handle' = 0
    /\ gone' = FALSE
    /\ queue' = <<>>

Connect ==
    /\ pc = "idle"
    /\ \/ Open /\ result' = "none"
       \/ OpenFails
    /\ UNCHANGED <<bFirstCmd, plugged, out, pc, room, sent, recv, cmd, unplugs, quiet,
                   dropped>>

Disconnect ==
    /\ pc = "idle"
    /\ Close
    /\ result' = "none"
    /\ UNCHANGED <<plugged, out, pc, room, sent, recv, history>>

-----------------------------------------------------------------------------
(* SendData *)

Nothing == [total |-> 0, offset |-> 0, pieces |-> <<>>]

Return(r) ==
    /\ pc' = "idle"
    /\ result' = r

\* Disconnect and return JUBR_TRANSMIT_DEVICE_ERROR.
Abandon ==
    /\ Close
    /\ Return("TRANSMIT_DEVICE_ERROR")

\* Without a handle the call opens the device first, and may fail to.
SendNotConnected ==
    /\ pc = "idle"
    /\ handle = 0
    /\ OpenFails
    /\ UNCHANGED <<bFirstCmd, plugged, out, pc, room, sent, recv, cmd, unplugs, quiet,
                   dropped>>

SendStart(n, size) ==
    /\ pc = "idle"
    /\ cmd < MaxCmds
    /\ \/ handle = 0 /\ Open
       \/ handle # 0 /\ UNCHANGED <<handle, opens, queue, gone>>
    /\ bFirstCmd' = FALSE
    /\ pc' = IF bFirstCmd THEN "writeInit" ELSE "write"
    /\ room' = size
    /\ sent' = [len |-> n, announced |-> 0, packets |-> <<>>]
    /\ recv' = Nothing
    /\ result' = "none"
    /\ cmd' = cmd + 1
    /\ quiet' = (out = <<>> /\ queue' = <<>>)
    /\ dropped' = FALSE
    /\ UNCHANGED <<plugged, out, unplugs>>

WriteInit ==
    /\ pc = "writeInit"
    /\ plugged /\ ~gone
    /\ out' \in {out, Append(out, InitReply)}
    /\ pc' = "init"
    /\ UNCHANGED <<device, queue, gone, plugged, room, sent, recv, result, history>>

\* _Read has no timeout; what it reads is not looked at.
ReadInit ==
    /\ pc = "init"
    /\ queue # <<>>
    /\ queue' = Tail(queue)
    /\ pc' = "write"
    /\ UNCHANGED <<device, gone, plugged, out, room, sent, recv, result, history>>

ReadInitFails ==
    /\ pc = "init"
    /\ queue = <<>> /\ gone
    /\ Abandon
    /\ UNCHANGED <<plugged, out, room, sent, recv, history>>

WritePackets ==
    /\ pc = "write"
    /\ plugged /\ ~gone
    /\ sent' = [sent EXCEPT !.announced = Announced(sent.len),
                            !.packets = Packets(sent.len)]
    /\ \E r \in DeviceReplies(cmd) : out' = out \o r
    /\ pc' = "read"
    /\ UNCHANGED <<device, queue, gone, plugged, room, recv, result, history>>

\* A report cannot be written; if it was the last one, the device may have it.
WriteFails ==
    /\ pc \in {"writeInit", "write"}
    /\ \/ UNCHANGED out
       \/ /\ pc = "write" /\ plugged /\ ~gone
          /\ \E r \in DeviceReplies(cmd) : out' = out \o r
    /\ Abandon
    /\ UNCHANGED <<plugged, room, sent, recv, history>>

\* The report p extends the answer a by at most n bytes.
Extended(a, p, n) ==
    [a EXCEPT !.offset = @ + n,
              !.pieces = Append(@, [report |-> p, bytes |-> n])]

\* Mutant of Taken: the first report is as long as the others.
TakenAllRound(a, p) ==
    IF a.offset = 0
    THEN Extended([a EXCEPT !.total = p.total], p, Least(ROUND, p.total))
    ELSE Extended(a, p, Least(ROUND, a.total - a.offset))

\* The answer once report p is added.
Taken(a, p) ==
    IF a.offset = 0
    THEN Extended([a EXCEPT !.total = p.total], p, Least(FIRST, p.total))
    ELSE Extended(a, p, Least(ROUND, a.total - a.offset))

\* A report that asks to wait is skipped, and the timeout starts again, however
\* many have been before it.
ReadWait ==
    /\ pc = "read"
    /\ queue # <<>>
    /\ Head(queue).kind = "wait"
    /\ queue' = Tail(queue)
    /\ UNCHANGED <<device, gone, plugged, out, pc, room, sent, recv, result, history>>

\* The first report announces more than the caller has room for.  The device
\* stays open, and the rest of the answer stays in the queue.
ReadTooMuch ==
    /\ pc = "read"
    /\ queue # <<>>
    /\ Head(queue).kind # "wait"
    /\ recv.offset = 0
    /\ room < Head(queue).total
    /\ queue' = Tail(queue)
    /\ Return("BUFFER_TOO_SMALL")
    /\ UNCHANGED <<device, gone, plugged, out, room, sent, recv, history>>

ReadReport ==
    /\ pc = "read"
    /\ queue # <<>>
    /\ Head(queue).kind # "wait"
    /\ recv.offset = 0 => room >= Head(queue).total
    /\ queue' = Tail(queue)
    /\ recv' = Taken(recv, Head(queue))
    /\ IF recv'.offset >= recv'.total
       THEN Return("OK")
       ELSE UNCHANGED <<pc, result>>
    /\ UNCHANGED <<device, gone, plugged, out, room, sent, history>>

\* Mutant of ReadNothing: a read without timeout.
ReadNothingBlocks ==
    /\ pc = "read"
    /\ queue = <<>> /\ gone
    /\ Abandon
    /\ UNCHANGED <<plugged, out, room, sent, recv, history>>

\* hid_read_timeout times out, or the device is gone.
ReadNothing ==
    /\ pc = "read"
    /\ queue = <<>>
    /\ Abandon
    /\ UNCHANGED <<plugged, out, room, sent, recv, history>>

-----------------------------------------------------------------------------
(* hidapi's thread and the device *)

\* Mutant of Enqueue: the queue holds one more.
EnqueueOneMore(r) ==
    /\ queue' = IF Len(queue) <= QueueMax THEN Append(queue, r) ELSE Append(Tail(queue), r)
    /\ dropped' = (dropped \/ Len(queue) > QueueMax)

\* hid_report_callback
Enqueue(r) ==
    /\ queue' = IF Len(queue) < QueueMax THEN Append(queue, r) ELSE Append(Tail(queue), r)
    /\ dropped' = (dropped \/ Len(queue) >= QueueMax)

ReportArrives ==
    /\ out # <<>>
    /\ handle # 0 /\ ~gone
    /\ Enqueue(Head(out))
    /\ out' = Tail(out)
    /\ UNCHANGED <<device, gone, plugged, pc, room, sent, recv, result, cmd, opens, unplugs,
                   quiet>>

\* The device asks to wait, as often as it likes, until it begins the answer.  (A
\* device that never begins it is one whose answer never comes.)
AskToWait ==
    /\ out # <<>>
    /\ Head(out).kind = "first"
    /\ handle # 0 /\ ~gone
    /\ Enqueue(WaitReport(Head(out).cmd))
    /\ UNCHANGED <<device, gone, plugged, out, pc, room, sent, recv, result, cmd, opens,
                   unplugs, quiet>>

\* Nobody listens: the report is lost.
LoseReport ==
    /\ out # <<>>
    /\ handle = 0
    /\ out' = Tail(out)
    /\ UNCHANGED <<device, queue, gone, plugged, pc, room, sent, recv, result, history>>

Unplug ==
    /\ plugged
    /\ unplugs < MaxUnplugs
    /\ plugged' = FALSE
    /\ unplugs' = unplugs + 1
    /\ out' = <<>>
    /\ gone' = (handle # 0)
    /\ UNCHANGED <<device, queue, pc, room, sent, recv, result, cmd, opens, quiet, dropped>>

Plug ==
    /\ ~plugged
    /\ plugged' = TRUE
    /\ UNCHANGED <<device, queue, gone, out, pc, room, sent, recv, result, history>>

Init ==
    /\ handle = 0
    /\ bFirstCmd = TRUE
    /\ queue = <<>>
    /\ gone = FALSE
    /\ plugged = TRUE
    /\ out = <<>>
    /\ pc = "idle"
    /\ room = 0
    /\ sent = [len |-> 0, announced |-> 0, packets |-> <<>>]
    /\ recv = Nothing
    /\ result = "none"
    /\ cmd = 0
    /\ opens = 0
    /\ unplugs = 0
    /\ quiet = TRUE
    /\ dropped = FALSE

SendData ==
    \/ SendNotConnected
    \/ \E n \in SendLens, size \in Rooms : SendStart(n, size)
    \/ WriteInit \/ ReadInit \/ ReadInitFails \/ WritePackets \/ WriteFails
    \/ ReadWait \/ ReadTooMuch \/ ReadReport \/ ReadNothing

Next ==
    \/ SendData
    \/ Connect \/ Disconnect
    \/ ReportArrives \/ AskToWait \/ LoseReport \/ Unplug \/ Plug

Spec == Init /\ [][Next]_vars

\* The SDK thread keeps running, and hid_read_timeout gives up in the end.
\* Nothing is assumed of the device or of hidapi's thread.
Fairness ==
    /\ WF_vars(WriteInit \/ WriteFails)
    /\ WF_vars(ReadInit \/ ReadInitFails)
    /\ WF_vars(WritePackets \/ WriteFails)
    /\ WF_vars(ReadWait \/ ReadTooMuch \/ ReadReport \/ ReadNothing)

FairSpec == Spec /\ Fairness

-----------------------------------------------------------------------------
(* Properties *)

Answer == [total : Nat, offset : Nat, pieces : Seq([report : Report, bytes : Nat])]

\* The members, hidapi's queue, the device and SendData's locals keep their types.
TypeOK ==
    /\ handle \in 0..MaxOpens
    /\ bFirstCmd \in BOOLEAN
    /\ queue \in Seq(Report) /\ Len(queue) <= QueueMax
    /\ gone \in BOOLEAN /\ (gone => handle # 0)
    /\ plugged \in BOOLEAN
    /\ out \in Seq(Report)
    /\ pc \in {"idle", "writeInit", "init", "write", "read"}
    /\ pc # "idle" => handle # 0
    /\ room \in Rooms \cup {0}
    /\ sent \in [len : SendLens \cup {0}, announced : 0..255, packets : Seq(Nat)]
    /\ recv \in Answer
    /\ result \in Results
    /\ cmd \in 0..MaxCmds
    /\ opens \in 0..MaxOpens
    /\ unplugs \in 0..MaxUnplugs
    /\ quiet \in BOOLEAN
    /\ dropped \in BOOLEAN

\* recv holds the whole answer of n bytes to command k: every report of it, in
\* order, each with all the bytes it carries.
IsAnswer(k, n) ==
    /\ recv.total = n
    /\ Len(recv.pieces) = Continuations(n) + 1
    /\ \A i \in 1..Len(recv.pieces) :
        /\ recv.pieces[i].report.kind = IF i = 1 THEN "first" ELSE "next"
        /\ recv.pieces[i].report.cmd = k
        /\ recv.pieces[i].report.index = i
        /\ recv.pieces[i].bytes = Packets(n)[i]

\* Neither channel nor sequence number is checked.  Still, an exchange that
\* begins with no report outstanding, and in which hidapi drops none, returns
\* JUBR_OK only with the device's whole answer to its own command, whatever
\* length it has and however often the device was unplugged before.
AnswerIntact ==
    (result = "OK" /\ quiet /\ ~dropped) => \E n \in RespLens : IsAnswer(cmd, n)

\* Such an exchange leaves nothing behind: the next one is quiet, too.  (After
\* an error that need not be so: the rest of an answer may still be queued or
\* on its way, and is then read as if it began an answer.)
OKLeavesQuiet ==
    (pc = "idle" /\ result = "OK" /\ quiet /\ ~dropped) => queue = <<>> /\ out = <<>>

Sum(s) ==
    LET f[i \in 0..Len(s)] == IF i = 0 THEN 0 ELSE f[i - 1] + s[i]
    IN  f[Len(s)]

\* A command of less than 256 bytes reaches the device whole: the header says
\* how long it is, the reports carry all of it, no report carries more than it
\* holds, and every one but the last is full.  (A longer command announces its
\* length modulo 256.)
CommandWhole ==
    (pc = "read" /\ sent.len < 256) =>
        /\ sent.announced = sent.len
        /\ Sum(sent.packets) = sent.len
        /\ \A i \in 1..Len(sent.packets) :
            LET most == IF i = 1 THEN FIRST ELSE ROUND
            IN  sent.packets[i] <= most /\ (i < Len(sent.packets) => sent.packets[i] = most)

\* SendData returns, with two exceptions.  The read of the answer to the INIT
\* report, which precedes its first command, has no timeout: a device that stays
\* plugged in and silent keeps it for ever.  The other reads have one, but each
\* report that asks to wait starts it again: a device that never stops asking keeps
\* SendData for ever, too, however short the timeout is.
HangsOnlyOver ==
    <>[](pc # "idle") =>
        \/ <>[](pc = "init" /\ queue = <<>> /\ ~gone)
        \/ []<><<ReadWait>>_vars
=============================================================================
