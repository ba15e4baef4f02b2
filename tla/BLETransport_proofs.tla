------------------------ MODULE BLETransport_proofs ------------------------
(***************************************************************************)
(* Proofs about BLETransport, for every number of commands, connections    *)
(* and faults and every set of answer lengths: its types, what a missed    *)
(* notification needs, that answers are fresh and whole, that the threads  *)
(* do not meet at the buffer, and that every step is one of Exchange.      *)
(*                                                                         *)
(* Each invariant follows the packets from the links through the callback  *)
(* to the buffer: whose they are (FreshInv), that they are a device's      *)
(* (Genuine), that they come in the order of one answer (Ordered, on       *)
(* faultless links that do not mix; Counted, in a quiet exchange), and     *)
(* that none begins an answer handed out already, or an older one of the   *)
(* same connection (Unanswered).                                           *)
(***************************************************************************)
EXTENDS BLETransport, SequenceTheorems, TLAPS

\* The number of continuation packets of an answer.
LEMMA ContinuationsBound ==
    ASSUME NEW n \in Nat, 0 < n, n <= 2449
    PROVE  /\ Continuations(n) \in Nat
           /\ Continuations(n) <= 128
           /\ 19 * Continuations(n) <= n + 1
  BY DEF Continuations, FIDO_HEADER_LEN, FIDO_BLOCK_SIZE, FIDO_DATA_BLOCK_SIZE

\* An answer to command k is a sequence of packets of command k.
LEMMA ResponseIsPackets ==
    ASSUME NEW k \in 0..MaxCmds, NEW n \in RespLens, NEW p \in Payloads
    PROVE  /\ Response(k, n, p) \in Seq(Packet)
           /\ \A i \in 1..Len(Response(k, n, p)) : Response(k, n, p)[i].cmd = k
<1> DEFINE last == Continuations(n) + 1
           size == n + FIDO_HEADER_LEN + Continuations(n)
           pkt(i) == [byte0 |-> IF i = 1 THEN CMD_MSG ELSE i - 2,
                      len   |-> IF i = last THEN size - FIDO_BLOCK_SIZE * (last - 1)
                                            ELSE FIDO_BLOCK_SIZE,
                      total |-> IF i = 1 THEN n ELSE IF i = 2 THEN p ELSE 0,
                      cmd   |-> k]
<1>1. n \in Nat /\ 0 < n /\ n <= 2449 /\ MaxCmds \in Nat /\ p \in Nat
  BY TransportAssumption DEF Payloads
<1>2. Continuations(n) \in Nat /\ Continuations(n) <= 128 /\ 19 * Continuations(n) <= n + 1
  <2> HIDE DEF last, size, pkt
  <2> QED
    BY <1>1, ContinuationsBound
<1>3. \A i \in 1..last : pkt(i) \in Packet
  <2> SUFFICES ASSUME NEW i \in 1..last PROVE pkt(i) \in Packet
    OBVIOUS
  <2>1. (IF i = 1 THEN CMD_MSG ELSE i - 2) \in Byte
    BY <1>2 DEF CMD_MSG, Byte
  <2>2. (IF i = last THEN size - FIDO_BLOCK_SIZE * (last - 1) ELSE FIDO_BLOCK_SIZE) \in Nat
    BY <1>1, <1>2 DEF FIDO_HEADER_LEN, FIDO_BLOCK_SIZE
  <2>3. (IF i = 1 THEN n ELSE IF i = 2 THEN p ELSE 0) \in Nat
    BY <1>1
  <2>4. k \in 0..MaxCmds
    BY <1>1
  <2> QED
    BY <2>1, <2>2, <2>3, <2>4 DEF Packet
<1>4. Response(k, n, p) = [i \in 1..last |-> pkt(i)]
  BY DEF Response
<1>5. last \in Nat
  BY <1>2
<1> HIDE DEF last, pkt
<1>6. Response(k, n, p) \in [1..last -> Packet]
  BY <1>3, <1>4
<1>7. Response(k, n, p) \in Seq(Packet)
  BY <1>5, <1>6, SeqDef
<1>8. Len(Response(k, n, p)) = last
  BY <1>5, <1>4
<1>9. \A i \in 1..last : pkt(i).cmd = k
  BY DEF pkt
<1> QED
  BY <1>4, <1>7, <1>8, <1>9

\* So is everything else the device may reply.
LEMMA RepliesArePackets ==
    ASSUME NEW k \in 0..MaxCmds, NEW r \in DeviceReplies(k)
    PROVE  /\ r \in Seq(Packet)
           /\ \A i \in 1..Len(r) : r[i].cmd = k
<1>1. KeepAlive(k) \in Packet /\ ErrorPacket(k) \in Packet
  BY TransportAssumption DEF KeepAlive, ErrorPacket, Packet, Byte, CMD_KEEP_ALIVE, CMD_ERROR
<1>2. KeepAlive(k).cmd = k /\ ErrorPacket(k).cmd = k
  BY DEF KeepAlive, ErrorPacket
<1>3. <<KeepAlive(k)>> \in Seq(Packet) /\ <<ErrorPacket(k)>> \in Seq(Packet)
  BY <1>1
<1>4. CASE r = <<>>
  BY <1>4
<1>5. CASE r = <<ErrorPacket(k)>>
  BY <1>2, <1>3, <1>5
<1>6. CASE r \in Responses(k)
  BY <1>6, ResponseIsPackets DEF Responses
<1>7. ASSUME NEW q \in Responses(k), r = <<KeepAlive(k)>> \o q
      PROVE  /\ r \in Seq(Packet)
             /\ \A i \in 1..Len(r) : r[i].cmd = k
  <2>1. q \in Seq(Packet) /\ \A i \in 1..Len(q) : q[i].cmd = k
    BY ResponseIsPackets DEF Responses
  <2>2. /\ r \in Seq(Packet)
        /\ Len(r) = 1 + Len(q)
        /\ \A i \in 1..(1 + Len(q)) : r[i] = IF i <= 1 THEN <<KeepAlive(k)>>[i] ELSE q[i - 1]
    BY <1>3, <1>7, <2>1, ConcatProperties, Len(<<KeepAlive(k)>>) = 1
  <2>3. ASSUME NEW i \in 1..Len(r) PROVE r[i].cmd = k
    <3>1. Len(q) \in Nat /\ i \in 1..(1 + Len(q))
      BY <2>1, <2>2
    <3>2. CASE i <= 1
      <4>1. i = 1
        BY <3>1, <3>2
      <4>2. r[i] = KeepAlive(k)
        BY <2>2, <3>1, <4>1
      <4> QED
        BY <1>2, <4>2
    <3>3. CASE ~(i <= 1)
      <4>1. i - 1 \in 1..Len(q)
        BY <3>1, <3>3
      <4>2. r[i] = q[i - 1]
        BY <2>2, <3>1, <3>3
      <4> QED
        BY <2>1, <4>1, <4>2
    <3> QED
      BY <3>2, <3>3
  <2> QED
    BY <2>2, <2>3
<1> QED
  BY <1>4, <1>5, <1>6, <1>7 DEF DeviceReplies

-----------------------------------------------------------------------------
(* Type correctness *)

\* The values the members are reset to.
LEMMA ResetTypes ==
    /\ NoPacket \in Packet
    /\ EmptyMsg \in Msg
    /\ 0 \in Byte
    /\ 0 \in 0..MaxConns
    /\ <<>> \in Seq(Packet)
<1>1. 0 \in Byte
  BY DEF Byte
<1>2. 0 \in 0..MaxConns /\ 0 \in 0..MaxCmds
  BY TransportAssumption
<1>3. <<>> \in Seq(Packet)
  OBVIOUS
<1> QED
  BY <1>1, <1>2, <1>3 DEF NoPacket, Packet, EmptyMsg, Msg

LEMMA TypeInit == Init => TypeInv
<1> SUFFICES ASSUME Init PROVE TypeInv
  OBVIOUS
<1>1. NoPacket \in Packet
  BY ResetTypes
<1>2. FidoTypes
  BY ResetTypes DEF Init, FidoTypes
<1>a. DeviceTypes
  BY ResetTypes DEF Init, DeviceTypes
<1>b. link \in [Conns -> Seq(Packet)] /\ via \in [1..MaxCmds -> 0..MaxConns]
  BY ResetTypes DEF Init
<1>3. WireTypes
  BY <1>b, ResetTypes DEF Init, WireTypes
<1>4. CallerTypes
  BY TransportAssumption DEF Init, CallerTypes, Results
<1>5. faults \in Faults
  BY TransportAssumption DEF Init, Faults
<1> QED
  BY <1>1, <1>2, <1>a, <1>3, <1>4, <1>5 DEF Init, TypeInv, TypeOK

\* A group of variables that a step leaves alone keeps its types.
LEMMA UnchangedTypes ==
    ASSUME TypeOK
    PROVE  /\ UNCHANGED fido => FidoTypes'
           /\ UNCHANGED device => DeviceTypes'
           /\ UNCHANGED caller => CallerTypes'
           /\ UNCHANGED wire => WireTypes'
<1>1. UNCHANGED fido => FidoTypes'
  BY DEF TypeOK, fido, FidoTypes
<1>2. UNCHANGED device => DeviceTypes'
  BY DEF TypeOK, device, DeviceTypes
<1>3. UNCHANGED caller => CallerTypes'
  BY DEF TypeOK, caller, CallerTypes
<1>4. UNCHANGED wire => WireTypes'
  BY DEF TypeOK, wire, WireTypes
<1> QED
  BY <1>1, <1>2, <1>3, <1>4

\* A return, or a step to the next line of SendData, keeps the caller's types.
LEMMA CallerSteps ==
    ASSUME TypeOK, UNCHANGED <<answer, cmd, answered>>,
           \/ \E r \in Results : Return(r)
           \/ pc' \in {"send", "sent", "wait", "check", "copy", "overrun"} /\ UNCHANGED result
    PROVE  CallerTypes'
  BY DEF TypeOK, CallerTypes, Return

LEMMA StopReceivingTypes ==
    ASSUME TypeOK, StopReceiving
    PROVE  woken' \in BOOLEAN /\ early' \in BOOLEAN
  BY DEF TypeOK, StopReceiving

\* What RecvCallBack decides about a packet.
LEMMA ReceiveTypes ==
    ASSUME TypeOK, NEW p \in Packet, Receive(p)
    PROVE  /\ FidoTypes'
           /\ cb' \in Packet
           /\ woken' \in BOOLEAN
           /\ early' \in BOOLEAN
<1>1. CASE UNCHANGED <<fido, woken, early, cb>>
  BY <1>1, UnchangedTypes DEF TypeOK
<1>2. CASE StopReceiving /\ UNCHANGED <<fido, cb>>
  BY <1>2, UnchangedTypes, StopReceivingTypes DEF TypeOK
<1>3. CASE hasError' = TRUE /\ StopReceiving /\ UNCHANGED <<mRecvMsg, cmdHeader, pkgSeq, cb>>
  BY <1>3, StopReceivingTypes DEF TypeOK, FidoTypes
<1>4. CASE /\ pkgSeq' = IF mRecvMsg.size > 0 THEN p.byte0 ELSE pkgSeq
           /\ cb' = p
           /\ UNCHANGED <<mRecvMsg, cmdHeader, hasError, woken, early>>
  <2>1. p.byte0 \in Byte
    BY DEF Packet
  <2> QED
    BY <1>4, <2>1 DEF TypeOK, FidoTypes
<1> QED
  BY <1>1, <1>2, <1>3, <1>4 DEF Receive

LEMMA HeadTailTypes ==
    ASSUME NEW s \in Seq(Packet), s # <<>>
    PROVE  /\ Head(s) \in Packet
           /\ Tail(s) \in Seq(Packet)
           /\ Len(Tail(s)) = Len(s) - 1
           /\ \A i \in 1..(Len(s) - 1) : Tail(s)[i] = s[i + 1]
           /\ Head(s) = s[1] /\ 1 \in 1..Len(s)
  OBVIOUS

\* The connection that the device object remembers, and the others.
LEMMA ConnsTypes ==
    ASSUME TypeOK
    PROVE  /\ up \subseteq Conns
           /\ \A c \in Conns : link[c] \in Seq(Packet)
<1>1. 1..conns \subseteq Conns
  BY TransportAssumption DEF TypeOK, WireTypes, Conns
<1> QED
  BY <1>1 DEF TypeOK, WireTypes

\* One packet is taken from the front of a link.
LEMMA TakeTypes ==
    ASSUME TypeOK, NEW c \in Conns, link[c] # <<>>,
           link' = [link EXCEPT ![c] = Tail(@)], UNCHANGED <<up, conns, discPending, via, mixed>>
    PROVE  WireTypes' /\ Head(link[c]) \in Packet
<1>1. link[c] \in Seq(Packet)
  BY ConnsTypes
<1>2. Tail(link[c]) \in Seq(Packet) /\ Head(link[c]) \in Packet
  BY <1>1, HeadTailTypes
<1>3. link' \in [Conns -> Seq(Packet)]
  BY <1>2 DEF TypeOK, WireTypes
<1> QED
  BY <1>2, <1>3 DEF TypeOK, WireTypes

\* Only SendApdu and SendApduFails lengthen a link.
LEMMA TransmitTypes ==
    ASSUME TypeOK, Transmit
    PROVE  WireTypes'
<1>1. handle \in Conns
  BY ConnsTypes DEF Transmit, IsConn
<1>2. PICK r \in DeviceReplies(cmd) : link' = [link EXCEPT ![handle] = @ \o r]
  BY DEF Transmit
<1>3. r \in Seq(Packet)
  BY RepliesArePackets DEF TypeOK, CallerTypes
<1>4. link[handle] \o r \in Seq(Packet)
  BY <1>1, <1>3, ConnsTypes, ConcatProperties
<1>5. link' \in [Conns -> Seq(Packet)]
  BY <1>2, <1>4 DEF TypeOK, WireTypes
<1>6. via' \in [1..MaxCmds -> 0..MaxConns]
  BY DEF Transmit, TypeOK, WireTypes, DeviceTypes
<1>7. mixed' \in BOOLEAN
  BY Zenon DEF Transmit
<1> QED
  BY <1>5, <1>6, <1>7 DEF Transmit, TypeOK, WireTypes

LEMMA CloseTypes ==
    ASSUME TypeOK, NEW c \in Conns, Close(c),
           discPending' \in {discPending, discPending \cup {c}}
    PROVE  WireTypes'
<1>1. link' \in [Conns -> Seq(Packet)]
  BY ResetTypes DEF Close, TypeOK, WireTypes
<1>2. c \in 1..conns
  BY DEF Close, TypeOK, WireTypes
<1> QED
  BY <1>1, <1>2 DEF Close, TypeOK, WireTypes

\* checkResponse may set hasError.
LEMMA StatusTypes ==
    ASSUME TypeOK, NEW s, hasError' = (hasError \/ s = "badHeader")
    PROVE  hasError' \in BOOLEAN
  BY DEF TypeOK, FidoTypes

LEMMA TypeNext == TypeInv /\ [Next]_vars => TypeOK'
<1> SUFFICES ASSUME TypeInv, [Next]_vars PROVE TypeOK'
  OBVIOUS
<1> TypeOK
  BY DEF TypeInv
<1> USE UnchangedTypes
<1>1. CASE SendNotConnected
  <2>1. CallerTypes'
    BY <1>1 DEF SendNotConnected, Return, TypeOK, CallerTypes, Results
  <2> QED
    BY <1>1, <2>1 DEF SendNotConnected, TypeOK
<1>2. CASE SendClear
  <2>1. FidoTypes'
    BY <1>2, ResetTypes DEF SendClear, FidoTypes
  <2>2. CallerTypes'
    BY <1>2, TransportAssumption DEF SendClear, TypeOK, CallerTypes, Results
  <2>3. quiet' \in BOOLEAN
    BY <1>2, Zenon DEF SendClear, Quiet
  <2> QED
    BY <1>2, <2>1, <2>2, <2>3 DEF SendClear, TypeOK
<1>3. CASE SendWrap
  <2>1. FidoTypes'
    BY <1>3 DEF SendWrap, TypeOK, FidoTypes
  <2> QED
    BY <1>3, <2>1, CallerSteps DEF SendWrap, TypeOK
<1>4. CASE SendApdu
  <2>1. WireTypes'
    BY <1>4, TransmitTypes DEF SendApdu
  <2> QED
    BY <1>4, <2>1, CallerSteps DEF SendApdu, TypeOK
<1>5. CASE SendApduFails
  <2>1. WireTypes'
    BY <1>5, TransmitTypes DEF SendApduFails
  <2>2. CallerTypes'
    BY <1>5, CallerSteps DEF SendApduFails, Results
  <2> QED
    BY <1>5, <2>1, <2>2 DEF SendApduFails, TypeOK
<1>6. CASE WaitForReceive
  BY <1>6, CallerSteps DEF WaitForReceive, TypeOK
<1>7. ASSUME AfterWait
      PROVE  /\ FidoTypes' /\ DeviceTypes' /\ CallerTypes' /\ WireTypes'
             /\ cb' \in Packet /\ woken' \in BOOLEAN /\ early' \in BOOLEAN
  <2>1. CallerTypes'
    BY <1>7, CallerSteps DEF AfterWait, Results
  <2> QED
    BY <1>7, <2>1 DEF AfterWait, TypeOK
<1>8. CASE Notified
  BY <1>7, <1>8 DEF Notified, TypeOK
<1>9. CASE SpuriousWakeup
  <2>1. faults' \in Faults
    BY <1>9, TransportAssumption DEF SpuriousWakeup, TypeOK, Faults
  <2> QED
    BY <1>7, <1>9, <2>1 DEF SpuriousWakeup, TypeOK
<1>10. CASE Timeout
  <2>1. CallerTypes'
    BY <1>10, CallerSteps DEF Timeout, Results
  <2> QED
    BY <1>10, <2>1 DEF Timeout, TypeOK
<1>11. CASE CheckResponse
  <2>1. CallerTypes'
    BY <1>11, CallerSteps DEF CheckResponse, Results
  <2>2. hasError' \in BOOLEAN
    BY <1>11, StatusTypes DEF CheckResponse
  <2>3. FidoTypes'
    BY <1>11, <2>2 DEF CheckResponse, TypeOK, FidoTypes
  <2> QED
    BY <1>11, <2>1, <2>3 DEF CheckResponse, TypeOK
<1>12. CASE CopyResponse
  <2>1. mRecvMsg.chunks \in Seq(Packet) /\ mRecvMsg.chunks # <<>>
    BY <1>12 DEF CopyResponse, TypeInv, TypeOK, FidoTypes, Msg
  <2>2. Head(mRecvMsg.chunks).cmd \in 0..MaxCmds
    BY <2>1, HeadTailTypes DEF Packet
  <2>3. CallerTypes'
    BY <1>12, <2>1, <2>2 DEF CopyResponse, Return, TypeOK, CallerTypes, Results
  <2> QED
    BY <1>12, <2>3 DEF CopyResponse, TypeOK
<1>13. CASE RecvCallBack
  <2>1. PICK c \in Conns : /\ link[c] # <<>>
                           /\ Receive(Head(link[c]))
                           /\ link' = [link EXCEPT ![c] = Tail(@)]
    BY <1>13 DEF RecvCallBack
  <2>2. WireTypes' /\ Head(link[c]) \in Packet
    BY <1>13, <2>1, TakeTypes DEF RecvCallBack
  <2> QED
    BY <1>13, <2>1, <2>2, ReceiveTypes DEF RecvCallBack, TypeOK
<1>14. CASE DuplicatePacket
  <2>c. PICK c \in Conns :
            /\ link[c] # <<>>
            /\ Receive(Head(link[c]))
            /\ faults' = [faults EXCEPT !.dup = @ + 1,
                                        !.dupOfZero = @ \/ Head(link[c]).byte0 = 0]
    BY <1>14 DEF DuplicatePacket
  <2>1. Head(link[c]) \in Packet
    BY <2>c, ConnsTypes, HeadTailTypes
  <2>2. faults' \in Faults
    <3>2. faults.dup + 1 \in 0..MaxDup
      BY <1>14, TransportAssumption DEF DuplicatePacket, TypeOK, Faults
    <3> DEFINE z == faults.dupOfZero \/ Head(link[c]).byte0 = 0
    <3>3. faults' = [faults EXCEPT !.dup = faults.dup + 1, !.dupOfZero = z]
      BY <2>c DEF TypeOK, Faults
    <3>1. z \in BOOLEAN
      OBVIOUS
    <3> HIDE DEF z
    <3> QED
      BY <3>1, <3>2, <3>3 DEF TypeOK, Faults
  <2> QED
    BY <1>14, <2>c, <2>1, <2>2, ReceiveTypes DEF DuplicatePacket, TypeOK
<1>15. CASE LosePacket
  <2>1. WireTypes'
    BY <1>15, TakeTypes DEF LosePacket
  <2>2. faults' \in Faults
    BY <1>15, TransportAssumption DEF LosePacket, TypeOK, Faults
  <2> QED
    BY <1>15, <2>1, <2>2 DEF LosePacket, TypeOK
<1>16. CASE MergePackage
  <2>1. mRecvMsg' \in Msg
    BY <1>16 DEF MergePackage, MergeAndNotify, TypeOK, FidoTypes, Msg, Packet
  <2>2. hasError' \in BOOLEAN
    BY <1>16, StatusTypes DEF MergePackage, MergeAndNotify
  <2>3. FidoTypes'
    BY <1>16, <2>1, <2>2 DEF MergePackage, MergeAndNotify, TypeOK, FidoTypes
  <2>4. woken' \in BOOLEAN /\ early' \in BOOLEAN
    BY <1>16, StopReceivingTypes DEF MergePackage, MergeAndNotify, TypeOK
  <2> QED
    BY <1>16, ResetTypes, <2>3, <2>4 DEF MergePackage, MergeAndNotify, TypeOK
<1>17. CASE DiscCallBack
  <2>1. DeviceTypes' /\ WireTypes'
    BY <1>17, ResetTypes DEF DiscCallBack, TypeOK, DeviceTypes, WireTypes
  <2> QED
    BY <1>17, <2>1, StopReceivingTypes DEF DiscCallBack, TypeOK
<1>18. CASE LinkDown
  <2>1. PICK c \in up : Close(c) /\ discPending' = discPending \cup {c}
    BY <1>18 DEF LinkDown
  <2>2. WireTypes' /\ disturbed' \in BOOLEAN
    BY <2>1, CloseTypes, ConnsTypes DEF Close
  <2> QED
    BY <1>18, <2>2 DEF LinkDown, TypeOK
<1>19. CASE Connect
  <2>0. conns + 1 \in 0..MaxConns /\ conns \in Nat
    BY <1>19, TransportAssumption DEF Connect, TypeOK, WireTypes
  <2>a. 1..conns \subseteq 1..(conns + 1) /\ conns + 1 \in 1..(conns + 1)
    BY <2>0
  <2>1. DeviceTypes' /\ WireTypes'
    BY <1>19, <2>0, <2>a DEF Connect, TypeOK, DeviceTypes, WireTypes
  <2> QED
    BY <1>19, <2>1 DEF Connect, TypeOK
<1>20. CASE Disconnect
  <2>0. PICK c \in 1..conns : Forget(c)
    BY <1>20 DEF Disconnect
  <2>c. c \in Conns
    BY TransportAssumption DEF TypeOK, WireTypes, Conns
  <2>1. DeviceTypes'
    BY <2>0, ResetTypes DEF Forget, DeviceTypes
  <2>2. WireTypes'
    BY <2>0, <2>c, CloseTypes DEF Forget
  <2>3. disturbed' \in BOOLEAN
    BY <2>0 DEF Forget, Close, TypeOK
  <2> QED
    BY <2>0, <2>1, <2>2, <2>3 DEF Forget, TypeOK
<1>21. CASE UNCHANGED vars
  BY <1>21 DEF vars, TypeOK
<1> QED
  BY <1>1, <1>2, <1>3, <1>4, <1>5, <1>6, <1>8, <1>9, <1>10, <1>11, <1>12,
     <1>13, <1>14, <1>15, <1>16, <1>17, <1>18, <1>19, <1>20, <1>21
     DEF Next, SendData, BLEThread, Environment

\* What SendData is about to copy stays there: only SendClear empties the
\* buffer.
LEMMA CopyNext ==
    TypeInv /\ [Next]_vars => (pc' = "copy" => mRecvMsg'.chunks # <<>>)
<1> SUFFICES ASSUME TypeInv, [Next]_vars, pc' = "copy" PROVE mRecvMsg'.chunks # <<>>
  OBVIOUS
<1>1. CASE CheckResponse
  BY <1>1 DEF CheckResponse, ResponseStatus, Return
<1>2. CASE MergePackage
  <2>1. mRecvMsg.chunks \in Seq(Packet) /\ cb \in Packet
    BY DEF TypeInv, TypeOK, FidoTypes, Msg
  <2>2. mRecvMsg'.chunks = Append(mRecvMsg.chunks, cb)
    BY <1>2 DEF MergePackage, MergeAndNotify
  <2> QED
    BY <2>1, <2>2
<1>3. ASSUME UNCHANGED <<pc, mRecvMsg>> PROVE mRecvMsg'.chunks # <<>>
  BY <1>3 DEF TypeInv
<1>4. CASE SendData
  BY <1>1, <1>4 DEF SendData, SendNotConnected, SendClear, SendWrap, SendApdu, SendApduFails,
     WaitForReceive, Notified, SpuriousWakeup, AfterWait, Timeout, CopyResponse, Return
<1>5. CASE RecvCallBack \/ DiscCallBack
  BY <1>3, <1>5 DEF RecvCallBack, Receive, DiscCallBack, fido, caller
<1>6. CASE Environment
  BY <1>3, <1>6 DEF Environment, DuplicatePacket, Receive, LosePacket, LinkDown, Connect,
     Disconnect, Forget, fido, caller
<1>7. CASE UNCHANGED vars
  BY <1>3, <1>7 DEF vars, fido, caller
<1> QED
  BY <1>2, <1>4, <1>5, <1>6, <1>7 DEF Next, BLEThread

\* Every reachable state is well typed.
THEOREM TypeCorrect == Spec => []TypeOK
<1>1. TypeInv /\ [Next]_vars => TypeInv'
  BY TypeNext, CopyNext DEF TypeInv
<1>2. TypeInv => TypeOK
  BY DEF TypeInv
<1> QED
  BY TypeInit, <1>1, <1>2, PTL DEF Spec

\* The same with the inductive form, for the theorems below.
LEMMA TypeInvCorrect == Spec => []TypeInv
<1>1. TypeInv /\ [Next]_vars => TypeInv'
  BY TypeNext, CopyNext DEF TypeInv
<1> QED
  BY TypeInit, <1>1, PTL DEF Spec

-----------------------------------------------------------------------------
(* The lost wake-up *)

\* A notification always leaves a trace, in `woken` or in `early`.
LEMMA NotificationNoted ==
    ASSUME StopReceiving
    PROVE  woken' \/ early'
  BY DEF StopReceiving

LEMMA EarlyInit == Init => EarlyInv
  BY DEF Init, EarlyInv

LEMMA EarlyNext == TypeInv /\ EarlyInv /\ [Next]_vars => EarlyInv'
<1> SUFFICES ASSUME TypeInv, EarlyInv, [Next]_vars PROVE EarlyInv'
  OBVIOUS
<1>a. ASSUME UNCHANGED <<mRecvMsg, cmdHeader, hasError>>
      PROVE  ResponseStatus(mRecvMsg)' = ResponseStatus(mRecvMsg)
  BY <1>a DEF ResponseStatus
<1>b. ASSUME pc' \notin {"wrap", "send", "sent", "wait"} PROVE EarlyInv'
  BY <1>b DEF EarlyInv
<1>c. ASSUME UNCHANGED <<mRecvMsg, cmdHeader, hasError, woken, early>>,
             \/ UNCHANGED pc
             \/ pc \in {"send", "sent"} /\ pc' \in {"sent", "wait"}
      PROVE  EarlyInv'
  BY <1>a, <1>c DEF EarlyInv
<1>d. ASSUME StopReceiving PROVE EarlyInv'
  BY <1>d, NotificationNoted DEF EarlyInv
<1>1. CASE SendNotConnected
  BY <1>1, <1>b DEF SendNotConnected, Return
<1>2. CASE SendClear
  <2>1. ResponseStatus(mRecvMsg)' = "empty"
    BY <1>2 DEF SendClear, EmptyMsg, ResponseStatus
  <2> QED
    BY <1>2, <2>1 DEF SendClear, EarlyInv
<1>3. CASE SendWrap
  <2>1. cmdHeader \in {0, CMD_MSG}
    BY DEF TypeInv, TypeOK, FidoTypes
  <2>2. ResponseStatus(mRecvMsg) \in {"empty", "receiving"}
        => ResponseStatus(mRecvMsg)' \in {"empty", "receiving", "badHeader"}
    BY <1>3, <2>1 DEF SendWrap, ResponseStatus
  <2>3. ResponseStatus(mRecvMsg) \in {"empty", "invalid", "badHeader", "done", "receiving"}
    BY DEF ResponseStatus
  <2> QED
    BY <1>3, <2>2, <2>3 DEF SendWrap, EarlyInv
<1>4. CASE SendApdu
  BY <1>4, <1>c DEF SendApdu, fido
<1>5. CASE SendApduFails
  BY <1>5, <1>b DEF SendApduFails, Return
<1>6. CASE WaitForReceive
  BY <1>6, <1>c DEF WaitForReceive, fido
<1>7. CASE Notified \/ SpuriousWakeup \/ Timeout
  BY <1>7, <1>b DEF Notified, SpuriousWakeup, AfterWait, Timeout, Return
<1>8. CASE CheckResponse \/ CopyResponse
  BY <1>8, <1>b DEF CheckResponse, CopyResponse, Return
<1>9. ASSUME NEW p, Receive(p), UNCHANGED pc PROVE EarlyInv'
  BY <1>9, <1>c, <1>d, <1>a DEF Receive, fido, EarlyInv
<1>10. CASE RecvCallBack \/ DuplicatePacket
  BY <1>9, <1>10 DEF RecvCallBack, DuplicatePacket, caller
<1>11. CASE MergePackage
  <2> DEFINE m == [chunks |-> Append(mRecvMsg.chunks, cb), size |-> mRecvMsg.size + cb.len]
             s == ResponseStatus(m)
  <2>1. CASE s \in {"done", "invalid", "badHeader"}
    BY <1>11, <2>1, <1>d DEF MergePackage, MergeAndNotify
  <2>2. CASE s \notin {"done", "invalid", "badHeader"}
    <3>1. ResponseStatus(mRecvMsg)' = s
      BY <1>11 DEF MergePackage, MergeAndNotify, ResponseStatus
    <3> HIDE DEF s
    <3>2. UNCHANGED <<woken, early, pc>> /\ hasError' = (hasError \/ s = "badHeader")
      BY <1>11, <2>2 DEF MergePackage, MergeAndNotify, caller, s
    <3> QED
      BY <2>2, <3>1, <3>2 DEF EarlyInv
  <2> QED
    BY <2>1, <2>2
<1>12. CASE DiscCallBack
  BY <1>12, <1>d DEF DiscCallBack
<1>13. CASE LosePacket \/ LinkDown \/ Connect \/ Disconnect
  <2>1. UNCHANGED <<mRecvMsg, cmdHeader, hasError, woken, early, pc>>
    BY <1>13 DEF LosePacket, LinkDown, Connect, Disconnect, Forget, fido, caller
  <2> QED
    BY <2>1, <1>c
<1>14. CASE UNCHANGED vars
  <2>1. UNCHANGED <<mRecvMsg, cmdHeader, hasError, woken, early, pc>>
    BY <1>14 DEF vars, fido, caller
  <2> QED
    BY <2>1, <1>c
<1> QED
  BY <1>1, <1>2, <1>3, <1>4, <1>5, <1>6, <1>7, <1>8, <1>10, <1>11, <1>12, <1>13, <1>14
     DEF Next, SendData, BLEThread, Environment

\* SendData sleeps over a finished or refused answer only if it was notified
\* before it began to wait.
THEOREM NoOtherLostWakeup == Spec => []SleepsOnlyIfEarly
<1>1. EarlyInv => SleepsOnlyIfEarly
  BY DEF EarlyInv, SleepsOnlyIfEarly
<1> QED
  BY EarlyInit, EarlyNext, TypeInvCorrect, <1>1, PTL DEF Spec

-----------------------------------------------------------------------------
(* What the steps do to the packets *)

Packets(s) == {s[i] : i \in 1..Len(s)}

\* The packets of sequences.
LEMMA PacketsOf ==
    /\ \A s \in Seq(Packet), i \in Nat : i \in 1..Len(s) => s[i] \in Packets(s)
    /\ \A s \in Seq(Packet) : s # <<>> => /\ Head(s) \in Packets(s)
                                          /\ Packets(Tail(s)) \subseteq Packets(s)
    /\ \A s \in Seq(Packet), p \in Packet : Packets(Append(s, p)) \subseteq Packets(s) \cup {p}
    /\ \A s, r \in Seq(Packet) : Packets(s \o r) \subseteq Packets(s) \cup Packets(r)
    /\ Packets(<<>>) = {}
    /\ \A p : Packets(<<p>>) = {p}
<1>1. \A s \in Seq(Packet), i \in Nat : i \in 1..Len(s) => s[i] \in Packets(s)
  BY DEF Packets
<1>2. ASSUME NEW s \in Seq(Packet), s # <<>>
      PROVE  Head(s) \in Packets(s) /\ Packets(Tail(s)) \subseteq Packets(s)
  <2>1. /\ Len(Tail(s)) = Len(s) - 1 /\ Len(s) \in Nat
        /\ \A i \in 1..(Len(s) - 1) : Tail(s)[i] = s[i + 1]
        /\ Head(s) = s[1] /\ 1 \in 1..Len(s)
    BY <1>2, HeadTailTypes
  <2>2. \A i \in 1..(Len(s) - 1) : i + 1 \in 1..Len(s)
    BY <2>1
  <2> QED
    BY <2>1, <2>2 DEF Packets
<1>3. ASSUME NEW s \in Seq(Packet), NEW p \in Packet
      PROVE  Packets(Append(s, p)) \subseteq Packets(s) \cup {p}
  <2>1. /\ Len(Append(s, p)) = Len(s) + 1 /\ Len(s) \in Nat
        /\ \A i \in 1..Len(s) : Append(s, p)[i] = s[i]
        /\ Append(s, p)[Len(s) + 1] = p
    OBVIOUS
  <2>2. \A i \in 1..(Len(s) + 1) : i \in 1..Len(s) \/ i = Len(s) + 1
    BY <2>1
  <2> QED
    BY <2>1, <2>2 DEF Packets
<1>4. ASSUME NEW s \in Seq(Packet), NEW r \in Seq(Packet)
      PROVE  Packets(s \o r) \subseteq Packets(s) \cup Packets(r)
  <2>1. /\ Len(s \o r) = Len(s) + Len(r) /\ Len(s) \in Nat /\ Len(r) \in Nat
        /\ \A i \in 1..(Len(s) + Len(r)) :
            (s \o r)[i] = IF i <= Len(s) THEN s[i] ELSE r[i - Len(s)]
    BY ConcatProperties
  <2> SUFFICES ASSUME NEW i \in 1..(Len(s) + Len(r))
               PROVE  (s \o r)[i] \in Packets(s) \cup Packets(r)
    BY <2>1 DEF Packets
  <2>2. CASE i <= Len(s)
    <3>1. i \in 1..Len(s) /\ (s \o r)[i] = s[i]
      BY <2>1, <2>2
    <3> QED
      BY <3>1 DEF Packets
  <2>3. CASE ~(i <= Len(s))
    <3>1. i - Len(s) \in 1..Len(r) /\ (s \o r)[i] = r[i - Len(s)]
      BY <2>1, <2>3
    <3> QED
      BY <3>1 DEF Packets
  <2> QED
    BY <2>2, <2>3
<1>5. Packets(<<>>) = {} /\ \A p : Packets(<<p>>) = {p}
  BY DEF Packets
<1> QED
  BY <1>1, <1>2, <1>3, <1>4, <1>5

\* The last command that may have reached the device.
Reached == IF pc \in {"wrap", "send"} THEN cmd - 1 ELSE cmd

\* No packet has been lost or repeated since the start.
Faultless == faults.loss + faults.dup = 0

SameFaults ==
    /\ faults'.loss = faults.loss
    /\ faults'.dup = faults.dup
    /\ faults'.dupOfZero = faults.dupOfZero

\* A step that touches no packet.
Still ==
    /\ UNCHANGED <<mRecvMsg, pkgSeq, cb, link, via, mixed, quiet, cmd>>
    /\ hasError => hasError'
    /\ SameFaults
    /\ Reached' \in {Reached, cmd}
    /\ pc' \in {"wrap", "send"} => pc \in {"wrap", "send"}
    /\ pc' # "idle" => pc # "idle"
    /\ answered' = answered \/ CopyResponse

\* A step that puts a reply on a link.
Sends ==
    /\ Transmit
    /\ pc = "send" /\ pc' \in {"sent", "idle"}
    /\ UNCHANGED <<fido, cb, quiet, cmd, answered, faults>>

\* A step that empties a link.
Drops ==
    /\ \E c \in Conns : link' = [link EXCEPT ![c] = <<>>]
    /\ UNCHANGED <<fido, cb, via, mixed, quiet, cmd, answered, pc, faults>>

\* The steps, by what they do to the packets.
LEMMA Effects ==
    ASSUME TypeInv, [Next]_vars
    PROVE  \/ Still \/ SendClear \/ Sends \/ RecvCallBack \/ DuplicatePacket \/ LosePacket
           \/ MergePackage \/ Drops
<1> USE DEF fido, device, caller, wire
<1>0. TypeOK
  BY DEF TypeInv
<1>1. CASE SendNotConnected
  BY <1>1 DEF SendNotConnected, Return, Still, SameFaults, Reached
<1>2. CASE SendWrap \/ WaitForReceive
  BY <1>2 DEF SendWrap, WaitForReceive, Still, SameFaults, Reached
<1>3. CASE SendApdu
  BY <1>3 DEF SendApdu, Sends
<1>4. CASE SendApduFails
  <2>1. CASE UNCHANGED wire
    BY <1>4, <2>1 DEF SendApduFails, Return, Still, SameFaults, Reached
  <2>2. CASE Transmit
    BY <1>4, <2>2 DEF SendApduFails, Return, Sends
  <2> QED
    BY <1>4, <2>1, <2>2 DEF SendApduFails
<1>5. CASE Notified \/ Timeout \/ SpuriousWakeup
  <2>1. /\ UNCHANGED <<mRecvMsg, pkgSeq, cb, link, via, mixed, quiet, cmd, answered, hasError>>
        /\ pc = "wait" /\ pc' \in {"check", "idle"}
    BY <1>5 DEF Notified, Timeout, SpuriousWakeup, AfterWait, Return
  <2>2. SameFaults
    <3>1. CASE UNCHANGED faults
      BY <3>1 DEF SameFaults
    <3>2. CASE SpuriousWakeup
      <4>1. faults \in Faults /\ faults' = [faults EXCEPT !.spurious = @ + 1]
        BY <3>2 DEF SpuriousWakeup, TypeInv, TypeOK
      <4> QED
        BY <4>1 DEF SameFaults, Faults
    <3> QED
      BY <1>5, <3>1, <3>2 DEF Notified, Timeout
  <2> QED
    BY <2>1, <2>2 DEF Still, Reached
<1>6. CASE CheckResponse
  <2>1. /\ UNCHANGED <<mRecvMsg, pkgSeq, cb, link, via, mixed, quiet, cmd, answered, faults>>
        /\ hasError => hasError'
        /\ pc = "check" /\ pc' \in {"copy", "idle"}
    BY <1>6 DEF CheckResponse, Return
  <2> QED
    BY <2>1 DEF Still, SameFaults, Reached
<1>7. CASE CopyResponse
  <2>1. /\ UNCHANGED <<mRecvMsg, pkgSeq, cb, link, via, mixed, quiet, cmd, faults, hasError>>
        /\ pc = "copy" /\ pc' \in {"idle", "overrun"}
    BY <1>7 DEF CopyResponse, Return
  <2> QED
    BY <1>7, <2>1 DEF Still, SameFaults, Reached
<1>8. CASE DiscCallBack \/ Connect
  BY <1>8 DEF DiscCallBack, Connect, Still, SameFaults, Reached
<1>9. CASE LinkDown
  <2>1. PICK c \in up : Close(c)
    BY <1>9 DEF LinkDown
  <2>2. c \in Conns /\ link' = [link EXCEPT ![c] = <<>>] /\ UNCHANGED <<via, mixed>>
    BY <1>0, <2>1, ConnsTypes DEF Close
  <2> QED
    BY <1>9, <2>2 DEF LinkDown, Drops
<1>10. CASE Disconnect
  <2>1. PICK c \in 1..conns : Forget(c)
    BY <1>10 DEF Disconnect
  <2>2. CASE UNCHANGED wire
    BY <2>1, <2>2 DEF Forget, Still, SameFaults, Reached
  <2>3. CASE Close(c)
    <3>1. c \in Conns /\ link' = [link EXCEPT ![c] = <<>>] /\ UNCHANGED <<via, mixed>>
      BY <1>0, <2>3, ConnsTypes DEF Close
    <3> QED
      BY <2>1, <3>1 DEF Forget, Drops
  <2> QED
    BY <2>1, <2>2, <2>3 DEF Forget
<1>11. CASE UNCHANGED vars
  BY <1>11 DEF vars, Still, SameFaults, Reached
<1> QED
  BY <1>1, <1>2, <1>3, <1>4, <1>5, <1>6, <1>7, <1>8, <1>9, <1>10, <1>11
     DEF Next, SendData, BLEThread, Environment

\* The links, one by one.
LEMMA SendsLink ==
    ASSUME TypeOK, Transmit
    PROVE  /\ handle \in Conns
           /\ \E r \in DeviceReplies(cmd) :
                /\ r \in Seq(Packet)
                /\ link'[handle] = link[handle] \o r
           /\ \A c \in Conns : c # handle => link'[c] = link[c]
<1>1. handle \in Conns
  BY ConnsTypes DEF Transmit, IsConn
<1>2. PICK r \in DeviceReplies(cmd) : link' = [link EXCEPT ![handle] = @ \o r]
  BY DEF Transmit
<1>3. r \in Seq(Packet)
  BY RepliesArePackets DEF TypeOK, CallerTypes
<1> QED
  BY <1>1, <1>2, <1>3 DEF TypeOK, WireTypes

LEMMA TakesLink ==
    ASSUME TypeOK
    PROVE  /\ RecvCallBack =>
                \E c \in Conns : /\ link[c] # <<>> /\ Receive(Head(link[c]))
                                 /\ link'[c] = Tail(link[c])
                                 /\ \A d \in Conns : d # c => link'[d] = link[d]
           /\ LosePacket =>
                \E c \in Conns : /\ link[c] # <<>> /\ link'[c] = Tail(link[c])
                                 /\ \A d \in Conns : d # c => link'[d] = link[d]
<1>1. ASSUME NEW c \in Conns, link' = [link EXCEPT ![c] = Tail(@)]
      PROVE  link'[c] = Tail(link[c]) /\ \A d \in Conns : d # c => link'[d] = link[d]
  BY <1>1 DEF TypeOK, WireTypes
<1>2. ASSUME RecvCallBack
      PROVE  \E c \in Conns : /\ link[c] # <<>> /\ Receive(Head(link[c]))
                              /\ link'[c] = Tail(link[c])
                              /\ \A d \in Conns : d # c => link'[d] = link[d]
  <2>1. PICK c \in Conns : /\ link[c] # <<>>
                           /\ Receive(Head(link[c]))
                           /\ link' = [link EXCEPT ![c] = Tail(@)]
    BY <1>2 DEF RecvCallBack
  <2> QED
    BY <1>1, <2>1
<1>3. ASSUME LosePacket
      PROVE  \E c \in Conns : /\ link[c] # <<>> /\ link'[c] = Tail(link[c])
                              /\ \A d \in Conns : d # c => link'[d] = link[d]
  <2>1. PICK c \in Conns : link[c] # <<>> /\ link' = [link EXCEPT ![c] = Tail(@)]
    BY <1>3 DEF LosePacket
  <2> QED
    BY <1>1, <2>1
<1> QED
  BY <1>2, <1>3

LEMMA DropsLink ==
    ASSUME TypeOK, Drops
    PROVE  \A c \in Conns : link'[c] = link[c] \/ link'[c] = <<>>
BY DEF Drops, TypeOK, WireTypes

-----------------------------------------------------------------------------
(* One line of packets: the exchanges in which they come over one connection *)

\* Packets are on their way over one connection at most.
Lone == \A c, d \in Conns : link[c] # <<>> /\ link[d] # <<>> => c = d

NoneComes == \A c \in Conns : link[c] = <<>>

\* So it is on quiet links, and until packets come over two connections at once.
OneLine ==
    /\ quiet \/ ~mixed => Lone
    /\ quiet /\ pc \in {"wrap", "send"} => NoneComes

LEMMA OneLineInit == Init => OneLine
BY DEF Init, OneLine, Lone, NoneComes

LEMMA OneLineNext == TypeInv /\ OneLine /\ [Next]_vars => OneLine'
<1> SUFFICES ASSUME TypeInv, OneLine, [Next]_vars PROVE OneLine'
  OBVIOUS
<1>1. TypeOK
  BY DEF TypeInv
<1>2. ASSUME \A c \in Conns : link'[c] # <<>> => link[c] # <<>>,
             UNCHANGED <<quiet, mixed>>, pc' \in {"wrap", "send"} => pc \in {"wrap", "send"}
      PROVE  OneLine'
  BY <1>2 DEF OneLine, Lone, NoneComes
<1>3. CASE Still \/ MergePackage \/ DuplicatePacket
  <2>1. UNCHANGED <<link, quiet, mixed>> /\ (pc' \in {"wrap", "send"} => pc \in {"wrap", "send"})
    BY <1>3 DEF Still, MergePackage, MergeAndNotify, DuplicatePacket, wire, caller
  <2> QED
    BY <1>2, <2>1
<1>4. CASE SendClear
  <2>1. UNCHANGED <<link, mixed>> /\ quiet' = Quiet
    BY <1>4 DEF SendClear, wire
  <2>2. quiet' => NoneComes' /\ Lone'
    BY <2>1 DEF Quiet, NoneComes, Lone
  <2>3. ~mixed' => Lone'
    BY <2>1 DEF OneLine, Lone
  <2> QED
    BY <2>2, <2>3 DEF OneLine
<1>5. CASE Sends
  <2>1. quiet' = quiet /\ pc = "send" /\ pc' \notin {"wrap", "send"}
    BY <1>5 DEF Sends
  <2>2. quiet' => Lone'
    <3>1. quiet => \A c \in Conns : c # handle => link'[c] = <<>>
      BY <1>1, <1>5, <2>1, SendsLink DEF OneLine, NoneComes, Sends
    <3> QED
      BY <2>1, <3>1 DEF Lone
  <2>3. ~mixed' => Lone'
    <3>1. ~mixed' => ~\E c, d \in Conns : c # d /\ <<>> \notin {link'[c], link'[d]}
      BY <1>5, Zenon DEF Sends, Transmit
    <3> QED
      BY <3>1 DEF Lone
  <2> QED
    BY <2>1, <2>2, <2>3 DEF OneLine
<1>6. CASE RecvCallBack \/ LosePacket
  <2>1. UNCHANGED <<quiet, mixed, pc>>
    BY <1>6 DEF RecvCallBack, LosePacket, caller
  <2>2. PICK c \in Conns : /\ link[c] # <<>>
                           /\ \A d \in Conns : d # c => link'[d] = link[d]
    BY <1>1, <1>6, TakesLink
  <2> QED
    BY <1>2, <2>1, <2>2
<1>7. CASE Drops
  <2>1. UNCHANGED <<quiet, mixed, pc>>
    BY <1>7 DEF Drops
  <2> QED
    BY <1>1, <1>2, <1>7, <2>1, DropsLink
<1> QED
  BY <1>3, <1>4, <1>5, <1>6, <1>7, Effects

\* The packets on their way, then.
LineOf(f) == IF \E c \in Conns : f[c] # <<>>
             THEN f[CHOOSE c \in Conns : f[c] # <<>>]
             ELSE <<>>

Line == LineOf(link)

LEMMA LineOfOne ==
    ASSUME NEW f, NEW c \in Conns, \A d \in Conns : f[d] # <<>> => d = c
    PROVE  LineOf(f) = f[c]
<1>1. CASE f[c] = <<>>
  <2>1. ~\E d \in Conns : f[d] # <<>>
    BY <1>1
  <2> QED
    BY <1>1, <2>1 DEF LineOf
<1>2. CASE f[c] # <<>>
  <2> DEFINE e == CHOOSE d \in Conns : f[d] # <<>>
  <2>1. e \in Conns /\ f[e] # <<>>
    BY <1>2
  <2>2. e = c
    BY <2>1
  <2>3. LineOf(f) = f[e]
    BY <1>2 DEF LineOf
  <2> QED
    BY <2>2, <2>3
<1> QED
  BY <1>1, <1>2

LEMMA LineOfNone ==
    ASSUME NEW f, \A c \in Conns : f[c] = <<>>
    PROVE  LineOf(f) = <<>>
BY DEF LineOf

LEMMA LineTypes ==
    ASSUME TypeOK
    PROVE  /\ Line \in Seq(Packet)
           /\ Line # <<>> => \E c \in Conns : link[c] # <<>> /\ Line = link[c]
           /\ Line = <<>> => NoneComes
<1>1. CASE NoneComes
  <2>1. Line = <<>>
    BY <1>1, LineOfNone DEF Line, NoneComes
  <2> QED
    BY <1>1, <2>1
<1>2. CASE ~NoneComes
  <2> DEFINE e == CHOOSE c \in Conns : link[c] # <<>>
  <2>1. \E c \in Conns : link[c] # <<>>
    BY <1>2 DEF NoneComes
  <2>2. e \in Conns /\ link[e] # <<>>
    BY <2>1
  <2>3. Line = link[e]
    BY <2>1 DEF Line, LineOf
  <2> HIDE DEF e
  <2> QED
    BY <2>2, <2>3, ConnsTypes
<1> QED
  BY <1>1, <1>2

\* How the steps change it.
LEMMA LineSends ==
    ASSUME TypeOK, Lone, Lone', Transmit
    PROVE  \E r \in DeviceReplies(cmd) : r \in Seq(Packet) /\ Line' = Line \o r
<1>1. handle \in Conns /\ \A c \in Conns : c # handle => link'[c] = link[c]
  BY SendsLink
<1>2. PICK r \in DeviceReplies(cmd) : r \in Seq(Packet) /\ link'[handle] = link[handle] \o r
  BY SendsLink
<1>3. link[handle] \in Seq(Packet)
  BY <1>1, ConnsTypes
<1>4. CASE r = <<>>
  <2>1. link'[handle] = link[handle]
    BY <1>2, <1>3, <1>4
  <2>2. \A c \in Conns : link'[c] = link[c]
    BY <1>1, <2>1
  <2>3. Line' = Line
    <3>1. CASE NoneComes
      <4>1. Line = <<>>
        BY <3>1, LineOfNone DEF Line, NoneComes
      <4>2. LineOf(link') = <<>>
        BY <3>1, <2>2, LineOfNone DEF NoneComes
      <4> QED
        BY <4>1, <4>2 DEF Line
    <3>2. CASE ~NoneComes
      <4>1. PICK c \in Conns : link[c] # <<>>
        BY <3>2 DEF NoneComes
      <4>2. \A d \in Conns : link[d] # <<>> => d = c
        BY <4>1 DEF Lone
      <4>3. \A d \in Conns : link'[d] # <<>> => d = c
        BY <2>2, <4>2
      <4>4. Line = link[c]
        BY <4>2, LineOfOne DEF Line
      <4>5. LineOf(link') = link'[c]
        BY <4>3, LineOfOne
      <4> QED
        BY <2>2, <4>4, <4>5 DEF Line
    <3> QED
      BY <3>1, <3>2
  <2>4. Line \o r = Line
    BY <1>4, LineTypes
  <2> QED
    BY <1>2, <2>3, <2>4
<1>5. CASE r # <<>>
  <2>1. link'[handle] # <<>>
    BY <1>2, <1>3, <1>5
  <2>2. \A d \in Conns : link'[d] # <<>> => d = handle
    BY <1>1, <2>1 DEF Lone
  <2>3. \A d \in Conns : link[d] # <<>> => d = handle
    BY <1>1, <2>2
  <2>4. Line = link[handle]
    BY <1>1, <2>3, LineOfOne DEF Line
  <2>5. LineOf(link') = link'[handle]
    BY <1>1, <2>2, LineOfOne
  <2> QED
    BY <1>2, <2>4, <2>5 DEF Line
<1> QED
  BY <1>4, <1>5

LEMMA LineTakes ==
    ASSUME TypeOK, Lone, NEW c \in Conns, link[c] # <<>>, link'[c] = Tail(link[c]),
           \A d \in Conns : d # c => link'[d] = link[d]
    PROVE  Line = link[c] /\ Line' = Tail(Line)
<1>1. \A d \in Conns : link[d] # <<>> => d = c
  BY DEF Lone
<1>2. \A d \in Conns : link'[d] # <<>> => d = c
  BY <1>1
<1>3. Line = link[c]
  BY <1>1, LineOfOne DEF Line
<1>4. LineOf(link') = link'[c]
  BY <1>2, LineOfOne
<1> QED
  BY <1>3, <1>4 DEF Line

\* On one line, a packet is received, repeated or lost at its front.
LEMMA LineSteps ==
    ASSUME TypeOK, Lone
    PROVE  /\ RecvCallBack => Line # <<>> /\ Receive(Head(Line)) /\ Line' = Tail(Line)
           /\ DuplicatePacket => Line # <<>> /\ Receive(Head(Line)) /\ Line' = Line
           /\ LosePacket => Line # <<>> /\ Line' = Tail(Line)
           /\ UNCHANGED link => Line' = Line
           /\ Drops => Line' = Line \/ Line' = <<>>
<1>1. UNCHANGED link => Line' = Line
  BY DEF Line
<1>2. ASSUME RecvCallBack
      PROVE  Line # <<>> /\ Receive(Head(Line)) /\ Line' = Tail(Line)
  <2>1. PICK c \in Conns : /\ link[c] # <<>> /\ Receive(Head(link[c]))
                           /\ link'[c] = Tail(link[c])
                           /\ \A d \in Conns : d # c => link'[d] = link[d]
    BY <1>2, TakesLink
  <2>2. Line = link[c] /\ Line' = Tail(Line)
    BY <2>1, LineTakes
  <2> QED
    BY <2>1, <2>2
<1>3. ASSUME LosePacket
      PROVE  Line # <<>> /\ Line' = Tail(Line)
  <2>1. PICK c \in Conns : /\ link[c] # <<>> /\ link'[c] = Tail(link[c])
                           /\ \A d \in Conns : d # c => link'[d] = link[d]
    BY <1>3, TakesLink
  <2>2. Line = link[c] /\ Line' = Tail(Line)
    BY <2>1, LineTakes
  <2> QED
    BY <2>1, <2>2
<1>4. ASSUME DuplicatePacket
      PROVE  Line # <<>> /\ Receive(Head(Line)) /\ Line' = Line
  <2>1. PICK c \in Conns : link[c] # <<>> /\ Receive(Head(link[c]))
    BY <1>4 DEF DuplicatePacket
  <2>2. \A d \in Conns : link[d] # <<>> => d = c
    BY <2>1 DEF Lone
  <2>3. Line = link[c]
    BY <2>2, LineOfOne DEF Line
  <2> QED
    BY <1>1, <1>4, <2>1, <2>3 DEF DuplicatePacket, wire
<1>5. ASSUME Drops
      PROVE  Line' = Line \/ Line' = <<>>
  <2>1. PICK c \in Conns : link' = [link EXCEPT ![c] = <<>>]
    BY <1>5 DEF Drops
  <2>2. link'[c] = <<>> /\ \A d \in Conns : d # c => link'[d] = link[d]
    BY <2>1 DEF TypeOK, WireTypes
  <2>3. CASE link[c] = <<>>
    <3>1. link' = link
      BY <2>1, <2>3 DEF TypeOK, WireTypes
    <3> QED
      BY <1>1, <3>1
  <2>4. CASE link[c] # <<>>
    <3>1. \A d \in Conns : link[d] # <<>> => d = c
      BY <2>4 DEF Lone
    <3>2. \A d \in Conns : link'[d] = <<>>
      BY <2>2, <3>1
    <3>3. LineOf(link') = <<>>
      BY <3>2, LineOfNone
    <3> QED
      BY <3>3 DEF Line
  <2> QED
    BY <2>3, <2>4
<1> QED
  BY <1>1, <1>2, <1>3, <1>4, <1>5

\* The packets on their way, over whatever connections.
OnLinks == UNION {Packets(link[c]) : c \in Conns}

LEMMA LinkPackets ==
    ASSUME TypeOK
    PROVE  /\ \A c \in Conns : link[c] # <<>> => /\ Head(link[c]) \in Packet
                                                /\ Head(link[c]) \in OnLinks
           /\ Packets(Line) \subseteq OnLinks
           /\ link' = link => OnLinks' = OnLinks
           /\ RecvCallBack \/ DuplicatePacket \/ LosePacket \/ Drops => OnLinks' \subseteq OnLinks
<1>1. \A c \in Conns : link[c] \in Seq(Packet)
  BY ConnsTypes
<1>2. ASSUME NEW c \in Conns, link[c] # <<>>
      PROVE  Head(link[c]) \in Packet /\ Head(link[c]) \in OnLinks
  <2>1. Head(link[c]) \in Packets(link[c])
    BY <1>1, <1>2, PacketsOf
  <2> QED
    BY <1>1, <1>2, <2>1, HeadTailTypes DEF OnLinks
<1>3. Packets(Line) \subseteq OnLinks
  BY LineTypes, PacketsOf DEF OnLinks
<1>4. link' = link => OnLinks' = OnLinks
  BY DEF OnLinks, Packets
<1>5. ASSUME \A c \in Conns : Packets(link'[c]) \subseteq Packets(link[c])
      PROVE  OnLinks' \subseteq OnLinks
  <2>1. OnLinks' = UNION {Packets(link'[c]) : c \in Conns}
    BY DEF OnLinks, Packets
  <2> QED
    BY <1>5, <2>1 DEF OnLinks
<1>6. ASSUME RecvCallBack \/ LosePacket
      PROVE  OnLinks' \subseteq OnLinks
  <2>1. PICK c \in Conns : /\ link[c] # <<>> /\ link'[c] = Tail(link[c])
                           /\ \A d \in Conns : d # c => link'[d] = link[d]
    BY <1>6, TakesLink
  <2>2. Packets(link'[c]) \subseteq Packets(link[c])
    BY <1>1, <2>1, PacketsOf
  <2> QED
    BY <1>5, <2>1, <2>2
<1>7. ASSUME Drops
      PROVE  OnLinks' \subseteq OnLinks
  <2>1. \A c \in Conns : link'[c] = link[c] \/ link'[c] = <<>>
    BY <1>7, DropsLink
  <2> QED
    BY <1>5, <2>1, PacketsOf
<1>8. DuplicatePacket => link' = link
  BY DEF DuplicatePacket, wire
<1> QED
  BY <1>2, <1>3, <1>4, <1>6, <1>7, <1>8

\* Once packets have come over two connections, they have.
LEMMA MixedStays == TypeInv /\ [Next]_vars => (mixed => mixed')
<1> SUFFICES ASSUME TypeInv, [Next]_vars, mixed PROVE mixed'
  OBVIOUS
<1>1. CASE Sends
  BY <1>1, Zenon DEF Sends, Transmit
<1>2. CASE ~Sends
  BY <1>2, Effects DEF Still, SendClear, RecvCallBack, DuplicatePacket, LosePacket, MergePackage,
     MergeAndNotify, Drops, wire
<1> QED
  BY <1>1, <1>2

-----------------------------------------------------------------------------
(* Answers that belong to their command *)

LEMMA FreshInit == Init => FreshInv
  BY DEF Init, FreshInv, OwnPackets, EmptyMsg

LEMMA FreshNext == TypeInv /\ FreshInv /\ [Next]_vars => FreshInv'
<1> SUFFICES ASSUME TypeInv, FreshInv, [Next]_vars PROVE FreshInv'
  OBVIOUS
<1>t. /\ mRecvMsg.chunks \in Seq(Packet)
      /\ \A c \in Conns : link[c] \in Seq(Packet)
      /\ cb \in Packet
      /\ cmd \in 0..MaxCmds
      /\ TypeOK
  BY ConnsTypes DEF TypeInv, TypeOK, FidoTypes, CallerTypes, Msg
<1> DEFINE OwnLinks == \A c \in Conns : OwnPackets(link[c])
<1>a. ASSUME UNCHANGED <<quiet, cmd, cb, mRecvMsg, answer>>,
             OwnLinks => OwnLinks',
             UNCHANGED result \/ result' # "OK"
      PROVE  FreshInv'
  BY <1>a DEF FreshInv, OwnPackets
<1>b. ASSUME UNCHANGED cmd, NEW c \in Conns, link'[c] = link[c] \/ link'[c] = <<>>,
             OwnPackets(link[c])
      PROVE  OwnPackets(link[c])'
  BY <1>b DEF OwnPackets
<1>c. UNCHANGED <<link, cmd>> => (OwnLinks => OwnLinks')
  BY DEF OwnPackets
<1>h. (RecvCallBack \/ LosePacket) => (OwnLinks => OwnLinks')
  <2> SUFFICES ASSUME RecvCallBack \/ LosePacket, OwnLinks PROVE OwnLinks'
    OBVIOUS
  <2>1. cmd' = cmd
    BY DEF RecvCallBack, LosePacket, caller
  <2>2. PICK c \in Conns : /\ link[c] # <<>> /\ link'[c] = Tail(link[c])
                           /\ \A d \in Conns : d # c => link'[d] = link[d]
    BY <1>t, TakesLink
  <2>3. OwnPackets(link[c])
    OBVIOUS
  <2>4. OwnPackets(link[c])'
    BY <1>t, <2>1, <2>2, <2>3, HeadTailTypes DEF OwnPackets
  <2> QED
    BY <2>1, <2>2, <2>4 DEF OwnPackets
<1>r. Transmit /\ UNCHANGED cmd => (OwnLinks => OwnLinks')
  <2> SUFFICES ASSUME Transmit, UNCHANGED cmd, OwnLinks PROVE OwnLinks'
    OBVIOUS
  <2>1. handle \in Conns /\ \A c \in Conns : c # handle => link'[c] = link[c]
    BY <1>t, SendsLink
  <2>2. PICK r \in DeviceReplies(cmd) : r \in Seq(Packet) /\ link'[handle] = link[handle] \o r
    BY <1>t, SendsLink
  <2>3. \A i \in 1..Len(r) : r[i].cmd = cmd
    BY <1>t, RepliesArePackets
  <2>4. OwnPackets(link[handle]) /\ link[handle] \in Seq(Packet)
    BY <1>t, <2>1
  <2> DEFINE l == link[handle]
  <2>5. ASSUME NEW i \in 1..Len(l \o r) PROVE (l \o r)[i].cmd = cmd
    <3>1. l \in Seq(Packet) /\ \A m \in 1..Len(l) : l[m].cmd = cmd
      BY <2>4 DEF OwnPackets
    <3> HIDE DEF l
    <3>2. /\ Len(l) \in Nat /\ Len(r) \in Nat
          /\ Len(l \o r) = Len(l) + Len(r)
          /\ \A m \in 1..(Len(l) + Len(r)) :
                (l \o r)[m] = IF m <= Len(l) THEN l[m] ELSE r[m - Len(l)]
      BY <2>2, <3>1, ConcatProperties
    <3>3. CASE i <= Len(l)
      BY <2>5, <3>1, <3>2, <3>3
    <3>4. CASE ~(i <= Len(l))
      <4>1. i - Len(l) \in 1..Len(r)
        BY <2>5, <3>2, <3>4
      <4> QED
        BY <2>3, <2>5, <3>2, <3>4, <4>1
    <3> QED
      BY <3>3, <3>4
  <2>6. /\ \A m \in 1..Len(link'[handle]) : link'[handle][m].cmd = cmd'
        /\ \A c \in Conns : \A m \in 1..Len(link[c]) : link[c][m].cmd = cmd
    BY <2>2, <2>5 DEF OwnPackets
  <2>7. \A c \in Conns : \A m \in 1..Len(link'[c]) : link'[c][m].cmd = cmd'
    BY <2>1, <2>6
  <2> QED
    BY <2>7 DEF OwnPackets
<1> HIDE DEF OwnLinks
<1>1. CASE SendNotConnected
  BY <1>1 DEF SendNotConnected, Return, FreshInv, OwnPackets, fido, wire
<1>2. CASE SendClear
  <2>1. mRecvMsg'.chunks = <<>> /\ result' = "none"
    BY <1>2 DEF SendClear, EmptyMsg
  <2>2. quiet' => (\A c \in Conns : link'[c] = <<>>) /\ cb' = NoPacket
    BY <1>2 DEF SendClear, Quiet, wire
  <2> QED
    BY <2>1, <2>2 DEF FreshInv, OwnPackets
<1>3. CASE SendWrap \/ WaitForReceive \/ Notified \/ SpuriousWakeup \/ Timeout \/ CheckResponse
  BY <1>3, <1>a, <1>c DEF SendWrap, WaitForReceive, Notified, SpuriousWakeup, AfterWait,
     Timeout, CheckResponse, Return, fido, wire
<1>4. CASE SendApdu \/ SendApduFails
  <2>1. UNCHANGED <<quiet, cmd, cb, mRecvMsg, answer>> /\ (UNCHANGED result \/ result' # "OK")
    BY <1>4 DEF SendApdu, SendApduFails, Return, fido
  <2>2. Transmit \/ UNCHANGED link
    BY <1>4 DEF SendApdu, SendApduFails, wire
  <2> QED
    BY <2>1, <2>2, <1>a, <1>c, <1>r
<1>5. CASE CopyResponse
  BY <1>5 DEF CopyResponse, Return, FreshInv, OwnPackets, fido, wire
<1>6. ASSUME NEW c \in Conns, link[c] # <<>>, Receive(Head(link[c])),
             OwnLinks => OwnLinks',
             UNCHANGED <<quiet, caller>>
      PROVE  FreshInv'
  <2>1. UNCHANGED <<mRecvMsg, cmd, answer, result>>
    BY <1>6 DEF Receive, fido, caller
  <2>2. cb' = cb \/ cb' = Head(link[c])
    BY <1>6 DEF Receive
  <2>3. OwnPackets(link[c]) => Head(link[c]).cmd = cmd
    <3>1. 1 \in 1..Len(link[c]) /\ Head(link[c]) = link[c][1]
      BY <1>6, <1>t, HeadTailTypes
    <3> QED
      BY <3>1 DEF OwnPackets
  <2>4. quiet => OwnLinks /\ OwnPackets(link[c])
    BY DEF FreshInv, OwnLinks
  <2>5. quiet' => \A d \in Conns : OwnPackets(link[d])'
    BY <1>6, <2>4 DEF OwnLinks
  <2> QED
    BY <1>6, <2>1, <2>2, <2>3, <2>4, <2>5 DEF FreshInv, OwnPackets
<1>7. CASE RecvCallBack
  BY <1>6, <1>7, <1>h DEF RecvCallBack, caller
<1>8. CASE DuplicatePacket
  BY <1>6, <1>8, <1>c DEF DuplicatePacket, caller, wire
<1>9. CASE LosePacket
  BY <1>9, <1>a, <1>h DEF LosePacket, fido, caller
<1>10. CASE MergePackage
  <2>1. mRecvMsg'.chunks = Append(mRecvMsg.chunks, cb)
    BY <1>10 DEF MergePackage, MergeAndNotify
  <2>2. cb # NoPacket /\ cb' = NoPacket /\ UNCHANGED <<link, cmd, answer, result, quiet>>
    BY <1>10 DEF MergePackage, MergeAndNotify, caller, wire
  <2>3. cb.cmd = cmd /\ OwnPackets(mRecvMsg.chunks) => OwnPackets(mRecvMsg.chunks)'
    BY <1>t, <2>1, <2>2, AppendProperties DEF OwnPackets
  <2> QED
    BY <2>2, <2>3 DEF FreshInv, OwnPackets
<1>11. CASE LinkDown \/ Disconnect
  <2>1. UNCHANGED <<quiet, cmd, cb, mRecvMsg, answer, result>>
    BY <1>11 DEF LinkDown, Disconnect, Forget, fido, caller
  <2>2. UNCHANGED link \/ \E c \in Conns : link' = [link EXCEPT ![c] = <<>>]
    <3>1. up \subseteq Conns
      BY <1>t, ConnsTypes
    <3> QED
      BY <1>11, <3>1 DEF LinkDown, Disconnect, Forget, Close, wire
  <2>3. \A c \in Conns : link'[c] = link[c] \/ link'[c] = <<>>
    BY <1>t, <2>2 DEF TypeOK, WireTypes
  <2>4. OwnLinks => OwnLinks'
    BY <1>b, <2>1, <2>3 DEF OwnLinks
  <2> QED
    BY <1>a, <2>1, <2>4
<1>12. CASE DiscCallBack \/ Connect
  BY <1>12, <1>a, <1>c DEF DiscCallBack, Connect, fido, caller
<1>13. CASE UNCHANGED vars
  BY <1>13, <1>a, <1>c DEF vars, fido, caller, wire
<1> QED
  BY <1>1, <1>2, <1>3, <1>4, <1>5, <1>7, <1>8, <1>9, <1>10, <1>11, <1>12, <1>13
     DEF Next, SendData, BLEThread, Environment

\* An exchange that starts on a quiet link returns packets of its own command
\* only.
THEOREM AnswersAreFresh == Spec => []AnswerFresh
<1>1. FreshInv => AnswerFresh
  BY DEF FreshInv, AnswerFresh, OwnPackets
<1> QED
  BY FreshInit, FreshNext, TypeInvCorrect, <1>1, PTL DEF Spec
-----------------------------------------------------------------------------
(* The answers *)

\* The layout of an answer: full packets, then one with what is left, numbered
\* in turn.
LEMMA AnswerLayout ==
    ASSUME NEW k \in 0..MaxCmds, NEW R \in Responses(k)
    PROVE  /\ R \in Seq(Packet) /\ Len(R) \in 1..129
           /\ Continuations(R[1].total) = Len(R) - 1
           /\ R[1].byte0 = CMD_MSG
           /\ \A i \in 2..Len(R) : R[i].byte0 = i - 2
           /\ \A i \in 1..Len(R) : R[i].cmd = k
           /\ \A i \in 1..(Len(R) - 1) : R[i].len = 20
           /\ R[Len(R)].len >= 2 /\ R[Len(R)].len \in Nat
           /\ R[Len(R)].len + 19 * Len(R) = R[1].total + 22
           /\ R[1].total \in Nat /\ R[1].total > 0
           /\ Len(R) = 1 => R[1].len >= 4
<1>1. PICK n \in RespLens, p \in Payloads : R = Response(k, n, p)
  BY DEF Responses
<1>2. n \in Nat /\ 0 < n /\ n <= 2449
  BY TransportAssumption
<1> DEFINE C == Continuations(n)
           last == C + 1
           size == n + FIDO_HEADER_LEN + C
           pkt(i) == [byte0 |-> IF i = 1 THEN CMD_MSG ELSE i - 2,
                      len   |-> IF i = last THEN size - FIDO_BLOCK_SIZE * (last - 1)
                                            ELSE FIDO_BLOCK_SIZE,
                      total |-> IF i = 1 THEN n ELSE IF i = 2 THEN p ELSE 0,
                      cmd   |-> k]
<1>3. C \in Nat /\ C <= 128 /\ 19 * C <= n + 1
  BY <1>2, ContinuationsBound
<1>4. R = [i \in 1..last |-> pkt(i)]
  BY <1>1 DEF Response
<1> HIDE DEF C
<1>5. R \in Seq(Packet) /\ \A i \in 1..Len(R) : R[i].cmd = k
  BY <1>1, ResponseIsPackets
<1>6. Len(R) = C + 1
  BY <1>3, <1>4
<1>7. \A i \in 1..(C + 1) : R[i] = pkt(i)
  BY <1>4
<1>8. /\ R[1].byte0 = CMD_MSG /\ R[1].total = n
      /\ \A i \in 2..(C + 1) : R[i].byte0 = i - 2
      /\ \A i \in 1..C : R[i].len = 20
      /\ R[C + 1].len = n + 3 + C - 20 * C
  <2>1. 1 \in 1..(C + 1) /\ C + 1 \in 1..(C + 1)
    BY <1>3
  <2>2. /\ pkt(1).byte0 = CMD_MSG /\ pkt(1).total = n
        /\ \A i \in 2..(C + 1) : pkt(i).byte0 = i - 2
        /\ \A i \in 1..C : pkt(i).len = 20
        /\ pkt(C + 1).len = n + 3 + C - 20 * C
    BY <1>2, <1>3 DEF FIDO_HEADER_LEN, FIDO_BLOCK_SIZE
  <2>3. \A i \in 2..(C + 1) : i \in 1..(C + 1)
    BY <1>3
  <2>4. \A i \in 1..C : i \in 1..(C + 1)
    BY <1>3
  <2> HIDE DEF pkt
  <2> QED
    BY <1>7, <2>1, <2>2, <2>3, <2>4
<1>9. Continuations(R[1].total) = C
  BY <1>8 DEF C
<1> HIDE DEF pkt
<1>10. /\ Len(R) \in 1..129 /\ Len(R) - 1 = C
       /\ R[Len(R)].len = n + 3 + C - 20 * C
  BY <1>3, <1>6, <1>8
<1>11. /\ R[Len(R)].len >= 2 /\ R[Len(R)].len \in Nat
       /\ R[Len(R)].len + 19 * Len(R) = n + 22
  BY <1>2, <1>3, <1>6, <1>10
<1>12. Len(R) = 1 => R[1].len >= 4
  BY <1>2, <1>3, <1>6, <1>8
<1> QED
  BY <1>2, <1>5, <1>6, <1>8, <1>9, <1>10, <1>11, <1>12

-----------------------------------------------------------------------------
(* No race for the buffer *)

\* Nothing is on the link or in the callback.
Finished == Line = <<>> /\ cb = NoPacket

\* Of the answer R, the first j packets are in the buffer.
Buffered(R, j) ==
    /\ Len(mRecvMsg.chunks) = j
    /\ \A i \in 1..j : mRecvMsg.chunks[i] = R[i]
    /\ mRecvMsg.size = 20 * j

\* The packets of R after the first j are on the link.
Remaining(R, j) ==
    /\ Len(Line) = Len(R) - j
    /\ \A i \in 1..Len(Line) : Line[i] = R[i + j]

\* The number of packet j of an answer, as RecvCallBack has it.
Numbered(j) == pkgSeq = IF j <= 1 THEN 0 ELSE j - 2

\* What is still to come of the reply to the command.
ErrorToCome ==
    /\ mRecvMsg = EmptyMsg /\ cb = NoPacket
    /\ Line = <<ErrorPacket(cmd)>>

KeepAliveToCome(R) ==
    /\ mRecvMsg = EmptyMsg /\ cb = NoPacket /\ pkgSeq = 0
    /\ Len(Line) = Len(R) + 1
    /\ Line[1] = KeepAlive(cmd)
    /\ \A i \in 1..Len(R) : Line[i + 1] = R[i]

Underway(R, j) ==
    /\ Buffered(R, j)
    /\ \/ cb = NoPacket /\ Remaining(R, j) /\ Numbered(j)
       \/ cb = R[j + 1] /\ Remaining(R, j + 1) /\ Numbered(j + 1)

Incomplete ==
    \/ ErrorToCome
    \/ \E R \in Responses(cmd) :
        \/ KeepAliveToCome(R)
        \/ \E j \in 0..(Len(R) - 1) : Underway(R, j)

\* An exchange that began on a quiet link, and that nothing has disturbed.
Undisturbed == quiet /\ ~disturbed /\ pc # "idle"

\* It is woken only when there is nothing to come, or when the link to the device
\* has been given up.
RaceInv ==
    Undisturbed =>
        /\ ~hasError
        /\ pc \in {"wrap", "send"} => Finished /\ mRecvMsg = EmptyMsg /\ pkgSeq = 0
        /\ pc \in {"wrap", "send", "sent"} => ~woken
        /\ pc # "wrap" => cmdHeader = CMD_MSG
        /\ Finished \/ /\ pc \in {"sent", "wait"}
                       /\ woken => ~bConnected
                       /\ Incomplete

\* The status of a buffer that holds the first j packets of an answer.
LEMMA BufferedStatus ==
    ASSUME NEW k \in 0..MaxCmds, NEW R \in Responses(k), NEW j \in 1..Len(R), NEW M,
           Len(M.chunks) = j, M.chunks \in Seq(Packet), M.chunks[1] = R[1],
           M.size = 20 * (j - 1) + R[j].len,
           cmdHeader = CMD_MSG
    PROVE  ResponseStatus(M) = IF j = Len(R) THEN "done" ELSE "receiving"
<1> DEFINE n == R[1].total
<1>1. /\ Len(R) \in 1..129 /\ Continuations(n) = Len(R) - 1
      /\ R[1].byte0 = CMD_MSG
      /\ j < Len(R) => R[j].len = 20
      /\ R[Len(R)].len >= 2 /\ R[Len(R)].len \in Nat
      /\ R[Len(R)].len + 19 * Len(R) = n + 22
      /\ n \in Nat
      /\ Len(R) = 1 => R[1].len >= 4
  BY AnswerLayout
<1>2. M.chunks # <<>> /\ Head(M.chunks) = R[1]
  OBVIOUS
<1> HIDE DEF n
<1>3. CASE j = Len(R)
  <2> DEFINE l == Len(R)
             x == R[Len(R)].len
             c == Continuations(n)
  <2>0. M.size = 20 * (l - 1) + x /\ (l = 1 => x >= 4)
    BY <1>1, <1>3
  <2>1. M.size = n + 3 + c /\ M.size > 3
    <3>1. l \in 1..129 /\ c = l - 1 /\ x >= 2 /\ x \in Nat /\ x + 19 * l = n + 22
      BY <1>1
    <3> HIDE DEF l, x, c
    <3> QED
      BY <1>1, <2>0, <3>1
  <2>2. ~(M.size <= FIDO_HEADER_LEN) /\ n + FIDO_HEADER_LEN + Continuations(n) <= M.size
    BY <1>1, <2>1 DEF FIDO_HEADER_LEN
  <2> QED
    BY <1>1, <1>2, <1>3, <2>2 DEF ResponseStatus, n
<1>4. CASE j # Len(R)
  <2>1. R[j].len = 20 /\ M.size = 20 * j /\ j <= Len(R) - 1
    <3> DEFINE l == Len(R)
               x == R[j].len
               z == M.size
    <3>1. l \in 1..129 /\ j \in 1..l /\ j # l /\ z = 20 * (j - 1) + x
      BY <1>1, <1>4
    <3>2. j < l => x = 20
      BY <1>1
    <3> HIDE DEF l, x, z
    <3>3. j < l
      BY <3>1
    <3>4. x = 20
      BY <3>2, <3>3
    <3>5. z = 20 * j /\ j <= l - 1
      BY <3>1, <3>3, <3>4
    <3> QED
      BY <3>4, <3>5 DEF l, x, z
  <2>2. M.size > 3 /\ n + 3 + Continuations(n) > M.size
    BY <1>1, <2>1
  <2>3. ~(M.size <= FIDO_HEADER_LEN) /\ ~(n + FIDO_HEADER_LEN + Continuations(n) <= M.size)
    BY <1>1, <2>1, <2>2 DEF FIDO_HEADER_LEN
  <2> QED
    BY <1>1, <1>2, <1>4, <2>3 DEF ResponseStatus, n
<1> QED
  BY <1>3, <1>4

LEMMA RaceInit == Init => RaceInv
  BY DEF Init, RaceInv, Undisturbed

\* The reply that the device puts on the empty link.
LEMMA ReplyIncomplete ==
    ASSUME TypeOK, Lone, Lone', Finished, mRecvMsg = EmptyMsg, pkgSeq = 0, pc = "send",
           SendApdu
    PROVE  Finished' \/ Incomplete'
<1>1. /\ UNCHANGED <<mRecvMsg, pkgSeq, cb, cmd>>
      /\ \E r \in DeviceReplies(cmd) : Line' = Line \o r
  BY LineSends DEF SendApdu, fido
<1>2. PICK r \in DeviceReplies(cmd) : Line' = Line \o r
  BY <1>1
<1>3. cmd \in 0..MaxCmds
  BY DEF TypeOK, CallerTypes
<1>4. r \in Seq(Packet)
  BY <1>3, RepliesArePackets
<1>5. Line' = r
  BY <1>2, <1>4 DEF Finished
<1>6. cb' = NoPacket /\ mRecvMsg' = EmptyMsg /\ pkgSeq' = 0 /\ cmd' = cmd
  BY <1>1 DEF Finished
<1>7. CASE r = <<>>
  BY <1>5, <1>6, <1>7 DEF Finished
<1>8. CASE r = <<ErrorPacket(cmd)>>
  BY <1>5, <1>6, <1>8 DEF Incomplete, ErrorToCome, ErrorPacket
<1>9. ASSUME NEW R \in Responses(cmd), r = <<KeepAlive(cmd)>> \o R
      PROVE  Incomplete'
  <2>1. R \in Seq(Packet)
    BY <1>3, AnswerLayout
  <2>2. /\ Len(r) = Len(R) + 1 /\ r[1] = KeepAlive(cmd)
        /\ \A i \in 1..Len(R) : r[i + 1] = R[i]
    BY <1>9, <2>1
  <2>3. KeepAliveToCome(R)'
    BY <1>5, <1>6, <2>2 DEF KeepAliveToCome, KeepAlive
  <2> QED
    BY <1>6, <1>9, <2>3 DEF Incomplete, Responses, Response
<1>10. CASE r \in Responses(cmd)
  <2>1. Len(r) \in 1..129
    BY <1>3, <1>10, AnswerLayout
  <2>2. Buffered(r, 0)' /\ Remaining(r, 0)' /\ Numbered(0)'
    BY <1>5, <1>6, <2>1 DEF Buffered, EmptyMsg, Remaining, Numbered
  <2>3. Underway(r, 0)'
    BY <1>6, <2>2 DEF Underway
  <2>4. 0 \in 0..(Len(r) - 1)
    <3> DEFINE l == Len(r)
    <3>1. l \in 1..129
      BY <2>1
    <3> HIDE DEF l
    <3>2. 0 \in 0..(l - 1)
      BY <3>1
    <3> QED
      BY <3>2 DEF l
  <2> QED
    BY <1>6, <1>10, <2>3, <2>4 DEF Incomplete, Responses, Response
<1> QED
  BY <1>7, <1>8, <1>9, <1>10 DEF DeviceReplies

\* RecvCallBack takes the next packet of the reply, and leaves the rest.
LEMMA ReceiveIncomplete ==
    ASSUME TypeOK, Lone, ~hasError, Incomplete, RecvCallBack
    PROVE  /\ ~hasError'
           /\ Finished' \/ (Incomplete' /\ woken' = woken)
<1>1. /\ cb = NoPacket /\ Line # <<>> /\ Receive(Head(Line))
      /\ Line' = Tail(Line) /\ cmd' = cmd
  BY LineSteps DEF RecvCallBack, caller
<1>2. Line \in Seq(Packet) /\ cmd \in 0..MaxCmds
  BY LineTypes DEF TypeOK, CallerTypes
<1>3. /\ Len(Line') = Len(Line) - 1
      /\ \A i \in 1..(Len(Line) - 1) : Line'[i] = Line[i + 1]
      /\ Head(Line) = Line[1] /\ Len(Line) \in Nat /\ Len(Line) > 0
      /\ Line' \in Seq(Packet)
  BY <1>1, <1>2, HeadTailTypes
<1>4. CASE ErrorToCome
  <2>1. Head(Line).byte0 = CMD_ERROR /\ Line' = <<>>
    BY <1>1, <1>4 DEF ErrorToCome, ErrorPacket
  <2>2. UNCHANGED fido /\ cb' = NoPacket
    BY <1>1, <2>1 DEF Receive, CMD_ERROR, CMD_KEEP_ALIVE
  <2> QED
    BY <2>1, <2>2 DEF Finished, fido
<1>5. ASSUME NEW R \in Responses(cmd), KeepAliveToCome(R)
      PROVE  ~hasError' /\ Incomplete' /\ woken' = woken
  <2>1. Head(Line).byte0 = CMD_KEEP_ALIVE
    BY <1>3, <1>5 DEF KeepAliveToCome, KeepAlive
  <2>2. UNCHANGED <<fido, woken, cb>>
    BY <1>1, <2>1 DEF Receive, CMD_ERROR, CMD_KEEP_ALIVE
  <2>3. /\ mRecvMsg' = EmptyMsg /\ hasError' = hasError /\ pkgSeq' = 0 /\ woken' = woken
        /\ cb' = NoPacket
    BY <1>5, <2>2 DEF fido, KeepAliveToCome
  <2>4. Len(R) \in 1..129
    BY <1>2, AnswerLayout
  <2>5. Len(Line') = Len(R) /\ \A i \in 1..Len(R) : Line'[i] = R[i]
    BY <1>3, <1>5, <2>4 DEF KeepAliveToCome
  <2>6. Buffered(R, 0)' /\ Remaining(R, 0)' /\ Numbered(0)'
    BY <2>3, <2>4, <2>5 DEF Buffered, EmptyMsg, Remaining, Numbered
  <2>7. Underway(R, 0)'
    BY <2>3, <2>6 DEF Underway
  <2>8. 0 \in 0..(Len(R) - 1)
    <3> DEFINE l == Len(R)
    <3>1. l \in 1..129
      BY <2>4
    <3> HIDE DEF l
    <3>2. 0 \in 0..(l - 1)
      BY <3>1
    <3> QED
      BY <3>2 DEF l
  <2>9. Responses(cmd)' = Responses(cmd)
    BY <1>1 DEF Responses, Response
  <2> QED
    BY <2>3, <2>7, <2>8, <2>9 DEF Incomplete
<1>6. ASSUME NEW R \in Responses(cmd), NEW j \in 0..(Len(R) - 1), Underway(R, j)
      PROVE  ~hasError' /\ Incomplete' /\ woken' = woken
  <2>1. /\ Len(R) \in 1..129 /\ R \in Seq(Packet)
        /\ R[1].byte0 = CMD_MSG
        /\ \A i \in 2..Len(R) : R[i].byte0 = i - 2
        /\ \A i \in 1..(Len(R) - 1) : R[i].len = 20
        /\ R[Len(R)].len >= 2
    BY <1>2, AnswerLayout
  <2>2. j \in Nat /\ j + 1 \in 1..Len(R)
    BY <2>1
  <2>3. R[j + 1] # NoPacket
    <3>1. R[j + 1].len = 20 \/ R[j + 1].len >= 2
      BY <2>1, <2>2
    <3> QED
      BY <3>1 DEF NoPacket
  <2>4. Buffered(R, j) /\ Remaining(R, j) /\ Numbered(j)
    BY <1>1, <1>6, <2>3 DEF Underway
  <2>5. Head(Line) = R[j + 1] /\ Len(Line) = Len(R) - j
    <3>1. 1 \in 1..Len(Line) /\ 1 + j = j + 1
      BY <1>3, <2>2
    <3> QED
      BY <1>3, <2>4, <3>1 DEF Remaining
  <2> DEFINE b == R[j + 1].byte0
  <2>6. b = IF j = 0 THEN CMD_MSG ELSE j - 1
    <3>1. j # 0 => j + 1 \in 2..Len(R) /\ j + 1 - 2 = j - 1
      BY <2>2
    <3> QED
      BY <2>1, <2>2, <3>1
  <2> HIDE DEF b
  <2>16. j \in 0..128
    <3> DEFINE l == Len(R)
    <3>1. l \in 1..129 /\ j \in 0..(l - 1)
      BY <2>1
    <3> HIDE DEF l
    <3> QED
      BY <3>1
  <2>7. b \notin {CMD_KEEP_ALIVE, CMD_ERROR}
    BY <2>6, <2>16 DEF CMD_MSG, CMD_KEEP_ALIVE, CMD_ERROR
  <2>8. mRecvMsg.size = 20 * j
    BY <2>4 DEF Buffered
  <2>9. j > 0 => SeqOK(b, pkgSeq)
    BY <2>4, <2>6, <2>16 DEF SeqOK, Numbered
  <2>10. mRecvMsg.size > 0 => SeqOK(b, pkgSeq)
    BY <2>2, <2>8, <2>9
  <2>11. /\ pkgSeq' = IF mRecvMsg.size > 0 THEN b ELSE pkgSeq
         /\ cb' = R[j + 1]
         /\ UNCHANGED <<mRecvMsg, cmdHeader, hasError, woken, early>>
    BY <1>1, <2>5, <2>7, <2>10 DEF Receive, b
  <2>12. Numbered(j + 1)'
    BY <2>2, <2>4, <2>6, <2>8, <2>11 DEF Numbered
  <2>13. Remaining(R, j + 1)'
    <3>1. Len(Line') = Len(R) - (j + 1)
      BY <1>3, <2>1, <2>2, <2>5
    <3>2. ASSUME NEW i \in 1..Len(Line')
          PROVE  Line'[i] = R[i + (j + 1)]
      <4> DEFINE l == Len(Line)
      <4>1. l \in Nat /\ Len(Line') = l - 1 /\ Line'[i] = Line[i + 1]
        BY <1>3, <3>2
      <4>2. i \in 1..(l - 1)
        BY <3>2, <4>1
      <4>3. \A k \in 1..l : Line[k] = R[k + j]
        BY <2>4 DEF Remaining
      <4> HIDE DEF l
      <4>4. i + 1 \in 1..l /\ (i + 1) + j = i + (j + 1)
        BY <2>2, <4>1, <4>2
      <4> QED
        BY <4>1, <4>3, <4>4
    <3> QED
      BY <3>1, <3>2 DEF Remaining
  <2>14. Underway(R, j)'
    BY <2>4, <2>11, <2>12, <2>13 DEF Underway, Buffered
  <2>15. Responses(cmd)' = Responses(cmd)
    BY <1>1 DEF Responses, Response
  <2> QED
    BY <2>11, <2>14, <2>15 DEF Incomplete
<1> QED
  BY <1>4, <1>5, <1>6 DEF Incomplete

\* RecvCallBack merges the packet; a notification means that it was the last.
LEMMA MergeIncomplete ==
    ASSUME TypeOK, ~hasError, Incomplete, cmdHeader = CMD_MSG, MergePackage
    PROVE  /\ ~hasError'
           /\ Finished' \/ (Incomplete' /\ woken' = woken)
<1> DEFINE M == [chunks |-> Append(mRecvMsg.chunks, cb), size |-> mRecvMsg.size + cb.len]
           s == ResponseStatus(M)
<1>1. /\ cb # NoPacket /\ cb' = NoPacket
      /\ mRecvMsg' = M
      /\ hasError' = (hasError \/ s = "badHeader")
      /\ s \notin {"done", "invalid", "badHeader"} => woken' = woken
      /\ UNCHANGED <<pkgSeq, Line, cmd>>
  BY DEF MergePackage, MergeAndNotify, caller, wire, Line
<1>2. /\ cmd \in 0..MaxCmds /\ mRecvMsg.chunks \in Seq(Packet) /\ cb \in Packet
      /\ Line \in Seq(Packet)
  BY LineTypes DEF TypeOK, CallerTypes, FidoTypes, Msg
<1>a. PICK R \in Responses(cmd) : \E j \in 0..(Len(R) - 1) : Underway(R, j)
  BY <1>1 DEF Incomplete, ErrorToCome, KeepAliveToCome
<1>3. PICK j \in 0..(Len(R) - 1) : Underway(R, j)
  BY <1>a
<1>4. /\ Len(R) \in 1..129 /\ \A i \in 1..(Len(R) - 1) : R[i].len = 20
  BY <1>2, AnswerLayout
<1>5. j \in Nat /\ j + 1 \in 1..Len(R)
  BY <1>4
<1>6. cb = R[j + 1] /\ Buffered(R, j) /\ Remaining(R, j + 1) /\ Numbered(j + 1)
  BY <1>1, <1>3 DEF Underway
<1>7. /\ Len(M.chunks) = j + 1 /\ M.chunks \in Seq(Packet)
      /\ \A i \in 1..(j + 1) : M.chunks[i] = R[i]
      /\ M.size = 20 * j + R[j + 1].len
  <2>1. /\ Len(mRecvMsg.chunks) = j /\ mRecvMsg.size = 20 * j
        /\ \A i \in 1..j : mRecvMsg.chunks[i] = R[i]
    BY <1>6 DEF Buffered
  <2>2. /\ M.chunks \in Seq(Packet)
        /\ Len(M.chunks) = j + 1
        /\ \A i \in 1..j : M.chunks[i] = mRecvMsg.chunks[i]
        /\ M.chunks[j + 1] = cb
    BY <1>2, <1>5, <2>1
  <2>3. \A i \in 1..(j + 1) : i \in 1..j \/ i = j + 1
    BY <1>5
  <2>4. M.size = 20 * j + cb.len
    BY <2>1
  <2> HIDE DEF M
  <2> QED
    BY <1>6, <2>1, <2>2, <2>3, <2>4
<1> HIDE DEF M
<1>8. s = IF j + 1 = Len(R) THEN "done" ELSE "receiving"
  <2>1. 1 \in 1..(j + 1) /\ j = (j + 1) - 1
    BY <1>5
  <2>2. M.chunks[1] = R[1] /\ M.size = 20 * ((j + 1) - 1) + R[j + 1].len
    BY <1>7, <2>1
  <2> QED
    BY <1>2, <1>5, <1>7, <2>2, BufferedStatus
<1>9. ~hasError'
  BY <1>1, <1>8
<1>10. CASE j + 1 = Len(R)
  <2>1. Len(Line) = 0
    BY <1>4, <1>6, <1>10 DEF Remaining
  <2>2. Line' = <<>>
    BY <1>1, <1>2, <2>1
  <2> QED
    BY <1>1, <1>9, <2>2 DEF Finished
<1>11. CASE j + 1 # Len(R)
  <2>1. j + 1 \in 0..(Len(R) - 1) /\ j + 1 \in 1..(Len(R) - 1)
    BY <1>4, <1>5, <1>11
  <2>2. M.size = 20 * (j + 1)
    BY <1>4, <1>5, <1>7, <2>1
  <2>3. Buffered(R, j + 1)'
    BY <1>1, <1>7, <2>2 DEF Buffered
  <2>4. Remaining(R, j + 1)' /\ Numbered(j + 1)'
    BY <1>1, <1>6 DEF Remaining, Numbered
  <2>5. Underway(R, j + 1)'
    BY <1>1, <2>3, <2>4 DEF Underway
  <2>6. Responses(cmd)' = Responses(cmd)
    BY <1>1 DEF Responses, Response
  <2>7. Incomplete'
    BY <2>1, <2>5, <2>6 DEF Incomplete
  <2>8. woken' = woken
    BY <1>1, <1>8, <1>11
  <2> QED
    BY <1>9, <2>7, <2>8
<1> QED
  BY <1>10, <1>11

LEMMA RaceNext == TypeInv /\ OneLine /\ OneLine' /\ RaceInv /\ [Next]_vars => RaceInv'
<1> SUFFICES ASSUME TypeInv, OneLine, OneLine', RaceInv, [Next]_vars, Undisturbed'
             PROVE  RaceInv'
  BY DEF RaceInv
<1> TypeOK
  BY DEF TypeInv
<1>q. Finished /\ UNCHANGED <<Line, cb>> => Finished'
  BY DEF Finished
<1>i. Incomplete /\ UNCHANGED <<mRecvMsg, pkgSeq, cb, Line, cmd>> => Incomplete'
  <2> SUFFICES ASSUME Incomplete, UNCHANGED <<mRecvMsg, pkgSeq, cb, Line, cmd>>
               PROVE  Incomplete'
    OBVIOUS
  <2>1. UNCHANGED <<Responses(cmd), ErrorPacket(cmd), KeepAlive(cmd)>>
    BY DEF Responses, Response, ErrorPacket, KeepAlive
  <2>2. ErrorToCome => ErrorToCome'
    BY <2>1 DEF ErrorToCome
  <2>3. \A R : KeepAliveToCome(R) => KeepAliveToCome(R)'
    BY <2>1 DEF KeepAliveToCome
  <2>4. \A R, j : Underway(R, j) => Underway(R, j)'
    BY DEF Underway, Buffered, Remaining, Numbered
  <2> QED
    BY <2>1, <2>2, <2>3, <2>4 DEF Incomplete
<1>n. pc' # "idle" /\ quiet' /\ ~disturbed'
  BY DEF Undisturbed
<1>l. (quiet => Lone) /\ Lone'
  BY <1>n DEF OneLine
<1>1. CASE SendNotConnected
  BY <1>1, <1>n DEF SendNotConnected, Return
<1>2. CASE SendClear
  <2>1. /\ pc' = "wrap" /\ hasError' = FALSE /\ mRecvMsg' = EmptyMsg /\ pkgSeq' = 0
        /\ quiet' = Quiet /\ UNCHANGED <<Line, cb>>
        /\ woken' = FALSE
    BY <1>2 DEF SendClear, wire, Line
  <2>2. Finished'
    BY <1>n, <2>1, LineOfNone DEF Quiet, Finished, Line
  <2> QED
    BY <2>1, <2>2 DEF RaceInv
<1>3. ASSUME UNCHANGED <<quiet, disturbed>>, pc # "idle"
      PROVE  /\ ~hasError
             /\ pc \in {"wrap", "send"} => Finished /\ mRecvMsg = EmptyMsg /\ pkgSeq = 0
             /\ pc \in {"wrap", "send", "sent"} => ~woken
             /\ pc # "wrap" => cmdHeader = CMD_MSG
             /\ Finished \/ /\ pc \in {"sent", "wait"}
                            /\ woken => ~bConnected
                            /\ Incomplete
  BY <1>3, <1>n DEF RaceInv, Undisturbed
<1>4. CASE SendWrap
  <2>1. /\ pc = "wrap" /\ pc' = "send" /\ cmdHeader' = CMD_MSG
        /\ UNCHANGED <<quiet, disturbed, hasError, mRecvMsg, pkgSeq, Line, cb, woken>>
    BY <1>4 DEF SendWrap, wire, Line
  <2>2. ~hasError' /\ Finished' /\ mRecvMsg' = EmptyMsg /\ pkgSeq' = 0 /\ ~woken'
    BY <1>3, <1>q, <2>1
  <2> QED
    BY <2>1, <2>2 DEF RaceInv
<1>5. CASE SendApdu
  <2>1. /\ pc = "send" /\ pc' = "sent"
        /\ UNCHANGED <<quiet, disturbed, hasError, cmdHeader, woken, bConnected>>
    BY <1>5 DEF SendApdu, fido, device
  <2>2. /\ ~hasError /\ cmdHeader = CMD_MSG
        /\ Finished /\ mRecvMsg = EmptyMsg /\ pkgSeq = 0
    BY <1>3, <2>1
  <2>3. Finished' \/ Incomplete'
    BY <1>5, <1>n, <1>l, <2>1, <2>2, ReplyIncomplete
  <2>4. ~woken
    BY <1>3, <2>1
  <2> QED
    BY <2>1, <2>2, <2>3, <2>4 DEF RaceInv
<1>6. CASE SendApduFails \/ Timeout
  BY <1>6, <1>n DEF SendApduFails, Timeout, Return
<1>7. CASE WaitForReceive
  <2>1. /\ pc = "sent" /\ pc' = "wait"
        /\ UNCHANGED <<quiet, disturbed, hasError, cmdHeader, woken, bConnected, cb, Line,
                       mRecvMsg, pkgSeq, cmd>>
    BY <1>7 DEF WaitForReceive, fido, device, wire, Line
  <2> QED
    BY <1>3, <1>q, <1>i, <2>1 DEF RaceInv
<1>8. CASE Notified
  <2>1. /\ pc = "wait" /\ woken /\ pc' = "check" /\ bConnected
        /\ UNCHANGED <<quiet, disturbed, hasError, cmdHeader, cb, Line>>
    BY <1>8, <1>n DEF Notified, AfterWait, Return, fido, device, wire, Line
  <2> QED
    BY <1>3, <1>q, <2>1 DEF RaceInv
<1>9. CASE SpuriousWakeup \/ DuplicatePacket \/ LosePacket \/ LinkDown \/ Connect
  BY <1>9, <1>n DEF SpuriousWakeup, DuplicatePacket, LosePacket, LinkDown, Close, Connect
<1>10. CASE CheckResponse
  <2>1. /\ pc = "check" /\ pc' = "copy" /\ ResponseStatus(mRecvMsg) = "done"
        /\ hasError' = (hasError \/ ResponseStatus(mRecvMsg) = "badHeader")
        /\ UNCHANGED <<quiet, disturbed, cmdHeader, cb, Line>>
    BY <1>10, <1>n DEF CheckResponse, Return, wire, Line
  <2>2. ~hasError'
    BY <1>3, <2>1
  <2> QED
    BY <1>3, <1>q, <2>1, <2>2 DEF RaceInv
<1>11. CASE RecvCallBack
  <2>1. /\ UNCHANGED <<quiet, disturbed, pc, bConnected>>
        /\ cmdHeader' = cmdHeader
        /\ pc = "sent" => woken' = woken
    BY <1>11 DEF RecvCallBack, Receive, StopReceiving, TypeOK, device, caller, fido
  <2>l. Lone /\ Line # <<>>
    BY <1>11, <1>n, <1>l, <2>1, LineSteps
  <2>2. /\ ~hasError /\ cmdHeader = CMD_MSG
        /\ pc \in {"sent", "wait"} /\ (woken => ~bConnected) /\ Incomplete
        /\ pc = "sent" => ~woken
    BY <1>3, <1>n, <2>1, <2>l DEF Finished
  <2>3. ~hasError' /\ (Finished' \/ (Incomplete' /\ woken' = woken))
    BY <1>11, <2>2, <2>l, ReceiveIncomplete
  <2> QED
    BY <2>1, <2>2, <2>3 DEF RaceInv
<1>12. CASE MergePackage
  <2>1. /\ UNCHANGED <<quiet, disturbed, pc, bConnected, cmdHeader>>
        /\ cb # NoPacket
        /\ pc = "sent" => woken' = woken
    BY <1>12 DEF MergePackage, MergeAndNotify, StopReceiving, TypeOK, device, caller, wire
  <2>2. /\ ~hasError /\ cmdHeader = CMD_MSG
        /\ pc \in {"sent", "wait"} /\ (woken => ~bConnected) /\ Incomplete
        /\ pc = "sent" => ~woken
    BY <1>3, <1>n, <2>1 DEF Finished
  <2>3. ~hasError' /\ (Finished' \/ (Incomplete' /\ woken' = woken))
    BY <1>12, <2>2, MergeIncomplete
  <2> QED
    BY <2>1, <2>2, <2>3 DEF RaceInv
<1>13. CASE DiscCallBack
  <2>1. /\ bConnected' = FALSE
        /\ UNCHANGED <<quiet, disturbed, hasError, cmdHeader, cb, Line, mRecvMsg, pkgSeq,
                       pc, cmd>>
        /\ pc # "wait" => woken' = woken
    BY <1>13 DEF DiscCallBack, StopReceiving, TypeOK, fido, caller, Line
  <2> QED
    BY <1>3, <1>n, <1>q, <1>i, <2>1 DEF RaceInv
<1>15. CASE Disconnect
  <2>1. PICK c \in 1..conns : Forget(c)
    BY <1>15 DEF Disconnect
  <2>2. UNCHANGED <<wire, disturbed>>
    BY <1>n, <2>1 DEF Forget, Close
  <2>3. /\ bConnected' = FALSE
        /\ UNCHANGED <<quiet, disturbed, hasError, cmdHeader, cb, mRecvMsg, pkgSeq, pc, cmd, woken,
                       Line>>
    BY <2>1, <2>2 DEF Forget, fido, caller, wire, Line
  <2> QED
    BY <1>3, <1>n, <1>q, <1>i, <2>3 DEF RaceInv
<1>16. CASE UNCHANGED vars
  <2>1. UNCHANGED <<bConnected, quiet, disturbed, hasError, cmdHeader, cb, Line, mRecvMsg,
                    pkgSeq, pc, cmd, woken>>
    BY <1>16 DEF vars, fido, device, caller, wire, Line
  <2> QED
    BY <1>3, <1>n, <1>q, <1>i, <2>1 DEF RaceInv
<1>17. CASE CopyResponse
  <2>1. /\ pc = "copy" /\ pc' = "overrun"
        /\ UNCHANGED <<quiet, disturbed, hasError, cmdHeader, cb, Line>>
    BY <1>17, <1>n DEF CopyResponse, Return, fido, wire, Line
  <2> QED
    BY <1>3, <1>q, <2>1 DEF RaceInv
<1> QED
  BY <1>1, <1>2, <1>4, <1>5, <1>6, <1>7, <1>8, <1>9, <1>10, <1>11, <1>12, <1>13, <1>15, <1>16,
     <1>17 DEF Next, SendData, BLEThread, Environment

\* SendData looks at the buffer only while RecvCallBack is not about to write
\* it, in every exchange that begins on a quiet link and is not disturbed.
THEOREM NoRace == Spec => []NoBufferRace
<1>1. RaceInv => NoBufferRace
  BY DEF RaceInv, Undisturbed, NoBufferRace, Finished
<1> QED
  BY RaceInit, RaceNext, OneLineInit, OneLineNext, TypeInvCorrect, <1>1, PTL DEF Spec

-----------------------------------------------------------------------------
(* Whole answers: what the steps do to the packets *)

\* The packets that RecvCallBack has let through.
Held == IF cb = NoPacket THEN mRecvMsg.chunks ELSE Append(mRecvMsg.chunks, cb)

\* RecvCallBack lets a packet through or drops it.
Refuses(p) ==
    /\ UNCHANGED <<mRecvMsg, pkgSeq, cb>>
    /\ \/ p.byte0 \in {CMD_KEEP_ALIVE, CMD_ERROR} /\ hasError' = hasError
       \/ hasError'

LetsThrough(p) ==
    /\ ~hasError /\ hasError' = hasError
    /\ p.byte0 \notin {CMD_KEEP_ALIVE, CMD_ERROR}
    /\ mRecvMsg.size > 0 => SeqOK(p.byte0, pkgSeq)
    /\ pkgSeq' = IF mRecvMsg.size > 0 THEN p.byte0 ELSE pkgSeq
    /\ mRecvMsg' = mRecvMsg /\ cb' = p

LEMMA ReceiveCases ==
    ASSUME TypeOK, NEW p, Receive(p)
    PROVE  Refuses(p) \/ LetsThrough(p)
<1>1. hasError \in BOOLEAN
  BY DEF TypeOK, FidoTypes
<1> QED
  BY <1>1 DEF Receive, Refuses, LetsThrough, fido

\* The packets of a well typed state.
LEMMA HeldTypes ==
    ASSUME TypeOK
    PROVE  /\ mRecvMsg.chunks \in Seq(Packet) /\ mRecvMsg.size \in Nat
           /\ cb \in Packet
           /\ Held \in Seq(Packet)
           /\ cb = NoPacket => Held = mRecvMsg.chunks
           /\ cb # NoPacket => Held = Append(mRecvMsg.chunks, cb)
           /\ Len(mRecvMsg.chunks) \in Nat
           /\ Len(Held) = Len(mRecvMsg.chunks) + (IF cb = NoPacket THEN 0 ELSE 1)
           /\ \A i \in 1..Len(mRecvMsg.chunks) : Held[i] = mRecvMsg.chunks[i]
           /\ cb # NoPacket => Held[Len(Held)] = cb
<1>1. /\ mRecvMsg.chunks \in Seq(Packet) /\ mRecvMsg.size \in Nat
      /\ cb \in Packet
  BY DEF TypeOK, FidoTypes, Msg
<1>2. CASE cb = NoPacket
  BY <1>1, <1>2 DEF Held
<1>3. CASE cb # NoPacket
  <2>1. Held = Append(mRecvMsg.chunks, cb)
    BY <1>3 DEF Held
  <2> QED
    BY <1>1, <1>3, <2>1
<1> QED
  BY <1>1, <1>2, <1>3

\* Every packet is of a reply of the device to a command that has reached it,
\* and only packets of answers are held.
Real(x, reply, n) ==
    /\ x.cmd \in 1..n
    /\ x.len \in 1..20
    /\ \/ x.byte0 \in {CMD_KEEP_ALIVE, CMD_ERROR}
       \/ \E i \in 1..Len(reply[x.cmd]) : x = reply[x.cmd][i]

Genuine ==
    /\ \E reply \in [1..MaxCmds -> Seq(Packet)] :
        /\ \A k \in 1..MaxCmds : reply[k] = <<>> \/ reply[k] \in Responses(k)
        /\ \A x \in OnLinks \cup Packets(Held) : Real(x, reply, Reached)
    /\ \A x \in Packets(Held) : x.byte0 \notin {CMD_KEEP_ALIVE, CMD_ERROR}

\* How the packets that are held change.
LEMMA HeldSteps ==
    ASSUME TypeOK, TypeOK'
    PROVE  /\ UNCHANGED <<mRecvMsg, cb>> => Held' = Held
           /\ MergePackage => Held' = Held
           /\ SendClear /\ cb = NoPacket => Held' = <<>>
           /\ SendClear /\ cb # NoPacket => Held' = <<cb>> /\ cb = Held[Len(Held)]
           /\ \A p \in Packet : cb = NoPacket /\ p # NoPacket /\ LetsThrough(p) =>
                Held' = Append(Held, p)
<1>1. UNCHANGED <<mRecvMsg, cb>> => Held' = Held
  BY DEF Held
<1>2. MergePackage => Held' = Held
  BY DEF Held, MergePackage, MergeAndNotify
<1>3. SendClear => mRecvMsg'.chunks = <<>> /\ cb' = cb
  BY DEF SendClear, EmptyMsg
<1>4. SendClear /\ cb = NoPacket => Held' = <<>>
  BY <1>3 DEF Held
<1>5. SendClear /\ cb # NoPacket => Held' = <<cb>> /\ cb = Held[Len(Held)]
  <2> SUFFICES ASSUME SendClear, cb # NoPacket
               PROVE  Held' = <<cb>> /\ cb = Held[Len(Held)]
    OBVIOUS
  <2>1. Held' = Append(mRecvMsg'.chunks, cb')
    BY <1>3 DEF Held
  <2>2. Held' = <<cb>>
    <3>1. \A x : Append(<<>>, x) = <<x>>
      OBVIOUS
    <3> QED
      BY <1>3, <2>1, <3>1
  <2> QED
    BY <2>2, HeldTypes
<1>6. \A p \in Packet : cb = NoPacket /\ p # NoPacket /\ LetsThrough(p) =>
        Held' = Append(Held, p)
  BY DEF LetsThrough, Held
<1> QED
  BY <1>1, <1>2, <1>4, <1>5, <1>6

\* The continuation packets of an answer are no more than it needs.
LEMMA ContinuationsFill ==
    ASSUME NEW n \in Nat
    PROVE  19 * Continuations(n) >= n - 17
<1>1. CASE n <= 17
  BY <1>1 DEF Continuations, FIDO_HEADER_LEN, FIDO_BLOCK_SIZE, FIDO_DATA_BLOCK_SIZE
<1>2. CASE n > 17
  <2> DEFINE a == n + 1
             d == a \div 19
  <2>1. a \in Nat /\ d \in Nat /\ 19 * d > a - 19
    OBVIOUS
  <2>2. Continuations(n) = d
    BY <1>2 DEF Continuations, FIDO_HEADER_LEN, FIDO_BLOCK_SIZE, FIDO_DATA_BLOCK_SIZE
  <2> HIDE DEF d
  <2> QED
    BY <2>1, <2>2
<1> QED
  BY <1>1, <1>2

\* The packets of an answer are of their command, and not empty.
LEMMA AnswerSizes ==
    ASSUME NEW k \in 0..MaxCmds, NEW R \in Responses(k)
    PROVE  /\ \A i \in 1..Len(R) : R[i].cmd = k
           /\ \A i \in 1..Len(R) : R[i].len \in 1..20
<1>1. /\ Len(R) \in 1..129
      /\ Continuations(R[1].total) = Len(R) - 1
      /\ \A i \in 1..Len(R) : R[i].cmd = k
      /\ \A i \in 1..(Len(R) - 1) : R[i].len = 20
      /\ R[Len(R)].len >= 2 /\ R[Len(R)].len \in Nat
      /\ R[Len(R)].len + 19 * Len(R) = R[1].total + 22
      /\ R[1].total \in Nat
  BY AnswerLayout
<1> DEFINE n == R[1].total
           c == Continuations(n)
<1>2. 19 * c >= n - 17
  BY <1>1, ContinuationsFill
<1> HIDE DEF c
<1>3. R[Len(R)].len \in 1..20
  <2> DEFINE l == Len(R)
             x == R[Len(R)].len
  <2>1. l \in 1..129 /\ c = l - 1 /\ x >= 2 /\ x \in Nat /\ x + 19 * l = n + 22 /\ n \in Nat
    BY <1>1 DEF c
  <2> HIDE DEF l, x, n
  <2>2. x \in 1..20
    BY <1>2, <2>1
  <2> QED
    BY <2>2 DEF x
<1>4. ASSUME NEW i \in 1..Len(R) PROVE R[i].len \in 1..20
  <2> DEFINE l == Len(R)
  <2>1. l \in 1..129 /\ i \in 1..l
    BY <1>1
  <2>2. i \in 1..(l - 1) \/ i = l
    <3> HIDE DEF l
    <3> QED
      BY <2>1
  <2>3. 20 \in 1..20
    OBVIOUS
  <2> QED
    BY <1>1, <1>3, <2>2, <2>3
<1> QED
  BY <1>1, <1>4

\* Only a call that has begun has issued a command.
Begun == pc # "idle" => cmd > 0

LEMMA BegunNext == TypeOK /\ Begun /\ [Next]_vars => Begun'
<1> SUFFICES ASSUME TypeOK, Begun, [Next]_vars PROVE Begun'
  OBVIOUS
<1>1. cmd \in Nat
  BY TransportAssumption DEF TypeOK, CallerTypes
<1>2. CASE SendClear
  BY <1>1, <1>2 DEF SendClear, Begun
<1>3. CASE SendNotConnected \/ SendWrap \/ SendApdu \/ SendApduFails \/ WaitForReceive
  BY <1>3 DEF SendNotConnected, SendWrap, SendApdu, SendApduFails, WaitForReceive, Return, Begun
<1>4. CASE Notified \/ SpuriousWakeup \/ Timeout \/ CheckResponse \/ CopyResponse
  BY <1>4 DEF Notified, SpuriousWakeup, AfterWait, Timeout, CheckResponse, CopyResponse, Return,
     Begun
<1>5. CASE UNCHANGED <<pc, cmd>>
  BY <1>5 DEF Begun
<1>6. CASE RecvCallBack \/ MergePackage \/ DiscCallBack
  BY <1>5, <1>6 DEF RecvCallBack, MergePackage, MergeAndNotify, DiscCallBack, caller
<1>7. CASE DuplicatePacket \/ LosePacket \/ LinkDown \/ Connect \/ Disconnect
  BY <1>5, <1>7 DEF DuplicatePacket, LosePacket, LinkDown, Connect, Disconnect, Forget, caller
<1>8. CASE UNCHANGED vars
  BY <1>5, <1>8 DEF vars, caller
<1> QED
  BY <1>2, <1>3, <1>4, <1>6, <1>7, <1>8 DEF Next, SendData, BLEThread, Environment

\* A step that adds no packet keeps them genuine.
LEMMA GenuineKept ==
    ASSUME TypeOK, Genuine,
           OnLinks' \subseteq OnLinks \cup Packets(Held),
           \A x \in Packets(Held)' : \/ x \in Packets(Held)
                                     \/ /\ x \in OnLinks
                                        /\ x.byte0 \notin {CMD_KEEP_ALIVE, CMD_ERROR},
           Reached' \in {Reached, cmd}
    PROVE  Genuine'
<1>1. PICK reply \in [1..MaxCmds -> Seq(Packet)] :
        /\ \A k \in 1..MaxCmds : reply[k] = <<>> \/ reply[k] \in Responses(k)
        /\ \A x \in OnLinks \cup Packets(Held) : Real(x, reply, Reached)
  BY DEF Genuine
<1>2. 1..Reached \subseteq 1..Reached'
  <2>1. cmd \in Nat
    BY TransportAssumption DEF TypeOK, CallerTypes
  <2>2. Reached \in {cmd, cmd - 1}
    BY DEF Reached
  <2> HIDE DEF Reached
  <2> QED
    BY <2>1, <2>2
<1>3. \A x : Real(x, reply, Reached) => Real(x, reply, Reached')
  <2> HIDE DEF Reached
  <2> QED
    BY <1>2 DEF Real
<1>4. \A x \in OnLinks' \cup Packets(Held)' : Real(x, reply, Reached')
  BY <1>1, <1>3
<1>5. \A k \in 1..MaxCmds : Responses(k)' = Responses(k)
  BY DEF Responses, Response
<1>6. \A x \in Packets(Held)' : x.byte0 \notin {CMD_KEEP_ALIVE, CMD_ERROR}
  BY DEF Genuine
<1> QED
  BY <1>1, <1>4, <1>5, <1>6 DEF Genuine

LEMMA GenuineInit == Init => Genuine /\ Begun
<1> SUFFICES ASSUME Init PROVE Genuine /\ Begun
  OBVIOUS
<1>1. NoneComes /\ Held = <<>>
  BY DEF Init, NoneComes, Held, EmptyMsg
<1>2. OnLinks = {} /\ Packets(Held) = {}
  BY <1>1, PacketsOf DEF OnLinks, NoneComes
<1> DEFINE reply == [k \in 1..MaxCmds |-> <<>>]
<1>3. reply \in [1..MaxCmds -> Seq(Packet)] /\ \A k \in 1..MaxCmds : reply[k] = <<>>
  OBVIOUS
<1> HIDE DEF reply
<1>4. Genuine
  BY <1>2, <1>3 DEF Genuine
<1> QED
  BY <1>4 DEF Init, Begun

LEMMA KeepAliveIsPacket ==
    ASSUME NEW k \in 0..MaxCmds
    PROVE  KeepAlive(k) \in Packet
BY TransportAssumption DEF KeepAlive, ErrorPacket, Packet, Byte, CMD_KEEP_ALIVE, CMD_ERROR

\* A reply adds genuine packets.
LEMMA GenuineSends ==
    ASSUME TypeOK, Genuine, Begun, Sends
    PROVE  Genuine'
<1>1. PICK reply \in [1..MaxCmds -> Seq(Packet)] :
        /\ \A k \in 1..MaxCmds : reply[k] = <<>> \/ reply[k] \in Responses(k)
        /\ \A x \in OnLinks \cup Packets(Held) : Real(x, reply, Reached)
  BY DEF Genuine
<1>2. PICK r \in DeviceReplies(cmd) : r \in Seq(Packet) /\ link'[handle] = link[handle] \o r
  BY SendsLink DEF Sends
<1>3. cmd \in 1..MaxCmds /\ cmd \in Nat /\ cmd \in 0..MaxCmds /\ cmd > 0
  BY TransportAssumption DEF TypeOK, CallerTypes, Begun, Sends
<1>4. Reached = cmd - 1 /\ Reached' = cmd /\ Held' = Held
  BY DEF Sends, Reached, Held, fido
<1>5. handle \in Conns /\ \A c \in Conns : c # handle => link'[c] = link[c]
  BY SendsLink DEF Sends
<1>6. OnLinks' \subseteq OnLinks \cup Packets(r)
  <2>1. link[handle] \in Seq(Packet)
    BY <1>5, ConnsTypes
  <2>2. Packets(link'[handle]) \subseteq Packets(link[handle]) \cup Packets(r)
    BY <1>2, <2>1, PacketsOf
  <2>3. OnLinks' = UNION {Packets(link'[c]) : c \in Conns}
    BY DEF OnLinks, Packets
  <2> QED
    BY <1>5, <2>2, <2>3 DEF OnLinks
<1>7. PICK R \in Responses(cmd) \cup {<<>>} :
        \A x \in Packets(r) :
            x \in Packets(R) \/ x = KeepAlive(cmd) \/ x = ErrorPacket(cmd)
  <2>1. CASE r = <<>> \/ r = <<ErrorPacket(cmd)>>
    BY <2>1, PacketsOf
  <2>2. CASE r \in Responses(cmd)
    BY <2>2
  <2>3. ASSUME NEW q \in Responses(cmd), r = <<KeepAlive(cmd)>> \o q
        PROVE  \A x \in Packets(r) : x \in Packets(q) \/ x = KeepAlive(cmd)
    <3>1. q \in Seq(Packet)
      BY <1>3, AnswerLayout
    <3>2. <<KeepAlive(cmd)>> \in Seq(Packet)
      <4>1. KeepAlive(cmd) \in Packet
        BY <1>3, KeepAliveIsPacket
      <4> QED
        BY <4>1
    <3>3. Packets(r) \subseteq Packets(<<KeepAlive(cmd)>>) \cup Packets(q)
      BY <2>3, <3>1, <3>2, PacketsOf
    <3> QED
      BY <3>3, PacketsOf
  <2> QED
    BY <2>1, <2>2, <2>3 DEF DeviceReplies
<1> DEFINE new == [reply EXCEPT ![cmd] = R]
<1>8. R \in Seq(Packet)
  <2>1. CASE R \in Responses(cmd)
    BY <1>3, <2>1, AnswerLayout
  <2>2. CASE R = <<>>
    BY <2>2
  <2> QED
    BY <2>1, <2>2
<1>9. /\ new \in [1..MaxCmds -> Seq(Packet)] /\ new[cmd] = R
      /\ \A k \in 1..MaxCmds : k # cmd => new[k] = reply[k]
  BY <1>1, <1>3, <1>8
<1> HIDE DEF new
<1>10. \A k \in 1..MaxCmds : new[k] = <<>> \/ new[k] \in Responses(k)
  BY <1>1, <1>9
<1>11. ASSUME NEW x, Real(x, reply, Reached)
       PROVE  Real(x, new, Reached')
  <2>1. x.cmd \in 1..(cmd - 1)
    BY <1>4, <1>11 DEF Real
  <2>2. x.cmd \in 1..MaxCmds /\ x.cmd # cmd /\ x.cmd \in 1..cmd
    <3>1. \A k \in 1..(cmd - 1) : k \in 1..MaxCmds /\ k # cmd /\ k \in 1..cmd
      BY <1>3, TransportAssumption
    <3> QED
      BY <2>1, <3>1
  <2>3. new[x.cmd] = reply[x.cmd]
    BY <1>9, <2>2
  <2> QED
    BY <1>4, <1>11, <2>2, <2>3 DEF Real
<1>12. ASSUME NEW x \in Packets(r)
       PROVE  Real(x, new, Reached')
  <2>1. CASE x \in Packets(R)
    <3>1. R \in Responses(cmd)
      BY <2>1, PacketsOf
    <3>2. cmd \in 1..Reached'
      BY <1>3, <1>4
    <3>3. /\ \A i \in 1..Len(R) : R[i].cmd = cmd
          /\ \A i \in 1..Len(R) : R[i].len \in 1..20
      BY <1>3, <3>1, AnswerSizes
    <3> QED
      BY <1>9, <2>1, <3>2, <3>3 DEF Real, Packets
  <2>2. CASE x = KeepAlive(cmd) \/ x = ErrorPacket(cmd)
    <3>1. x.cmd = cmd /\ x.len = 4 /\ x.byte0 \in {CMD_KEEP_ALIVE, CMD_ERROR}
      BY <2>2 DEF KeepAlive, ErrorPacket
    <3>2. x.cmd \in 1..Reached' /\ x.len \in 1..20
      BY <1>3, <1>4, <3>1
    <3> QED
      BY <3>1, <3>2 DEF Real
  <2> QED
    BY <1>7, <2>1, <2>2
<1>13. \A x \in OnLinks' \cup Packets(Held)' : Real(x, new, Reached')
  BY <1>1, <1>4, <1>6, <1>11, <1>12
<1>14. \A k \in 1..MaxCmds : Responses(k)' = Responses(k)
  BY DEF Responses, Response
<1>15. \A x \in Packets(Held)' : x.byte0 \notin {CMD_KEEP_ALIVE, CMD_ERROR}
  BY <1>4 DEF Genuine
<1> QED
  BY <1>9, <1>10, <1>13, <1>14, <1>15 DEF Genuine

LEMMA GenuineNext ==
    TypeInv /\ TypeInv' /\ Genuine /\ Begun /\ [Next]_vars => Genuine'
<1> SUFFICES ASSUME TypeInv, TypeInv', Genuine, Begun, [Next]_vars PROVE Genuine'
  OBVIOUS
<1>1. TypeOK /\ TypeOK'
  BY DEF TypeInv
<1> DEFINE Kept == /\ OnLinks' \subseteq OnLinks \cup Packets(Held)
                   /\ \A x \in Packets(Held)' :
                        \/ x \in Packets(Held)
                        \/ /\ x \in OnLinks
                           /\ x.byte0 \notin {CMD_KEEP_ALIVE, CMD_ERROR}
                   /\ Reached' \in {Reached, cmd}
<1>2. Kept => Genuine'
  BY <1>1, GenuineKept
<1>3. Held \in Seq(Packet)
  BY <1>1, HeldTypes
<1>4. CASE Still
  <2>1. Held' = Held /\ OnLinks' = OnLinks
    BY <1>1, <1>4, HeldSteps, LinkPackets DEF Still
  <2> QED
    BY <1>2, <1>4, <2>1 DEF Still
<1>5. CASE Drops
  <2>1. Held' = Held /\ OnLinks' \subseteq OnLinks
    BY <1>1, <1>5, HeldSteps, LinkPackets DEF Drops, fido
  <2> QED
    BY <1>2, <1>5, <2>1 DEF Drops, Reached
<1>6. CASE SendClear
  <2>1. OnLinks' = OnLinks /\ Reached' = Reached
    <3>1. pc = "idle" /\ pc' = "wrap" /\ cmd' = cmd + 1 /\ link' = link
      BY <1>6 DEF SendClear, wire
    <3>3. OnLinks' = OnLinks
      BY <1>1, <3>1, LinkPackets
    <3>2. cmd \in Nat
      BY <1>1, TransportAssumption DEF TypeOK, CallerTypes
    <3> QED
      BY <3>1, <3>2, <3>3 DEF Reached
  <2>2. \A x \in Packets(Held)' : x \in Packets(Held)
    <3>1. CASE cb = NoPacket
      BY <1>1, <1>6, <3>1, HeldSteps, PacketsOf
    <3>2. CASE cb # NoPacket
      <4>1. Held' = <<cb>> /\ cb = Held[Len(Held)]
        BY <1>1, <1>6, <3>2, HeldSteps
      <4>2. Len(Held) \in Nat /\ Len(Held) \in 1..Len(Held)
        BY <1>1, <3>2, HeldTypes
      <4>3. cb \in Packets(Held)
        BY <1>3, <4>1, <4>2, PacketsOf
      <4> QED
        BY <4>1, <4>3, PacketsOf
    <3> QED
      BY <3>1, <3>2
  <2> QED
    BY <1>2, <2>1, <2>2
<1>7. CASE Sends
  BY <1>1, <1>7, GenuineSends
<1>8. CASE LosePacket
  <2>1. Held' = Held /\ OnLinks' \subseteq OnLinks /\ Reached' = Reached
    BY <1>1, <1>8, HeldSteps, LinkPackets DEF LosePacket, Reached, fido, caller
  <2> QED
    BY <1>2, <2>1
<1>9. CASE MergePackage
  <2>1. Held' = Held /\ OnLinks' = OnLinks /\ Reached' = Reached
    BY <1>1, <1>9, HeldSteps, LinkPackets DEF MergePackage, MergeAndNotify, Reached, caller, wire
  <2> QED
    BY <1>2, <2>1
<1>10. CASE RecvCallBack \/ DuplicatePacket
  <2>1. PICK c \in Conns : link[c] # <<>> /\ Receive(Head(link[c]))
    BY <1>10 DEF RecvCallBack, DuplicatePacket
  <2>2. cb = NoPacket /\ OnLinks' \subseteq OnLinks /\ Reached' = Reached
    BY <1>1, <1>10, LinkPackets DEF RecvCallBack, DuplicatePacket, Reached, caller
  <2> DEFINE p == Head(link[c])
  <2>3. p \in Packet /\ p \in OnLinks
    BY <1>1, <2>1, LinkPackets
  <2>4. Receive(p)
    BY <2>1
  <2> HIDE DEF p
  <2>5. CASE Refuses(p)
    <3>1. Held' = Held
      BY <1>1, <2>5, HeldSteps DEF Refuses
    <3> QED
      BY <1>2, <2>2, <3>1
  <2>6. CASE LetsThrough(p)
    <3>1. p # NoPacket
      <4>1. p.len \in 1..20
        BY <2>3 DEF Genuine, Real
      <4>2. NoPacket.len = 0
        BY DEF NoPacket
      <4> QED
        BY <4>1, <4>2
    <3>2. Held' = Append(Held, p)
      BY <1>1, <2>2, <2>3, <2>6, <3>1, HeldSteps
    <3>3. Packets(Held)' \subseteq Packets(Held) \cup {p}
      BY <1>3, <2>3, <3>2, PacketsOf
    <3>4. p.byte0 \notin {CMD_KEEP_ALIVE, CMD_ERROR}
      BY <2>6 DEF LetsThrough
    <3> QED
      BY <1>2, <2>2, <2>3, <3>3, <3>4
  <2> QED
    BY <1>1, <2>4, <2>5, <2>6, ReceiveCases
<1> HIDE DEF Kept
<1> QED
  BY <1>4, <1>5, <1>6, <1>7, <1>8, <1>9, <1>10, Effects

-----------------------------------------------------------------------------
(* Whole answers: the invariants *)

\* The buffer's size is that of its packets, of 1 to 20 bytes each.
Sized ==
    /\ mRecvMsg.size <= 20 * Len(mRecvMsg.chunks)
    /\ mRecvMsg.chunks = <<>> => mRecvMsg.size = 0
    /\ mRecvMsg.chunks # <<>> => mRecvMsg.size > 0

\* What checkResponse found before SendData copies the buffer is still so.
Announced ==
    /\ pc \notin {"idle", "wrap"} => cmdHeader = CMD_MSG
    /\ pc = "copy" =>
        /\ mRecvMsg.chunks # <<>>
        /\ Head(mRecvMsg.chunks).byte0 = CMD_MSG
        /\ Head(mRecvMsg.chunks).total + 3 + Continuations(Head(mRecvMsg.chunks).total)
            <= mRecvMsg.size

\* A packet that begins a reply, or the continuation of the one before it.
Follows(x, y) ==
    \/ y.byte0 \in {CMD_KEEP_ALIVE, CMD_MSG, CMD_ERROR}
    \/ /\ x.byte0 \notin {CMD_KEEP_ALIVE, CMD_ERROR}
       /\ y.cmd = x.cmd
       /\ y.byte0 = IF x.byte0 = CMD_MSG THEN 0 ELSE x.byte0 + 1

Chained(s) == \A i \in 1..(Len(s) - 1) : Follows(s[i], s[i + 1])

\* Packets in the order of one answer; and the same with packet 0 missing.
InOrder(s) ==
    /\ Len(s) <= 129
    /\ \A i \in 2..Len(s) : s[i].byte0 = i - 2 /\ s[i].cmd = s[1].cmd

Gapped(s) == Len(s) >= 2 /\ \A i \in 2..Len(s) : s[i].byte0 = i - 1

\* Over faultless links the packets come one after the other, those of an
\* earlier exchange too, unless they come over two connections at once.
Ordered ==
    Faultless /\ ~mixed =>
        /\ Chained(Line)
        /\ (Held # <<>> /\ Line # <<>> /\ (cb # NoPacket \/ ~hasError)) =>
            Follows(Held[Len(Held)], Line[1])
        /\ (Held # <<>> /\ Held[1].byte0 = CMD_MSG) => InOrder(Held)

\* In a quiet exchange pkgSeq tells which packet was held last, and packet 0
\* comes once.
Zeros(s) == {i \in 1..Len(s) : s[i].byte0 = 0}

OneZero(s) == \A i, j \in Zeros(s) : i = j

Counted ==
    (quiet /\ ~faults.dupOfZero) =>
        /\ pc \in {"wrap", "send"} => Line = <<>> /\ Held = <<>>
        /\ Held = <<>> => pkgSeq = 0
        /\ OneZero(Line)
        /\ Zeros(Held) # {} => Zeros(Line) = {}
        /\ (Held # <<>> /\ Held[1].byte0 = CMD_MSG) =>
            \/ InOrder(Held) /\ pkgSeq = IF Len(Held) = 1 THEN 0 ELSE Len(Held) - 2
            \/ Gapped(Held) /\ pkgSeq = Len(Held) - 1

LEMMA SizedNext ==
    TypeInv /\ TypeInv' /\ Genuine /\ Sized /\ [Next]_vars => Sized'
<1> SUFFICES ASSUME TypeInv, TypeInv', Genuine, Sized, [Next]_vars PROVE Sized'
  OBVIOUS
<1>1. TypeOK /\ TypeOK'
  BY DEF TypeInv
<1>2. CASE mRecvMsg' = mRecvMsg
  BY <1>2 DEF Sized
<1>3. CASE SendClear
  <2>1. mRecvMsg' = EmptyMsg
    BY <1>3 DEF SendClear
  <2> QED
    BY <2>1 DEF Sized, EmptyMsg
<1>4. CASE MergePackage
  <2>1. /\ cb # NoPacket
        /\ mRecvMsg' = [chunks |-> Append(mRecvMsg.chunks, cb), size |-> mRecvMsg.size + cb.len]
    BY <1>4 DEF MergePackage, MergeAndNotify
  <2>2. cb.len \in 1..20
    <3>1. /\ Held \in Seq(Packet) /\ Held[Len(Held)] = cb
          /\ Len(Held) = Len(mRecvMsg.chunks) + 1 /\ Len(mRecvMsg.chunks) \in Nat
      BY <1>1, <2>1, HeldTypes
    <3>2. cb \in Packets(Held)
      <4>1. Len(Held) \in Nat /\ Len(Held) \in 1..Len(Held)
        BY <3>1
      <4> QED
        BY <3>1, <4>1, PacketsOf
    <3> QED
      BY <3>2 DEF Genuine, Real
  <2>3. mRecvMsg.chunks \in Seq(Packet) /\ mRecvMsg.size \in Nat /\ cb \in Packet
    BY <1>1, HeldTypes
  <2>4. /\ mRecvMsg'.chunks = Append(mRecvMsg.chunks, cb)
        /\ mRecvMsg'.size = mRecvMsg.size + cb.len
    BY <2>1
  <2>5. /\ Len(mRecvMsg'.chunks) = Len(mRecvMsg.chunks) + 1
        /\ mRecvMsg'.chunks # <<>> /\ Len(mRecvMsg.chunks) \in Nat
    BY <2>3, <2>4
  <2>6. mRecvMsg.size <= 20 * Len(mRecvMsg.chunks)
    BY DEF Sized
  <2> DEFINE l == Len(mRecvMsg.chunks)
             s == mRecvMsg.size
             c == cb.len
  <2>7. l \in Nat /\ s \in Nat /\ c \in 1..20 /\ s <= 20 * l
    BY <2>2, <2>3, <2>5, <2>6
  <2> HIDE DEF l, s, c
  <2>8. s + c <= 20 * (l + 1) /\ s + c > 0
    BY <2>7
  <2> QED
    BY <2>4, <2>5, <2>8 DEF Sized, l, s, c
<1>5. CASE RecvCallBack \/ DuplicatePacket
  <2>1. PICK c \in Conns : Receive(Head(link[c]))
    BY <1>5 DEF RecvCallBack, DuplicatePacket
  <2> QED
    BY <1>1, <1>2, <2>1, ReceiveCases DEF Refuses, LetsThrough
<1> QED
  BY <1>2, <1>3, <1>4, <1>5, Effects DEF Still, Sends, LosePacket, Drops, fido

LEMMA AnnouncedNext ==
    TypeInv /\ Announced /\ [Next]_vars => Announced'
<1> SUFFICES ASSUME TypeInv, Announced, [Next]_vars PROVE Announced'
  OBVIOUS
<1>1. TypeOK
  BY DEF TypeInv
<1>2. CASE pc' \in {"idle", "wrap"}
  BY <1>2 DEF Announced
<1>3. CASE SendNotConnected \/ SendClear \/ SendApduFails \/ Timeout
  BY <1>2, <1>3 DEF SendNotConnected, SendClear, SendApduFails, Timeout, Return
<1>4. CASE SendWrap
  BY <1>4 DEF SendWrap, Announced
<1>5. CASE SendApdu \/ WaitForReceive \/ Notified \/ SpuriousWakeup
  <2>1. /\ pc \in {"send", "sent", "wait"} /\ pc' \in {"sent", "wait", "check", "idle"}
        /\ cmdHeader' = cmdHeader
    BY <1>5 DEF SendApdu, WaitForReceive, Notified, SpuriousWakeup, AfterWait, Return, fido
  <2> QED
    BY <2>1 DEF Announced
<1>6. CASE CheckResponse
  <2>1. pc = "check" /\ cmdHeader' = cmdHeader /\ mRecvMsg' = mRecvMsg
    BY <1>6 DEF CheckResponse
  <2>2. pc' \in {"idle", "copy"}
    BY <1>6 DEF CheckResponse, Return
  <2>3. ASSUME pc' = "copy"
        PROVE  ResponseStatus(mRecvMsg) = "done"
    BY <1>6, <2>3 DEF CheckResponse, Return
  <2>4. cmdHeader = CMD_MSG
    BY <2>1 DEF Announced
  <2>5. ASSUME pc' = "copy"
        PROVE  /\ mRecvMsg.chunks # <<>>
               /\ Head(mRecvMsg.chunks).byte0 = CMD_MSG
               /\ Head(mRecvMsg.chunks).total + FIDO_HEADER_LEN
                    + Continuations(Head(mRecvMsg.chunks).total) <= mRecvMsg.size
    BY <2>3, <2>4, <2>5 DEF ResponseStatus
  <2> QED
    BY <2>1, <2>2, <2>4, <2>5 DEF Announced, FIDO_HEADER_LEN
<1>7. CASE UNCHANGED <<pc, cmdHeader, mRecvMsg>>
  BY <1>7 DEF Announced
<1>8. CASE RecvCallBack \/ DuplicatePacket
  <2>1. pc' = pc /\ \E c \in Conns : Receive(Head(link[c]))
    BY <1>8 DEF RecvCallBack, DuplicatePacket, caller
  <2>2. cmdHeader' = cmdHeader /\ mRecvMsg' = mRecvMsg
    BY <2>1 DEF Receive, fido
  <2> QED
    BY <1>7, <2>1, <2>2
<1>9. CASE MergePackage
  <2>1. /\ mRecvMsg' = [chunks |-> Append(mRecvMsg.chunks, cb), size |-> mRecvMsg.size + cb.len]
        /\ pc' = pc /\ cmdHeader' = cmdHeader
    BY <1>9 DEF MergePackage, MergeAndNotify, caller
  <2>2. mRecvMsg.chunks \in Seq(Packet) /\ mRecvMsg.size \in Nat /\ cb \in Packet
    BY <1>1, HeldTypes
  <2>3. CASE pc # "copy"
    BY <2>1, <2>3 DEF Announced
  <2>4. CASE pc = "copy"
    <3> DEFINE h == Head(mRecvMsg.chunks)
               n == h.total
               need == n + 3 + Continuations(n)
    <3>1. mRecvMsg.chunks # <<>> /\ h.byte0 = CMD_MSG /\ need <= mRecvMsg.size
      BY <2>4 DEF Announced
    <3>2. mRecvMsg'.chunks # <<>> /\ Head(mRecvMsg'.chunks) = h
      BY <2>1, <2>2, <3>1
    <3>3. need \in Nat
      <4>1. n \in Nat
        BY <2>2, <3>1, HeadTailTypes DEF Packet
      <4>2. Continuations(n) \in Nat
        <5> HIDE DEF n
        <5> QED
          BY <4>1 DEF Continuations, FIDO_HEADER_LEN, FIDO_BLOCK_SIZE, FIDO_DATA_BLOCK_SIZE
      <4> QED
        BY <4>1, <4>2
    <3>4. mRecvMsg'.size = mRecvMsg.size + cb.len /\ cb.len \in Nat
      BY <2>1, <2>2 DEF Packet
    <3>5. need <= mRecvMsg'.size
      <4> HIDE DEF need
      <4> QED
        BY <2>2, <3>1, <3>3, <3>4
    <3>6. cmdHeader' = CMD_MSG
      BY <2>1, <2>4 DEF Announced
    <3> QED
      BY <2>1, <3>1, <3>2, <3>5, <3>6 DEF Announced
  <2> QED
    BY <2>3, <2>4
<1>10. CASE DiscCallBack \/ LosePacket \/ LinkDown \/ Connect \/ Disconnect
  BY <1>7, <1>10 DEF DiscCallBack, LosePacket, LinkDown, Connect, Disconnect, Forget, caller, fido
<1>11. CASE UNCHANGED vars
  BY <1>7, <1>11 DEF vars, caller, fido
<1>12. CASE CopyResponse
  <2>1. pc = "copy" /\ pc' \in {"idle", "overrun"} /\ cmdHeader' = cmdHeader
    BY <1>12 DEF CopyResponse, Return, fido
  <2> QED
    BY <2>1 DEF Announced
<1> QED
  BY <1>3, <1>12, <1>4, <1>5, <1>6, <1>8, <1>9, <1>10, <1>11 DEF Next, SendData, BLEThread, Environment

\* A reply begins with the first packet of an answer, a keep-alive or an error;
\* its packets follow one another, and packet 0 comes at most once.
LEMMA ReplyShape ==
    ASSUME NEW k \in 0..MaxCmds, NEW r \in DeviceReplies(k)
    PROVE  /\ Chained(r) /\ OneZero(r)
           /\ r # <<>> => r[1].byte0 \in {CMD_KEEP_ALIVE, CMD_MSG, CMD_ERROR}
<1> USE DEF CMD_KEEP_ALIVE, CMD_MSG, CMD_ERROR
<1>1. CASE r = <<>>
  BY <1>1 DEF Chained, OneZero, Zeros
<1>2. CASE r = <<ErrorPacket(k)>>
  <2>1. Len(r) = 1 /\ r[1] = ErrorPacket(k)
    BY <1>2
  <2> QED
    BY <2>1 DEF Chained, OneZero, Zeros, ErrorPacket
<1>3. ASSUME NEW R \in Responses(k)
      PROVE  /\ R \in Seq(Packet) /\ Len(R) \in 1..129 /\ R[1].byte0 = CMD_MSG
             /\ \A i \in 1..Len(R) : R[i].byte0 = IF i = 1 THEN CMD_MSG ELSE i - 2
             /\ \A i \in 1..Len(R) : R[i].cmd = k
  <2>1. /\ R \in Seq(Packet) /\ Len(R) \in 1..129 /\ R[1].byte0 = CMD_MSG
        /\ \A i \in 2..Len(R) : R[i].byte0 = i - 2
        /\ \A i \in 1..Len(R) : R[i].cmd = k
    BY AnswerLayout
  <2>2. \A i \in 1..Len(R) : i = 1 \/ i \in 2..Len(R)
    BY <2>1
  <2> QED
    BY <2>1, <2>2
<1>4. CASE r \in Responses(k)
  <2>1. /\ r \in Seq(Packet) /\ Len(r) \in 1..129 /\ r[1].byte0 = CMD_MSG
        /\ \A i \in 1..Len(r) : r[i].byte0 = IF i = 1 THEN CMD_MSG ELSE i - 2
        /\ \A i \in 1..Len(r) : r[i].cmd = k
    BY <1>3, <1>4
  <2>2. Chained(r)
    <3> SUFFICES ASSUME NEW i \in 1..(Len(r) - 1) PROVE Follows(r[i], r[i + 1])
      BY DEF Chained
    <3>1. i \in 1..129 /\ i \in 1..Len(r) /\ i + 1 \in 1..Len(r) /\ i + 1 <= 129
      <4>1. \A l \in 1..129 : \A j \in 1..(l - 1) :
                j \in 1..129 /\ j \in 1..l /\ j + 1 \in 1..l /\ j + 1 <= 129
        OBVIOUS
      <4> QED
        BY <2>1, <4>1
    <3>2. /\ r[i].byte0 = IF i = 1 THEN CMD_MSG ELSE i - 2
          /\ r[i + 1].byte0 = i - 1
          /\ r[i].cmd = k /\ r[i + 1].cmd = k
      BY <2>1, <3>1
    <3>3. CASE i = 1
      BY <3>2, <3>3 DEF Follows
    <3>4. CASE i # 1
      <4>1. r[i].byte0 = i - 2 /\ r[i].byte0 \notin {CMD_KEEP_ALIVE, CMD_ERROR, CMD_MSG}
        BY <3>1, <3>2, <3>4
      <4>2. r[i + 1].byte0 = r[i].byte0 + 1
        BY <3>1, <3>2, <4>1
      <4> QED
        BY <3>2, <4>1, <4>2 DEF Follows
    <3> QED
      BY <3>3, <3>4
  <2>3. \A i \in 1..Len(r) : r[i].byte0 = 0 => i = 2
    BY <2>1
  <2>4. OneZero(r)
    BY <2>3 DEF OneZero, Zeros
  <2> QED
    BY <2>1, <2>2, <2>4
<1>5. ASSUME NEW q \in Responses(k), r = <<KeepAlive(k)>> \o q
      PROVE  /\ Chained(r) /\ OneZero(r)
             /\ r[1].byte0 = CMD_KEEP_ALIVE
  <2>1. /\ q \in Seq(Packet) /\ Len(q) \in 1..129 /\ q[1].byte0 = CMD_MSG
        /\ \A i \in 1..Len(q) : q[i].byte0 = IF i = 1 THEN CMD_MSG ELSE i - 2
        /\ \A i \in 1..Len(q) : q[i].cmd = k
    BY <1>3
  <2>2. /\ Len(r) = 1 + Len(q)
        /\ \A i \in 1..(1 + Len(q)) : r[i] = IF i <= 1 THEN <<KeepAlive(k)>>[i] ELSE q[i - 1]
    <3>1. <<KeepAlive(k)>> \in Seq(Packet)
      BY KeepAliveIsPacket
    <3> QED
      BY <1>5, <2>1, <3>1, ConcatProperties, Len(<<KeepAlive(k)>>) = 1
  <2>3. /\ r[1] = KeepAlive(k)
        /\ \A i \in 2..Len(r) : r[i] = q[i - 1] /\ i - 1 \in 1..Len(q)
    BY <2>1, <2>2
  <2>4. r[2] = q[1] /\ 2 \in 2..Len(r)
    BY <2>1, <2>2, <2>3
  <2>5. Chained(r)
    <3> SUFFICES ASSUME NEW i \in 1..(Len(r) - 1) PROVE Follows(r[i], r[i + 1])
      BY DEF Chained
    <3>1. CASE i = 1
      BY <2>1, <2>4, <3>1 DEF Follows
    <3>2. CASE i # 1
      <4>1. /\ i \in 2..Len(r) /\ i + 1 \in 2..Len(r) /\ i - 1 \in 1..Len(q) /\ i \in 1..Len(q)
            /\ i <= 129 /\ (i + 1) - 1 = i
        <5>1. PICK l \in 1..129 : l = Len(q)
          BY <2>1
        <5>2. i \in 1..l /\ Len(r) = 1 + l
          BY <2>2, <5>1
        <5>3. /\ i \in 2..(1 + l) /\ i + 1 \in 2..(1 + l) /\ i - 1 \in 1..l
              /\ i <= 129 /\ (i + 1) - 1 = i
          BY <3>2, <5>2
        <5> QED
          BY <5>1, <5>2, <5>3
      <4>2. r[i] = q[i - 1] /\ r[i + 1] = q[i]
        BY <2>3, <4>1
      <4>3. /\ r[i].byte0 = IF i - 1 = 1 THEN CMD_MSG ELSE (i - 1) - 2
            /\ r[i + 1].byte0 = i - 2
            /\ r[i].cmd = k /\ r[i + 1].cmd = k
        <5>1. /\ q[i - 1].byte0 = IF i - 1 = 1 THEN CMD_MSG ELSE (i - 1) - 2
              /\ q[i].byte0 = IF i = 1 THEN CMD_MSG ELSE i - 2
              /\ q[i - 1].cmd = k /\ q[i].cmd = k
          BY <2>1, <4>1
        <5> QED
          BY <3>2, <4>2, <5>1
      <4>4. CASE i = 2
        BY <4>3, <4>4 DEF Follows
      <4>5. CASE i # 2
        <5>1. r[i].byte0 = i - 3 /\ r[i].byte0 \notin {CMD_KEEP_ALIVE, CMD_ERROR, CMD_MSG}
          <6>1. i - 1 # 1 /\ (i - 1) - 2 = i - 3 /\ i - 3 <= 126
            BY <4>1, <4>5
          <6>2. r[i].byte0 = i - 3
            BY <4>3, <6>1
          <6>3. i - 3 \notin {CMD_KEEP_ALIVE, CMD_ERROR, CMD_MSG}
            <7>1. i \in Nat
              BY <4>1, <2>1
            <7> QED
              BY <6>1, <7>1
          <6> QED
            BY <6>2, <6>3
        <5>2. r[i + 1].byte0 = r[i].byte0 + 1
          BY <4>1, <4>3, <5>1
        <5> QED
          BY <4>3, <5>1, <5>2 DEF Follows
      <4> QED
        BY <4>4, <4>5
    <3> QED
      BY <3>1, <3>2
  <2>6. \A i \in 1..Len(r) : r[i].byte0 = 0 => i = 3
    <3> SUFFICES ASSUME NEW i \in 1..Len(r), r[i].byte0 = 0 PROVE i = 3
      OBVIOUS
    <3>1. i # 1
      BY <2>3 DEF KeepAlive
    <3>2. i \in 2..Len(r) /\ i - 1 \in 1..Len(q)
      BY <2>1, <2>2, <3>1
    <3>3. r[i] = q[i - 1] /\ q[i - 1].byte0 = IF i - 1 = 1 THEN CMD_MSG ELSE (i - 1) - 2
      BY <2>1, <2>3, <3>2
    <3> QED
      BY <3>2, <3>3
  <2>7. OneZero(r)
    BY <2>6 DEF OneZero, Zeros
  <2> QED
    BY <2>3, <2>5, <2>7 DEF KeepAlive
<1> QED
  BY <1>1, <1>2, <1>4, <1>5 DEF DeviceReplies

\* What is left of the link when a packet is taken from it.
LEMMA TailShape ==
    ASSUME NEW s \in Seq(Packet), s # <<>>
    PROVE  /\ Head(s) = s[1] /\ Head(s) \in Packet
           /\ Tail(s) # <<>> => Tail(s)[1] = s[2] /\ 1 \in 1..(Len(s) - 1)
           /\ Chained(s) => Chained(Tail(s))
           /\ OneZero(s) => OneZero(Tail(s))
           /\ Zeros(s) = {} => Zeros(Tail(s)) = {}
           /\ OneZero(s) /\ Head(s).byte0 = 0 => Zeros(Tail(s)) = {}
           /\ Head(s).byte0 = 0 => Zeros(s) # {}
<1>1. /\ Head(s) \in Packet /\ Tail(s) \in Seq(Packet)
      /\ Len(Tail(s)) = Len(s) - 1
      /\ \A i \in 1..(Len(s) - 1) : Tail(s)[i] = s[i + 1]
      /\ Head(s) = s[1] /\ 1 \in 1..Len(s) /\ Len(s) \in Nat
  BY HeadTailTypes
<1>2. Tail(s) # <<>> => Tail(s)[1] = s[2] /\ 1 \in 1..(Len(s) - 1)
  <2>1. Tail(s) # <<>> => 1 \in 1..(Len(s) - 1)
    BY <1>1
  <2> QED
    BY <1>1, <2>1
<1>3. Chained(s) => Chained(Tail(s))
  <2> SUFFICES ASSUME Chained(s), NEW i \in 1..(Len(Tail(s)) - 1)
               PROVE  Follows(Tail(s)[i], Tail(s)[i + 1])
    BY DEF Chained
  <2>1. i \in 1..(Len(s) - 1) /\ i + 1 \in 1..(Len(s) - 1)
    BY <1>1
  <2>2. Tail(s)[i] = s[i + 1] /\ Tail(s)[i + 1] = s[(i + 1) + 1]
    BY <1>1, <2>1
  <2> QED
    BY <2>1, <2>2 DEF Chained
<1>4. \A i \in Zeros(Tail(s)) : i \in 1..(Len(s) - 1) /\ i + 1 \in Zeros(s)
  <2> SUFFICES ASSUME NEW i \in Zeros(Tail(s))
               PROVE  i \in 1..(Len(s) - 1) /\ i + 1 \in Zeros(s)
    OBVIOUS
  <2>1. i \in 1..(Len(s) - 1) /\ Tail(s)[i].byte0 = 0
    BY <1>1 DEF Zeros
  <2>2. i + 1 \in 1..Len(s) /\ s[i + 1].byte0 = 0
    BY <1>1, <2>1
  <2> QED
    BY <2>1, <2>2 DEF Zeros
<1>5. OneZero(s) => OneZero(Tail(s))
  <2> SUFFICES ASSUME OneZero(s), NEW i \in Zeros(Tail(s)), NEW j \in Zeros(Tail(s))
               PROVE  i = j
    BY DEF OneZero
  <2>1. i + 1 = j + 1 /\ i \in 1..(Len(s) - 1) /\ j \in 1..(Len(s) - 1)
    BY <1>4 DEF OneZero
  <2> QED
    BY <1>1, <2>1
<1>6. Zeros(s) = {} => Zeros(Tail(s)) = {}
  BY <1>4
<1>7. Head(s).byte0 = 0 => 1 \in Zeros(s)
  BY <1>1 DEF Zeros
<1>8. OneZero(s) /\ Head(s).byte0 = 0 => Zeros(Tail(s)) = {}
  <2> SUFFICES ASSUME OneZero(s), Head(s).byte0 = 0, NEW i \in Zeros(Tail(s)) PROVE FALSE
    OBVIOUS
  <2>1. i + 1 = 1 /\ i \in 1..(Len(s) - 1)
    BY <1>4, <1>7 DEF OneZero
  <2> QED
    BY <1>1, <2>1
<1> QED
  BY <1>1, <1>2, <1>3, <1>5, <1>6, <1>7, <1>8

LEMMA ChainedConcat ==
    ASSUME NEW s \in Seq(Packet), NEW r \in Seq(Packet), Chained(s), Chained(r),
           r # <<>> => r[1].byte0 \in {CMD_KEEP_ALIVE, CMD_MSG, CMD_ERROR}
    PROVE  /\ Chained(s \o r)
           /\ s \o r # <<>> => (s # <<>> /\ (s \o r)[1] = s[1])
                                \/ (s = <<>> /\ r # <<>> /\ (s \o r)[1] = r[1])
<1>1. /\ Len(s \o r) = Len(s) + Len(r) /\ Len(s) \in Nat /\ Len(r) \in Nat
      /\ \A i \in 1..(Len(s) + Len(r)) :
          (s \o r)[i] = IF i <= Len(s) THEN s[i] ELSE r[i - Len(s)]
      /\ s \o r \in Seq(Packet)
  BY ConcatProperties
<1>2. Chained(s \o r)
  <2> SUFFICES ASSUME NEW i \in 1..(Len(s) + Len(r) - 1)
               PROVE  Follows((s \o r)[i], (s \o r)[i + 1])
    BY <1>1 DEF Chained
  <2>1. /\ (s \o r)[i] = IF i <= Len(s) THEN s[i] ELSE r[i - Len(s)]
        /\ (s \o r)[i + 1] = IF i + 1 <= Len(s) THEN s[i + 1] ELSE r[(i + 1) - Len(s)]
    <3>1. i \in 1..(Len(s) + Len(r)) /\ i + 1 \in 1..(Len(s) + Len(r))
      BY <1>1
    <3> QED
      BY <1>1, <3>1
  <2>2. CASE i + 1 <= Len(s)
    <3>1. i \in 1..(Len(s) - 1) /\ i <= Len(s)
      BY <1>1, <2>2
    <3> QED
      BY <2>1, <2>2, <3>1 DEF Chained
  <2>3. CASE i = Len(s)
    <3>1. ~(i + 1 <= Len(s)) /\ (i + 1) - Len(s) = 1 /\ Len(r) # 0
      BY <1>1, <2>3
    <3>2. r # <<>>
      BY <3>1
    <3> QED
      BY <2>1, <3>1, <3>2 DEF Follows
  <2>4. CASE i > Len(s)
    <3> DEFINE j == i - Len(s)
    <3>1. j \in 1..(Len(r) - 1) /\ (i + 1) - Len(s) = j + 1
          /\ ~(i <= Len(s)) /\ ~(i + 1 <= Len(s))
      BY <1>1, <2>4
    <3> QED
      BY <2>1, <3>1 DEF Chained
  <2> QED
    BY <1>1, <2>2, <2>3, <2>4
<1>3. s \o r # <<>> => (s # <<>> /\ (s \o r)[1] = s[1])
                        \/ (s = <<>> /\ r # <<>> /\ (s \o r)[1] = r[1])
  <2>1. CASE s = <<>>
    <3>1. Len(s) = 0
      BY <2>1
    <3>2. r # <<>> => (s \o r)[1] = r[1]
      <4>1. r # <<>> => 1 \in 1..(Len(s) + Len(r)) /\ 1 - Len(s) = 1 /\ ~(1 <= Len(s))
        BY <1>1, <3>1
      <4> QED
        BY <1>1, <4>1
    <3>3. s \o r # <<>> => r # <<>>
      BY <1>1, <2>1
    <3> QED
      BY <2>1, <3>2, <3>3
  <2>2. CASE s # <<>>
    <3>1. 1 \in 1..(Len(s) + Len(r)) /\ 1 <= Len(s)
      BY <1>1, <2>2
    <3> QED
      BY <1>1, <2>2, <3>1
  <2> QED
    BY <2>1, <2>2
<1> QED
  BY <1>2, <1>3

\* The next packet of the answer extends the order; so does the one after a gap.
LEMMA AppendInOrder ==
    ASSUME NEW s \in Seq(Packet), s # <<>>, NEW p \in Packet
    PROVE  /\ InOrder(s) /\ p.byte0 = Len(s) - 1 /\ p.byte0 <= 127 /\ p.cmd = s[1].cmd =>
                InOrder(Append(s, p))
           /\ (Len(s) = 1 \/ Gapped(s)) /\ p.byte0 = Len(s) => Gapped(Append(s, p))
<1>1. /\ Len(Append(s, p)) = Len(s) + 1 /\ Len(s) \in Nat /\ Len(s) >= 1
      /\ \A i \in 1..Len(s) : Append(s, p)[i] = s[i]
      /\ Append(s, p)[Len(s) + 1] = p
  OBVIOUS
<1>2. PICK l \in Nat : l = Len(s) /\ l >= 1
  BY <1>1
<1>3. Append(s, p)[1] = s[1]
  BY <1>1, <1>2
<1>4. \A i \in 2..(l + 1) : (i \in 2..l /\ i \in 1..l) \/ i = l + 1
  BY <1>2
<1>5. ASSUME InOrder(s), p.byte0 = Len(s) - 1, p.byte0 <= 127, p.cmd = s[1].cmd
      PROVE  InOrder(Append(s, p))
  <2>1. p.byte0 = (l + 1) - 2 /\ l + 1 <= 129
    BY <1>2, <1>5
  <2>2. ASSUME NEW i \in 2..(l + 1)
        PROVE  Append(s, p)[i].byte0 = i - 2 /\ Append(s, p)[i].cmd = s[1].cmd
    <3>1. CASE i \in 2..l /\ i \in 1..l
      BY <1>1, <1>2, <1>5, <3>1 DEF InOrder
    <3>2. CASE i = l + 1
      BY <1>1, <1>2, <1>5, <2>1, <3>2
    <3> QED
      BY <1>4, <3>1, <3>2
  <2> QED
    BY <1>1, <1>2, <1>3, <2>1, <2>2 DEF InOrder
<1>6. ASSUME Len(s) = 1 \/ Gapped(s), p.byte0 = Len(s)
      PROVE  Gapped(Append(s, p))
  <2>1. \A i \in 2..l : s[i].byte0 = i - 1
    BY <1>2, <1>6 DEF Gapped
  <2>2. ASSUME NEW i \in 2..(l + 1)
        PROVE  Append(s, p)[i].byte0 = i - 1
    <3>1. CASE i \in 2..l /\ i \in 1..l
      BY <1>1, <1>2, <2>1, <3>1
    <3>2. CASE i = l + 1
      BY <1>1, <1>2, <1>6, <3>2
    <3> QED
      BY <1>4, <3>1, <3>2
  <2>3. l + 1 >= 2
    BY <1>2
  <2> QED
    BY <1>1, <1>2, <2>2, <2>3 DEF Gapped
<1> QED
  BY <1>5, <1>6

\* A fault that happens is counted.
LEMMA FaultsCounted ==
    ASSUME TypeOK
    PROVE  /\ DuplicatePacket \/ LosePacket => ~Faultless'
           /\ SameFaults /\ Faultless' => Faultless
           /\ DuplicatePacket /\ ~faults'.dupOfZero =>
                ~faults.dupOfZero /\ (Lone => Head(Line).byte0 # 0)
           /\ LosePacket /\ ~faults'.dupOfZero => ~faults.dupOfZero
<1>1. faults \in Faults
  BY DEF TypeOK
<1>2. faults.loss \in Nat /\ faults.dup \in Nat
  <2>1. faults.loss \in 0..MaxLoss /\ faults.dup \in 0..MaxDup
    BY <1>1 DEF Faults
  <2> QED
    BY <2>1, TransportAssumption
<1>3. SameFaults /\ Faultless' => Faultless
  BY DEF SameFaults, Faultless
<1>4. ASSUME DuplicatePacket
      PROVE  /\ ~Faultless'
             /\ ~faults'.dupOfZero => ~faults.dupOfZero /\ (Lone => Head(Line).byte0 # 0)
  <2>0. PICK c \in Conns :
            /\ link[c] # <<>>
            /\ faults' = [faults EXCEPT !.dup = @ + 1,
                                        !.dupOfZero = @ \/ Head(link[c]).byte0 = 0]
    BY <1>4 DEF DuplicatePacket
  <2>1. /\ faults'.loss = faults.loss /\ faults'.dup = faults.dup + 1
        /\ faults'.dupOfZero = (faults.dupOfZero \/ Head(link[c]).byte0 = 0)
    BY <1>1, <2>0 DEF Faults
  <2>4. Lone => Line = link[c]
    <3>1. Lone => \A d \in Conns : link[d] # <<>> => d = c
      BY <2>0 DEF Lone
    <3> QED
      BY <3>1, LineOfOne DEF Line
  <2>2. ~Faultless'
    BY <1>2, <2>1 DEF Faultless
  <2>3. faults.dupOfZero \in BOOLEAN
    BY <1>1 DEF Faults
  <2>5. ~faults'.dupOfZero => ~faults.dupOfZero /\ Head(link[c]).byte0 # 0
    BY <2>1, <2>3
  <2> QED
    BY <2>2, <2>4, <2>5
<1>5. ASSUME LosePacket
      PROVE  ~Faultless' /\ (~faults'.dupOfZero => ~faults.dupOfZero)
  <2>1. /\ faults'.loss = faults.loss + 1 /\ faults'.dup = faults.dup
        /\ faults'.dupOfZero = faults.dupOfZero
    BY <1>1, <1>5 DEF LosePacket, Faults
  <2> QED
    BY <1>2, <2>1 DEF Faultless
<1> QED
  BY <1>3, <1>4, <1>5

\* The packet that RecvCallBack takes from a link: Held gains it, or not.
LEMMA Taken ==
    ASSUME TypeInv, TypeInv', Genuine, Sized,
           NEW p \in Packet, p \in OnLinks, cb = NoPacket, Receive(p)
    PROVE  \/ /\ Held' = Held /\ cb' = cb
              /\ pkgSeq' = pkgSeq
              /\ \/ p.byte0 \in {CMD_KEEP_ALIVE, CMD_ERROR} /\ hasError' = hasError
                 \/ hasError'
           \/ /\ Held' = Append(Held, p)
              /\ ~hasError
              /\ p.byte0 \notin {CMD_KEEP_ALIVE, CMD_ERROR}
              /\ Held # <<>> => SeqOK(p.byte0, pkgSeq) /\ pkgSeq' = p.byte0
              /\ Held = <<>> => pkgSeq' = pkgSeq
<1>1. TypeOK /\ TypeOK'
  BY DEF TypeInv
<1>2. Held = mRecvMsg.chunks
  BY <1>1, HeldTypes
<1>3. CASE Refuses(p)
  <2>1. Held' = Held
    BY <1>1, <1>3, HeldSteps DEF Refuses
  <2> QED
    BY <1>3, <2>1 DEF Refuses
<1>4. CASE LetsThrough(p)
  <2>1. p # NoPacket
    <3>1. p.len \in 1..20
      BY DEF Genuine, Real
    <3>2. NoPacket.len = 0
      BY DEF NoPacket
    <3> QED
      BY <3>1, <3>2
  <2>2. Held' = Append(Held, p)
    BY <1>1, <1>4, <2>1, HeldSteps
  <2>3. /\ Held # <<>> => mRecvMsg.size > 0
        /\ Held = <<>> => mRecvMsg.size = 0
    BY <1>2 DEF Sized
  <2>4. /\ Held # <<>> => SeqOK(p.byte0, pkgSeq) /\ pkgSeq' = p.byte0
        /\ Held = <<>> => pkgSeq' = pkgSeq
    BY <1>4, <2>3 DEF LetsThrough
  <2> QED
    BY <1>4, <2>2, <2>4 DEF LetsThrough
<1> QED
  BY <1>1, <1>3, <1>4, ReceiveCases

LEMMA OrderedInit == Init => Sized /\ Announced /\ Ordered /\ Counted
<1> SUFFICES ASSUME Init PROVE Sized /\ Announced /\ Ordered /\ Counted
  OBVIOUS
<1>0. Line = <<>>
  BY LineOfNone DEF Init, Line
<1>1. Line = <<>> /\ Held = <<>> /\ mRecvMsg.chunks = <<>> /\ mRecvMsg.size = 0 /\ Len(<<>>) = 0
  BY <1>0 DEF Init, Held, EmptyMsg
<1>2. pc = "idle" /\ pkgSeq = 0
  BY DEF Init
<1>3. Sized /\ Announced
  BY <1>1, <1>2 DEF Sized, Announced
<1>4. Ordered
  BY <1>1 DEF Ordered, Chained
<1>5. Counted
  BY <1>1, <1>2 DEF Counted, OneZero, Zeros
<1> QED
  BY <1>3, <1>4, <1>5

\* On a faultless link packets keep their order.
LEMMA OrderedNext ==
    /\ TypeInv /\ TypeInv' /\ OneLine /\ OneLine' /\ Genuine /\ Sized /\ Ordered
    /\ [Next]_vars
    => Ordered'
<1> SUFFICES ASSUME TypeInv, TypeInv', OneLine, OneLine', Genuine, Sized, Ordered, [Next]_vars,
                    Faultless', ~mixed'
             PROVE  /\ Chained(Line')
                    /\ (Held' # <<>> /\ Line' # <<>> /\ (cb' # NoPacket \/ ~hasError')) =>
                        Follows(Held'[Len(Held')], Line'[1])
                    /\ (Held' # <<>> /\ Held'[1].byte0 = CMD_MSG) => InOrder(Held')
  BY DEF Ordered, Follows, Chained, InOrder
<1>1. TypeOK /\ TypeOK'
  BY DEF TypeInv
<1>m. ~mixed /\ Lone /\ Lone'
  BY MixedStays DEF OneLine
<1>2. ASSUME Faultless
      PROVE  /\ Chained(Line)
             /\ (Held # <<>> /\ Line # <<>> /\ (cb # NoPacket \/ ~hasError)) =>
                    Follows(Held[Len(Held)], Line[1])
             /\ (Held # <<>> /\ Held[1].byte0 = CMD_MSG) => InOrder(Held)
  BY <1>2, <1>m DEF Ordered
<1>3. UNCHANGED faults \/ SameFaults => Faultless
  BY <1>1, FaultsCounted DEF SameFaults
<1>4. Line \in Seq(Packet) /\ Held \in Seq(Packet) /\ hasError \in BOOLEAN /\ hasError' \in BOOLEAN
  BY <1>1, HeldTypes, LineTypes DEF TypeOK, FidoTypes
<1>5. CASE Still
  <2>1. Held' = Held /\ Line' = Line /\ cb' = cb
    BY <1>1, <1>5, <1>m, HeldSteps, LineSteps DEF Still
  <2>2. Faultless /\ (hasError => hasError')
    BY <1>3, <1>5 DEF Still
  <2> QED
    BY <1>2, <1>4, <2>1, <2>2
<1>6. CASE Drops
  <2>1. Held' = Held /\ Faultless /\ cb' = cb /\ hasError' = hasError
    BY <1>1, <1>3, <1>6, HeldSteps DEF Drops, fido
  <2>2. Line' = Line \/ Line' = <<>>
    BY <1>1, <1>6, <1>m, LineSteps
  <2>3. Chained(<<>>)
    BY DEF Chained
  <2> QED
    BY <1>2, <2>1, <2>2, <2>3
<1>7. CASE SendClear
  <2>1. Line' = Line /\ cb' = cb /\ Faultless
    BY <1>3, <1>7 DEF SendClear, wire, Line
  <2>2. CASE cb = NoPacket
    <3>1. Held' = <<>>
      BY <1>1, <1>7, <2>2, HeldSteps
    <3> QED
      BY <1>2, <2>1, <3>1
  <2>3. CASE cb # NoPacket
    <3>1. Held' = <<cb>> /\ cb = Held[Len(Held)]
      BY <1>1, <1>7, <2>3, HeldSteps
    <3>2. Len(Held') = 1 /\ Held'[1] = cb /\ Held # <<>>
      <4>1. Held = Append(mRecvMsg.chunks, cb) /\ mRecvMsg.chunks \in Seq(Packet)
        BY <1>1, <2>3, HeldTypes
      <4> QED
        BY <3>1, <4>1
    <3>3. Line' # <<>> => Follows(Held'[Len(Held')], Line'[1])
      BY <1>2, <2>1, <2>3, <3>1, <3>2
    <3>4. InOrder(Held')
      BY <3>2 DEF InOrder
    <3> QED
      BY <1>2, <2>1, <3>3, <3>4
  <2> QED
    BY <2>2, <2>3
<1>8. CASE Sends
  <2>1. PICK r \in DeviceReplies(cmd) : Line' = Line \o r
    BY <1>1, <1>8, <1>m, LineSends DEF Sends
  <2>2. cmd \in 0..MaxCmds
    BY <1>1 DEF TypeOK, CallerTypes
  <2>3. /\ r \in Seq(Packet) /\ Chained(r)
        /\ r # <<>> => r[1].byte0 \in {CMD_KEEP_ALIVE, CMD_MSG, CMD_ERROR}
    BY <2>2, RepliesArePackets, ReplyShape
  <2>4. Held' = Held /\ cb' = cb /\ hasError' = hasError /\ Faultless
    BY <1>1, <1>3, <1>8, HeldSteps DEF Sends, fido
  <2>5. /\ Chained(Line')
        /\ Line' # <<>> => (Line # <<>> /\ Line'[1] = Line[1])
                            \/ (Line = <<>> /\ r # <<>> /\ Line'[1] = r[1])
    BY <1>2, <1>4, <2>1, <2>3, <2>4, ChainedConcat
  <2>6. ASSUME Held' # <<>>, Line' # <<>>, cb' # NoPacket \/ ~hasError'
        PROVE  Follows(Held'[Len(Held')], Line'[1])
    <3>1. CASE Line # <<>> /\ Line'[1] = Line[1]
      BY <1>2, <2>4, <2>6, <3>1
    <3>2. CASE r # <<>> /\ Line'[1] = r[1]
      BY <2>3, <3>2 DEF Follows
    <3> QED
      BY <2>5, <2>6, <3>1, <3>2
  <2> QED
    BY <1>2, <2>4, <2>5, <2>6
<1>9. CASE MergePackage
  <2>1. cb # NoPacket /\ Held' = Held /\ Line' = Line /\ Faultless
    BY <1>1, <1>3, <1>9, HeldSteps DEF MergePackage, MergeAndNotify, wire, Line
  <2> QED
    BY <1>2, <2>1
<1>10. CASE RecvCallBack
  <2> DEFINE p == Head(Line)
  <2>1. /\ cb = NoPacket /\ Line # <<>> /\ Receive(p)
        /\ Line' = Tail(Line) /\ Faultless
    BY <1>1, <1>3, <1>10, <1>m, LineSteps DEF RecvCallBack
  <2>2. /\ p = Line[1] /\ p \in Packet /\ Chained(Line')
        /\ Line' # <<>> => Line'[1] = Line[2] /\ 1 \in 1..(Len(Line) - 1)
    BY <1>2, <1>4, <2>1, TailShape
  <2>3. Line' # <<>> => Follows(p, Line'[1])
    BY <1>2, <2>1, <2>2 DEF Chained
  <2>4. CASE /\ Held' = Held /\ cb' = cb
             /\ \/ p.byte0 \in {CMD_KEEP_ALIVE, CMD_ERROR} /\ hasError' = hasError
                \/ hasError'
    <3>1. ASSUME Held' # <<>>, Line' # <<>>, cb' # NoPacket \/ ~hasError'
          PROVE  Follows(Held'[Len(Held')], Line'[1])
      <4>1. p.byte0 \in {CMD_KEEP_ALIVE, CMD_ERROR}
        BY <2>1, <2>4, <3>1
      <4>2. Line'[1].byte0 \in {CMD_KEEP_ALIVE, CMD_MSG, CMD_ERROR}
        BY <2>3, <3>1, <4>1 DEF Follows
      <4> QED
        BY <4>2 DEF Follows
    <3> QED
      BY <1>2, <2>1, <2>2, <2>4, <3>1
  <2>5. CASE /\ Held' = Append(Held, p) /\ ~hasError
             /\ p.byte0 \notin {CMD_KEEP_ALIVE, CMD_ERROR}
             /\ Held # <<>> => SeqOK(p.byte0, pkgSeq)
    <3>1. /\ Len(Held') = Len(Held) + 1 /\ Len(Held) \in Nat /\ Held'[Len(Held')] = p
          /\ Held # <<>> => Held'[1] = Held[1] /\ Len(Held) >= 1
      BY <1>4, <2>2, <2>5
    <3>2. CASE Held = <<>>
      <4>1. InOrder(Held')
        <5>1. Len(Held') = 1
          BY <3>1, <3>2
        <5> QED
          BY <5>1 DEF InOrder
      <4> QED
        BY <2>2, <2>3, <3>1, <4>1
    <3>3. ASSUME Held # <<>>, Held'[1].byte0 = CMD_MSG
          PROVE  InOrder(Held')
      <4> DEFINE x == Held[Len(Held)]
      <4>1. InOrder(Held) /\ Follows(x, p)
        BY <1>2, <2>1, <2>2, <2>5, <3>1, <3>3
      <4>2. p.byte0 \in Nat /\ pkgSeq \in Nat
        BY <1>1, <2>2 DEF Packet, Byte, TypeOK, FidoTypes
      <4>3. p.byte0 <= 127 /\ p.byte0 # CMD_MSG
        BY <2>5, <3>3, <4>2 DEF SeqOK, CMD_MSG
      <4>4. /\ p.cmd = x.cmd
            /\ p.byte0 = IF x.byte0 = CMD_MSG THEN 0 ELSE x.byte0 + 1
        BY <2>5, <4>1, <4>3 DEF Follows
      <4>5. CASE Len(Held) = 1
        BY <1>4, <2>2, <2>5, <3>1, <3>3, <4>1, <4>3, <4>4, <4>5, AppendInOrder
      <4>6. CASE Len(Held) # 1
        <5>1. Len(Held) \in 2..Len(Held) /\ Len(Held) <= 129
          <6>1. Len(Held) \in Nat /\ Len(Held) >= 1
            BY <3>1, <3>3
          <6>2. Len(Held) <= 129
            BY <4>1 DEF InOrder
          <6>3. PICK l \in Nat : l = Len(Held)
            BY <6>1
          <6>4. l \in 2..l
            BY <4>6, <6>1, <6>3
          <6> QED
            BY <6>2, <6>3, <6>4
        <5>2. x.byte0 = Len(Held) - 2 /\ x.cmd = Held[1].cmd
          BY <4>1, <5>1 DEF InOrder
        <5>3. x.byte0 # CMD_MSG
          <6>1. PICK l \in Nat : l = Len(Held)
            BY <3>1
          <6>2. l <= 129 /\ x.byte0 = l - 2
            BY <5>1, <5>2, <6>1
          <6> HIDE DEF x
          <6> QED
            BY <6>2 DEF CMD_MSG
        <5>4. p.byte0 = Len(Held) - 1
          <6>1. p.byte0 = (Len(Held) - 2) + 1
            BY <4>4, <5>2, <5>3
          <6> QED
            BY <3>1, <6>1
        <5> QED
          BY <1>4, <2>2, <2>5, <3>1, <3>3, <4>1, <4>3, <4>4, <5>2, <5>4, AppendInOrder
      <4> QED
        BY <4>5, <4>6
    <3> QED
      BY <2>2, <2>3, <3>1, <3>2, <3>3
  <2>6. p \in Packet /\ p \in OnLinks
    BY <1>1, <1>4, <2>1, <2>2, LinkPackets, PacketsOf
  <2> HIDE DEF p
  <2>7. \/ /\ Held' = Held /\ cb' = cb
           /\ \/ p.byte0 \in {CMD_KEEP_ALIVE, CMD_ERROR} /\ hasError' = hasError
              \/ hasError'
        \/ /\ Held' = Append(Held, p) /\ ~hasError
           /\ p.byte0 \notin {CMD_KEEP_ALIVE, CMD_ERROR}
           /\ Held # <<>> => SeqOK(p.byte0, pkgSeq)
    BY <2>1, <2>6, Taken
  <2> QED
    BY <2>4, <2>5, <2>7
<1> QED
  BY <1>1, <1>5, <1>6, <1>7, <1>8, <1>9, <1>10, Effects, FaultsCounted

\* In a quiet exchange pkgSeq counts the packets, whatever the link does short
\* of repeating packet 0.
LEMMA TakenCounted ==
    ASSUME TypeInv, TypeInv', Genuine, Sized, FreshInv, Counted,
           quiet, ~faults.dupOfZero,
           cb = NoPacket, Line # <<>>, Receive(Head(Line)),
           Line' = Tail(Line) \/ (Line' = Line /\ Head(Line).byte0 # 0)
    PROVE  /\ Held' = <<>> => pkgSeq' = 0
           /\ OneZero(Line')
           /\ Zeros(Held') # {} => Zeros(Line') = {}
           /\ (Held' # <<>> /\ Held'[1].byte0 = CMD_MSG) =>
                \/ InOrder(Held') /\ pkgSeq' = IF Len(Held') = 1 THEN 0 ELSE Len(Held') - 2
                \/ Gapped(Held') /\ pkgSeq' = Len(Held') - 1
<1> DEFINE p == Head(Line)
<1>1. TypeOK /\ TypeOK'
  BY DEF TypeInv
<1>2. Line \in Seq(Packet) /\ Held \in Seq(Packet) /\ Held = mRecvMsg.chunks
  BY <1>1, HeldTypes, LineTypes
<1>3. /\ Held = <<>> => pkgSeq = 0
      /\ OneZero(Line)
      /\ Zeros(Held) # {} => Zeros(Line) = {}
      /\ (Held # <<>> /\ Held[1].byte0 = CMD_MSG) =>
            \/ InOrder(Held) /\ pkgSeq = IF Len(Held) = 1 THEN 0 ELSE Len(Held) - 2
            \/ Gapped(Held) /\ pkgSeq = Len(Held) - 1
  BY DEF Counted
<1>4. /\ p = Line[1] /\ p \in Packet
      /\ OneZero(Tail(Line))
      /\ Zeros(Line) = {} => Zeros(Tail(Line)) = {}
      /\ p.byte0 = 0 => Zeros(Tail(Line)) = {} /\ Zeros(Line) # {}
  BY <1>2, <1>3, TailShape
<1>5. /\ OneZero(Line')
      /\ Zeros(Line) = {} => Zeros(Line') = {}
      /\ p.byte0 = 0 => Zeros(Line') = {}
  BY <1>3, <1>4
<1>6. CASE Held' = Held /\ pkgSeq' = pkgSeq
  BY <1>3, <1>5, <1>6
<1>7. CASE /\ Held' = Append(Held, p)
           /\ Held # <<>> => SeqOK(p.byte0, pkgSeq) /\ pkgSeq' = p.byte0
           /\ Held = <<>> => pkgSeq' = pkgSeq
  <2>1. /\ Len(Held') = Len(Held) + 1 /\ Len(Held) \in Nat
        /\ \A i \in 1..Len(Held) : Held'[i] = Held[i]
        /\ Held'[Len(Held) + 1] = p /\ Held' # <<>>
        /\ Held # <<>> => Held'[1] = Held[1] /\ Len(Held) >= 1
    BY <1>2, <1>4, <1>7
  <2>2. Zeros(Held') # {} => Zeros(Line') = {}
    <3> SUFFICES ASSUME NEW i \in Zeros(Held') PROVE Zeros(Line') = {}
      OBVIOUS
    <3>1. i \in 1..(Len(Held) + 1) /\ Held'[i].byte0 = 0
      BY <2>1 DEF Zeros
    <3>2. i \in 1..Len(Held) \/ i = Len(Held) + 1
      BY <2>1, <3>1
    <3>3. CASE i \in 1..Len(Held)
      <4>1. i \in Zeros(Held)
        BY <2>1, <3>1, <3>3 DEF Zeros
      <4> QED
        BY <1>3, <1>5, <4>1
    <3>4. CASE i = Len(Held) + 1
      BY <1>5, <2>1, <3>1, <3>4
    <3> QED
      BY <3>2, <3>3, <3>4
  <2>3. CASE Held = <<>>
    <3>1. Len(Held') = 1 /\ pkgSeq' = 0
      BY <1>3, <1>7, <2>1, <2>3
    <3>2. InOrder(Held')
      BY <3>1 DEF InOrder
    <3> QED
      BY <1>5, <2>1, <2>2, <3>1, <3>2
  <2>4. CASE Held # <<>> /\ Held'[1].byte0 = CMD_MSG
    <3>1. /\ SeqOK(p.byte0, pkgSeq) /\ pkgSeq' = p.byte0
          /\ Held[1].byte0 = CMD_MSG
      BY <1>7, <2>1, <2>4
    <3>2. p.byte0 \in Nat /\ pkgSeq \in Nat
      BY <1>1, <1>4 DEF Packet, Byte, TypeOK, FidoTypes
    <3>3. p.byte0 <= 127 /\ (p.byte0 = pkgSeq + 1 \/ (p.byte0 = 0 /\ pkgSeq = 0))
      BY <3>1, <3>2 DEF SeqOK
    <3>4. p.cmd = Held[1].cmd
      <4>1. OwnPackets(Line) /\ OwnPackets(mRecvMsg.chunks)
        <5>1. (\A c \in Conns : OwnPackets(link[c])) /\ OwnPackets(mRecvMsg.chunks)
          BY DEF FreshInv
        <5>2. PICK c \in Conns : Line = link[c]
          BY <1>1, LineTypes
        <5> QED
          BY <5>1, <5>2
      <4>2. 1 \in 1..Len(Held) /\ 1 \in 1..Len(Line)
        BY <1>2, <2>1, <2>4, HeadTailTypes
      <4> QED
        BY <1>2, <1>4, <4>1, <4>2 DEF OwnPackets
    <3>5. PICK l \in Nat : l = Len(Held) /\ l >= 1
      BY <2>1, <2>4
    <3>6. p.byte0 = 0 => Zeros(Held) = {}
      BY <1>3, <1>4
    <3>7. CASE InOrder(Held) /\ pkgSeq = IF Len(Held) = 1 THEN 0 ELSE Len(Held) - 2
      <4>1. CASE l = 1
        <5>1. pkgSeq = 0 /\ Len(Held) = 1 /\ Len(Held') = 2
          BY <2>1, <3>5, <3>7, <4>1
        <5>2. CASE p.byte0 = 0
          <6>1. InOrder(Held')
            BY <1>2, <1>4, <1>7, <2>4, <3>4, <3>7, <5>1, <5>2, AppendInOrder
          <6> QED
            BY <1>5, <2>1, <2>2, <3>1, <5>1, <5>2, <6>1
        <5>3. CASE p.byte0 = 1
          <6>1. Gapped(Held')
            BY <1>2, <1>4, <1>7, <2>4, <5>1, <5>3, AppendInOrder
          <6> QED
            BY <1>5, <2>1, <2>2, <3>1, <5>1, <5>3, <6>1
        <5> QED
          BY <3>3, <5>1, <5>2, <5>3
      <4>2. CASE l >= 2
        <5>1. pkgSeq = l - 2
          BY <3>5, <3>7, <4>2
        <5>2. p.byte0 = l - 1
          <6>1. Held[2].byte0 = 0
            <7>1. 2 \in 2..Len(Held)
              BY <3>5, <4>2
            <7> QED
              BY <3>7, <7>1 DEF InOrder
          <6>2. Zeros(Held) # {}
            <7>1. 2 \in 1..Len(Held)
              BY <3>5, <4>2
            <7> QED
              BY <6>1, <7>1 DEF Zeros
          <6>3. p.byte0 # 0
            BY <3>6, <6>2
          <6> QED
            BY <3>2, <3>3, <5>1, <6>3
        <5>3. p.byte0 = Len(Held) - 1
          BY <3>5, <5>2
        <5>4. InOrder(Held')
          BY <1>2, <1>4, <1>7, <2>4, <3>3, <3>4, <3>7, <5>3, AppendInOrder
        <5>5. Len(Held') = l + 1 /\ l + 1 # 1 /\ pkgSeq' = (l + 1) - 2
          BY <2>1, <3>1, <3>5, <4>2, <5>2
        <5> QED
          BY <1>5, <2>1, <2>2, <5>4, <5>5
      <4> QED
        BY <3>5, <4>1, <4>2
    <3>8. CASE Gapped(Held) /\ pkgSeq = Len(Held) - 1
      <4>1. l >= 2 /\ pkgSeq = l - 1
        BY <3>5, <3>8 DEF Gapped
      <4>2. p.byte0 = l
        BY <3>2, <3>3, <4>1
      <4>3. p.byte0 = Len(Held)
        BY <3>5, <4>2
      <4>4. Gapped(Held')
        BY <1>2, <1>4, <1>7, <2>4, <3>8, <4>3, AppendInOrder
      <4>5. Len(Held') = l + 1 /\ pkgSeq' = (l + 1) - 1
        BY <2>1, <3>1, <3>5, <4>2
      <4> QED
        BY <1>5, <2>1, <2>2, <4>4, <4>5
    <3> QED
      BY <1>3, <2>4, <3>1, <3>7, <3>8
  <2> QED
    BY <1>5, <2>1, <2>2, <2>3, <2>4
<1>8. Receive(p) /\ p \in OnLinks
  BY <1>1, <1>2, LinkPackets, PacketsOf
<1> HIDE DEF p
<1>9. \/ Held' = Held /\ pkgSeq' = pkgSeq
      \/ /\ Held' = Append(Held, p)
         /\ Held # <<>> => SeqOK(p.byte0, pkgSeq) /\ pkgSeq' = p.byte0
         /\ Held = <<>> => pkgSeq' = pkgSeq
  BY <1>4, <1>8, Taken
<1> QED
  BY <1>6, <1>7, <1>9

LEMMA CountedNext ==
    /\ TypeInv /\ TypeInv' /\ OneLine /\ OneLine' /\ Genuine /\ Sized /\ FreshInv /\ Counted
    /\ [Next]_vars
    => Counted'
<1> SUFFICES ASSUME TypeInv, TypeInv', OneLine, OneLine', Genuine, Sized, FreshInv, Counted,
                    [Next]_vars, quiet', ~faults'.dupOfZero
             PROVE  /\ pc' \in {"wrap", "send"} => Line' = <<>> /\ Held' = <<>>
                    /\ Held' = <<>> => pkgSeq' = 0
                    /\ OneZero(Line')
                    /\ Zeros(Held') # {} => Zeros(Line') = {}
                    /\ (Held' # <<>> /\ Held'[1].byte0 = CMD_MSG) =>
                        \/ InOrder(Held') /\ pkgSeq' = IF Len(Held') = 1 THEN 0 ELSE Len(Held') - 2
                        \/ Gapped(Held') /\ pkgSeq' = Len(Held') - 1
  BY DEF Counted, OneZero, Zeros, InOrder, Gapped
<1>1. TypeOK /\ TypeOK'
  BY DEF TypeInv
<1>l. (quiet => Lone) /\ Lone'
  BY DEF OneLine
<1>2. ASSUME quiet, ~faults.dupOfZero
      PROVE  /\ pc \in {"wrap", "send"} => Line = <<>> /\ Held = <<>>
             /\ Held = <<>> => pkgSeq = 0
             /\ OneZero(Line)
             /\ Zeros(Held) # {} => Zeros(Line) = {}
             /\ (Held # <<>> /\ Held[1].byte0 = CMD_MSG) =>
                    \/ InOrder(Held) /\ pkgSeq = IF Len(Held) = 1 THEN 0 ELSE Len(Held) - 2
                    \/ Gapped(Held) /\ pkgSeq = Len(Held) - 1
  BY <1>2 DEF Counted
<1>3. Line \in Seq(Packet)
  BY <1>1, LineTypes
<1>4. OneZero(<<>>) /\ Zeros(<<>>) = {}
  BY DEF OneZero, Zeros
<1>5. CASE Still
  <2>1. Held' = Held /\ Line' = Line /\ pkgSeq' = pkgSeq
    BY <1>1, <1>5, HeldSteps DEF Still, Line
  <2>2. quiet /\ ~faults.dupOfZero /\ (pc' \in {"wrap", "send"} => pc \in {"wrap", "send"})
    BY <1>5 DEF Still, SameFaults
  <2> QED
    BY <1>2, <2>1, <2>2
<1>6. CASE Drops
  <2>1. Held' = Held /\ pkgSeq' = pkgSeq
    BY <1>1, <1>6, HeldSteps DEF Drops, fido
  <2>2. quiet /\ ~faults.dupOfZero /\ pc' = pc
    BY <1>6 DEF Drops
  <2>3. Line' = Line \/ Line' = <<>>
    BY <1>1, <1>6, <1>l, <2>2, LineSteps
  <2> QED
    BY <1>2, <1>4, <2>1, <2>2, <2>3
<1>7. CASE SendClear
  <2>1. Quiet /\ Line' = Line /\ pkgSeq' = 0
    BY <1>7 DEF SendClear, wire, Line
  <2>2. Held' = <<>> /\ Line' = <<>>
    BY <1>1, <1>7, <2>1, HeldSteps, LineOfNone DEF Quiet, Line
  <2> QED
    BY <1>4, <2>1, <2>2
<1>8. CASE Sends
  <2>0. quiet
    BY <1>8 DEF Sends
  <2>1. PICK r \in DeviceReplies(cmd) : Line' = Line \o r
    BY <1>1, <1>8, <1>l, <2>0, LineSends DEF Sends
  <2>2. cmd \in 0..MaxCmds
    BY <1>1 DEF TypeOK, CallerTypes
  <2>3. r \in Seq(Packet) /\ OneZero(r)
    BY <2>2, RepliesArePackets, ReplyShape
  <2>4. /\ Held' = Held /\ pkgSeq' = pkgSeq
        /\ quiet /\ ~faults.dupOfZero /\ pc = "send" /\ pc' \in {"sent", "idle"}
    BY <1>1, <1>8, HeldSteps DEF Sends, fido
  <2>5. Line = <<>> /\ Held = <<>>
    BY <1>2, <2>4
  <2>6. Line' = r
    BY <2>1, <2>3, <2>5
  <2> QED
    BY <1>2, <1>4, <2>3, <2>4, <2>5, <2>6
<1>9. CASE MergePackage
  <2>1. /\ Held' = Held /\ Line' = Line /\ pkgSeq' = pkgSeq
        /\ quiet /\ ~faults.dupOfZero /\ pc' = pc
    BY <1>1, <1>9, HeldSteps DEF MergePackage, MergeAndNotify, wire, caller, Line
  <2> QED
    BY <1>2, <2>1
<1>10. CASE LosePacket
  <2>0. quiet
    BY <1>10 DEF LosePacket
  <2>1. /\ Held' = Held /\ Line # <<>> /\ Line' = Tail(Line) /\ pkgSeq' = pkgSeq
        /\ quiet /\ ~faults.dupOfZero /\ pc' = pc
    BY <1>1, <1>10, <1>l, <2>0, HeldSteps, FaultsCounted, LineSteps DEF LosePacket, fido, caller
  <2>2. /\ OneZero(Line) => OneZero(Line')
        /\ Zeros(Line) = {} => Zeros(Line') = {}
    BY <1>3, <2>1, TailShape
  <2> QED
    BY <1>2, <2>1, <2>2
<1>11. CASE RecvCallBack
  <2>0. quiet
    BY <1>11 DEF RecvCallBack
  <2>1. /\ cb = NoPacket /\ Line # <<>> /\ Receive(Head(Line)) /\ Line' = Tail(Line)
        /\ quiet /\ ~faults.dupOfZero /\ pc' = pc
    BY <1>1, <1>11, <1>l, <2>0, LineSteps DEF RecvCallBack, caller
  <2>2. pc' \notin {"wrap", "send"}
    BY <1>2, <2>1
  <2> QED
    BY <2>1, <2>2, TakenCounted
<1>12. CASE DuplicatePacket
  <2>0. quiet
    BY <1>12 DEF DuplicatePacket
  <2>1. /\ cb = NoPacket /\ Line # <<>> /\ Receive(Head(Line)) /\ Line' = Line
        /\ quiet /\ pc' = pc
    BY <1>1, <1>12, <1>l, <2>0, LineSteps DEF DuplicatePacket, caller
  <2>2. ~faults.dupOfZero /\ Head(Line).byte0 # 0
    BY <1>1, <1>12, <1>l, <2>0, FaultsCounted
  <2>3. pc' \notin {"wrap", "send"}
    BY <1>2, <2>1, <2>2
  <2> QED
    BY <2>1, <2>2, <2>3, TakenCounted
<1> QED
  BY <1>5, <1>6, <1>7, <1>8, <1>9, <1>10, <1>11, <1>12, Effects

\* What SendData copies, once checkResponse has found it complete, is one whole
\* answer: the announced length leaves no room for fewer packets, and their
\* numbers none for others.
LEMMA CopyIsWhole ==
    ASSUME TypeInv, Genuine, Sized, Announced, Ordered, FreshInv, Counted,
           pc = "copy", quiet \/ (Faultless /\ ~mixed), ~faults.dupOfZero
    PROVE  \E k \in 1..cmd : mRecvMsg.chunks \in Responses(k)
<1> DEFINE c == mRecvMsg.chunks
           k == c[1].cmd
<1>1. TypeOK
  BY DEF TypeInv
<1>2. /\ c \in Seq(Packet) /\ mRecvMsg.size \in Nat /\ Held \in Seq(Packet)
      /\ Len(c) \in Nat /\ Len(Held) \in Nat
      /\ Len(c) <= Len(Held)
      /\ \A i \in 1..Len(c) : Held[i] = c[i]
  <2>1. /\ c \in Seq(Packet) /\ mRecvMsg.size \in Nat /\ Held \in Seq(Packet)
        /\ Len(c) \in Nat
        /\ \A i \in 1..Len(c) : Held[i] = c[i]
    BY <1>1, HeldTypes
  <2>2. Len(Held) = Len(c) \/ Len(Held) = Len(c) + 1
    BY <1>1, HeldTypes
  <2> HIDE DEF c
  <2> QED
    BY <2>1, <2>2
<1>3. /\ c # <<>> /\ c[1].byte0 = CMD_MSG
      /\ c[1].total + 3 + Continuations(c[1].total) <= mRecvMsg.size
      /\ mRecvMsg.size <= 20 * Len(c)
  <2>1. c # <<>> => Head(c) = c[1]
    BY <1>2
  <2> QED
    BY <2>1 DEF Announced, Sized
<1>4. PICK l \in Nat : l = Len(c) /\ l >= 1
  BY <1>2, <1>3
<1>5. PICK h \in Nat : h = Len(Held) /\ h >= l
  BY <1>2, <1>4
<1>6. Held # <<>> /\ Held[1] = c[1] /\ 1 \in 1..Len(Held)
  BY <1>2, <1>4, <1>5
<1>7. PICK reply \in [1..MaxCmds -> Seq(Packet)] :
        /\ \A i \in 1..MaxCmds : reply[i] = <<>> \/ reply[i] \in Responses(i)
        /\ \A x \in OnLinks \cup Packets(Held) : Real(x, reply, Reached)
  BY DEF Genuine
<1> DEFINE R == reply[k]
<1>8. \A i \in 1..Len(Held) :
        /\ Held[i].cmd \in 1..Reached
        /\ \E j \in 1..Len(reply[Held[i].cmd]) : Held[i] = reply[Held[i].cmd][j]
  <2> SUFFICES ASSUME NEW i \in 1..Len(Held)
               PROVE  /\ Held[i].cmd \in 1..Reached
                      /\ \E j \in 1..Len(reply[Held[i].cmd]) : Held[i] = reply[Held[i].cmd][j]
    OBVIOUS
  <2>1. Held[i] \in Packets(Held)
    BY <1>2, PacketsOf
  <2>2. Real(Held[i], reply, Reached) /\ Held[i].byte0 \notin {CMD_KEEP_ALIVE, CMD_ERROR}
    BY <1>7, <2>1 DEF Genuine
  <2> QED
    BY <2>2 DEF Real
<1>9. k \in 1..cmd /\ k \in 1..MaxCmds /\ k \in 0..MaxCmds
  <2>1. k \in 1..Reached
    BY <1>6, <1>8
  <2>2. Reached = cmd /\ cmd \in 0..MaxCmds
    BY <1>1 DEF Reached, TypeOK, CallerTypes
  <2> QED
    BY <2>1, <2>2, TransportAssumption
<1> HIDE DEF k, c
<1>10. ASSUME NEW i \in 1..Len(Held), Held[i].cmd = k
       PROVE  \E j \in 1..Len(R) : Held[i] = R[j]
  BY <1>8, <1>10
<1>11. R \in Responses(k)
  <2>1. Held[1].cmd = k
    BY <1>6 DEF k
  <2>2. R # <<>>
    <3>1. PICK j \in 1..Len(R) : Held[1] = R[j]
      BY <1>6, <1>10, <2>1
    <3>2. R = <<>> => Len(R) = 0
      OBVIOUS
    <3> QED
      BY <3>1, <3>2
  <2> QED
    BY <1>7, <1>9, <2>2
<1> HIDE DEF R
<1>12. /\ R \in Seq(Packet) /\ Len(R) \in 1..129
       /\ Continuations(R[1].total) = Len(R) - 1
       /\ R[1].byte0 = CMD_MSG
       /\ \A i \in 2..Len(R) : R[i].byte0 = i - 2
       /\ R[Len(R)].len >= 2 /\ R[Len(R)].len \in Nat
       /\ R[Len(R)].len + 19 * Len(R) = R[1].total + 22
       /\ R[1].total \in Nat
  BY <1>9, <1>11, AnswerLayout
<1>13. PICK L \in 1..129 : L = Len(R)
  BY <1>12
<1>14. ASSUME NEW i \in 1..Len(Held), Held[i].cmd = k, NEW n \in Nat, Held[i].byte0 = n, n # CMD_MSG
       PROVE  Held[i] = R[n + 2] /\ n + 2 <= L
  <2>1. PICK j \in 1..L : Held[i] = R[j]
    BY <1>10, <1>13, <1>14
  <2>2. j # 1
    BY <1>12, <1>14, <2>1
  <2>3. j \in 2..L /\ R[j].byte0 = j - 2
    BY <1>12, <1>13, <2>1, <2>2
  <2>4. j = n + 2
    BY <1>14, <2>1, <2>3
  <2> QED
    BY <2>1, <2>4
<1>15. c[1] = R[1]
  <2>1. PICK j \in 1..L : c[1] = R[j]
    BY <1>6, <1>10, <1>13 DEF k
  <2>2. j # 1 => j \in 2..L /\ R[j].byte0 = j - 2 /\ j - 2 # CMD_MSG
    <3>1. j # 1 => j \in 2..L /\ j - 2 # CMD_MSG
      BY DEF CMD_MSG
    <3> QED
      BY <1>12, <1>13, <3>1
  <2> QED
    BY <1>3, <2>1, <2>2
<1>16. L <= l
  <2> DEFINE x == R[Len(R)].len
             t == R[1].total
             s == mRecvMsg.size
  <2>1. x \in Nat /\ x >= 2 /\ t \in Nat /\ s \in Nat
    BY <1>2, <1>12
  <2>2. x + 19 * L = t + 22 /\ t + 3 + (L - 1) <= s /\ s <= 20 * l
    BY <1>3, <1>4, <1>12, <1>13, <1>15
  <2> HIDE DEF x, t, s
  <2> QED
    BY <2>1, <2>2
<1>17. CASE InOrder(Held)
  <2>1. ASSUME NEW i \in 2..l
        PROVE  c[i] = R[i] /\ i <= L
    <3>1. i \in 1..l /\ i \in 2..Len(Held) /\ i \in 1..Len(Held)
      BY <1>4, <1>5
    <3>2. Held[i] = c[i] /\ Held[i].byte0 = i - 2 /\ Held[i].cmd = k
      BY <1>2, <1>4, <1>6, <1>17, <3>1 DEF InOrder, k
    <3>3. i - 2 \in Nat /\ i - 2 # CMD_MSG /\ (i - 2) + 2 = i
      <4>1. Len(Held) <= 129
        BY <1>17 DEF InOrder
      <4>2. i <= 129
        BY <1>5, <4>1
      <4> QED
        BY <4>2 DEF CMD_MSG
    <3> QED
      BY <1>14, <3>1, <3>2, <3>3
  <2>2. l = L
    <3>1. l >= 2 => l \in 2..l
      OBVIOUS
    <3> QED
      BY <1>4, <1>16, <2>1, <3>1
  <2>3. \A i \in 1..l : c[i] = R[i]
    <3>1. \A i \in 1..l : i = 1 \/ i \in 2..l
      OBVIOUS
    <3> QED
      BY <1>15, <2>1, <3>1
  <2>4. c = R
    <3>1. Len(c) = Len(R) /\ \A i \in 1..Len(c) : c[i] = R[i]
      BY <1>4, <1>13, <2>2, <2>3
    <3> QED
      BY <1>2, <1>12, <3>1, SeqEqual
  <2> QED
    BY <1>9, <1>11, <2>4 DEF c
<1>18. CASE Gapped(Held) /\ quiet
  <2>1. ASSUME NEW i \in 2..h
        PROVE  i \in 1..Len(Held) /\ Held[i].byte0 = i - 1 /\ Held[i].cmd = k
    <3>1. i \in 2..Len(Held) /\ i \in 1..Len(Held)
      BY <1>5
    <3>2. \A j \in 1..Len(Held) : Held[j].cmd = cmd
      <4>1. OwnPackets(mRecvMsg.chunks) /\ (cb # NoPacket => cb.cmd = cmd)
        BY <1>18 DEF FreshInv
      <4>2. ASSUME NEW j \in 1..Len(Held)
            PROVE  j \in 1..Len(mRecvMsg.chunks) \/ (cb # NoPacket /\ j = Len(Held))
        <5>1. /\ Len(mRecvMsg.chunks) \in Nat
              /\ cb = NoPacket => Len(Held) = Len(mRecvMsg.chunks)
              /\ cb # NoPacket => Len(Held) = Len(mRecvMsg.chunks) + 1
          BY <1>1, HeldTypes
        <5>2. CASE cb = NoPacket
          BY <5>1, <5>2
        <5>3. CASE cb # NoPacket
          BY <5>1, <5>3
        <5> QED
          BY <5>2, <5>3
      <4>3. \A j \in 1..Len(mRecvMsg.chunks) : Held[j] = mRecvMsg.chunks[j]
        BY <1>1, HeldTypes
      <4>4. cb # NoPacket => Held[Len(Held)] = cb
        BY <1>1, HeldTypes
      <4> QED
        BY <4>1, <4>2, <4>3, <4>4 DEF OwnPackets
    <3>3. k = cmd
      BY <1>6, <3>2 DEF k
    <3> QED
      BY <1>18, <3>1, <3>2, <3>3 DEF Gapped
  <2>2. h >= 2
    BY <1>5, <1>18 DEF Gapped
  <2>3. L >= 3
    <3>1. 2 \in 2..h
      BY <2>2
    <3>2. Held[2].byte0 = 1 /\ Held[2].cmd = k /\ 2 \in 1..Len(Held)
      BY <2>1, <3>1
    <3>3. 1 + 2 <= L
      BY <1>14, <3>2 DEF CMD_MSG
    <3> QED
      BY <3>3
  <2>4. L \in 2..h /\ L - 1 \in Nat /\ L - 1 # CMD_MSG
    BY <1>5, <1>16, <2>3 DEF CMD_MSG
  <2>5. (L - 1) + 2 <= L
    BY <1>14, <2>1, <2>4
  <2> QED
    BY <2>5
<1> QED
  <2>1. CASE Faultless /\ ~mixed
    BY <1>3, <1>6, <1>17, <2>1 DEF Ordered
  <2>2. CASE quiet
    <3>1. InOrder(Held) \/ Gapped(Held)
      BY <1>3, <1>6, <2>2 DEF Counted
    <3> QED
      BY <1>17, <1>18, <2>2, <3>1
  <2> QED
    BY <2>1, <2>2

\* The steps that touch what AnswerIntact speaks of.
LEMMA IntactNext ==
    /\ TypeInv /\ TypeInv' /\ Genuine /\ Sized /\ Announced /\ Ordered /\ FreshInv /\ Counted
    /\ AnswerIntact /\ [Next]_vars
    => AnswerIntact'
<1> SUFFICES ASSUME TypeInv, TypeInv', Genuine, Sized, Announced, Ordered, FreshInv, Counted,
                    AnswerIntact, [Next]_vars,
                    result' = "OK", quiet' \/ (Faultless' /\ ~mixed'), ~faults'.dupOfZero
             PROVE  \E k \in 1..cmd' : answer' \in Responses(k)
  BY DEF AnswerIntact, Responses, Response, Faultless
<1>1. TypeOK
  BY DEF TypeInv
<1>2. CASE SendClear
  BY <1>2 DEF SendClear
<1>3. CASE ~SendClear
  <2>1. quiet' = quiet /\ cmd' = cmd
    BY <1>3, Effects DEF Still, Sends, RecvCallBack, DuplicatePacket, LosePacket, MergePackage,
       MergeAndNotify, Drops, caller
  <2>m. ~mixed' => ~mixed
    BY MixedStays
  <2>2. (quiet \/ (Faultless /\ ~mixed)) /\ ~faults.dupOfZero
    <3>1. CASE Still
      <4>1. SameFaults
        BY <3>1 DEF Still
      <4>2. Faultless' => Faultless
        BY <1>1, <4>1, FaultsCounted
      <4>3. ~faults.dupOfZero
        BY <4>1 DEF SameFaults
      <4> QED
        BY <2>1, <2>m, <4>2, <4>3
    <3>2. CASE DuplicatePacket \/ LosePacket
      BY <1>1, <2>1, <2>m, <3>2, FaultsCounted
    <3>3. CASE faults' = faults
      BY <2>1, <2>m, <3>3 DEF Faultless
    <3> QED
      BY <1>3, <3>1, <3>2, <3>3, Effects DEF Sends, RecvCallBack, MergePackage, MergeAndNotify,
         Drops
  <2>4. CASE result' = result /\ answer' = answer
    BY <2>1, <2>2, <2>4 DEF AnswerIntact, Faultless
  <2>3. CASE CopyResponse
    <3>1. CASE result' = result /\ answer' = answer
      BY <2>4, <3>1
    <3>2. CASE pc = "copy" /\ answer' = mRecvMsg.chunks
      BY <2>1, <2>2, <3>2, CopyIsWhole
    <3> QED
      BY <2>3, <3>1, <3>2 DEF CopyResponse, Return
  <2>5. CASE SendNotConnected \/ SendApduFails \/ Timeout
    BY <2>5 DEF SendNotConnected, SendApduFails, Timeout, Return
  <2>6. CASE SendWrap \/ SendApdu \/ WaitForReceive
    BY <2>4, <2>6 DEF SendWrap, SendApdu, WaitForReceive
  <2>7. CASE Notified \/ SpuriousWakeup
    BY <2>4, <2>7 DEF Notified, SpuriousWakeup, AfterWait, Return
  <2>8. CASE CheckResponse
    BY <2>4, <2>8 DEF CheckResponse, Return
  <2>9. CASE RecvCallBack \/ MergePackage \/ DiscCallBack
    BY <2>4, <2>9 DEF RecvCallBack, MergePackage, MergeAndNotify, DiscCallBack, caller
  <2>10. CASE DuplicatePacket \/ LosePacket \/ LinkDown \/ Connect \/ Disconnect
    BY <2>4, <2>10 DEF DuplicatePacket, LosePacket, LinkDown, Connect, Disconnect, Forget, caller
  <2>11. CASE UNCHANGED vars
    BY <2>4, <2>11 DEF vars, caller
  <2> QED
    BY <1>3, <2>3, <2>5, <2>6, <2>7, <2>8, <2>9, <2>10, <2>11
       DEF Next, SendData, BLEThread, Environment
<1> QED
  BY <1>2, <1>3

\* An answer that SendData hands out is one whole answer of the device, in
\* order, as long as the link is faultless; and whatever the link loses or
\* repeats, packet 0 apart, in an exchange that began on a quiet link.
THEOREM AnswerSound == Spec => []AnswerIntact
<1> DEFINE I == /\ OneLine /\ Genuine /\ Begun /\ Sized /\ Announced /\ Ordered /\ FreshInv /\ Counted
                /\ AnswerIntact
<1>1. Init => I
  <2>1. Init => AnswerIntact
    BY DEF Init, AnswerIntact
  <2> QED
    BY <2>1, OneLineInit, GenuineInit, OrderedInit, FreshInit
<1>2. I /\ TypeInv /\ TypeInv' /\ [Next]_vars => I'
  <2> SUFFICES ASSUME I, TypeInv, TypeInv', [Next]_vars PROVE I'
    OBVIOUS
  <2>1. TypeOK
    BY DEF TypeInv
  <2>2. OneLine'
    BY OneLineNext
  <2> QED
    BY <2>1, <2>2, GenuineNext, BegunNext, SizedNext, AnnouncedNext, OrderedNext, FreshNext, CountedNext,
       IntactNext
<1>3. I => AnswerIntact
  OBVIOUS
<1> HIDE DEF I
<1> QED
  BY <1>1, <1>2, <1>3, TypeInvCorrect, PTL DEF Spec

-----------------------------------------------------------------------------
(* The overrun of tempMsg *)

\* As long as the buffer holds one packet, its size is that of the packet.
FirstSized ==
    Len(mRecvMsg.chunks) = 1 => mRecvMsg.size = mRecvMsg.chunks[1].len

LEMMA FirstSizedNext ==
    TypeInv /\ TypeInv' /\ Sized /\ FirstSized /\ [Next]_vars => FirstSized'
<1> SUFFICES ASSUME TypeInv, TypeInv', Sized, FirstSized, [Next]_vars PROVE FirstSized'
  OBVIOUS
<1>1. TypeOK /\ TypeOK'
  BY DEF TypeInv
<1>2. CASE mRecvMsg' = mRecvMsg
  BY <1>2 DEF FirstSized
<1>3. CASE SendClear
  BY <1>3 DEF SendClear, FirstSized, EmptyMsg
<1>4. CASE MergePackage
  <2>1. mRecvMsg' = [chunks |-> Append(mRecvMsg.chunks, cb), size |-> mRecvMsg.size + cb.len]
    BY <1>4 DEF MergePackage, MergeAndNotify
  <2>2. mRecvMsg.chunks \in Seq(Packet) /\ mRecvMsg.size \in Nat /\ cb \in Packet
    BY <1>1, HeldTypes
  <2>3. /\ mRecvMsg'.chunks = Append(mRecvMsg.chunks, cb)
        /\ mRecvMsg'.size = mRecvMsg.size + cb.len
    BY <2>1
  <2>4. CASE mRecvMsg.chunks = <<>>
    <3>1. mRecvMsg.size = 0
      BY <2>4 DEF Sized
    <3>2. mRecvMsg'.size = cb.len
      BY <2>2, <2>3, <3>1 DEF Packet
    <3>3. mRecvMsg'.chunks[1] = cb
      BY <2>2, <2>3, <2>4
    <3> QED
      BY <3>2, <3>3 DEF FirstSized
  <2>5. CASE mRecvMsg.chunks # <<>>
    <3>1. Len(mRecvMsg.chunks) \in Nat /\ Len(mRecvMsg.chunks) # 0
      BY <2>2, <2>5
    <3>2. Len(mRecvMsg'.chunks) = Len(mRecvMsg.chunks) + 1
      BY <2>2, <2>3
    <3>3. Len(mRecvMsg'.chunks) # 1
      <4> DEFINE l == Len(mRecvMsg.chunks)
      <4>1. l \in Nat /\ l # 0
        BY <3>1
      <4> HIDE DEF l
      <4>2. l + 1 # 1
        BY <4>1
      <4> QED
        BY <3>2, <4>2 DEF l
    <3> QED
      BY <3>3 DEF FirstSized
  <2> QED
    BY <2>4, <2>5
<1>5. CASE RecvCallBack \/ DuplicatePacket
  <2>1. PICK c \in Conns : Receive(Head(link[c]))
    BY <1>5 DEF RecvCallBack, DuplicatePacket
  <2> QED
    BY <1>1, <1>2, <2>1, ReceiveCases DEF Refuses, LetsThrough
<1> QED
  BY <1>2, <1>3, <1>4, <1>5, Effects DEF Still, Sends, LosePacket, Drops, fido

\* What removePkgIndex takes out of one whole answer is as long as the answer.
LEMMA WholeUnpacked ==
    ASSUME TypeOK, Sized, FirstSized,
           NEW k \in 0..MaxCmds, mRecvMsg.chunks \in Responses(k)
    PROVE  \E n \in RespLens : Unpacked(mRecvMsg) = n + FIDO_HEADER_LEN
<1>1. PICK n \in RespLens : \E p \in Payloads : mRecvMsg.chunks = Response(k, n, p)
  BY DEF Responses
<1>2. PICK p \in Payloads : mRecvMsg.chunks = Response(k, n, p)
  BY <1>1
<1>3. n \in Nat
  BY TransportAssumption
<1>4. Continuations(n) \in Nat
  BY <1>3, ContinuationsBound, TransportAssumption
<1> DEFINE c == mRecvMsg.chunks
           last == Continuations(n) + 1
           size == n + FIDO_HEADER_LEN + Continuations(n)
<1>5. Len(c) = last /\ 1 \in 1..last
  BY <1>2, <1>4 DEF Response
<1>6. /\ c[1].total = n
      /\ last = 1 => c[1].len = size - FIDO_BLOCK_SIZE * (last - 1)
  <2> HIDE DEF size
  <2> QED
  BY <1>2, <1>4, <1>5 DEF Response, size
<1>7. Head(c) = c[1]
  <2>1. c \in Seq(Packet)
    BY DEF TypeOK, FidoTypes, Msg
  <2>2. c # <<>>
    BY <1>4, <1>5
  <2> QED
    BY <2>1, <2>2
<1>8. CASE n + FIDO_HEADER_LEN > FIDO_BLOCK_SIZE
  <2>1. ~(n + FIDO_HEADER_LEN <= FIDO_BLOCK_SIZE)
    BY <1>3, <1>8 DEF FIDO_HEADER_LEN, FIDO_BLOCK_SIZE
  <2> QED
    BY <1>6, <1>7, <2>1 DEF Unpacked
<1>9. CASE n + FIDO_HEADER_LEN <= FIDO_BLOCK_SIZE
  <2>1. Continuations(n) = 0
    BY <1>3, <1>9 DEF Continuations, FIDO_HEADER_LEN, FIDO_BLOCK_SIZE
  <2>2. last = 1 /\ size - FIDO_BLOCK_SIZE * (last - 1) = n + FIDO_HEADER_LEN
    BY <1>3, <2>1 DEF FIDO_HEADER_LEN, FIDO_BLOCK_SIZE
  <2>3. mRecvMsg.size = n + FIDO_HEADER_LEN
    <3> HIDE DEF last, size
    <3> QED
      BY <1>5, <1>6, <2>2 DEF FirstSized
  <2> QED
    BY <1>6, <1>7, <1>9, <2>3 DEF Unpacked
<1> QED
  BY <1>3, <1>8, <1>9 DEF FIDO_HEADER_LEN, FIDO_BLOCK_SIZE

\* Only CopyResponse overruns the buffer, and an exchange that was quiet, or
\* without faults, then has been so before.
LEMMA OverrunNext ==
    /\ TypeInv /\ Genuine /\ Sized /\ FirstSized /\ Announced /\ Ordered /\ FreshInv /\ Counted
    /\ StackOverrunOnlyOver /\ [Next]_vars
    => StackOverrunOnlyOver'
<1> SUFFICES ASSUME TypeInv, Genuine, Sized, FirstSized, Announced, Ordered, FreshInv, Counted,
                    StackOverrunOnlyOver, [Next]_vars,
                    pc' = "overrun", quiet' \/ (Faultless' /\ ~mixed'),
                    ~faults'.dupOfZero
             PROVE  \E n \in RespLens : n + FIDO_HEADER_LEN > TempSize
  BY DEF StackOverrunOnlyOver, Faultless
<1>1. TypeOK
  BY DEF TypeInv
<1>2. ~SendClear
  BY DEF SendClear
<1>3. quiet' = quiet
  BY <1>2, Effects DEF Still, Sends, RecvCallBack, DuplicatePacket, LosePacket, MergePackage,
     MergeAndNotify, Drops, caller
<1>m. ~mixed' => ~mixed
  BY MixedStays
<1>4. (quiet \/ (Faultless /\ ~mixed)) /\ ~faults.dupOfZero
  <2>1. CASE Still
    <3>1. SameFaults
      BY <2>1 DEF Still
    <3>2. Faultless' => Faultless
      BY <1>1, <3>1, FaultsCounted
    <3>3. ~faults.dupOfZero
      BY <3>1 DEF SameFaults
    <3> QED
      BY <1>3, <1>m, <3>2, <3>3
  <2>2. CASE DuplicatePacket \/ LosePacket
    BY <1>1, <1>3, <1>m, <2>2, FaultsCounted
  <2>3. CASE faults' = faults
    BY <1>3, <1>m, <2>3 DEF Faultless
  <2> QED
    BY <1>2, <2>1, <2>2, <2>3, Effects DEF Sends, RecvCallBack, MergePackage, MergeAndNotify,
       Drops
<1>5. CASE pc = "overrun"
  BY <1>4, <1>5 DEF StackOverrunOnlyOver, Faultless
<1>6. CASE CopyResponse
  <2>1. pc = "copy" /\ Unpacked(mRecvMsg) > TempSize
    BY <1>6 DEF CopyResponse, Return
  <2>2. PICK k \in 1..cmd : mRecvMsg.chunks \in Responses(k)
    BY <1>4, <2>1, CopyIsWhole
  <2>3. k \in 0..MaxCmds
    BY <1>1, TransportAssumption DEF TypeOK, CallerTypes
  <2> QED
    BY <1>1, <2>1, <2>2, <2>3, WholeUnpacked
<1>7. CASE pc' = pc
  BY <1>5, <1>7
<1>8. CASE SendNotConnected \/ SendWrap \/ SendApdu \/ SendApduFails \/ WaitForReceive
  BY <1>8 DEF SendNotConnected, SendWrap, SendApdu, SendApduFails, WaitForReceive, Return
<1>9. CASE Notified \/ SpuriousWakeup \/ Timeout \/ CheckResponse
  BY <1>9 DEF Notified, SpuriousWakeup, AfterWait, Timeout, CheckResponse, Return
<1>10. CASE RecvCallBack \/ MergePackage \/ DiscCallBack
  BY <1>7, <1>10 DEF RecvCallBack, MergePackage, MergeAndNotify, DiscCallBack, caller
<1>11. CASE DuplicatePacket \/ LosePacket \/ LinkDown \/ Connect \/ Disconnect
  BY <1>7, <1>11 DEF DuplicatePacket, LosePacket, LinkDown, Connect, Disconnect, Forget, caller
<1>12. CASE UNCHANGED vars
  BY <1>7, <1>12 DEF vars, caller
<1> QED
  BY <1>2, <1>6, <1>8, <1>9, <1>10, <1>11, <1>12 DEF Next, SendData, BLEThread, Environment

\* parseFidoApdu overruns its TempSize = 512 bytes only if the device gives
\* answers of more than 509.  What it unpacks in an exchange that began on a
\* quiet link, and in every exchange on a faultless one, is one whole answer.
THEOREM StackOverrunCause == Spec => []StackOverrunOnlyOver
<1> DEFINE I == /\ OneLine /\ Genuine /\ Begun /\ Sized /\ FirstSized /\ Announced /\ Ordered /\ FreshInv
                /\ Counted /\ StackOverrunOnlyOver
<1>1. Init => I
  <2>1. Init => StackOverrunOnlyOver /\ FirstSized
    BY DEF Init, StackOverrunOnlyOver, FirstSized, EmptyMsg
  <2> QED
    BY <2>1, OneLineInit, GenuineInit, OrderedInit, FreshInit
<1>2. I /\ TypeInv /\ TypeInv' /\ [Next]_vars => I'
  <2> SUFFICES ASSUME I, TypeInv, TypeInv', [Next]_vars PROVE I'
    OBVIOUS
  <2>1. TypeOK
    BY DEF TypeInv
  <2>2. OneLine'
    BY OneLineNext
  <2> QED
    BY <2>1, <2>2, GenuineNext, BegunNext, SizedNext, FirstSizedNext, AnnouncedNext, OrderedNext,
       FreshNext, CountedNext, OverrunNext
<1>3. I => StackOverrunOnlyOver
  OBVIOUS
<1> HIDE DEF I
<1> QED
  BY <1>1, <1>2, <1>3, TypeInvCorrect, PTL DEF Spec

-----------------------------------------------------------------------------
(* Exchanges: the steps of Exchange, when no packet is delivered twice *)

\* The first packets of answers, on the link: those of later commands come
\* later.
First(x) == x.byte0 = CMD_MSG

Rising(s) == \A i, j \in 1..Len(s) : First(s[i]) /\ First(s[j]) /\ i < j => s[i].cmd < s[j].cmd

\* The packet held first begins an answer.
Begins == Held # <<>> /\ First(Held[1])

\* No answer is begun twice: every first packet on a link is of a command sent
\* over that connection, a later one than any sent over it whose answer is held
\* or was handed out.  Only the first packet held may begin an answer.
LinksRise == \A c \in Conns : Rising(link[c])

OneBegins == \A i \in 2..Len(Held) : ~First(Held[i])

LaterOnLinks ==
    \A c \in Conns : \A x \in Packets(link[c]) : First(x) =>
        /\ via[x.cmd] = c
        /\ \A k \in answered : via[k] = c => k < x.cmd
        /\ Begins /\ via[Held[1].cmd] = c => Held[1].cmd < x.cmd

LaterHeld ==
    Begins =>
        /\ via[Held[1].cmd] \in Conns
        /\ pc # "idle" \/ mRecvMsg.chunks = <<>> =>
            \A k \in answered : via[k] = via[Held[1].cmd] => k < Held[1].cmd

Unanswered ==
    /\ answered \subseteq 1..Reached
    /\ LinksRise
    /\ OneBegins
    /\ LaterOnLinks
    /\ LaterHeld

LEMMA ReplyRising ==
    ASSUME NEW k \in 0..MaxCmds, NEW r \in DeviceReplies(k)
    PROVE  /\ Rising(r)
           /\ \A x \in Packets(r) : x.cmd = k
<1>1. r \in Seq(Packet) /\ \A i \in 1..Len(r) : r[i].cmd = k
  BY RepliesArePackets
<1>2. \A x \in Packets(r) : x.cmd = k
  BY <1>1 DEF Packets
<1>3. ASSUME NEW R \in Responses(k)
      PROVE  \A i \in 1..Len(R) : First(R[i]) => i = 1
  <2>1. Len(R) \in 1..129 /\ \A i \in 2..Len(R) : R[i].byte0 = i - 2
    BY AnswerLayout
  <2> SUFFICES ASSUME NEW i \in 1..Len(R), i # 1 PROVE ~First(R[i])
    OBVIOUS
  <2>2. PICK l \in 1..129 : l = Len(R)
    BY <2>1
  <2>3. i \in 2..l
    BY <2>2
  <2>4. R[i].byte0 = i - 2
    BY <2>1, <2>2, <2>3
  <2>5. i - 2 # 131
    BY <2>3
  <2> QED
    BY <2>4, <2>5 DEF First, CMD_MSG
<1>4. \E n \in 1..2 : \A i \in 1..Len(r) : First(r[i]) => i = n
  <2>1. CASE r = <<>>
    BY <2>1
  <2>2. CASE r = <<ErrorPacket(k)>>
    <3>1. Len(r) = 1
      BY <2>2
    <3> QED
      BY <3>1
  <2>3. CASE r \in Responses(k)
    BY <1>3, <2>3
  <2>4. ASSUME NEW q \in Responses(k), r = <<KeepAlive(k)>> \o q
        PROVE  \A i \in 1..Len(r) : First(r[i]) => i = 2
    <3>1. <<KeepAlive(k)>> \in Seq(Packet) /\ q \in Seq(Packet) /\ Len(q) \in Nat
      BY KeepAliveIsPacket, AnswerLayout
    <3>2. /\ Len(r) = 1 + Len(q)
          /\ \A i \in 1..(1 + Len(q)) : r[i] = IF i <= 1 THEN <<KeepAlive(k)>>[i] ELSE q[i - 1]
      BY <2>4, <3>1, ConcatProperties, Len(<<KeepAlive(k)>>) = 1
    <3> SUFFICES ASSUME NEW i \in 1..Len(r), First(r[i]) PROVE i = 2
      OBVIOUS
    <3>3. CASE i = 1
      <4>1. r[i] = KeepAlive(k)
        BY <3>1, <3>2, <3>3
      <4> QED
        BY <4>1 DEF First, KeepAlive, CMD_KEEP_ALIVE, CMD_MSG
    <3>4. CASE i # 1
      <4>1. r[i] = q[i - 1] /\ i - 1 \in 1..Len(q)
        BY <3>1, <3>2, <3>4
      <4>2. i - 1 = 1
        BY <1>3, <4>1
      <4> QED
        BY <3>1, <3>2, <4>2
    <3> QED
      BY <3>3, <3>4
  <2> QED
    BY <2>1, <2>2, <2>3, <2>4 DEF DeviceReplies
<1>5. Rising(r)
  <2> SUFFICES ASSUME NEW i \in 1..Len(r), NEW j \in 1..Len(r), First(r[i]), First(r[j]), i < j
               PROVE  FALSE
    BY DEF Rising
  <2>1. i = j
    BY <1>4
  <2> QED
    BY <1>1, <2>1
<1> QED
  BY <1>2, <1>5

LEMMA RisingTail ==
    ASSUME NEW s \in Seq(Packet), s # <<>>, Rising(s)
    PROVE  /\ Rising(Tail(s))
           /\ First(Head(s)) => \A x \in Packets(Tail(s)) : First(x) => Head(s).cmd < x.cmd
<1>1. /\ Len(Tail(s)) = Len(s) - 1 /\ Len(s) \in Nat
      /\ \A i \in 1..(Len(s) - 1) : Tail(s)[i] = s[i + 1]
      /\ Head(s) = s[1] /\ 1 \in 1..Len(s)
  BY HeadTailTypes
<1>2. \A i \in 1..(Len(s) - 1) : i + 1 \in 1..Len(s) /\ 1 < i + 1 /\ i \in Nat
  BY <1>1
<1>3. Rising(Tail(s))
  <2> SUFFICES ASSUME NEW i \in 1..(Len(s) - 1), NEW j \in 1..(Len(s) - 1),
                      First(Tail(s)[i]), First(Tail(s)[j]), i < j
               PROVE  Tail(s)[i].cmd < Tail(s)[j].cmd
    BY <1>1 DEF Rising
  <2>1. Tail(s)[i] = s[i + 1] /\ Tail(s)[j] = s[j + 1]
    BY <1>1
  <2>2. i + 1 < j + 1
    BY <1>2
  <2> QED
    BY <1>2, <2>1, <2>2 DEF Rising
<1>4. ASSUME First(Head(s)), NEW i \in 1..(Len(s) - 1), First(Tail(s)[i])
      PROVE  Head(s).cmd < Tail(s)[i].cmd
  BY <1>1, <1>2, <1>4 DEF Rising
<1> QED
  BY <1>1, <1>3, <1>4 DEF Packets

LEMMA RisingConcat ==
    ASSUME NEW s \in Seq(Packet), NEW r \in Seq(Packet), Rising(s), Rising(r),
           \A x \in Packets(s), y \in Packets(r) : First(x) /\ First(y) => x.cmd < y.cmd
    PROVE  Rising(s \o r)
<1>1. /\ Len(s \o r) = Len(s) + Len(r) /\ Len(s) \in Nat /\ Len(r) \in Nat
      /\ \A i \in 1..(Len(s) + Len(r)) :
          (s \o r)[i] = IF i <= Len(s) THEN s[i] ELSE r[i - Len(s)]
  BY ConcatProperties
<1> SUFFICES ASSUME NEW i \in 1..(Len(s) + Len(r)), NEW j \in 1..(Len(s) + Len(r)),
                    First((s \o r)[i]), First((s \o r)[j]), i < j
             PROVE  (s \o r)[i].cmd < (s \o r)[j].cmd
  BY <1>1 DEF Rising
<1>2. /\ i <= Len(s) => i \in 1..Len(s) /\ (s \o r)[i] = s[i]
      /\ j <= Len(s) => j \in 1..Len(s) /\ (s \o r)[j] = s[j]
      /\ ~(i <= Len(s)) => i - Len(s) \in 1..Len(r) /\ (s \o r)[i] = r[i - Len(s)]
      /\ ~(j <= Len(s)) => j - Len(s) \in 1..Len(r) /\ (s \o r)[j] = r[j - Len(s)]
  BY <1>1
<1>3. CASE j <= Len(s)
  <2>1. i <= Len(s)
    BY <1>1, <1>3
  <2> QED
    BY <1>2, <1>3, <2>1 DEF Rising
<1>4. CASE i <= Len(s) /\ ~(j <= Len(s))
  BY <1>2, <1>4 DEF Packets
<1>5. CASE ~(i <= Len(s))
  <2>1. ~(j <= Len(s)) /\ i - Len(s) < j - Len(s)
    BY <1>1, <1>5
  <2> QED
    BY <1>2, <1>5, <2>1 DEF Rising
<1> QED
  BY <1>3, <1>4, <1>5

\* The first packet in the buffer is the first that is held.
LEMMA HeadHeld ==
    ASSUME TypeOK, mRecvMsg.chunks # <<>>
    PROVE  Head(mRecvMsg.chunks) = Held[1] /\ Held # <<>> /\ Held[1] \in Packets(Held)
<1>1. /\ mRecvMsg.chunks \in Seq(Packet) /\ Held \in Seq(Packet)
      /\ \A i \in 1..Len(mRecvMsg.chunks) : Held[i] = mRecvMsg.chunks[i]
      /\ Len(mRecvMsg.chunks) \in Nat
  BY HeldTypes
<1>2. Len(Held) = Len(mRecvMsg.chunks) \/ Len(Held) = Len(mRecvMsg.chunks) + 1
  BY HeldTypes
<1>3. Head(mRecvMsg.chunks) = mRecvMsg.chunks[1] /\ 1 \in 1..Len(mRecvMsg.chunks)
  BY <1>1, HeadTailTypes
<1>4. 1 \in 1..Len(Held)
  BY <1>1, <1>2, <1>3
<1>5. Held # <<>>
  BY <1>4
<1> QED
  BY <1>1, <1>3, <1>4, <1>5, PacketsOf

LEMMA UnansweredInit == Init => Unanswered
<1> SUFFICES ASSUME Init PROVE Unanswered
  OBVIOUS
<1>1. Held = <<>> /\ answered = {} /\ \A c \in Conns : link[c] = <<>>
  BY DEF Init, Held, EmptyMsg
<1>2. Packets(<<>>) = {} /\ Rising(<<>>) /\ Len(Held) = 0
  BY <1>1, PacketsOf DEF Rising
<1>3. LinksRise /\ OneBegins /\ LaterOnLinks /\ LaterHeld
  BY <1>1, <1>2 DEF LinksRise, OneBegins, LaterOnLinks, LaterHeld, Begins
<1> QED
  BY <1>1, <1>3 DEF Unanswered

LEMMA UnansweredNext ==
    /\ MaxDup = 0
    /\ TypeInv /\ TypeInv' /\ Genuine /\ Begun /\ Sized /\ Announced /\ Unanswered
    /\ [Next]_vars
    => Unanswered'
<1> SUFFICES ASSUME MaxDup = 0, TypeInv, TypeInv', Genuine, Begun, Sized, Announced, Unanswered,
                    [Next]_vars
             PROVE  Unanswered'
  OBVIOUS
<1>1. TypeOK /\ TypeOK'
  BY DEF TypeInv
<1>2. /\ answered \subseteq 1..Reached
      /\ LinksRise /\ OneBegins /\ LaterOnLinks /\ LaterHeld
  BY DEF Unanswered
<1>3. /\ \A c \in Conns : link[c] \in Seq(Packet)
      /\ Held \in Seq(Packet) /\ Len(Held) \in Nat
      /\ mRecvMsg.chunks \in Seq(Packet)
      /\ cmd \in Nat /\ cmd \in 0..MaxCmds
  <2>1. Held \in Seq(Packet) /\ mRecvMsg.chunks \in Seq(Packet)
    BY <1>1, HeldTypes
  <2>2. cmd \in 0..MaxCmds
    BY <1>1 DEF TypeOK, CallerTypes
  <2>3. cmd \in Nat
    BY <2>2, TransportAssumption
  <2> QED
    BY <1>1, <2>1, <2>2, <2>3, ConnsTypes
<1>4. Packets(<<>>) = {} /\ Rising(<<>>)
  BY PacketsOf DEF Rising
<1>5. \A x \in OnLinks \cup Packets(Held) : x.cmd \in 1..Reached
  BY DEF Genuine, Real
<1>6. Held # <<>> => Held[1] \in Packets(Held) /\ 1 \in 1..Len(Held)
  <2>1. Held # <<>> => 1 \in 1..Len(Held)
    BY <1>3
  <2> QED
    BY <1>3, <2>1, PacketsOf
\* The steps that add neither a packet nor an answer.
<1>7. ASSUME Held' = Held, via' = via, answered' = answered, 1..Reached \subseteq 1..Reached',
             \A c \in Conns : Packets(link'[c]) \subseteq Packets(link[c]) /\ Rising(link'[c]),
             pc' # "idle" \/ mRecvMsg'.chunks = <<>> => pc # "idle" \/ mRecvMsg.chunks = <<>>
      PROVE  Unanswered'
  <2>1. LinksRise'
    BY <1>7 DEF LinksRise, Rising, First
  <2>2. OneBegins'
    BY <1>2, <1>7 DEF OneBegins, First
  <2>3. Begins' = Begins
    BY <1>7 DEF Begins, First
  <2>4. LaterHeld'
    BY <1>2, <1>7, <2>3 DEF LaterHeld
  <2>5. \A c \in Conns : \A x \in Packets(link'[c]) : First(x) =>
            /\ via'[x.cmd] = c
            /\ \A k \in answered' : via'[k] = c => k < x.cmd
            /\ Begins' /\ via'[Held'[1].cmd] = c => Held'[1].cmd < x.cmd
    BY <1>2, <1>7, <2>3 DEF LaterOnLinks
  <2>6. LaterOnLinks'
    BY <2>5 DEF LaterOnLinks, Packets, First
  <2> QED
    BY <1>2, <1>7, <2>1, <2>2, <2>4, <2>6 DEF Unanswered
<1>8. CASE Still
  <2>1. /\ Held' = Held /\ link' = link /\ mRecvMsg' = mRecvMsg /\ via' = via
        /\ pc' # "idle" => pc # "idle"
    BY <1>1, <1>8, HeldSteps DEF Still
  <2>2. 1..Reached \subseteq 1..Reached'
    <3>1. Reached \in {cmd, cmd - 1} /\ Reached' \in {Reached, cmd}
      BY <1>8 DEF Still, Reached
    <3> HIDE DEF Reached
    <3> QED
      BY <1>3, <3>1
  <2>3. CASE answered' = answered
    BY <1>2, <1>7, <2>1, <2>2, <2>3 DEF LinksRise
  <2>4. CASE CopyResponse /\ answered' # answered
    <3> DEFINE h == Held[1].cmd
    <3>1. /\ pc = "copy" /\ pc' = "idle"
          /\ answered' = answered \cup {Head(mRecvMsg.chunks).cmd}
      BY <2>4 DEF CopyResponse, Return
    <3>2. mRecvMsg.chunks # <<>> /\ First(Head(mRecvMsg.chunks))
      BY <3>1 DEF Announced, First
    <3>3. Head(mRecvMsg.chunks) = Held[1] /\ Held # <<>>
      BY <1>1, <3>2, HeadHeld
    <3>4. h \in 1..Reached /\ Begins
      BY <1>5, <1>6, <3>2, <3>3 DEF Begins
    <3>5. answered' = answered \cup {h}
      BY <3>1, <3>3
    <3> HIDE DEF h
    <3>6. answered' \subseteq 1..Reached'
      BY <1>2, <2>2, <3>4, <3>5
    <3>7. Begins' = Begins
      BY <2>1 DEF Begins, First
    <3>8. LinksRise' /\ OneBegins'
      BY <1>2, <2>1 DEF LinksRise, OneBegins, Rising, First
    <3>9. \A c \in Conns : \A x \in Packets(link[c]) : First(x) =>
            /\ via[x.cmd] = c
            /\ \A k \in answered' : via[k] = c => k < x.cmd
            /\ Begins /\ via[h] = c => h < x.cmd
      BY <1>2, <3>4, <3>5 DEF LaterOnLinks, h
    <3>10. LaterOnLinks'
      BY <2>1, <3>7, <3>9 DEF LaterOnLinks, Packets, First, h
    <3>11. LaterHeld'
      BY <1>2, <2>1, <3>1, <3>2, <3>7 DEF LaterHeld
    <3> QED
      BY <3>6, <3>8, <3>10, <3>11 DEF Unanswered
  <2> QED
    BY <1>8, <2>3, <2>4 DEF Still
<1>9. CASE Drops
  <2>1. /\ Held' = Held /\ via' = via /\ mRecvMsg' = mRecvMsg /\ pc' = pc /\ answered' = answered
        /\ Reached' = Reached
    BY <1>1, <1>9, HeldSteps DEF Drops, fido, Reached
  <2>2. \A c \in Conns : link'[c] = link[c] \/ link'[c] = <<>>
    BY <1>1, <1>9, DropsLink
  <2>3. \A c \in Conns : Packets(link'[c]) \subseteq Packets(link[c]) /\ Rising(link'[c])
    BY <1>2, <1>4, <2>2 DEF LinksRise
  <2> QED
    BY <1>7, <2>1, <2>3
<1>10. CASE SendClear
  <2>1. /\ link' = link /\ cb' = cb /\ answered' = answered /\ via' = via
        /\ pc = "idle" /\ pc' = "wrap" /\ cmd' = cmd + 1
    BY <1>10 DEF SendClear, wire
  <2>2. Reached' = Reached
    BY <1>3, <2>1 DEF Reached
  <2>3. LinksRise'
    BY <1>2, <2>1 DEF LinksRise, Rising, First
  <2>4. CASE cb = NoPacket
    <3>1. Held' = <<>>
      BY <1>1, <1>10, <2>4, HeldSteps
    <3>2. Len(Held') = 0 /\ ~Begins'
      BY <3>1 DEF Begins
    <3>3. OneBegins' /\ LaterHeld'
      BY <3>2 DEF OneBegins, LaterHeld
    <3>4. LaterOnLinks'
      BY <1>2, <2>1, <3>2 DEF LaterOnLinks, Packets, First
    <3> QED
      BY <1>2, <2>1, <2>2, <2>3, <3>3, <3>4 DEF Unanswered
  <2>5. CASE cb # NoPacket
    <3>1. Held' = <<cb>> /\ cb = Held[Len(Held)]
      BY <1>1, <1>10, <2>5, HeldSteps
    <3>2. Len(Held') = 1 /\ Held'[1] = cb
      BY <3>1
    <3>3. Len(Held) = Len(mRecvMsg.chunks) + 1 /\ Len(mRecvMsg.chunks) \in Nat
      BY <1>1, <2>5, HeldTypes
    <3>4. First(cb) => Len(Held) = 1
      <4>1. Len(Held) # 1 => Len(Held) \in 2..Len(Held)
        <5>1. PICK h \in Nat : h = Len(Held)
          BY <1>3
        <5>2. h >= 1
          BY <3>3, <5>1
        <5>3. h # 1 => h \in 2..h
          BY <5>2
        <5> QED
          BY <5>1, <5>3
      <4> QED
        BY <1>2, <3>1, <4>1 DEF OneBegins
    <3>5. First(cb) => Held # <<>> /\ cb = Held[1] /\ mRecvMsg.chunks = <<>>
      <4>1. First(cb) => Len(mRecvMsg.chunks) = 0 /\ cb = Held[1] /\ Len(Held) # 0
        BY <3>1, <3>3, <3>4
      <4> QED
        BY <1>3, <4>1
    <3>6. Begins' => Begins /\ Held'[1] = Held[1] /\ mRecvMsg.chunks = <<>>
      <4>1. Begins' => First(cb)
        BY <3>2 DEF Begins, First
      <4> QED
        BY <3>2, <3>5, <4>1 DEF Begins
    <3>7. OneBegins'
      <4>1. ~\E i \in 2..1 : TRUE
        OBVIOUS
      <4> QED
        BY <3>2, <4>1 DEF OneBegins
    <3>8. LaterHeld'
      BY <1>2, <2>1, <3>6 DEF LaterHeld
    <3>9. LaterOnLinks'
      BY <1>2, <2>1, <3>6 DEF LaterOnLinks, Packets, First
    <3> QED
      BY <1>2, <2>1, <2>2, <2>3, <3>7, <3>8, <3>9 DEF Unanswered
  <2> QED
    BY <2>4, <2>5
<1>11. CASE Sends
  <2>1. handle \in Conns /\ \A c \in Conns : c # handle => link'[c] = link[c]
    BY <1>1, <1>11, SendsLink DEF Sends
  <2>2. PICK r \in DeviceReplies(cmd) : r \in Seq(Packet) /\ link'[handle] = link[handle] \o r
    BY <1>1, <1>11, SendsLink DEF Sends
  <2>3. Rising(r) /\ \A x \in Packets(r) : x.cmd = cmd
    BY <1>3, ReplyRising
  <2>4. /\ Held' = Held /\ mRecvMsg' = mRecvMsg /\ answered' = answered
        /\ pc = "send" /\ pc' \in {"sent", "idle"} /\ cmd' = cmd
        /\ via' = [via EXCEPT ![cmd] = handle]
    BY <1>1, <1>11, HeldSteps DEF Sends, Transmit, fido
  <2>5. Reached = cmd - 1 /\ Reached' = cmd /\ cmd \in 1..MaxCmds
    <3>1. cmd > 0
      BY <2>4 DEF Begun
    <3> QED
      BY <1>3, <2>4, <3>1, TransportAssumption DEF Reached
  <2>6. \A k \in 1..Reached : k < cmd /\ k \in Nat /\ k # cmd /\ via'[k] = via[k]
    <3>1. \A k \in 1..Reached : k < cmd /\ k \in Nat /\ k # cmd
      BY <1>3, <2>5
    <3>2. \A k \in 1..Reached : k \in 1..MaxCmds
      BY <1>3, <2>5, TransportAssumption
    <3> QED
      BY <1>1, <2>4, <3>1, <3>2 DEF TypeOK, WireTypes
  <2>7. via'[cmd] = handle
    BY <1>1, <2>4, <2>5 DEF TypeOK, WireTypes
  <2>8. \A x \in OnLinks \cup Packets(Held) : x.cmd < cmd /\ via'[x.cmd] = via[x.cmd]
    BY <1>5, <2>6
  <2>9. \A c \in Conns : Packets(link[c]) \subseteq OnLinks
    BY DEF OnLinks
  <2>10. Begins => /\ Held[1].cmd < cmd
                   /\ via'[Held[1].cmd] = via[Held[1].cmd]
    BY <1>6, <2>8 DEF Begins
  <2>11. \A k \in answered : k < cmd /\ via'[k] = via[k]
    BY <1>2, <2>6
  <2>12. Begins' = Begins
    BY <2>4 DEF Begins, First
  <2>13. LinksRise'
    <3>1. Rising(link'[handle])
      <4>1. \A x \in Packets(link[handle]), y \in Packets(r) : x.cmd < y.cmd
        BY <2>1, <2>3, <2>8, <2>9
      <4>2. Rising(link[handle]) /\ link[handle] \in Seq(Packet)
        BY <1>2, <1>3, <2>1 DEF LinksRise
      <4>3. Rising(link[handle] \o r)
        BY <2>2, <2>3, <4>1, <4>2, RisingConcat
      <4> QED
        BY <2>2, <4>3
    <3>2. \A c \in Conns : Rising(link'[c])
      BY <1>2, <2>1, <3>1 DEF LinksRise
    <3> QED
      BY <3>2 DEF LinksRise, Rising, First
  <2>14. ASSUME NEW c \in Conns, NEW x \in Packets(link'[c]), First(x)
         PROVE  /\ via'[x.cmd] = c
                /\ \A k \in answered : via'[k] = c => k < x.cmd
                /\ Begins /\ via'[Held[1].cmd] = c => Held[1].cmd < x.cmd
    <3>1. CASE x \in Packets(link[c])
      <4>1. /\ via[x.cmd] = c
            /\ \A k \in answered : via[k] = c => k < x.cmd
            /\ Begins /\ via[Held[1].cmd] = c => Held[1].cmd < x.cmd
        BY <1>2, <2>14, <3>1 DEF LaterOnLinks
      <4>2. via'[x.cmd] = via[x.cmd]
        BY <2>8, <2>9, <3>1
      <4> QED
        BY <2>10, <2>11, <4>1, <4>2
    <3>2. CASE x \in Packets(r) /\ c = handle
      <4>1. x.cmd = cmd
        BY <2>3, <3>2
      <4> QED
        BY <2>7, <2>10, <2>11, <3>2, <4>1
    <3>3. x \in Packets(link[c]) \/ (x \in Packets(r) /\ c = handle)
      <4>1. CASE c = handle
        <5>1. Packets(link[handle] \o r) \subseteq Packets(link[handle]) \cup Packets(r)
          BY <1>3, <2>1, <2>2, PacketsOf
        <5> QED
          BY <2>2, <2>14, <4>1, <5>1
      <4>2. CASE c # handle
        BY <2>1, <2>14, <4>2
      <4> QED
        BY <4>1, <4>2
    <3> QED
      BY <3>1, <3>2, <3>3
  <2>15. LaterOnLinks'
    BY <2>4, <2>12, <2>14 DEF LaterOnLinks, Packets, First
  <2>16. LaterHeld'
    BY <1>2, <2>4, <2>10, <2>11, <2>12 DEF LaterHeld
  <2>17. OneBegins'
    BY <1>2, <2>4 DEF OneBegins, First
  <2>18. answered' \subseteq 1..Reached'
    <3>1. \A k \in 1..Reached : k \in 1..cmd
      BY <1>3, <2>5
    <3> QED
      BY <1>2, <2>4, <2>5, <3>1
  <2> QED
    BY <2>13, <2>15, <2>16, <2>17, <2>18 DEF Unanswered
<1>12. CASE MergePackage
  <2>1. /\ Held' = Held /\ link' = link /\ via' = via /\ pc' = pc /\ answered' = answered
        /\ cmd' = cmd /\ mRecvMsg'.chunks = Append(mRecvMsg.chunks, cb) /\ cb \in Packet
    BY <1>1, <1>12, HeldSteps, HeldTypes DEF MergePackage, MergeAndNotify, wire, caller
  <2>2. mRecvMsg'.chunks # <<>>
    <3> DEFINE s == mRecvMsg.chunks
    <3>1. s \in Seq(Packet) /\ cb \in Packet
      BY <1>3, <2>1
    <3> HIDE DEF s
    <3>2. Append(s, cb) # <<>>
      BY <3>1, AppendProperties
    <3> QED
      BY <2>1, <3>2 DEF s
  <2>3. Reached' = Reached
    BY <2>1 DEF Reached
  <2> QED
    BY <1>2, <1>7, <2>1, <2>2, <2>3 DEF LinksRise
<1>13. CASE LosePacket
  <2>1. /\ Held' = Held /\ via' = via /\ mRecvMsg' = mRecvMsg
        /\ pc' = pc /\ answered' = answered /\ cmd' = cmd
    BY <1>1, <1>13, HeldSteps DEF LosePacket, fido, caller
  <2>2. Reached' = Reached
    BY <2>1 DEF Reached
  <2>3. PICK c \in Conns : /\ link[c] # <<>> /\ link'[c] = Tail(link[c])
                           /\ \A d \in Conns : d # c => link'[d] = link[d]
    BY <1>1, <1>13, TakesLink
  <2>4. Rising(link'[c]) /\ Packets(link'[c]) \subseteq Packets(link[c])
    BY <1>2, <1>3, <2>3, RisingTail, PacketsOf DEF LinksRise
  <2>5. \A d \in Conns : Packets(link'[d]) \subseteq Packets(link[d]) /\ Rising(link'[d])
    BY <1>2, <2>3, <2>4 DEF LinksRise
  <2> QED
    BY <1>7, <2>1, <2>2, <2>5
<1>14. CASE RecvCallBack
  <2>1. PICK c \in Conns : /\ link[c] # <<>> /\ Receive(Head(link[c]))
                           /\ link'[c] = Tail(link[c])
                           /\ \A d \in Conns : d # c => link'[d] = link[d]
    BY <1>1, <1>14, TakesLink
  <2> DEFINE p == Head(link[c])
  <2>2. /\ cb = NoPacket /\ via' = via /\ pc' = pc /\ answered' = answered /\ cmd' = cmd
    BY <1>14 DEF RecvCallBack, caller
  <2>3. Reached' = Reached /\ mRecvMsg' = mRecvMsg
    BY <2>1, <2>2 DEF Reached, Receive, fido
  <2>4. /\ Rising(link'[c]) /\ Packets(link'[c]) \subseteq Packets(link[c])
        /\ First(p) => \A x \in Packets(link'[c]) : First(x) => p.cmd < x.cmd
        /\ p \in Packets(link[c]) /\ p \in Packet
    <3> DEFINE l == link[c]
    <3>1. l \in Seq(Packet) /\ l # <<>> /\ Rising(l)
      BY <1>2, <1>3, <2>1 DEF LinksRise
    <3>2. p = Head(l) /\ link'[c] = Tail(l)
      BY <2>1
    <3> HIDE DEF l, p
    <3>3. /\ Rising(Tail(l)) /\ Packets(Tail(l)) \subseteq Packets(l)
          /\ First(Head(l)) => \A x \in Packets(Tail(l)) : First(x) => Head(l).cmd < x.cmd
      BY <3>1, RisingTail, PacketsOf
    <3>4. Head(l) \in Packets(l) /\ Head(l) \in Packet
      BY <3>1, PacketsOf, HeadTailTypes
    <3>5. Packets(l) = Packets(link[c])
      BY DEF l
    <3> QED
      BY <3>2, <3>3, <3>4, <3>5
  <2>5. \A d \in Conns : Packets(link'[d]) \subseteq Packets(link[d]) /\ Rising(link'[d])
    BY <1>2, <2>1, <2>4 DEF LinksRise
  <2>6. Receive(p) /\ p \in OnLinks
    BY <2>1, <2>4 DEF OnLinks
  <2> HIDE DEF p
  <2>7. CASE Held' = Held
    BY <1>7, <2>2, <2>3, <2>5, <2>7
  <2>8. CASE /\ Held' = Append(Held, p)
             /\ Held # <<>> => SeqOK(p.byte0, pkgSeq)
    <3>1. /\ Len(Held') = Len(Held) + 1
          /\ \A i \in 1..Len(Held) : Held'[i] = Held[i]
          /\ Held'[Len(Held) + 1] = p
      BY <1>3, <2>4, <2>8
    <3>2. LinksRise' /\ answered' \subseteq 1..Reached'
      BY <1>2, <2>2, <2>3, <2>5 DEF LinksRise, Rising, First
    <3>3. CASE Held = <<>>
      <4>1. Len(Held') = 1 /\ Held'[1] = p /\ Held' # <<>>
        BY <3>1, <3>3
      <4>2. Begins' <=> First(p)
        BY <4>1 DEF Begins, First
      <4>3. OneBegins'
        <5>1. ~\E i \in 2..1 : TRUE
          OBVIOUS
        <5> QED
          BY <4>1, <5>1 DEF OneBegins
      <4>4. First(p) => via[p.cmd] = c /\ \A k \in answered : via[k] = c => k < p.cmd
        BY <1>2, <2>4 DEF LaterOnLinks
      <4>5. LaterHeld'
        BY <2>2, <4>1, <4>2, <4>4 DEF LaterHeld
      <4>6. ASSUME NEW d \in Conns, NEW x \in Packets(link'[d]), First(x)
            PROVE  /\ via[x.cmd] = d
                   /\ \A k \in answered : via[k] = d => k < x.cmd
                   /\ First(p) /\ via[p.cmd] = d => p.cmd < x.cmd
        <5>1. x \in Packets(link[d])
          BY <2>5, <4>6
        <5>2. /\ via[x.cmd] = d
              /\ \A k \in answered : via[k] = d => k < x.cmd
          BY <1>2, <4>6, <5>1 DEF LaterOnLinks
        <5>3. First(p) /\ via[p.cmd] = d => p.cmd < x.cmd
          BY <2>4, <4>4, <4>6
        <5> QED
          BY <5>2, <5>3
      <4>7. LaterOnLinks'
        BY <2>2, <4>1, <4>2, <4>6 DEF LaterOnLinks, Packets, First
      <4> QED
        BY <3>2, <4>3, <4>5, <4>7 DEF Unanswered
    <3>4. CASE Held # <<>>
      <4>1. ~First(p)
        <5>1. p.byte0 \in Nat /\ pkgSeq \in Nat
          BY <1>1, <2>4 DEF Packet, Byte, TypeOK, FidoTypes
        <5>2. p.byte0 <= 127
          BY <2>8, <3>4, <5>1 DEF SeqOK
        <5> QED
          BY <5>1, <5>2 DEF First, CMD_MSG
      <4>2. OneBegins'
        <5> SUFFICES ASSUME NEW i \in 2..(Len(Held) + 1) PROVE ~First(Held'[i])
          BY <3>1 DEF OneBegins, First
        <5>1. (i \in 2..Len(Held) /\ i \in 1..Len(Held)) \/ i = Len(Held) + 1
          BY <1>3
        <5> QED
          BY <1>2, <3>1, <4>1, <5>1 DEF OneBegins
      <4>3. Held'[1] = Held[1] /\ Held' # <<>>
        BY <1>3, <1>6, <3>1, <3>4
      <4>4. Begins' = Begins
        BY <3>4, <4>3 DEF Begins, First
      <4>5. mRecvMsg.chunks = Held
        BY <2>2 DEF Held
      <4>6. LaterHeld'
        BY <1>2, <2>2, <2>3, <4>3, <4>4 DEF LaterHeld
      <4>7. \A d \in Conns : \A x \in Packets(link'[d]) : First(x) =>
                /\ via[x.cmd] = d
                /\ \A k \in answered : via[k] = d => k < x.cmd
                /\ Begins /\ via[Held[1].cmd] = d => Held[1].cmd < x.cmd
        BY <1>2, <2>5 DEF LaterOnLinks
      <4>8. LaterOnLinks'
        BY <2>2, <4>3, <4>4, <4>7 DEF LaterOnLinks, Packets, First
      <4> QED
        BY <3>2, <4>2, <4>6, <4>8 DEF Unanswered
    <3> QED
      BY <3>3, <3>4
  <2>9. \/ Held' = Held
        \/ Held' = Append(Held, p) /\ (Held # <<>> => SeqOK(p.byte0, pkgSeq))
    BY <2>2, <2>4, <2>6, Taken
  <2> QED
    BY <2>7, <2>8, <2>9
<1>15. CASE DuplicatePacket
  <2>1. faults.dup \in 0..MaxDup /\ faults.dup < MaxDup
    BY <1>1, <1>15 DEF DuplicatePacket, TypeOK, Faults
  <2> QED
    BY <2>1
<1> QED
  BY <1>8, <1>9, <1>10, <1>11, <1>12, <1>13, <1>14, <1>15, Effects

\* The outcome that the caller sees.
LEMMA OutcomeIs ==
    /\ result = "none" => Outcome = "none"
    /\ result = "OK" => Outcome = "answer"
    /\ result \notin {"none", "OK"} => Outcome = "error"
    /\ result' = "none" => Outcome' = "none"
    /\ result' = "OK" => Outcome' = "answer"
    /\ result' \notin {"none", "OK"} => Outcome' = "error"
    /\ result' = result => Outcome' = Outcome
BY DEF Outcome

\* Every step is a step of Exchange, or leaves what the caller sees unchanged.
LEMMA ExchangeStep ==
    ASSUME TypeInv, Genuine, Announced, Unanswered, [Next]_vars
    PROVE  [Abstract!Next]_(Abstract!vars)
<1>1. TypeOK
  BY DEF TypeInv
<1>2. cmd \in 0..MaxCmds /\ cmd \in Nat
  <2>1. cmd \in 0..MaxCmds
    BY <1>1 DEF TypeOK, CallerTypes
  <2> QED
    BY <2>1, TransportAssumption
<1> DEFINE Answers == [k \in 1..MaxCmds |-> IF k \in answered THEN via[k] ELSE 0]
<1>a. via' = via /\ answered' = answered => Answers' = Answers
  OBVIOUS
<1>b. ASSUME Transmit, pc = "send", answered' = answered PROVE Answers' = Answers
  <2>1. cmd \notin answered
    <3>1. answered \subseteq 1..(cmd - 1)
      BY <1>b DEF Unanswered, Reached
    <3>2. cmd \notin 1..(cmd - 1)
      BY <1>2
    <3> QED
      BY <3>1, <3>2
  <2>2. via' = [via EXCEPT ![cmd] = handle]
    BY <1>b DEF Transmit
  <2>3. \A k \in 1..MaxCmds : k # cmd => via'[k] = via[k]
    BY <1>1, <2>2 DEF TypeOK, WireTypes
  <2> QED
    BY <1>b, <2>1, <2>3
<1>c. pc = "send" /\ (Transmit \/ UNCHANGED wire) /\ answered' = answered => Answers' = Answers
  BY <1>a, <1>b DEF wire
<1> HIDE DEF Answers
<1>3. CASE /\ pc = "idle" /\ pc' = "idle" /\ result' \notin {"none", "OK"}
           /\ cmd' = cmd /\ Answers' = Answers
  <2>1. Abstract!Refuse
    BY <1>3, OutcomeIs DEF Abstract!Refuse, Answers
  <2> QED
    BY <2>1 DEF Abstract!Next
<1>4. CASE /\ pc # "idle" /\ pc' = "idle" /\ result' \notin {"none", "OK"}
           /\ cmd' = cmd /\ Answers' = Answers
  <2>1. Abstract!Fail
    BY <1>4, OutcomeIs DEF Abstract!Fail, Answers
  <2> QED
    BY <2>1 DEF Abstract!Next
<1>5. CASE /\ (pc = "idle") = (pc' = "idle")
           /\ result' = result /\ cmd' = cmd /\ Answers' = Answers
  <2>1. Outcome' = Outcome
    BY <1>5, OutcomeIs
  <2>2. (pc # "idle") = (pc' # "idle")
    BY <1>5
  <2> QED
    BY <1>5, <2>1, <2>2 DEF Abstract!vars, Answers
<1>6. CASE SendNotConnected
  BY <1>3, <1>6, <1>a DEF SendNotConnected, Return, wire
<1>7. CASE SendClear
  <2>1. /\ pc = "idle" /\ pc' = "wrap" /\ cmd < MaxCmds /\ cmd' = cmd + 1
        /\ result' = "none" /\ Answers' = Answers
    BY <1>7, <1>a DEF SendClear, wire
  <2>2. Abstract!Request
    BY <2>1, OutcomeIs DEF Abstract!Request, Answers
  <2> QED
    BY <2>2 DEF Abstract!Next
<1>8. CASE SendWrap \/ SendApdu \/ WaitForReceive
  BY <1>5, <1>8, <1>a, <1>c DEF SendWrap, SendApdu, WaitForReceive, wire
<1>9. CASE SendApduFails \/ Timeout
  BY <1>4, <1>9, <1>a, <1>c DEF SendApduFails, Timeout, Return, wire
<1>10. CASE Notified \/ SpuriousWakeup
  <2>1. /\ pc = "wait" /\ cmd' = cmd /\ Answers' = Answers
        /\ \/ pc' = "check" /\ result' = result
           \/ pc' = "idle" /\ result' = "NOT_CONNECT_DEVICE"
    BY <1>10, <1>a DEF Notified, SpuriousWakeup, AfterWait, Return, wire
  <2> QED
    BY <1>4, <1>5, <2>1
<1>11. CASE CheckResponse
  <2>1. /\ pc = "check" /\ cmd' = cmd /\ Answers' = Answers
        /\ \/ pc' = "copy" /\ result' = result
           \/ pc' = "idle" /\ result' \in {"TRANSACT_TIMEOUT", "TRANSMIT_DEVICE_ERROR"}
    BY <1>11, <1>a DEF CheckResponse, Return, wire
  <2> QED
    BY <1>4, <1>5, <2>1
<1>12. CASE CopyResponse /\ pc' # "overrun"
  <2>1. /\ pc = "copy" /\ pc' = "idle" /\ cmd' = cmd /\ via' = via
        /\ \/ result' = "OK" /\ answered' = answered \cup {Head(mRecvMsg.chunks).cmd}
           \/ result' = "TRANSMIT_DEVICE_ERROR" /\ answered' = answered
    BY <1>12 DEF CopyResponse, Return, wire
  <2>2. CASE result' = "OK" /\ answered' = answered \cup {Head(mRecvMsg.chunks).cmd}
    <3> DEFINE h == Held[1].cmd
    <3>1. mRecvMsg.chunks # <<>> /\ First(Head(mRecvMsg.chunks))
      BY <2>1 DEF Announced, First
    <3>2. Head(mRecvMsg.chunks) = Held[1] /\ Held # <<>> /\ Held[1] \in Packets(Held)
      BY <1>1, <3>1, HeadHeld
    <3>3. h \in 1..cmd
      <4>1. h \in 1..Reached
        BY <3>2 DEF Genuine, Real
      <4> QED
        BY <2>1, <4>1 DEF Reached
    <3>4. h \in 1..MaxCmds /\ h <= cmd /\ h \in Nat
      <4> HIDE DEF h
      <4> QED
        BY <1>2, <3>3, TransportAssumption
    <3>5. via[h] \in 1..MaxConns /\ \A k \in answered : via[k] = via[h] => k < h
      <4>1. LaterHeld /\ Begins
        BY <3>1, <3>2 DEF Unanswered, Begins
      <4> QED
        BY <2>1, <4>1 DEF LaterHeld, Conns
    <3>6. answered' = answered \cup {h}
      BY <2>2, <3>2
    <3> HIDE DEF h
    <3>7. h \notin answered
      <4>1. ~(h < h)
        BY <3>4
      <4> QED
        BY <3>5, <4>1
    <3>8. Answers[h] = 0 /\ Answers' = [Answers EXCEPT ![h] = via[h]]
      BY <2>1, <3>4, <3>6, <3>7 DEF Answers
    <3>9. \A j \in 1..MaxCmds : Answers[j] = via[h] => j < h
      <4>1. 0 \notin 1..MaxConns
        BY TransportAssumption
      <4> QED
        BY <3>5, <4>1 DEF Answers
    <3>10. PICK k \in 1..MaxCmds : k = h
      BY <3>4
    <3>11. PICK c \in 1..MaxConns : c = via[h]
      BY <3>5
    <3>12. Abstract!Answer(k, c)
      <4>1. k <= cmd /\ Answers[k] = 0 /\ Answers' = [Answers EXCEPT ![k] = c]
        BY <3>4, <3>8, <3>10, <3>11
      <4>2. \A j \in 1..MaxCmds : Answers[j] = c => j < k
        BY <3>9, <3>10, <3>11
      <4>3. Answers \in [1..MaxCmds -> 0..MaxConns]
        BY <1>1, TransportAssumption DEF Answers, TypeOK, WireTypes, Conns
      <4>4. /\ Answers' \in [1..MaxCmds -> 0..MaxConns]
            /\ Answers'[k] = c
            /\ \A j \in 1..MaxCmds \ {k} : Answers'[j] = Answers[j]
        <5>1. c \in 0..MaxConns
          BY <3>11, TransportAssumption
        <5> QED
          BY <4>1, <4>3, <5>1
      <4> QED
        BY <2>1, <2>2, <4>1, <4>2, <4>4, OutcomeIs DEF Abstract!Answer, Answers
    <3> QED
      BY <3>12 DEF Abstract!Next
  <2>3. CASE result' = "TRANSMIT_DEVICE_ERROR" /\ answered' = answered
    BY <1>4, <1>a, <2>1, <2>3
  <2> QED
    BY <2>1, <2>2, <2>3
<1>13. CASE RecvCallBack \/ MergePackage \/ DiscCallBack
  BY <1>5, <1>13, <1>a DEF RecvCallBack, MergePackage, MergeAndNotify, DiscCallBack, caller, wire
<1>14. CASE DuplicatePacket \/ LosePacket \/ LinkDown \/ Connect \/ Disconnect
  <2>1. UNCHANGED <<caller, via>>
    BY <1>14 DEF DuplicatePacket, LosePacket, LinkDown, Connect, Disconnect, Forget, Close, wire
  <2> QED
    BY <1>5, <1>a, <2>1 DEF caller
<1>15. CASE UNCHANGED vars
  BY <1>5, <1>15, <1>a DEF vars, caller, wire
<1>16. CASE CopyResponse /\ pc' = "overrun"
  <2>1. pc = "copy" /\ cmd' = cmd /\ result' = result /\ Answers' = Answers
    BY <1>16, <1>a DEF CopyResponse, Return, wire
  <2> QED
    BY <1>5, <1>16, <2>1
<1> QED
  BY <1>6, <1>7, <1>8, <1>9, <1>10, <1>11, <1>12, <1>13, <1>14, <1>15, <1>16
     DEF Next, SendData, BLEThread, Environment

\* When no packet is delivered twice, SendData does what Exchange promises: every
\* call ends once, with an error or with an answer, no answer is handed out twice
\* and none is older than one handed out before that came over the same
\* connection.  (That every call ends is left to TLC, as are all properties that
\* need fairness.)
THEOREM ExchangeSafety ==
    MaxDup = 0 => (Spec => Abstract!Init /\ [][Abstract!Next]_(Abstract!vars))
<1> SUFFICES ASSUME MaxDup = 0
             PROVE  Spec => Abstract!Init /\ [][Abstract!Next]_(Abstract!vars)
  OBVIOUS
<1> DEFINE I == Genuine /\ Begun /\ Sized /\ Announced /\ Unanswered
<1>1. Init => I
  BY GenuineInit, OrderedInit, UnansweredInit
<1>2. I /\ TypeInv /\ TypeInv' /\ [Next]_vars => I'
  <2> SUFFICES ASSUME I, TypeInv, TypeInv', [Next]_vars PROVE I'
    OBVIOUS
  <2>1. TypeOK
    BY DEF TypeInv
  <2> QED
    BY <2>1, GenuineNext, BegunNext, SizedNext, AnnouncedNext, UnansweredNext
<1>3. Init => Abstract!Init
  BY OutcomeIs DEF Init, Abstract!Init
<1>4. I /\ TypeInv /\ [Next]_vars => [Abstract!Next]_(Abstract!vars)
  BY ExchangeStep
<1> HIDE DEF I
<1> QED
  BY <1>1, <1>2, <1>3, <1>4, TypeInvCorrect, PTL DEF Spec
=============================================================================
