------------------------------- MODULE CsRecv -------------------------------
(***************************************************************************)
(* The receive path of the C# client: RegisterRecv and ProcessRecv         *)
(* (ClientCSharp/Network/Session.cs), the packet loop PacketSession.OnRecv *)
(* and RecvBuffer.  OnRecv is given all unread bytes and dispatches a      *)
(* packet only when the whole of it is there, and RegisterRecv always      *)
(* moves the rest to the front of the buffer before it posts.              *)
(*                                                                         *)
(* A handler that throws ends the path: the exception is caught around     *)
(* OnRead and RegisterRecv too.  So does a ReceiveAsync that throws, whose *)
(* exception RegisterRecv catches.  In both cases no receive is pending    *)
(* any more while the session may still count as connected.                *)
(***************************************************************************)
EXTENDS Integers, Sequences

CONSTANTS
  Capacity,      \* the size of recvBuffer (65535), scaled down
  HeaderSize,    \* PacketSession.HeaderSize: the size field
  Layouts,       \* the streams considered, as the ends of their packets
  HandlersThrow  \* TRUE: a packet handler may throw

Size(e, k) == e[k] - (IF k = 1 THEN 0 ELSE e[k - 1])

\* A packet has at least the size field and is at most as large as the buffer.
ASSUME SizesAssumption ==
  /\ HeaderSize \in Nat \ {0}
  /\ Capacity \in Nat \ {0}
  /\ Layouts \subseteq Seq(Nat)
  /\ \A e \in Layouts : \A k \in 1..Len(e) : Size(e, k) \in HeaderSize..Capacity
ASSUME ThrowAssumption == HandlersThrow \in BOOLEAN

VARIABLES
  ends,          \* the server's stream
  disconnected,  \* Session.disconnected is 1
  buf,           \* the cursors of recvBuffer
  consumed,      \* stream position of recvBuffer.ReadPos
  received,      \* bytes of the stream received so far
  pc,            \* "posted": ReceiveAsync pending; "loop": inside OnRecv;
                 \* "stopped": after Disconnect; "deaf": after an exception
  processLen,    \* OnRecv's local, 0 once OnRead has taken it
  dispatched     \* packets dispatched

stream == <<ends, consumed, received>>
vars   == <<disconnected, buf, stream, pc, processLen, dispatched>>

Buffer == INSTANCE RecvBuffer

EndOf(k) == IF k = 0 THEN 0 ELSE ends[k]
Total    == EndOf(Len(ends))

\* Connect has registered the first receive.
Init ==
  /\ ends \in Layouts
  /\ disconnected = FALSE
  /\ buf = Buffer!Empty
  /\ consumed = 0
  /\ received = 0
  /\ pc = "posted"
  /\ processLen = 0
  /\ dispatched = 0

\* Disconnect, from any thread.
Disconnect ==
  /\ ~disconnected
  /\ disconnected' = TRUE
  /\ UNCHANGED <<buf, stream, pc, processLen, dispatched>>

\* Mutant: the receive is given the whole array and OnWrite is not asked.
ProcessRecvUnchecked ==
  /\ pc = "posted"
  /\ \E n \in 1..(Total - received) :
       /\ buf' = Buffer!OnWrite(buf, n)
       /\ received' = received + n
  /\ processLen' = 0
  /\ pc' = "loop"
  /\ UNCHANGED <<ends, consumed, disconnected, dispatched>>

\* A receive completes with n bytes; OnRecv starts on all that is unread.
ProcessRecv ==
  /\ pc = "posted"
  /\ \E n \in 1..(Total - received) :
       /\ Buffer!CanWrite(buf, n)
       /\ buf' = Buffer!OnWrite(buf, n)
       /\ received' = received + n
  /\ processLen' = 0
  /\ pc' = "loop"
  /\ UNCHANGED <<ends, consumed, disconnected, dispatched>>

\* 0 bytes or an error: Disconnect.
ProcessRecvZero ==
  /\ pc = "posted"
  /\ disconnected' = TRUE
  /\ pc' = "stopped"
  /\ UNCHANGED <<buf, stream, processLen, dispatched>>

\* What OnRecv has not looked at yet: buffer.Count.
Rest == Buffer!DataSize(buf) - processLen

\* Mutant: a packet that ends with the data is taken for incomplete.
CompleteIfMore == Rest >= HeaderSize /\ Rest > Size(ends, dispatched + 1)

\* OnRecv goes on: the size field is there, and so is the packet.
Complete == Rest >= HeaderSize /\ Rest >= Size(ends, dispatched + 1)

\* Mutant: the size field is taken for the length behind it.
OnRecvPacketPlusHeader ==
  /\ pc = "loop"
  /\ Complete
  /\ dispatched' = dispatched + 1
  /\ processLen' = processLen + HeaderSize + Size(ends, dispatched + 1)
  /\ UNCHANGED <<disconnected, buf, stream, pc>>

\* One turn of the loop: the next packet is dispatched.
OnRecvPacket ==
  /\ pc = "loop"
  /\ Complete
  /\ dispatched' = dispatched + 1
  /\ processLen' = processLen + Size(ends, dispatched + 1)
  /\ UNCHANGED <<disconnected, buf, stream, pc>>

\* The turn in which the handler throws, caught at the end of ProcessRecv.
HandlerThrows ==
  /\ HandlersThrow
  /\ pc = "loop"
  /\ Complete
  /\ pc' = "deaf"
  /\ UNCHANGED <<disconnected, buf, stream, processLen, dispatched>>

\* Mutant: RegisterRecv forgets recvBuffer.Clear().
FinishWithoutClear ==
  /\ pc = "loop"
  /\ ~Complete
  /\ buf' = Buffer!OnRead(buf, processLen)
  /\ consumed' = consumed + processLen
  /\ pc' \in IF disconnected THEN {"stopped"} ELSE {"posted", "deaf"}
  /\ processLen' = 0
  /\ UNCHANGED <<ends, received, disconnected, dispatched>>

\* The loop ends: OnRead (which disconnects if more was processed than there
\* is), then RegisterRecv: return if disconnected, else Clear and ReceiveAsync,
\* which may throw, as it does when another thread has closed the socket.
FinishRecv ==
  /\ pc = "loop"
  /\ ~Complete
  /\ IF Buffer!CanRead(buf, processLen)
       THEN /\ consumed' = consumed + processLen
            /\ LET rest == Buffer!OnRead(buf, processLen)
               IN  buf' = IF disconnected THEN rest ELSE Buffer!Compact(rest)
            /\ pc' \in IF disconnected THEN {"stopped"} ELSE {"posted", "deaf"}
            /\ processLen' = 0
            /\ UNCHANGED disconnected
       ELSE /\ disconnected' = TRUE
            /\ pc' = "stopped"
            /\ UNCHANGED <<buf, consumed, processLen>>
  /\ UNCHANGED <<ends, received, dispatched>>

\* The path has ended.
Finished ==
  /\ pc \in {"stopped", "deaf"}
  /\ UNCHANGED vars

Next ==
  \/ Disconnect
  \/ ProcessRecv
  \/ ProcessRecvZero
  \/ OnRecvPacket
  \/ HandlerThrows
  \/ FinishRecv
  \/ Finished

Spec == Init /\ [][Next]_vars

\* The completion keeps running, and the network delivers what was sent.
FairSpec ==
  /\ Spec
  /\ WF_vars(OnRecvPacket \/ HandlerThrows \/ FinishRecv)
  /\ WF_vars(ProcessRecv)

-----------------------------------------------------------------------------
(* Type invariant                                                            *)

TypeOK ==
  /\ ends \in Layouts
  /\ disconnected \in BOOLEAN
  /\ buf \in Buffer!Buffers
  /\ consumed \in 0..Total
  /\ received \in 0..Total
  /\ pc \in {"posted", "loop", "stopped", "deaf"}
  /\ processLen \in 0..Total
  /\ dispatched \in 0..Len(ends)

-----------------------------------------------------------------------------
(* Safety, wherever the stream is cut                                        *)

\* How far OnRecv has got in the stream.
Position == consumed + processLen

\* OnRecv stands on a packet boundary, the one behind the packets it has
\* dispatched: nothing is dispatched twice or out of order.
Aligned == Position = EndOf(dispatched)

\* The buffer holds exactly the bytes received and not consumed.
BytesAccounted == consumed + Buffer!DataSize(buf) = received

\* ReceiveAsync never gets an empty segment: even behind all but the last byte
\* of the largest packet there is a byte of room, because Clear is
\* unconditional and only an incomplete packet is ever left over.
ReceiveHasRoom == pc = "posted" => Buffer!FreeSize(buf) > 0

\* The two together, through every write, read, move and rest left over.
BufferSound == BytesAccounted /\ ReceiveHasRoom

-----------------------------------------------------------------------------
(* The promise to the handlers                                               *)

\* The path implements the packet stream: each packet is dispatched once, in
\* order, whole, and as soon as it is there, however the stream is cut, until a
\* handler or ReceiveAsync throws; no bytes but packets are ever dispatched.
Framing == INSTANCE PacketStream WITH
  arrived <- received, closed <- pc = "stopped", fault <- pc = "deaf",
  stray <- FALSE

ImplementsPacketStream == Framing!Spec
=============================================================================
