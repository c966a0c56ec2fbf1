---------------------------- MODULE CsRecvProofs ----------------------------
(***************************************************************************)
(* Proofs about CsRecv for any buffer size, any header size and any set of *)
(* streams whose packets fit into the buffer, cut in any way.              *)
(*                                                                         *)
(* What one step keeps is RecvInv: the two cursor facts, the loop never    *)
(* past the data, and, while a receive is posted, a buffer moved to the    *)
(* front that holds less than one packet.                                  *)
(***************************************************************************)
EXTENDS CsRecv, TLAPS

\* While a receive is posted, nothing is in hand, and what is left over is part
\* of one packet, at the front of the buffer.
Leftover ==
  pc = "posted" =>
    /\ processLen = 0
    /\ buf.readPos = 0
    /\ dispatched < Len(ends) => received < ends[dispatched + 1]

\* OnRecv has processed bytes that are there.
InData == processLen <= Buffer!DataSize(buf)

\* What every step keeps.
RecvInv == TypeOK /\ Aligned /\ BytesAccounted /\ InData /\ Leftover

USE DEF vars, stream, EndOf, Total, Position

\* The sizes of the buffer and of the header.
LEMMA Sizes == HeaderSize \in Nat \ {0} /\ Capacity \in Nat \ {0}
  BY SizesAssumption

\* A stream is a sequence of packets, each at least a header and at most a
\* buffer long.
LEMMA Streams ==
  ASSUME ends \in Layouts
  PROVE  /\ ends \in Seq(Nat)
         /\ Len(ends) \in Nat
         /\ Total \in Nat
         /\ \A k \in 0..Len(ends) : EndOf(k) \in Nat
         /\ \A k \in 0..(Len(ends) - 1) :
              /\ Size(ends, k + 1) = ends[k + 1] - EndOf(k)
              /\ Size(ends, k + 1) \in HeaderSize..Capacity
<1>1. ends \in Seq(Nat)
  BY SizesAssumption
<1>2. \A k \in 0..Len(ends) : EndOf(k) \in Nat
  BY <1>1
<1>3. ASSUME NEW k \in 0..(Len(ends) - 1)
      PROVE  /\ Size(ends, k + 1) = ends[k + 1] - EndOf(k)
             /\ Size(ends, k + 1) \in HeaderSize..Capacity
  <2>1. k + 1 \in 1..Len(ends) /\ (k + 1) - 1 = k /\ (k + 1 = 1 <=> k = 0)
    BY <1>1, <1>3
  <2>2. Size(ends, k + 1) \in HeaderSize..Capacity
    BY <2>1, SizesAssumption
  <2> QED
    BY <2>1, <2>2 DEF Size
<1> QED
  BY <1>1, <1>2, <1>3

\* The cursors after a write, a read and a move to the front.
LEMMA Cursors ==
  ASSUME NEW b \in Buffer!Buffers, NEW n \in Nat
  PROVE  /\ b.readPos \in 0..Capacity /\ b.writePos \in 0..Capacity
         /\ Buffer!CanWrite(b, n) =>
              /\ Buffer!OnWrite(b, n) \in Buffer!Buffers
              /\ Buffer!OnWrite(b, n).readPos = b.readPos
              /\ Buffer!OnWrite(b, n).writePos = b.writePos + n
         /\ Buffer!CanRead(b, n) =>
              /\ Buffer!OnRead(b, n) \in Buffer!Buffers
              /\ Buffer!OnRead(b, n).readPos = b.readPos + n
              /\ Buffer!OnRead(b, n).writePos = b.writePos
         /\ b.readPos <= b.writePos =>
              /\ Buffer!Compact(b) \in Buffer!Buffers
              /\ Buffer!Compact(b).readPos = 0
              /\ Buffer!Compact(b).writePos = b.writePos - b.readPos
<1> USE Sizes DEF Buffer!Buffers
<1>1. b.readPos \in 0..Capacity /\ b.writePos \in 0..Capacity
  OBVIOUS
<1>2. ASSUME NEW r \in 0..Capacity, NEW w \in 0..Capacity
      PROVE  [readPos |-> r, writePos |-> w] \in Buffer!Buffers
  OBVIOUS
<1>3. b = [readPos |-> b.readPos, writePos |-> b.writePos]
  OBVIOUS
<1>4. Buffer!OnWrite(b, n) = [readPos |-> b.readPos, writePos |-> b.writePos + n]
  BY <1>3 DEF Buffer!OnWrite
<1>5. Buffer!OnRead(b, n) = [readPos |-> b.readPos + n, writePos |-> b.writePos]
  BY <1>3 DEF Buffer!OnRead
<1>6. Buffer!Compact(b) = [readPos |-> 0, writePos |-> b.writePos - b.readPos]
  BY DEF Buffer!Compact, Buffer!DataSize
<1> HIDE DEF Buffer!Buffers
<1>7. Buffer!CanWrite(b, n) => b.writePos + n \in 0..Capacity
  BY <1>1 DEF Buffer!CanWrite, Buffer!FreeSize
<1>8. Buffer!CanRead(b, n) => b.readPos + n \in 0..Capacity
  BY <1>1 DEF Buffer!CanRead, Buffer!DataSize
<1>9. b.readPos <= b.writePos => b.writePos - b.readPos \in 0..Capacity
  BY <1>1
<1>10. 0 \in 0..Capacity
  OBVIOUS
<1> QED
  BY <1>1, <1>2, <1>4, <1>5, <1>6, <1>7, <1>8, <1>9, <1>10

\* The empty buffer satisfies the invariant.
LEMMA RecvInit == Init => RecvInv
<1> SUFFICES ASSUME Init PROVE RecvInv
  OBVIOUS
<1>1. ends \in Layouts /\ Total \in Nat /\ Len(ends) \in Nat
  BY Streams DEF Init
<1>2. TypeOK
  <2>1. buf \in Buffer!Buffers
    BY Sizes DEF Init, Buffer!Empty, Buffer!Buffers
  <2> HIDE DEF Total
  <2>2. 0 \in 0..Total /\ 0 \in 0..Len(ends)
    BY <1>1
  <2> QED
    BY <1>1, <2>1, <2>2 DEF Init, TypeOK
<1>3. Aligned /\ BytesAccounted /\ InData
  BY DEF Init, Aligned, BytesAccounted, InData, Buffer!Empty, Buffer!DataSize
<1>4. ASSUME dispatched < Len(ends) PROVE received < ends[dispatched + 1]
  <2>1. 0 \in 0..(Len(ends) - 1) /\ dispatched = 0 /\ received = 0
    BY <1>1, <1>4 DEF Init
  <2> QED
    BY <1>1, <2>1, Streams, Sizes
<1> QED
  BY <1>2, <1>3, <1>4 DEF RecvInv, Leftover, Init, Buffer!Empty

\* Every step keeps it.
LEMMA RecvStep == RecvInv /\ [Next]_vars => RecvInv'
<1> SUFFICES ASSUME RecvInv, [Next]_vars PROVE RecvInv'
  OBVIOUS
<1> DEFINE unread == buf.writePos - buf.readPos
<1>1. /\ ends \in Layouts /\ ends \in Seq(Nat) /\ Len(ends) \in Nat /\ Total \in Nat
      /\ consumed \in 0..Total /\ received \in 0..Total /\ processLen \in 0..Total
      /\ dispatched \in 0..Len(ends) /\ EndOf(dispatched) \in Nat
      /\ buf \in Buffer!Buffers
      /\ buf.readPos \in 0..Capacity /\ buf.writePos \in 0..Capacity
      /\ HeaderSize \in Nat \ {0}
      /\ Capacity \in Nat \ {0}
  BY Streams, Cursors, Sizes, 0 \in Nat DEF RecvInv, TypeOK
<1>2. /\ unread \in Int
      /\ consumed + unread = received
      /\ consumed + processLen = EndOf(dispatched)
      /\ processLen <= unread
      /\ pc = "posted" =>
           /\ processLen = 0
           /\ buf.readPos = 0
           /\ dispatched < Len(ends) => received < ends[dispatched + 1]
      /\ pc \in {"posted", "loop", "stopped", "deaf"}
      /\ disconnected \in BOOLEAN
  BY <1>1 DEF Buffer!DataSize, RecvInv, TypeOK, Aligned, BytesAccounted, InData,
     Leftover
<1>3. ASSUME dispatched < Len(ends)
      PROVE  \E s \in Nat :
               /\ s = Size(ends, dispatched + 1)
               /\ s >= HeaderSize
               /\ ends[dispatched + 1] = EndOf(dispatched) + s
  <2>1. dispatched \in 0..(Len(ends) - 1) /\ dispatched + 1 \in 1..Len(ends)
    BY <1>1, <1>3
  <2>2. /\ Size(ends, dispatched + 1) = ends[dispatched + 1] - EndOf(dispatched)
        /\ Size(ends, dispatched + 1) \in HeaderSize..Capacity
        /\ ends[dispatched + 1] \in Nat
    BY <1>1, <2>1, Streams
  <2>3. /\ Size(ends, dispatched + 1) \in Nat
        /\ Size(ends, dispatched + 1) >= HeaderSize
    BY <1>1, <2>2
  <2>4. ends[dispatched + 1] = EndOf(dispatched) + Size(ends, dispatched + 1)
    <3> HIDE DEF EndOf
    <3> QED
      BY <1>1, <2>2
  <2> QED
    BY <2>3, <2>4
<1> HIDE DEF EndOf, Total, unread
<1> USE DEF Aligned, BytesAccounted, InData, Leftover
<1>4. CASE Disconnect
  BY <1>1, <1>2, <1>4 DEF Disconnect, RecvInv, TypeOK, Buffer!DataSize, Total, EndOf, unread
<1>5. CASE ProcessRecv
  <2> PICK n \in 1..(Total - received) :
        /\ Buffer!CanWrite(buf, n)
        /\ buf' = Buffer!OnWrite(buf, n)
        /\ received' = received + n
    BY <1>5 DEF ProcessRecv
  <2>1. /\ buf' \in Buffer!Buffers
        /\ buf'.readPos = buf.readPos
        /\ buf'.writePos = buf.writePos + n
    BY <1>1, n \in Nat, Cursors
  <2>2. /\ ends' = ends /\ consumed' = consumed /\ dispatched' = dispatched
        /\ disconnected' = disconnected /\ processLen' = 0
        /\ pc = "posted" /\ pc' = "loop" /\ Total' = Total
    BY <1>5 DEF ProcessRecv, Total, EndOf
  <2>3. TypeOK'
    BY <1>1, <1>2, <2>1, <2>2 DEF TypeOK
  <2>4. Aligned' /\ Leftover'
    BY <1>1, <1>2, <2>2 DEF EndOf
  <2>5. buf'.writePos - buf'.readPos = unread + n /\ unread \in Nat
    BY <1>1, <1>2, <2>1, <2>2 DEF unread
  <2>6. BytesAccounted'
    <3>1. Buffer!DataSize(buf)' = unread + n
      BY <2>5 DEF Buffer!DataSize
    <3>2. consumed \in Nat /\ consumed + unread = received
      BY <1>1, <1>2
    <3>3. consumed + (unread + n) = received + n
      BY <2>5, <3>2
    <3> QED
      BY <2>2, <3>1, <3>3
  <2>7. InData'
    BY <2>2, <2>5 DEF Buffer!DataSize
  <2> QED
    BY <2>3, <2>4, <2>6, <2>7 DEF RecvInv
<1>6. CASE ProcessRecvZero
  BY <1>1, <1>2, <1>6 DEF ProcessRecvZero, RecvInv, TypeOK, Buffer!DataSize, Total, EndOf, unread
<1>7. CASE OnRecvPacket
  <2>1. /\ ends' = ends /\ consumed' = consumed /\ received' = received
        /\ disconnected' = disconnected /\ buf' = buf
        /\ pc = "loop" /\ pc' = "loop" /\ Total' = Total
        /\ dispatched' = dispatched + 1
        /\ processLen' = processLen + Size(ends, dispatched + 1)
        /\ unread - processLen >= HeaderSize
        /\ unread - processLen >= Size(ends, dispatched + 1)
    BY <1>7 DEF OnRecvPacket, Complete, Rest, Buffer!DataSize, unread, Total, EndOf
  <2>2. dispatched < Len(ends)
    <3>1. dispatched = Len(ends) => EndOf(dispatched) = Total
      BY DEF Total
    <3> QED
      BY <1>1, <1>2, <2>1, <3>1
  <2> PICK s \in Nat : /\ s = Size(ends, dispatched + 1)
                       /\ ends[dispatched + 1] = EndOf(dispatched) + s
    BY <1>3, <2>2
  <2>3. processLen' \in 0..unread /\ processLen' \in 0..Total
    <3>1. processLen' = processLen + s /\ s <= unread - processLen
      BY <2>1
    <3>2. processLen \in Nat /\ unread \in Int
      BY <1>1, <1>2
    <3>3. processLen' \in Nat /\ processLen' <= unread
      BY <3>1, <3>2
    <3>4. unread <= Total
      BY <1>1, <1>2
    <3> QED
      BY <1>1, <3>2, <3>3, <3>4
  <2>4. TypeOK'
    BY <1>1, <1>2, <2>1, <2>2, <2>3 DEF TypeOK
  <2>5. Aligned'
    <3>1. EndOf(dispatched)' = ends[dispatched + 1]
      BY <1>1, <2>1 DEF EndOf
    <3>2. consumed + processLen = EndOf(dispatched) /\ processLen' = processLen + s
      BY <1>2, <2>1
    <3>3. consumed' + processLen' = EndOf(dispatched)'
      BY <1>1, <2>1, <3>1, <3>2
    <3> QED
      BY <2>1, <3>3
  <2>6. BytesAccounted' /\ InData' /\ Leftover'
    BY <1>2, <2>1, <2>3 DEF Buffer!DataSize, unread
  <2> QED
    BY <2>4, <2>5, <2>6 DEF RecvInv
<1>8. CASE HandlerThrows
  BY <1>1, <1>2, <1>8 DEF HandlerThrows, RecvInv, TypeOK, Buffer!DataSize, Total, EndOf, unread
<1>9. CASE FinishRecv
  <2>1. Buffer!CanRead(buf, processLen) /\ processLen \in Nat
    BY <1>1, <1>2, <1>9 DEF FinishRecv, Buffer!CanRead, Buffer!DataSize, unread
  <2> DEFINE rest == Buffer!OnRead(buf, processLen)
  <2>2. /\ ends' = ends /\ received' = received /\ processLen' = 0
        /\ dispatched' = dispatched /\ disconnected' = disconnected
        /\ consumed' = consumed + processLen
        /\ pc = "loop"
        /\ pc' \in IF disconnected THEN {"stopped"} ELSE {"posted", "deaf"}
        /\ buf' = IF disconnected THEN rest ELSE Buffer!Compact(rest)
        /\ Total' = Total
    BY <1>9, <2>1 DEF FinishRecv, Total, EndOf
  <2>3. /\ rest \in Buffer!Buffers
        /\ rest.readPos = buf.readPos + processLen
        /\ rest.writePos = buf.writePos
    BY <1>1, <2>1, Cursors
  <2> HIDE DEF rest
  <2>4. rest.readPos <= rest.writePos
    <3>1. buf.readPos \in Nat /\ buf.writePos \in Nat /\ processLen \in Nat
      BY <1>1, <2>1
    <3>2. processLen <= buf.writePos - buf.readPos
      BY <1>1, <1>2, <2>2 DEF unread
    <3> QED
      BY <2>3, <3>1, <3>2
  <2>5. /\ buf' \in Buffer!Buffers
        /\ buf'.writePos - buf'.readPos = rest.writePos - rest.readPos
        /\ pc' = "posted" => buf'.readPos = 0
    <3>1. /\ Buffer!Compact(rest) \in Buffer!Buffers
          /\ Buffer!Compact(rest).readPos = 0
          /\ Buffer!Compact(rest).writePos = rest.writePos - rest.readPos
      BY <2>3, <2>4, 0 \in Nat, Cursors
    <3>2. rest.writePos - rest.readPos \in Nat
      BY <1>1, <2>3, <2>4
    <3> QED
      BY <2>2, <2>3, <3>1, <3>2
  <2>6. consumed' = EndOf(dispatched) /\ consumed' \in 0..Total
    BY <1>1, <1>2, <2>2
  <2>7. TypeOK'
    BY <1>1, <1>2, <2>2, <2>5, <2>6 DEF TypeOK
  <2>8. Aligned'
    BY <1>1, <2>2, <2>6 DEF EndOf
  <2>9. BytesAccounted'
    BY <1>1, <1>2, <2>2, <2>3, <2>5 DEF Buffer!DataSize, unread
  <2>10. InData'
    <3>1. rest.writePos - rest.readPos >= 0
      BY <1>1, <2>3, <2>4
    <3> QED
      BY <2>2, <2>5, <3>1 DEF Buffer!DataSize
  <2>11. ASSUME dispatched < Len(ends) PROVE received < ends[dispatched + 1]
    <3>1. ~Complete
      BY <1>9 DEF FinishRecv
    <3> PICK s \in Nat : /\ s = Size(ends, dispatched + 1)
                         /\ s >= HeaderSize
                         /\ ends[dispatched + 1] = EndOf(dispatched) + s
      BY <1>3, <2>11
    <3>2. ~(unread - processLen >= HeaderSize /\ unread - processLen >= s)
      BY <3>1 DEF Complete, Rest, Buffer!DataSize, unread
    <3>3. consumed + processLen = EndOf(dispatched)
      BY <1>2, <2>2
    <3> QED
      BY <1>1, <1>2, <3>2, <3>3
  <2>12. Leftover'
    BY <1>1, <2>2, <2>5, <2>11
  <2> QED
    BY <2>7, <2>8, <2>9, <2>10, <2>12 DEF RecvInv
<1>10. CASE Finished
  BY <1>1, <1>2, <1>10 DEF Finished, RecvInv, TypeOK, Buffer!DataSize, Total, EndOf, unread
<1>11. CASE UNCHANGED vars
  BY <1>1, <1>2, <1>11 DEF RecvInv, TypeOK, Buffer!DataSize, Total, EndOf, unread
<1> QED
  BY <1>4, <1>5, <1>6, <1>7, <1>8, <1>9, <1>10, <1>11 DEF Next, RecvInv

\* The invariant holds.
LEMMA RecvCorrect == Spec => []RecvInv
  BY RecvInit, RecvStep, PTL DEF Spec

-----------------------------------------------------------------------------
(* The properties of the run                                                 *)

\* Every variable of the C# receive path keeps its type.
THEOREM CsTypeCorrect == Spec => []TypeOK
  BY RecvCorrect, PTL DEF RecvInv

\* OnRecv dispatches every packet at most once and in order, however the stream
\* is cut.
THEOREM CsAligned == Spec => []Aligned
  BY RecvCorrect, PTL DEF RecvInv

\* Only an incomplete packet is left over when a receive is posted, and that is
\* smaller than the buffer.
LEMMA RoomToReceive == RecvInv => ReceiveHasRoom
<1> SUFFICES ASSUME RecvInv, pc = "posted" PROVE Buffer!FreeSize(buf) > 0
  BY DEF ReceiveHasRoom
<1>1. /\ ends \in Layouts /\ Len(ends) \in Nat /\ dispatched \in 0..Len(ends)
      /\ consumed \in 0..Total /\ received \in 0..Total /\ Total \in Nat
      /\ buf \in Buffer!Buffers /\ Capacity \in Nat \ {0}
  BY Streams, Sizes DEF RecvInv, TypeOK
<1>2. /\ buf.readPos = 0
      /\ buf.writePos \in 0..Capacity
  BY <1>1, Cursors, 0 \in Nat DEF RecvInv, Leftover
<1>3. consumed = EndOf(dispatched) /\ consumed + (buf.writePos - buf.readPos) = received
  BY <1>1 DEF RecvInv, Aligned, BytesAccounted, Leftover, Buffer!DataSize
<1>4. buf.writePos < Capacity
  <2>1. CASE dispatched = Len(ends)
    <3>1. consumed = Total
      BY <1>3, <2>1
    <3> HIDE DEF Total, EndOf
    <3> QED
      BY <1>1, <1>2, <1>3, <3>1
  <2>2. CASE dispatched < Len(ends)
    <3>1. dispatched \in 0..(Len(ends) - 1) /\ received < ends[dispatched + 1]
      BY <1>1, <2>2 DEF RecvInv, Leftover
    <3>2. /\ Size(ends, dispatched + 1) = ends[dispatched + 1] - EndOf(dispatched)
          /\ Size(ends, dispatched + 1) \in HeaderSize..Capacity
          /\ ends[dispatched + 1] \in Nat
          /\ EndOf(dispatched) \in Nat
      BY <1>1, <3>1, Streams
    <3> HIDE DEF Total, EndOf
    <3>3. Size(ends, dispatched + 1) <= Capacity
      BY <1>1, <3>2, Sizes
    <3>4. ends[dispatched + 1] - EndOf(dispatched) <= Capacity
      BY <3>2, <3>3
    <3> QED
      BY <1>1, <1>2, <1>3, <3>1, <3>2, <3>4
  <2> QED
    BY <1>1, <2>1, <2>2
<1> QED
  BY <1>1, <1>2, <1>4 DEF Buffer!FreeSize

\* No byte is lost or invented between the socket and OnRecv, and ReceiveAsync is
\* never given an empty segment, which would complete with 0 bytes and
\* disconnect a healthy session.
THEOREM CsBufferSound == Spec => []BufferSound
<1>1. RecvInv => BufferSound
  BY RoomToReceive DEF RecvInv, BufferSound
<1> QED
  BY <1>1, RecvCorrect, PTL

-----------------------------------------------------------------------------
(* The packet stream                                                         *)

\* However the stream is cut, a packet is dispatched only when the whole of it
\* has arrived, once and in order, until a handler or ReceiveAsync throws: the
\* part of ImplementsPacketStream that is not about time.
THEOREM CsFramingSafe == Spec => Framing!Safety
<1>1. Init => Framing!Init
  BY DEF Init, Framing!Init
<1>2. RecvInv /\ [Next]_vars => [Framing!Next]_(Framing!vars)
  <2> SUFFICES ASSUME RecvInv, [Next]_vars PROVE [Framing!Next]_(Framing!vars)
    OBVIOUS
  <2> USE DEF Framing!Next, Framing!vars
  <2>1. CASE Disconnect
    BY <2>1 DEF Disconnect
  <2>2. CASE ProcessRecv
    <3>1. Total \in Nat /\ received \in 0..Total /\ Framing!Total = Total
      BY Streams DEF RecvInv, TypeOK, Framing!Total, Framing!EndOf
    <3> HIDE DEF Total, EndOf
    <3>2. received' \in (received + 1)..Total
      BY <2>2, <3>1 DEF ProcessRecv
    <3> QED
      BY <2>2, <3>1, <3>2 DEF ProcessRecv, Framing!Arrive
  <2>3. CASE ProcessRecvZero
    BY <2>3 DEF ProcessRecvZero, Framing!Close
  <2>4. CASE OnRecvPacket
    <3>1. /\ ends \in Layouts /\ Len(ends) \in Nat /\ Total \in Nat
          /\ dispatched \in 0..Len(ends) /\ EndOf(dispatched) \in Nat
          /\ consumed \in 0..Total /\ received \in 0..Total /\ processLen \in 0..Total
          /\ HeaderSize \in Nat \ {0}
      BY Streams, Sizes DEF RecvInv, TypeOK
    <3> DEFINE unread == Buffer!DataSize(buf)
    <3>2. /\ consumed + unread = received
          /\ consumed + processLen = EndOf(dispatched)
          /\ unread - processLen >= HeaderSize
          /\ unread - processLen >= Size(ends, dispatched + 1)
          /\ unread \in Int
      <4>1. buf.readPos \in 0..Capacity /\ buf.writePos \in 0..Capacity
        BY Cursors, 0 \in Nat DEF RecvInv, TypeOK
      <4>2. unread \in Int
        BY <4>1 DEF Buffer!DataSize
      <4> QED
        BY <2>4, <4>2 DEF OnRecvPacket, Complete, Rest, RecvInv, Aligned, BytesAccounted
    <3> HIDE DEF unread
    <3>3. dispatched < Len(ends)
      <4>1. dispatched = Len(ends) => EndOf(dispatched) = Total
        OBVIOUS
      <4> HIDE DEF Total, EndOf
      <4> QED
        BY <3>1, <3>2, <4>1
    <3>4. /\ Size(ends, dispatched + 1) = ends[dispatched + 1] - EndOf(dispatched)
          /\ ends[dispatched + 1] \in Nat
      <4>1. dispatched \in 0..(Len(ends) - 1) /\ dispatched + 1 \in 1..Len(ends)
        BY <3>1, <3>3
      <4> QED
        BY <3>1, <4>1, Streams
    <3> HIDE DEF Total, EndOf
    <3>5. unread - processLen >= ends[dispatched + 1] - EndOf(dispatched)
      BY <3>2, <3>4
    <3>6. ends[dispatched + 1] <= received
      BY <3>1, <3>2, <3>4, <3>5
    <3> QED
      BY <2>4, <3>3, <3>6 DEF OnRecvPacket, Framing!Dispatch
  <2>5. CASE HandlerThrows
    <3>1. received \in 0..Total /\ dispatched \in 0..Len(ends) /\ Framing!Total = Total
          /\ Total \in Nat /\ Len(ends) \in Nat
      BY Streams DEF RecvInv, TypeOK, Framing!Total, Framing!EndOf
    <3> HIDE DEF Total, EndOf
    <3>2. received \in received..Total /\ dispatched \in dispatched..(dispatched + 1)
      BY <3>1
    <3> QED
      BY <2>5, <3>1, <3>2 DEF HandlerThrows, Framing!Faulty
  <2>6. CASE FinishRecv
    <3>1. pc' \in {"posted", "stopped", "deaf"} /\ pc = "loop"
      BY <2>6 DEF FinishRecv
    <3>2. CASE pc' = "posted"
      BY <2>6, <3>1, <3>2 DEF FinishRecv
    <3>3. CASE pc' = "stopped"
      BY <2>6, <3>1, <3>3 DEF FinishRecv, Framing!Close
    <3>4. CASE pc' = "deaf"
      <4>1. received \in 0..Total /\ dispatched \in 0..Len(ends) /\ Framing!Total = Total
            /\ Total \in Nat /\ Len(ends) \in Nat
        BY Streams DEF RecvInv, TypeOK, Framing!Total, Framing!EndOf
      <4> HIDE DEF Total, EndOf
      <4>2. received \in received..Total /\ dispatched \in dispatched..(dispatched + 1)
        BY <4>1
      <4> QED
        BY <2>6, <3>4, <4>1, <4>2 DEF FinishRecv, Framing!Faulty
    <3> QED
      BY <3>1, <3>2, <3>3, <3>4
  <2>7. CASE Finished
    BY <2>7 DEF Finished
  <2>8. CASE UNCHANGED vars
    BY <2>8
  <2> QED
    BY <2>1, <2>2, <2>3, <2>4, <2>5, <2>6, <2>7, <2>8 DEF Next
<1> QED
  BY <1>1, <1>2, RecvCorrect, PTL DEF Spec, Framing!Safety
=============================================================================
