--------------------------- MODULE CppRecvProofs ---------------------------
(***************************************************************************)
(* Proofs about CppRecv for any sizes of the buffer and the header and any *)
(* streams of packets, whatever their size fields say.                     *)
(*                                                                         *)
(* RecvInv holds wherever the stream is cut: OnRecv is never told of more  *)
(* bytes than there are, and stands on a packet boundary until it has      *)
(* dispatched something stray or read a wrong size.  WholeInv is what      *)
(* receives that end on packet boundaries add, as long as the sizes are    *)
(* right: each of them is consumed to its last byte before the next one is *)
(* posted.                                                                 *)
(***************************************************************************)
EXTENDS CppRecv, TLAPS

\* OnRecv's argument counts bytes that are in the buffer.
LenInData == pc = "loop" => len <= Buffer!DataSize(buf)

\* Nothing is consumed before it is received.
ConsumedThere == consumed <= received

\* What every step keeps.
RecvInv ==
  TypeOK /\ Aligned /\ BytesAccounted /\ LenInData /\ ConsumedThere /\ RoomBeforePost

\* Until a receive ends inside a packet or a size is wrong: the last one ended with
\* packet k, the loop has not passed it, and it started where nothing was left over.
WholeInv ==
  ~midPacket /\ ~misled =>
    /\ ~stray /\ ~cut
    /\ pc \in {"posted", "loop", "stopped"}
    /\ pc = "posted" => consumed = received
    /\ pc = "loop" =>
         /\ consumed + len = received
         /\ \E k \in 1..Len(ends) : received = ends[k] /\ dispatched <= k

\* The sizes of the buffer and of the header.
LEMMA Sizes ==
  /\ HeaderSize \in Nat \ {0}
  /\ BufferSize \in Nat
  /\ Capacity \in Nat
  BY SizesAssumption DEF Capacity

\* A stream is a sequence of packets, each at least a header long, that end in
\* the order of their numbers.
LEMMA Streams ==
  ASSUME ends \in Layouts
  PROVE  /\ ends \in Seq(Nat)
         /\ Len(ends) \in Nat
         /\ Total \in Nat
         /\ \A k \in 0..Len(ends) : EndOf(k) \in Nat /\ EndOf(k) <= Total
         /\ \A j \in 0..Len(ends), k \in 1..Len(ends) :
              j <= k => EndOf(j) <= ends[k]
         /\ \A k \in 0..(Len(ends) - 1) :
              /\ ends[k + 1] \in Nat
              /\ EndOf(k + 1) = ends[k + 1]
              /\ Size(ends, k + 1) \in Nat
              /\ Size(ends, k + 1) >= HeaderSize
              /\ ends[k + 1] = EndOf(k) + Size(ends, k + 1)
<1>1. ends \in Seq(Nat) /\ Len(ends) \in Nat
  BY SizesAssumption
<1>2. \A k \in 1..Len(ends) : ends[k] \in Nat
  BY <1>1
<1>3. \A k \in 0..Len(ends) : EndOf(k) \in Nat
  BY <1>1, <1>2 DEF EndOf
<1>4. Total \in Nat
  BY <1>1, <1>3 DEF Total
<1>5. \A j, k \in 1..Len(ends) : j <= k => ends[j] <= ends[k]
  BY SizesAssumption
<1>6. ASSUME NEW j \in 0..Len(ends), NEW k \in 1..Len(ends), j <= k
      PROVE  EndOf(j) <= ends[k]
  BY <1>1, <1>2, <1>5, <1>6 DEF EndOf
<1>7. ASSUME NEW k \in 0..Len(ends) PROVE EndOf(k) <= Total
  BY <1>1, <1>6, <1>7 DEF Total, EndOf
<1>8. ASSUME NEW k \in 0..(Len(ends) - 1)
      PROVE  /\ ends[k + 1] \in Nat
             /\ EndOf(k + 1) = ends[k + 1]
             /\ Size(ends, k + 1) \in Nat
             /\ Size(ends, k + 1) >= HeaderSize
             /\ ends[k + 1] = EndOf(k) + Size(ends, k + 1)
  <2>1. k + 1 \in 1..Len(ends) /\ (k + 1) - 1 = k /\ (k + 1 = 1 <=> k = 0)
    BY <1>1, <1>8
  <2>2. Size(ends, k + 1) >= HeaderSize
    BY <2>1, SizesAssumption
  <2>3. EndOf(k + 1) = ends[k + 1] /\ ends[k + 1] \in Nat
    BY <1>2, <2>1 DEF EndOf
  <2>4. Size(ends, k + 1) = ends[k + 1] - EndOf(k)
    BY <2>1 DEF Size, EndOf
  <2>5. EndOf(k) \in Nat
    BY <1>1, <1>3, <1>8
  <2> QED
    BY <2>2, <2>3, <2>4, <2>5, Sizes
<1> QED
  BY <1>1, <1>3, <1>4, <1>6, <1>7, <1>8

\* The cursors after a write, a read and Clear.
LEMMA Cursors ==
  ASSUME NEW b \in Buffer!Buffers, NEW n \in Nat
  PROVE  /\ b.readPos \in 0..Capacity /\ b.writePos \in 0..Capacity
         /\ Buffer!CanWrite(b, n) =>
              /\ Buffer!OnWrite(b, n) \in Buffer!Buffers
              /\ Buffer!DataSize(Buffer!OnWrite(b, n)) = Buffer!DataSize(b) + n
         /\ Buffer!CanRead(b, n) =>
              /\ Buffer!OnRead(b, n) \in Buffer!Buffers
              /\ Buffer!DataSize(Buffer!OnRead(b, n)) = Buffer!DataSize(b) - n
         /\ Buffer!DataSize(b) >= 0 =>
              /\ Buffer!ClearWhenTight(b, BufferSize) \in Buffer!Buffers
              /\ Buffer!DataSize(Buffer!ClearWhenTight(b, BufferSize)) = Buffer!DataSize(b)
              /\ \/ Buffer!FreeSize(Buffer!ClearWhenTight(b, BufferSize)) >= BufferSize
                 \/ Buffer!DataSize(b) > Capacity - BufferSize
<1> USE Sizes DEF Buffer!Buffers
<1>1. b.readPos \in 0..Capacity /\ b.writePos \in 0..Capacity
  OBVIOUS
<1>2. ASSUME NEW r \in 0..Capacity, NEW w \in 0..Capacity
      PROVE  [readPos |-> r, writePos |-> w] \in Buffer!Buffers
  OBVIOUS
<1>3. b = [readPos |-> b.readPos, writePos |-> b.writePos]
  OBVIOUS
<1>4. Buffer!OnWrite(b, n) = [readPos |-> b.readPos, writePos |-> b.writePos + n]
  BY <1>3 DEF Buffer!OnWrite
<1>5. Buffer!OnRead(b, n) = [readPos |-> b.readPos + n, writePos |-> b.writePos]
  BY <1>3 DEF Buffer!OnRead
<1>6. Buffer!Compact(b) = [readPos |-> 0, writePos |-> b.writePos - b.readPos]
  BY DEF Buffer!Compact, Buffer!DataSize
<1> HIDE DEF Buffer!Buffers
<1>7. ASSUME Buffer!CanWrite(b, n)
      PROVE  /\ Buffer!OnWrite(b, n) \in Buffer!Buffers
             /\ Buffer!DataSize(Buffer!OnWrite(b, n)) = Buffer!DataSize(b) + n
  <2>1. b.writePos + n \in 0..Capacity
    BY <1>1, <1>7 DEF Buffer!CanWrite, Buffer!FreeSize
  <2> QED
    BY <1>1, <1>2, <1>4, <2>1 DEF Buffer!DataSize
<1>8. ASSUME Buffer!CanRead(b, n)
      PROVE  /\ Buffer!OnRead(b, n) \in Buffer!Buffers
             /\ Buffer!DataSize(Buffer!OnRead(b, n)) = Buffer!DataSize(b) - n
  <2>1. b.readPos + n \in 0..Capacity
    BY <1>1, <1>8 DEF Buffer!CanRead, Buffer!DataSize
  <2> QED
    BY <1>1, <1>2, <1>5, <2>1 DEF Buffer!DataSize
<1>9. ASSUME Buffer!DataSize(b) >= 0
      PROVE  /\ Buffer!ClearWhenTight(b, BufferSize) \in Buffer!Buffers
             /\ Buffer!DataSize(Buffer!ClearWhenTight(b, BufferSize)) = Buffer!DataSize(b)
             /\ \/ Buffer!FreeSize(Buffer!ClearWhenTight(b, BufferSize)) >= BufferSize
                \/ Buffer!DataSize(b) > Capacity - BufferSize
  <2>1. b.writePos - b.readPos \in 0..Capacity /\ 0 \in 0..Capacity
    BY <1>1, <1>9 DEF Buffer!DataSize
  <2>2. /\ Buffer!Compact(b) \in Buffer!Buffers
        /\ Buffer!DataSize(Buffer!Compact(b)) = Buffer!DataSize(b)
        /\ Buffer!FreeSize(Buffer!Compact(b)) = Capacity - Buffer!DataSize(b)
    BY <1>1, <1>2, <1>6, <2>1 DEF Buffer!DataSize, Buffer!FreeSize
  <2>3. CASE Buffer!ClearWhenTight(b, BufferSize) = Buffer!Compact(b)
    BY <1>1, <2>1, <2>2, <2>3 DEF Buffer!DataSize
  <2>4. CASE Buffer!ClearWhenTight(b, BufferSize) # Buffer!Compact(b)
    BY <1>1, <2>4 DEF Buffer!ClearWhenTight, Buffer!FreeSize
  <2> QED
    BY <2>3, <2>4
<1> QED
  BY <1>1, <1>7, <1>8, <1>9

-----------------------------------------------------------------------------
(* Wherever the stream is cut                                                *)

\* What RecvInv says in numbers: unread bytes, and OnRecv's place in them.
LEMMA Facts ==
  ASSUME RecvInv
  PROVE  /\ ends \in Layouts /\ Len(ends) \in Nat /\ Total \in Nat
         /\ connected \in BOOLEAN /\ cut \in BOOLEAN /\ midPacket \in BOOLEAN
         /\ misled \in BOOLEAN /\ stray \in BOOLEAN
         /\ pc \in {"posted", "loop", "stopped", "spinning", "outside"}
         /\ consumed \in 0..Total /\ received \in 0..Total
         /\ len \in 0..Total /\ processLen \in 0..(Capacity + BufferSize)
         /\ dispatched \in 0..Len(ends)
         /\ EndOf(dispatched) \in Nat /\ EndOf(dispatched) <= Total
         /\ buf \in Buffer!Buffers
         /\ Buffer!DataSize(buf) \in Nat /\ Buffer!DataSize(buf) <= Capacity
         /\ consumed + Buffer!DataSize(buf) = received
         /\ ~misled /\ ~stray =>
              /\ pc = "loop" => consumed + processLen = EndOf(dispatched)
              /\ pc \in {"posted", "stopped"} => consumed = EndOf(dispatched)
         /\ pc = "loop" => consumed + len <= received
<1>1. /\ ends \in Layouts /\ Len(ends) \in Nat /\ Total \in Nat
      /\ connected \in BOOLEAN /\ cut \in BOOLEAN /\ midPacket \in BOOLEAN
      /\ misled \in BOOLEAN /\ stray \in BOOLEAN
      /\ pc \in {"posted", "loop", "stopped", "spinning", "outside"}
      /\ consumed \in 0..Total /\ received \in 0..Total
      /\ len \in 0..Total /\ processLen \in 0..(Capacity + BufferSize)
      /\ dispatched \in 0..Len(ends)
      /\ EndOf(dispatched) \in Nat /\ EndOf(dispatched) <= Total
      /\ buf \in Buffer!Buffers
  BY Streams DEF RecvInv, TypeOK
<1>2. Buffer!DataSize(buf) \in Int /\ Buffer!DataSize(buf) <= Capacity
  <2>1. buf.readPos \in 0..Capacity /\ buf.writePos \in 0..Capacity
    BY <1>1, Cursors, 0 \in Nat
  <2> QED
    BY <2>1, Sizes DEF Buffer!DataSize
<1>3. consumed + Buffer!DataSize(buf) = received
  BY DEF RecvInv, BytesAccounted
<1>4. ~misled /\ ~stray =>
        /\ pc = "loop" => consumed + processLen = EndOf(dispatched)
        /\ pc \in {"posted", "stopped"} => consumed = EndOf(dispatched)
  BY <1>1 DEF RecvInv, Aligned, Position
<1>5. Buffer!DataSize(buf) >= 0
  BY <1>1, <1>2, <1>3 DEF RecvInv, ConsumedThere
<1>6. pc = "loop" => consumed + len <= received
  BY <1>1, <1>2, <1>3 DEF RecvInv, LenInData
<1> QED
  BY <1>1, <1>2, <1>3, <1>4, <1>5, <1>6

\* The start of a connection.
LEMMA RecvInit == Init => RecvInv
<1> SUFFICES ASSUME Init PROVE RecvInv
  OBVIOUS
<1>1. ends \in Layouts /\ Total \in Nat /\ Len(ends) \in Nat
  BY Streams DEF Init
<1>2. buf \in Buffer!Buffers /\ Buffer!DataSize(buf) = 0 /\ Buffer!FreeSize(buf) = Capacity
  BY Sizes DEF Init, Buffer!Empty, Buffer!Buffers, Buffer!DataSize, Buffer!FreeSize
<1>3. TypeOK
  <2>1. 0 \in 0..Total /\ 0 \in 0..Len(ends) /\ 0 \in 0..(Capacity + BufferSize)
    BY <1>1, Sizes
  <2> QED
    BY <1>1, <1>2, <2>1 DEF Init, TypeOK
<1>4. Aligned /\ BytesAccounted /\ LenInData /\ ConsumedThere
  BY <1>2 DEF Init, Aligned, Position, EndOf, BytesAccounted, LenInData, ConsumedThere
<1>5. RoomBeforePost
  BY <1>2, Sizes DEF RoomBeforePost
<1> QED
  BY <1>3, <1>4, <1>5 DEF RecvInv

\* The next packet, when the loop stands on one.
LEMMA NextPacket ==
  ASSUME RecvInv, pc = "loop", InTurn
  PROVE  /\ dispatched \in 0..(Len(ends) - 1)
         /\ EndOf(dispatched + 1) = ends[dispatched + 1]
         /\ ends[dispatched + 1] \in 0..Total
         /\ Size(ends, dispatched + 1) \in Nat
         /\ ends[dispatched + 1] = EndOf(dispatched) + Size(ends, dispatched + 1)
         /\ consumed + processLen = EndOf(dispatched)
         /\ processLen <= Capacity
<1>0. /\ consumed + processLen = EndOf(dispatched)
      /\ consumed + processLen + HeaderSize <= received
  BY Facts DEF InTurn
<1>1. EndOf(dispatched) + HeaderSize <= Total /\ processLen <= Capacity
  BY <1>0, Facts, Sizes
<1>2. dispatched # Len(ends)
  BY <1>1, Facts, Sizes DEF Total
<1>3. dispatched \in 0..(Len(ends) - 1) /\ dispatched + 1 \in 0..Len(ends)
  BY <1>2, Facts
<1>4. /\ EndOf(dispatched + 1) = ends[dispatched + 1]
      /\ ends[dispatched + 1] \in Nat
      /\ Size(ends, dispatched + 1) \in Nat
      /\ ends[dispatched + 1] = EndOf(dispatched) + Size(ends, dispatched + 1)
  BY <1>3, Facts, Streams
<1>5. EndOf(dispatched + 1) <= Total
  BY <1>3, Facts, Streams
<1> QED
  BY <1>0, <1>1, <1>3, <1>4, <1>5, Facts

\* Every step keeps it.
LEMMA RecvStep == RecvInv /\ [Next]_vars => RecvInv'
<1> SUFFICES ASSUME RecvInv, [Next]_vars PROVE RecvInv'
  OBVIOUS
<1> USE DEF RecvInv, Aligned, Position, BytesAccounted, LenInData, ConsumedThere,
        RoomBeforePost, stream, loop, history
<1>1. CASE Disconnect
  BY <1>1, Facts DEF Disconnect, TypeOK, Total, EndOf
<1>2. CASE ProcessRecv
  <2> PICK n \in 1..(Total - received) :
        /\ Buffer!CanWrite(buf, n)
        /\ buf' = Buffer!OnWrite(buf, n)
        /\ received' = received + n
        /\ len' = n
        /\ midPacket' = (midPacket \/ received' \notin PacketEnds)
    BY <1>2 DEF ProcessRecv
  <2>1. /\ buf' \in Buffer!Buffers
        /\ Buffer!DataSize(buf)' = Buffer!DataSize(buf) + n
    BY Facts, Cursors
  <2>2. /\ ends' = ends /\ consumed' = consumed /\ connected' = connected
        /\ dispatched' = dispatched /\ cut' = cut /\ processLen' = 0
        /\ misled' = misled /\ stray' = stray
        /\ pc = "posted" /\ pc' = "loop"
        /\ Total' = Total /\ EndOf(dispatched)' = EndOf(dispatched)
    BY <1>2 DEF ProcessRecv, Total, EndOf
  <2>3. received' \in 0..Total /\ len' \in 0..Total
    <3>1. Total \in Nat /\ received \in 0..Total /\ n \in 1..(Total - received)
      BY Facts
    <3>2. received + n \in 0..Total /\ n \in 0..Total
      BY <3>1
    <3> QED
      BY <3>2
  <2>4. TypeOK'
    BY Facts, Sizes, <2>1, <2>2, <2>3 DEF TypeOK
  <2>5. Aligned' /\ RoomBeforePost'
    BY Facts, <2>2
  <2>6. BytesAccounted' /\ LenInData' /\ ConsumedThere'
    BY Facts, <2>1, <2>2
  <2> QED
    BY <2>4, <2>5, <2>6
<1>3. CASE ProcessRecvZero
  BY <1>3, Facts DEF ProcessRecvZero, TypeOK, Total, EndOf
<1>4. CASE OnRecvPacket
  <2> PICK size \in 0..BufferSize :
        /\ misled' = (misled \/ size # Size(ends, dispatched + 1))
        /\ Advance(size)
    BY <1>4 DEF OnRecvPacket
  <2>1. /\ ends' = ends /\ consumed' = consumed /\ received' = received
        /\ connected' = connected /\ buf' = buf /\ len' = len
        /\ cut' = (cut \/ ends[dispatched + 1] > received)
        /\ midPacket' = midPacket /\ stray' = stray
        /\ pc = "loop" /\ pc' \in {"loop", "spinning"} /\ Total' = Total
        /\ Buffer!DataSize(buf)' = Buffer!DataSize(buf)
        /\ dispatched' = dispatched + 1
        /\ processLen' = processLen + size
        /\ InTurn
    BY <1>4 DEF OnRecvPacket, Advance, Total, EndOf
  <2>2. /\ dispatched' \in 0..Len(ends)
        /\ ~misled' => consumed + processLen' = EndOf(dispatched + 1)
        /\ processLen' \in 0..(Capacity + BufferSize)
        /\ EndOf(dispatched)' = EndOf(dispatched + 1)
    <3>1. EndOf(dispatched)' = EndOf(dispatched + 1)
      BY <2>1 DEF EndOf
    <3>2. /\ dispatched \in 0..(Len(ends) - 1)
          /\ EndOf(dispatched + 1) = EndOf(dispatched) + Size(ends, dispatched + 1)
          /\ EndOf(dispatched) \in Nat
          /\ Size(ends, dispatched + 1) \in Nat
          /\ consumed + processLen = EndOf(dispatched)
          /\ processLen <= Capacity
      BY <2>1, NextPacket, Facts
    <3>3. consumed \in Nat /\ processLen \in Nat /\ Len(ends) \in Nat
      BY Facts, Sizes
    <3>4. ~misled' => size = Size(ends, dispatched + 1)
      OBVIOUS
    <3>5. ~misled' => consumed + processLen' = EndOf(dispatched + 1)
      BY <2>1, <3>2, <3>3, <3>4
    <3>6. processLen' \in 0..(Capacity + BufferSize)
      BY <2>1, <3>2, <3>3, Sizes
    <3>7. dispatched' \in 0..Len(ends)
      BY <2>1, <3>2, <3>3
    <3> QED
      BY <3>1, <3>5, <3>6, <3>7
  <2>3. TypeOK'
    BY <2>1, <2>2, Facts DEF TypeOK
  <2>4. Aligned'
    BY <2>1, <2>2, Facts
  <2>5. BytesAccounted' /\ LenInData' /\ ConsumedThere' /\ RoomBeforePost'
    BY <2>1, Facts
  <2> QED
    BY <2>3, <2>4, <2>5
<1>5. CASE OnRecvStray
  <2>1. /\ UNCHANGED <<ends, consumed, received, connected, buf, len, dispatched,
                       midPacket, cut, misled>>
        /\ stray' = TRUE /\ pc = "loop" /\ pc' \in {"loop", "spinning", "outside"}
        /\ Total' = Total
        /\ Buffer!DataSize(buf)' = Buffer!DataSize(buf)
    BY <1>5 DEF OnRecvStray, Advance, Total, EndOf
  <2>2. processLen' \in 0..(Capacity + BufferSize)
    <3>1. CASE buf.readPos + processLen + HeaderSize <= Capacity
      <4> PICK size \in 0..BufferSize : processLen' = processLen + size
        BY <1>5, <3>1 DEF OnRecvStray, Advance
      <4>1. buf.readPos \in 0..Capacity
        BY Facts, Cursors, 0 \in Nat
      <4>2. processLen \in Nat
        BY Facts, Sizes
      <4> QED
        BY <3>1, <4>1, <4>2, Sizes
    <3>2. CASE ~(buf.readPos + processLen + HeaderSize <= Capacity)
      BY <1>5, <3>2, Facts DEF OnRecvStray
    <3> QED
      BY <3>1, <3>2
  <2>3. TypeOK'
    BY <2>1, <2>2, Facts DEF TypeOK
  <2>4. Aligned' /\ BytesAccounted' /\ LenInData' /\ ConsumedThere' /\ RoomBeforePost'
    BY <2>1, Facts
  <2> QED
    BY <2>3, <2>4
<1>6. CASE FinishRecv
  <2>1. pc = "loop" /\ processLen <= len
    BY <1>6, Facts, Sizes DEF FinishRecv, TooShort
  <2>2. Buffer!CanRead(buf, processLen)
    BY <2>1, Facts DEF Buffer!CanRead
  <2> DEFINE rest == Buffer!OnRead(buf, processLen)
  <2>3. /\ ends' = ends /\ received' = received /\ processLen' = processLen
        /\ len' = len /\ cut' = cut /\ dispatched' = dispatched
        /\ midPacket' = midPacket /\ misled' = misled /\ stray' = stray
        /\ consumed' = consumed + processLen
        /\ pc' \in {"posted", "stopped"} /\ connected' \in BOOLEAN
        /\ buf' = Buffer!ClearWhenTight(rest, BufferSize)
        /\ Total' = Total /\ EndOf(dispatched)' = EndOf(dispatched)
    BY <1>6, <2>2, Facts DEF FinishRecv, Total, EndOf
  <2>4. /\ rest \in Buffer!Buffers
        /\ Buffer!DataSize(rest) = Buffer!DataSize(buf) - processLen
        /\ Buffer!DataSize(rest) >= 0
    BY <2>1, <2>2, Facts, Cursors
  <2> HIDE DEF rest
  <2>5. /\ buf' \in Buffer!Buffers
        /\ Buffer!DataSize(buf)' = Buffer!DataSize(rest)
        /\ Buffer!FreeSize(buf)' >= BufferSize \/ Buffer!DataSize(buf)' > Capacity - BufferSize
    BY <2>3, <2>4, 0 \in Nat, Cursors
  <2>6. /\ ~misled /\ ~stray => consumed' = EndOf(dispatched)
        /\ consumed' \in 0..Total
    <3>1. /\ consumed \in Nat /\ processLen \in Nat /\ len \in Nat /\ received \in 0..Total
          /\ consumed + len <= received
      BY <2>1, Facts, Sizes
    <3> QED
      BY <2>1, <2>3, <3>1, Facts
  <2>7. TypeOK'
    BY <2>3, <2>5, <2>6, Facts DEF TypeOK
  <2>8. Aligned' /\ LenInData' /\ RoomBeforePost'
    BY <2>3, <2>5, <2>6, Facts DEF Capacity
  <2>9. BytesAccounted' /\ ConsumedThere'
    BY <2>1, <2>3, <2>4, <2>5, Facts
  <2> QED
    BY <2>7, <2>8, <2>9
<1>7. CASE Finished
  BY <1>7, Facts DEF Finished, vars, TypeOK, Total, EndOf
<1>8. CASE UNCHANGED vars
  BY <1>8, Facts DEF vars, TypeOK, Total, EndOf
<1> QED
  BY <1>1, <1>2, <1>3, <1>4, <1>5, <1>6, <1>7, <1>8 DEF Next

\* The invariant holds.
LEMMA RecvCorrect == Spec => []RecvInv
  BY RecvInit, RecvStep, PTL DEF Spec

\* Every variable of the C++ receive path keeps its type.
THEOREM CppTypeCorrect == Spec => []TypeOK
  BY RecvCorrect, PTL DEF RecvInv

\* Until OnRecv has read a wrong size or run past the bytes received, it stands on
\* the packet boundary behind the packets it has dispatched, for every way the
\* stream may be cut and every rest left over from an earlier receive.
THEOREM CppAligned == Spec => []Aligned
  BY RecvCorrect, PTL DEF RecvInv

\* No byte is lost or invented by the writes, reads and moves of the buffer, and
\* WSARecv is posted with room for one bufferSize, or next to unread bytes that
\* take it.
THEOREM CppBufferSound == Spec => []BufferSound
<1>1. RecvInv => BufferSound
  BY DEF RecvInv, BufferSound
<1> QED
  BY <1>1, RecvCorrect, PTL

-----------------------------------------------------------------------------
(* Until a receive ends inside a packet or a size field is wrong             *)

\* The next packet, when the receive has ended with packet k and the loop still
\* has a header to read: it is not behind k.
LEMMA NextIsThere ==
  ASSUME RecvInv, WholeInv, ~midPacket, ~misled, pc = "loop", ~TooShort
  PROVE  /\ InTurn
         /\ dispatched < Len(ends)
         /\ ends[dispatched + 1] <= received
         /\ \E k \in 1..Len(ends) : received = ends[k] /\ dispatched + 1 <= k
<1> PICK k \in 1..Len(ends) : received = ends[k] /\ dispatched <= k
  BY DEF WholeInv
<1>1. EndOf(dispatched) <= received /\ consumed + len = received
  BY Facts, Streams DEF WholeInv
<1>2. /\ consumed \in Nat /\ len \in Nat /\ processLen \in Nat
      /\ consumed + processLen = EndOf(dispatched)
  BY Facts, Sizes DEF WholeInv
<1>3. EndOf(dispatched) + HeaderSize <= received
  <2>1. processLen <= len
    BY <1>1, <1>2
  <2>2. len - processLen >= HeaderSize
    BY <1>2, <2>1, Sizes DEF TooShort
  <2> QED
    BY <1>1, <1>2, <2>2, Sizes
<1>4. InTurn
  BY <1>2, <1>3, Facts, Sizes DEF InTurn, WholeInv
<1>5. dispatched # k
  <2>1. k \in Nat \ {0} /\ EndOf(k) = ends[k]
    BY Facts DEF EndOf
  <2>2. EndOf(dispatched) \in Nat /\ received \in Nat /\ HeaderSize \in Nat \ {0}
    BY Facts, Sizes
  <2>3. EndOf(dispatched) # ends[k]
    BY <1>3, <2>2
  <2> QED
    BY <2>1, <2>3
<1>6. dispatched + 1 <= k /\ dispatched + 1 \in 1..Len(ends)
  <2>1. dispatched \in Nat /\ Len(ends) \in Nat
    BY Facts
  <2> QED
    BY <1>5, <2>1
<1>7. EndOf(dispatched + 1) <= ends[k] /\ EndOf(dispatched + 1) = ends[dispatched + 1]
  <2>1. dispatched + 1 \in 0..Len(ends) /\ ends \in Layouts
    BY <1>6, Facts
  <2>2. EndOf(dispatched + 1) <= ends[k]
    BY <1>6, <2>1, Streams
  <2> QED
    BY <1>4, <2>2, NextPacket
<1> QED
  <2>1. dispatched \in Nat /\ Len(ends) \in Nat
    BY Facts
  <2>2. dispatched < Len(ends)
    BY <1>6, <2>1
  <2>3. ends[dispatched + 1] <= received
    BY <1>7
  <2> QED
    BY <1>4, <1>6, <2>2, <2>3

\* When the loop ends, it has processed the receive to its last byte.
LEMMA AllProcessed ==
  ASSUME RecvInv, WholeInv, ~midPacket, ~misled, pc = "loop", TooShort
  PROVE  consumed + processLen = received
<1> PICK k \in 1..Len(ends) : received = ends[k] /\ dispatched <= k
  BY DEF WholeInv
<1>0. consumed + len = received /\ consumed + processLen = EndOf(dispatched)
  BY Facts DEF WholeInv
<1>1. received - EndOf(dispatched) < HeaderSize
  <2>2. consumed \in Nat /\ len \in Nat /\ processLen \in Nat
    BY Facts, Sizes
  <2>3. len - processLen < HeaderSize
    BY <2>2, Sizes DEF TooShort
  <2> QED
    BY <1>0, <2>2, <2>3, Sizes
<1>2. CASE dispatched = k
  <2>1. EndOf(k) = ends[k]
    BY k # 0 DEF EndOf
  <2> QED
    BY <1>0, <1>2, <2>1
<1>3. CASE dispatched # k
  <2>1. dispatched \in Nat /\ Len(ends) \in Nat /\ ends \in Layouts
    BY Facts
  <2>2. /\ dispatched \in 0..(Len(ends) - 1)
        /\ dispatched + 1 \in 0..Len(ends)
        /\ dispatched + 1 <= k
    BY <1>3, <2>1
  <2>3. /\ EndOf(dispatched + 1) <= received
        /\ Size(ends, dispatched + 1) \in Nat
        /\ Size(ends, dispatched + 1) >= HeaderSize
        /\ EndOf(dispatched + 1) = EndOf(dispatched) + Size(ends, dispatched + 1)
    BY <2>1, <2>2, Streams
  <2>4. received \in Nat /\ EndOf(dispatched) \in Nat
    BY Facts
  <2> QED
    BY <1>1, <2>3, <2>4, Sizes
<1> QED
  BY <1>2, <1>3

\* Every step keeps WholeInv.
LEMMA WholeStep == RecvInv /\ WholeInv /\ [Next]_vars => WholeInv'
<1> SUFFICES ASSUME RecvInv, WholeInv, [Next]_vars, ~midPacket', ~misled' PROVE WholeInv'
  BY DEF WholeInv
<1> USE DEF stream, loop, history
<1>1. CASE Disconnect
  BY <1>1 DEF Disconnect, WholeInv
<1>2. CASE ProcessRecv
  <2> PICK n \in 1..(Total - received) :
        /\ received' = received + n
        /\ len' = n
        /\ ~midPacket /\ ~misled /\ received + n \in PacketEnds
    BY <1>2 DEF ProcessRecv
  <2> PICK k \in 1..Len(ends) : received + n = ends[k]
    BY DEF PacketEnds
  <2>1. /\ ends' = ends /\ consumed' = consumed /\ dispatched' = dispatched
        /\ cut' = cut /\ stray' = stray /\ pc = "posted" /\ pc' = "loop"
    BY <1>2 DEF ProcessRecv
  <2>2. consumed = received /\ EndOf(dispatched) = received /\ ~cut /\ ~stray
    BY <2>1, Facts DEF WholeInv
  <2>3. dispatched <= k
    <3> SUFFICES ASSUME k < dispatched PROVE FALSE
      BY Facts
    <3>1. dispatched \in 1..Len(ends) /\ k \in 0..Len(ends)
      BY Facts
    <3>2. EndOf(k) <= ends[dispatched]
      BY <3>1, Facts, Streams
    <3>3. EndOf(k) = ends[k] /\ EndOf(dispatched) = ends[dispatched]
      <4>1. k # 0 /\ dispatched # 0
        BY <3>1
      <4> QED
        BY <4>1 DEF EndOf
    <3>4. ends[k] = received + n /\ n \in Nat \ {0} /\ received \in Nat
      BY Facts
    <3> QED
      BY <2>2, <3>2, <3>3, <3>4
  <2>4. consumed' + len' = received'
    BY <2>1, <2>2
  <2> QED
    BY <2>1, <2>2, <2>3, <2>4 DEF WholeInv
<1>3. CASE ProcessRecvZero
  BY <1>3 DEF ProcessRecvZero, WholeInv
<1>4. CASE OnRecvPacket
  <2> PICK size \in 0..BufferSize :
        /\ misled' = (misled \/ size # Size(ends, dispatched + 1))
        /\ Advance(size)
    BY <1>4 DEF OnRecvPacket
  <2>1. /\ pc = "loop" /\ ~TooShort /\ ~midPacket /\ ~misled
        /\ size = Size(ends, dispatched + 1)
    BY <1>4 DEF OnRecvPacket
  <2>2. /\ ends[dispatched + 1] \in Int
        /\ ends[dispatched + 1] <= received
        /\ dispatched \in 0..(Len(ends) - 1)
        /\ \E k \in 1..Len(ends) : received = ends[k] /\ dispatched + 1 <= k
    BY <2>1, NextIsThere, NextPacket
  <2>3. ~(ends[dispatched + 1] > received)
    BY <2>2, Facts
  <2>4. pc' = "loop"
    <3>1. Size(ends, dispatched + 1) >= HeaderSize /\ Size(ends, dispatched + 1) \in Nat
      BY <2>2, Facts, Streams
    <3>2. size # 0
      BY <2>1, <3>1, Sizes
    <3> QED
      BY <3>2 DEF Advance
  <2>5. /\ UNCHANGED <<ends, consumed, received, len, stray>>
        /\ dispatched' = dispatched + 1 /\ cut' = (cut \/ ends[dispatched + 1] > received)
    BY <1>4 DEF OnRecvPacket
  <2> QED
    BY <2>1, <2>2, <2>3, <2>4, <2>5 DEF WholeInv
<1>5. CASE OnRecvStray
  <2>1. pc = "loop" /\ ~TooShort /\ ~midPacket /\ ~misled /\ ~InTurn
    BY <1>5 DEF OnRecvStray
  <2> QED
    BY <2>1, NextIsThere
<1>6. CASE FinishRecv
  <2>1. /\ pc = "loop" /\ TooShort /\ ~midPacket /\ ~misled
        /\ cut' = cut /\ stray' = stray /\ received' = received
    BY <1>6 DEF FinishRecv
  <2>2. consumed + processLen = received
    BY <2>1, AllProcessed
  <2>3. Buffer!CanRead(buf, processLen)
    BY <2>1, <2>2, Facts DEF Buffer!CanRead
  <2>4. consumed' = received' /\ pc' \in {"posted", "stopped"}
    BY <1>6, <2>1, <2>2, <2>3 DEF FinishRecv
  <2> QED
    BY <2>1, <2>4 DEF WholeInv
<1>7. CASE Finished
  BY <1>7 DEF Finished, vars, WholeInv
<1>8. CASE UNCHANGED vars
  BY <1>8 DEF vars, WholeInv
<1> QED
  BY <1>1, <1>2, <1>3, <1>4, <1>5, <1>6, <1>7, <1>8 DEF Next

\* Both invariants hold.
LEMMA WholeCorrect == Spec => [](RecvInv /\ WholeInv)
<1>1. Init => WholeInv
  BY DEF Init, WholeInv
<1> QED
  BY <1>1, RecvInit, RecvStep, WholeStep, PTL DEF Spec

\* Until a receive ends inside a packet or a size field is wrong, OnRecv returns,
\* and all it dispatches is packets of the stream that are there as a whole.
THEOREM CppWholeSafe == Spec => []WholeNeverRunsAway
<1>1. WholeInv => WholeNeverRunsAway
  BY DEF WholeInv, WholeNeverRunsAway
<1> QED
  BY <1>1, WholeCorrect, PTL

\* The packet the comment at PacketSession.cpp:47-48 promises to the second turn of
\* the loop is left behind only once a receive has ended inside a packet (or a size was
\* wrong): before that, every packet that has arrived is dispatched when the next
\* WSARecv is posted.
THEOREM CppNothingLeft == Spec => [](~midPacket => NoPacketLeftBehind)
<1>1. RecvInv /\ WholeInv => (~midPacket => NoPacketLeftBehind)
  <2> SUFFICES ASSUME RecvInv, WholeInv, ~midPacket, ~misled, pc = "posted", dispatched < Len(ends)
               PROVE  received < ends[dispatched + 1]
    BY DEF NoPacketLeftBehind
  <2>1. received = EndOf(dispatched)
    BY Facts DEF WholeInv
  <2>2. /\ ends \in Layouts /\ received \in Nat /\ dispatched \in 0..(Len(ends) - 1)
    BY Facts
  <2>3. /\ ends[dispatched + 1] = EndOf(dispatched) + Size(ends, dispatched + 1)
        /\ Size(ends, dispatched + 1) \in Nat
        /\ Size(ends, dispatched + 1) >= HeaderSize
    BY <2>2, Streams
  <2> QED
    BY <2>1, <2>2, <2>3, Sizes
<1> QED
  BY <1>1, WholeCorrect, PTL

\* Every step is a step of the packet stream or a stutter: until a receive ends
\* inside a packet or a size field is wrong, packets are dispatched once, in order and
\* when the whole of them has arrived, and nothing else is.  This is the part of
\* ImplementsPacketStream that is not about time.
THEOREM CppFramingSafe == Spec => Framing!Safety
<1>1. Init => Framing!Init
  BY DEF Init, Framing!Init
<1>2. RecvInv /\ RecvInv' /\ WholeInv /\ [Next]_vars => [Framing!Next]_(Framing!vars)
  <2> SUFFICES ASSUME RecvInv, RecvInv', WholeInv, [Next]_vars
               PROVE  [Framing!Next]_(Framing!vars)
    OBVIOUS
  <2> USE DEF Framing!Next, Framing!vars, stream, loop, history
  <2>0. Framing!Total = Total /\ Total \in Nat /\ received \in 0..Total
        /\ dispatched \in Nat /\ midPacket \in BOOLEAN /\ misled \in BOOLEAN
        /\ midPacket' \in BOOLEAN /\ misled' \in BOOLEAN /\ stray \in BOOLEAN
    BY Facts DEF Framing!Total, Framing!EndOf, Total, EndOf, RecvInv, TypeOK
  <2>1. CASE Disconnect
    BY <2>1 DEF Disconnect
  <2>2. CASE ProcessRecv
    <3> PICK n \in 1..(Total - received) : received' = received + n
      BY <2>2 DEF ProcessRecv
    <3>1. received' \in (received + 1)..Total /\ received' \in received..Total
      BY <2>0
    <3>2. /\ pc # "stopped" /\ pc' # "stopped" /\ UNCHANGED <<ends, dispatched, misled, stray>>
          /\ dispatched' \in dispatched..(dispatched + 1)
          /\ midPacket => midPacket'
      BY <2>0, <2>2 DEF ProcessRecv
    <3>3. CASE midPacket' \/ misled'
      BY <2>0, <3>1, <3>2, <3>3 DEF Framing!Faulty
    <3>4. CASE ~(midPacket' \/ misled')
      BY <2>0, <3>1, <3>2, <3>4 DEF Framing!Arrive
    <3> QED
      BY <3>3, <3>4
  <2>3. CASE ProcessRecvZero
    BY <2>3 DEF ProcessRecvZero, Framing!Close
  <2>4. CASE OnRecvPacket
    <3>1. /\ pc # "stopped" /\ pc' # "stopped" /\ dispatched' = dispatched + 1
          /\ UNCHANGED <<ends, received, midPacket, stray>>
          /\ misled => misled'
      BY <2>4 DEF OnRecvPacket, Advance
    <3>2. CASE midPacket' \/ misled'
      BY <2>0, <3>1, <3>2 DEF Framing!Faulty
    <3>3. CASE ~(midPacket' \/ misled')
      <4>1. dispatched < Len(ends) /\ ends[dispatched + 1] <= received
        BY <2>4, <3>1, <3>3, NextIsThere DEF OnRecvPacket
      <4> QED
        BY <2>0, <3>1, <3>3, <4>1 DEF Framing!Dispatch
    <3> QED
      BY <3>2, <3>3
  <2>5. CASE OnRecvStray
    <3>1. midPacket \/ misled
      BY <2>0, <2>5, NextIsThere DEF OnRecvStray
    <3>2. /\ pc # "stopped" /\ pc' # "stopped" /\ stray' = TRUE
          /\ UNCHANGED <<ends, received, dispatched, midPacket, misled>>
      BY <2>5 DEF OnRecvStray, Advance
    <3>3. /\ received' \in received..Total /\ dispatched' \in dispatched..(dispatched + 1)
          /\ (midPacket \/ misled)' = TRUE
      BY <2>0, <3>1, <3>2
    <3> QED
      BY <2>0, <3>2, <3>3 DEF Framing!Faulty
  <2>6. CASE FinishRecv
    <3>1. /\ pc = "loop" /\ pc' \in {"posted", "stopped"}
          /\ UNCHANGED <<ends, received, dispatched, midPacket, misled, stray>>
      BY <2>6, Facts DEF FinishRecv
    <3>2. CASE pc' = "posted"
      BY <3>1, <3>2
    <3>3. CASE pc' = "stopped"
      BY <3>1, <3>3 DEF Framing!Close
    <3> QED
      BY <3>1, <3>2, <3>3
  <2>7. CASE Finished
    BY <2>7 DEF Finished, vars
  <2>8. CASE UNCHANGED vars
    BY <2>8 DEF vars
  <2> QED
    BY <2>1, <2>2, <2>3, <2>4, <2>5, <2>6, <2>7, <2>8 DEF Next
<1> QED
  BY <1>1, <1>2, RecvCorrect, WholeCorrect, PTL DEF Spec, Framing!Safety
=============================================================================
