------------------------------ MODULE CppRecv ------------------------------
(***************************************************************************)
(* The receive path of one ServerCore Session: RegisterRecv and            *)
(* ProcessRecv (Session.cpp), the packet loop PacketSession::OnRecv and    *)
(* RecvBuffer.  At most one WSARecv is outstanding, so the buffer has one  *)
(* user at a time; what is hard is where TCP cuts the stream.              *)
(*                                                                         *)
(* ProcessRecv hands OnRecv the start of ALL unread bytes and the length   *)
(* of the LAST receive only.  OnRecv does not look whether the packet is   *)
(* there as a whole, and once processLen has passed len, the difference is *)
(* negative, is compared with an unsigned sizeof, and never ends the loop: *)
(* the turns go on over what the buffer, which is never zeroed, held       *)
(* before.  Nor does it look at the size it reads: any uint16 is taken.    *)
(***************************************************************************)
EXTENDS Integers, Sequences

CONSTANTS
  BufferSize,       \* Session::BUFFER_SIZE, scaled down
  BufferCount,      \* RecvBuffer::BUFFER_COUNT, scaled down
  HeaderSize,       \* sizeof(PacketHeader)
  Layouts           \* the streams considered, as the ends of their packets

Size(e, k) == e[k] - (IF k = 1 THEN 0 ELSE e[k - 1])

\* The peer's bytes, divided into packets with a header each.  That a size field
\* says how long its packet is, is not assumed (misled).
ASSUME SizesAssumption ==
  /\ HeaderSize \in Nat \ {0}
  /\ BufferSize \in Nat
  /\ BufferCount \in Nat \ {0}
  /\ Layouts \subseteq Seq(Nat)
  /\ \A e \in Layouts :
       /\ \A k \in 1..Len(e) : Size(e, k) >= HeaderSize
       /\ \A j, k \in 1..Len(e) : j <= k => e[j] <= e[k]

VARIABLES
  ends,        \* the peer's stream
  connected,   \* Session::isConnected
  buf,         \* the cursors of recvBuffer
  consumed,    \* stream position of recvBuffer.ReadPos()
  received,    \* bytes of the stream received so far
  pc,          \* "posted": WSARecv pending; "loop": inside OnRecv; "stopped":
               \* no receive will follow; "spinning": OnRecv never returns;
               \* "outside": OnRecv has read behind the buffer
  len,         \* OnRecv's argument: the bytes of the last receive
  processLen,  \* OnRecv's local
  dispatched,  \* calls of OnRecvPacket on packets of the stream
  midPacket,   \* history: a receive has ended inside a packet
  cut,         \* history: a packet was dispatched before it was there as a whole
  misled,      \* history: a size field did not say how long its packet is
  stray        \* history: OnRecvPacket was called on something other than the
               \* next packet: bytes dispatched before, or no packet at all

stream  == <<ends, consumed, received>>
loop    == <<len, processLen>>
history == <<midPacket, cut, misled, stray>>
vars    == <<connected, buf, stream, pc, loop, dispatched, history>>

Capacity == BufferSize * BufferCount
Buffer   == INSTANCE RecvBuffer

EndOf(k) == IF k = 0 THEN 0 ELSE ends[k]
Total    == EndOf(Len(ends))

Init ==
  /\ ends \in Layouts
  /\ connected = TRUE
  /\ buf = Buffer!Empty
  /\ consumed = 0
  /\ received = 0
  /\ pc = "posted"
  /\ len = 0
  /\ processLen = 0
  /\ dispatched = 0
  /\ midPacket = FALSE /\ cut = FALSE /\ misled = FALSE /\ stray = FALSE

\* Session::Disconnect, from any thread.
Disconnect ==
  /\ connected
  /\ connected' = FALSE
  /\ UNCHANGED <<buf, stream, pc, loop, dispatched, history>>

PacketEnds == {ends[k] : k \in 1..Len(ends)}

\* Mutant: the receive is allowed the whole capacity and OnWrite is not asked.
ProcessRecvUnchecked ==
  /\ pc = "posted"
  /\ \E n \in 1..(Total - received) :
       /\ buf' = Buffer!OnWrite(buf, n)
       /\ received' = received + n
       /\ len' = n
       /\ midPacket' = (midPacket \/ received' \notin PacketEnds)
  /\ processLen' = 0
  /\ pc' = "loop"
  /\ UNCHANGED <<ends, consumed, connected, dispatched, cut, misled, stray>>

\* A receive completes with n bytes; OnRecv starts on them.
ProcessRecv ==
  /\ pc = "posted"
  /\ \E n \in 1..(Total - received) :
       /\ Buffer!CanWrite(buf, n)
       /\ buf' = Buffer!OnWrite(buf, n)
       /\ received' = received + n
       /\ len' = n
       /\ midPacket' = (midPacket \/ received' \notin PacketEnds)
  /\ processLen' = 0
  /\ pc' = "loop"
  /\ UNCHANGED <<ends, consumed, connected, dispatched, cut, misled, stray>>

\* 0 bytes: the peer closed, the connection failed, or the buffer was full.
ProcessRecvZero ==
  /\ pc = "posted"
  /\ connected' = FALSE
  /\ pc' = "stopped"
  /\ UNCHANGED <<buf, stream, loop, dispatched, history>>

-----------------------------------------------------------------------------
(* PacketSession::OnRecv                                                      *)

\* dataSize < sizeof(PacketHeader), as the unsigned comparison it is.
TooShort == len - processLen \in 0..(HeaderSize - 1)

\* &buffer[processLen] is where the next packet starts, and its header is there.
InTurn == ~misled /\ ~stray /\ consumed + processLen + HeaderSize <= received

\* The rest of a turn: with a size of 0 the next turn, and every later one, is
\* the same again.
Advance(size) ==
  /\ processLen' = processLen + size
  /\ pc' = IF size = 0 THEN "spinning" ELSE "loop"

\* Mutant: size is taken for the length of the body.
OnRecvPacketPlusHeader ==
  /\ pc = "loop"
  /\ ~TooShort
  /\ InTurn
  /\ dispatched' = dispatched + 1
  /\ cut' = (cut \/ ends[dispatched + 1] > received)
  /\ Advance(Size(ends, dispatched + 1) + HeaderSize)
  /\ UNCHANGED <<connected, buf, stream, len, midPacket, misled, stray>>

\* Mutant: the loop ends behind the first packet.
OnRecvFirstPacket ==
  /\ pc = "loop"
  /\ ~TooShort
  /\ InTurn
  /\ dispatched' = dispatched + 1
  /\ cut' = (cut \/ ends[dispatched + 1] > received)
  /\ Advance(Size(ends, dispatched + 1))
  /\ len' = processLen'
  /\ UNCHANGED <<connected, buf, stream, midPacket, misled, stray>>

\* One turn: OnRecvPacket on the packet that starts at processLen, complete or
\* not (missing bytes are whatever the buffer held before), and on to where its
\* size field, any number, says the next one starts.
OnRecvPacket ==
  /\ pc = "loop"
  /\ ~TooShort
  /\ InTurn
  /\ dispatched' = dispatched + 1
  /\ cut' = (cut \/ ends[dispatched + 1] > received)
  /\ \E size \in 0..BufferSize :
       /\ misled' = (misled \/ size # Size(ends, dispatched + 1))
       /\ Advance(size)
  /\ UNCHANGED <<connected, buf, stream, len, midPacket, stray>>

\* A turn anywhere else: past what was received, where the buffer holds packets
\* dispatched before, parts of them or nothing, or inside a packet.  Whatever
\* stands there goes to OnRecvPacket and is read as a size.  Behind the end of the
\* buffer anything may happen.
OnRecvStray ==
  /\ pc = "loop"
  /\ ~TooShort
  /\ ~InTurn
  /\ stray' = TRUE
  /\ IF buf.readPos + processLen + HeaderSize <= Capacity
       THEN \E size \in 0..BufferSize : Advance(size)
       ELSE pc' = "outside" /\ UNCHANGED processLen
  /\ UNCHANGED <<connected, buf, stream, len, dispatched, midPacket, cut, misled>>

\* The loop ends; ProcessRecv consumes what OnRecv has processed (or disconnects
\* if that is more than there is), clears the buffer and registers again.  A
\* WSARecv refused on the spot stops the path, with or without a Disconnect.
FinishRecv ==
  /\ pc = "loop"
  /\ TooShort
  /\ IF Buffer!CanRead(buf, processLen)
       THEN /\ buf' = Buffer!ClearWhenTight(Buffer!OnRead(buf, processLen), BufferSize)
            /\ consumed' = consumed + processLen
            /\ \/ pc' = (IF connected THEN "posted" ELSE "stopped") /\ UNCHANGED connected
               \/ connected /\ pc' = "stopped" /\ connected' \in BOOLEAN
       ELSE /\ pc' = "stopped"
            /\ connected' = FALSE
            /\ UNCHANGED <<buf, consumed>>
  /\ UNCHANGED <<ends, received, loop, dispatched, history>>

\* The worker is lost or the path has stopped.
Finished ==
  /\ pc \in {"stopped", "spinning", "outside"}
  /\ UNCHANGED vars

Next ==
  \/ Disconnect
  \/ ProcessRecv
  \/ ProcessRecvZero
  \/ OnRecvPacket
  \/ OnRecvStray
  \/ FinishRecv
  \/ Finished

Spec == Init /\ [][Next]_vars

\* OnRecv's thread keeps running, and the network delivers what the peer sent.
FairSpec ==
  /\ Spec
  /\ WF_vars(OnRecvPacket \/ OnRecvStray \/ FinishRecv)
  /\ WF_vars(ProcessRecv)

-----------------------------------------------------------------------------
(* Type invariant                                                            *)

TypeOK ==
  /\ ends \in Layouts
  /\ connected \in BOOLEAN
  /\ buf \in Buffer!Buffers
  /\ consumed \in 0..Total
  /\ received \in 0..Total
  /\ pc \in {"posted", "loop", "stopped", "spinning", "outside"}
  /\ len \in 0..Total
  /\ processLen \in 0..(Capacity + BufferSize)
  /\ dispatched \in 0..Len(ends)
  /\ midPacket \in BOOLEAN
  /\ cut \in BOOLEAN
  /\ misled \in BOOLEAN
  /\ stray \in BOOLEAN

-----------------------------------------------------------------------------
(* Safety, wherever the stream is cut                                        *)

\* How far OnRecv has got in the stream.
Position == consumed + (IF pc = "posted" \/ pc = "stopped" THEN 0 ELSE processLen)

\* OnRecv stands on a packet boundary, the one behind the packets it has
\* dispatched: each once and in order, however the bytes arrived and whatever
\* was left from the receive before.  That ends with a size field that is wrong, or
\* with the turn after the loop has passed the end of what was received.
Aligned == ~misled /\ ~stray => Position = EndOf(dispatched)

\* The buffer holds exactly the bytes received and not consumed, across all the
\* writes, reads and moves.
BytesAccounted == consumed + Buffer!DataSize(buf) = received

\* WSARecv is posted with room for a BUFFER_SIZE, unless unread bytes take it.
RoomBeforePost ==
  pc = "posted" =>
    \/ Buffer!FreeSize(buf) >= BufferSize
    \/ Buffer!DataSize(buf) > Capacity - BufferSize

\* The two together: whatever was cut where, the bytes OnRecv is handed are
\* those of the stream, and the next receive can take a BUFFER_SIZE more.
BufferSound == BytesAccounted /\ RoomBeforePost

-----------------------------------------------------------------------------
(* Until a receive ends inside a packet                                      *)

\* OnRecv comes back, having dispatched nothing but whole packets of the stream,
\* as long as every size field is right.
WholeNeverRunsAway ==
  ~midPacket /\ ~misled => ~stray /\ ~cut /\ pc \notin {"spinning", "outside"}

\* The receive path implements the packet stream: until a receive ends inside a
\* packet or a size field is wrong, every packet that arrives is dispatched, once,
\* in order and whole.  From then on a packet may be dispatched too early or too
\* late, and bytes of the buffer that are not the next packet may be as well.
Framing == INSTANCE PacketStream WITH
  arrived <- received, closed <- pc = "stopped", fault <- midPacket \/ misled

ImplementsPacketStream == Framing!Spec

-----------------------------------------------------------------------------
(* What the comments say, wherever the stream is cut, of a peer whose size   *)
(* fields are right                                                          *)

\* PacketSession.cpp:32-34: OnRecvPacket gets the start and the size of a
\* packet; the data received is cut up and passed on.
DispatchedWhole == ~misled => ~cut

\* PacketSession.cpp:47-48: the first packet now, the second packet in the next
\* turn of the loop.  When the next WSARecv is posted no packet that has
\* arrived as a whole still waits for its turn.
NoPacketLeftBehind ==
  pc = "posted" /\ ~misled /\ dispatched < Len(ends)
     => received < ends[dispatched + 1]
=============================================================================
