--------------------------- MODULE SendBufferPool ---------------------------
(***************************************************************************)
(* The memory every outgoing packet is built in: SendBufferManager with    *)
(* its pool and its thread-local chunk, SendBufferChunk, SendBuffer, and   *)
(* PacketHandler::MakeSendBuffer, which opens a buffer, writes header and  *)
(* message into it and closes it.                                          *)
(*                                                                         *)
(* A chunk is cut front to back into buffers.  It is kept alive by the     *)
(* thread it is local to and by every SendBuffer cut from it (shared_ptr); *)
(* when the last of them lets go, on whichever thread that happens, its    *)
(* deleter puts the chunk back into the pool, and the next thread that     *)
(* pops it starts again at the front.  Sizes are uint16 and wrap.          *)
(***************************************************************************)
EXTENDS Naturals, Sequences, FiniteSets

CONSTANTS
  Threads,
  Chunks,        \* bound: the chunks that can ever be made
  NoChunk,
  Buffers,       \* bound: the SendBuffers that can be alive at once
  NoBuffer,
  ChunkSize,     \* SendBufferChunk::BUFFER_SIZE = 2^16, scaled down; uint16
                 \* arithmetic is modulo the same number
  HeaderSize,    \* sizeof(PacketHeader)
  MessageSizes   \* values of ByteSizeLong

ASSUME PoolAssumption ==
  /\ NoChunk \notin Chunks
  /\ NoBuffer \notin Buffers
  /\ ChunkSize \in Nat \ {0}
  /\ HeaderSize \in 1..ChunkSize
  /\ MessageSizes \subseteq Nat

VARIABLES
  pool,      \* sendBufferChunks
  created,   \* the chunks made so far
  local,     \* localSendBufferChunk of each thread
  open,      \* SendBufferChunk::open of each chunk
  usedsize,  \* SendBufferChunk::usedsize of each chunk
  buffer,    \* the SendBuffers: where they are and whether they are in use
  memory,    \* history: the live buffer that wrote each byte last
  pc,        \* where each thread is
  message,   \* the message it is making a buffer for
  building,  \* the buffer it has open
  deleting,  \* the chunk whose deleter it is running
  overrun    \* history: a write has gone past the size that was opened

chunkVars  == <<open, usedsize, memory>>
threadVars == <<pc, message, building, deleting>>
vars == <<pool, created, local, chunkVars, buffer, threadVars, overrun>>

Bytes == 0..(ChunkSize - 1)

\* What MakeSendBuffer computes in uint16.
DataSize(m) == m % ChunkSize

PacketSize(m) == (DataSize(m) + HeaderSize) % ChunkSize

SendBuffers == [state : {"unused", "building", "sent"},
                chunk : Chunks \cup {NoChunk},
                start : 0..ChunkSize,
                size : 0..ChunkSize]

Unused == [state |-> "unused", chunk |-> NoChunk, start |-> 0, size |-> 0]

Init ==
  /\ pool = <<>>
  /\ created = {}
  /\ local = [t \in Threads |-> NoChunk]
  /\ open = [c \in Chunks |-> FALSE]
  /\ usedsize = [c \in Chunks |-> 0]
  /\ buffer = [b \in Buffers |-> Unused]
  /\ memory = [c \in Chunks |-> [i \in Bytes |-> NoBuffer]]
  /\ pc = [t \in Threads |-> "idle"]
  /\ message = [t \in Threads |-> 0]
  /\ building = [t \in Threads |-> NoBuffer]
  /\ deleting = [t \in Threads |-> NoChunk]
  /\ overrun = FALSE

\* t is not inside a chunk's deleter.
Ready(t) == deleting[t] = NoChunk

\* The buffers that keep c alive (SendBuffer::sendBufferChunk).
Holders(c) == {b \in Buffers : buffer[b].state # "unused" /\ buffer[b].chunk = c}

FreeSize(c) == ChunkSize - usedsize[c]

-----------------------------------------------------------------------------
(* SendBufferManager::Open                                                   *)

\* Bound: a thread starts only when a SendBuffer is left over for it.
BufferLeft ==
  Cardinality({u \in Threads : pc[u] \in {"open", "init"}})
    < Cardinality({b \in Buffers : buffer[b].state = "unused"})

\* A thread has a message to send.
MakeSendBuffer(t) ==
  /\ pc[t] = "idle" /\ Ready(t)
  /\ BufferLeft
  /\ \E m \in MessageSizes : message' = [message EXCEPT ![t] = m]
  /\ pc' = [pc EXCEPT ![t] = "open"]
  /\ UNCHANGED <<pool, created, local, chunkVars, buffer, building, deleting, overrun>>

\* No chunk yet, or not enough room in it.
NeedsChunk(t) ==
  IF local[t] = NoChunk
    THEN TRUE
    ELSE ~open[local[t]] /\ FreeSize(local[t]) < PacketSize(message[t])

\* Pop, under the manager's lock: the last chunk of the pool, or a new one.
Pop(c) ==
  IF pool # <<>>
    THEN /\ c = pool[Len(pool)]
         /\ pool' = SubSeq(pool, 1, Len(pool) - 1)
         /\ UNCHANGED created
    ELSE /\ c \notin created
         /\ created' = created \cup {c}
         /\ UNCHANGED pool

\* The chunk becomes the thread's own; the one it had before loses a reference,
\* and its deleter runs here if that was the last.
TakeChunk(t) ==
  /\ pc[t] = "open" /\ Ready(t)
  /\ NeedsChunk(t)
  /\ \E c \in Chunks :
       /\ Pop(c)
       /\ local' = [local EXCEPT ![t] = c]
  /\ deleting' = [deleting EXCEPT ![t] =
                    IF local[t] # NoChunk /\ Holders(local[t]) = {}
                      THEN local[t] ELSE NoChunk]
  /\ pc' = [pc EXCEPT ![t] = "init"]
  /\ UNCHANGED <<chunkVars, buffer, message, building, overrun>>

\* SendBufferChunk::Init, then on with Open.
InitChunk(t) ==
  /\ pc[t] = "init" /\ Ready(t)
  /\ open' = [open EXCEPT ![local[t]] = FALSE]
  /\ usedsize' = [usedsize EXCEPT ![local[t]] = 0]
  /\ pc' = [pc EXCEPT ![t] = "open"]
  /\ UNCHANGED <<pool, created, local, memory, buffer, message, building,
                 deleting, overrun>>

\* SendBufferChunk::Open: a buffer from usedsize on.  A chunk that is open, or
\* has no room, gives nullptr, which MakeSendBuffer dereferences.
OpenBuffer(t) ==
  /\ pc[t] = "open" /\ Ready(t)
  /\ ~NeedsChunk(t)
  /\ LET c == local[t] IN
       IF open[c] \/ FreeSize(c) < PacketSize(message[t])
         THEN /\ pc' = [pc EXCEPT ![t] = "dead"]
              /\ UNCHANGED <<open, buffer, building>>
         ELSE /\ \E b \in Buffers :
                   /\ buffer[b].state = "unused"
                   /\ buffer' = [buffer EXCEPT ![b] =
                        [state |-> "building", chunk |-> c,
                         start |-> usedsize[c], size |-> PacketSize(message[t])]]
                   /\ building' = [building EXCEPT ![t] = b]
              /\ open' = [open EXCEPT ![c] = TRUE]
              /\ pc' = [pc EXCEPT ![t] = "write"]
  /\ UNCHANGED <<pool, created, local, usedsize, memory, message, deleting, overrun>>

-----------------------------------------------------------------------------
(* The rest of MakeSendBuffer                                                *)

\* How many bytes are written from the start of the buffer: the header, and the
\* message unless SerializePartialToArray finds it larger than dataSize.
Written(m) == HeaderSize + (IF m = DataSize(m) THEN m ELSE 0)

\* A write past the end of the chunk goes into what follows on the heap: the bytes
\* or the fields of other chunks, SendBuffers, the entries of the pool.
Smash ==
  /\ memory' \in [Chunks -> [Bytes -> Buffers \cup {NoBuffer}]]
  /\ open' \in [Chunks -> BOOLEAN]
  /\ usedsize' \in [Chunks -> 0..ChunkSize]
  /\ buffer' \in [Buffers -> SendBuffers]
  /\ pool' \in [DOMAIN pool -> Chunks]

Write(t) ==
  /\ pc[t] = "write"
  /\ LET b == building[t]
         c == buffer[b].chunk
         n == Written(message[t])
     IN  /\ overrun' = (overrun \/ n > buffer[b].size)
         /\ IF buffer[b].start + n > ChunkSize
              THEN Smash
              ELSE /\ memory' = [memory EXCEPT ![c] =
                        [i \in Bytes |->
                           IF i \in buffer[b].start..(buffer[b].start + n - 1)
                             THEN b ELSE memory[c][i]]]
                   /\ UNCHANGED <<pool, open, usedsize, buffer>>
  /\ pc' = [pc EXCEPT ![t] = "close"]
  /\ UNCHANGED <<created, local, message, building, deleting>>

\* The bytes of a buffer that is gone are nobody's.
Forget(b) ==
  memory' = [c \in Chunks |-> [i \in Bytes |->
              IF memory[c][i] = b THEN NoBuffer ELSE memory[c][i]]]

\* Mutant: the buffer's offset is added to what is used already.
UsedFromEnd(b, used) == usedsize[buffer[b].chunk] + buffer[b].start + used

\* How much of b's chunk is in use when b is closed with the given size.
UsedWith(b, used) == usedsize[buffer[b].chunk] + used

\* SendBuffer::Close with SendBufferChunk::Close: the chunk moves on by what was
\* used, unless that is more than was opened.
CloseBuffer(t, used, keep) ==
  /\ pc[t] = "close"
  /\ LET b == building[t]
         c == buffer[b].chunk
         closes == used <= buffer[b].size
         sent == keep /\ closes
     IN  /\ usedsize' = [usedsize EXCEPT ![c] = IF closes THEN UsedWith(b, used) ELSE @]
         /\ open' = [open EXCEPT ![c] = ~closes]
         /\ buffer' = [buffer EXCEPT ![b] = IF sent THEN [@ EXCEPT !.state = "sent"]
                                                    ELSE Unused]
         /\ IF sent THEN UNCHANGED memory ELSE Forget(b)
  /\ building' = [building EXCEPT ![t] = NoBuffer]
  /\ pc' = [pc EXCEPT ![t] = "idle"]
  /\ UNCHANGED <<pool, created, local, message, deleting, overrun>>

\* SerializePartialToArray has found room for the message.
Serialized(t) == message[t] = DataSize(message[t])

\* Mutant: the chunk is closed without moving on.
CloseInPlace(t) == CloseBuffer(t, 0, Serialized(t))

\* Mutant: Close(0) is left out when the message could not be serialized.
CloseOnlyIfWritten(t) ==
  CloseBuffer(t, IF Serialized(t) THEN buffer[building[t]].size ELSE ChunkSize + 1,
              Serialized(t))

\* packetSize bytes are used and the buffer goes to the caller; or none, and the
\* buffer is dropped, because the message did not fit into dataSize.
Close(t) ==
  CloseBuffer(t, IF Serialized(t) THEN PacketSize(message[t]) ELSE 0, Serialized(t))

-----------------------------------------------------------------------------
(* The end of a buffer and of a chunk                                        *)

\* The last reference to b goes, on thread t; with it, if last, its chunk's.
Drop(t, b, last) ==
  /\ pc[t] = "idle" /\ Ready(t)
  /\ buffer[b].state = "sent"
  /\ buffer' = [buffer EXCEPT ![b] = Unused]
  /\ Forget(b)
  /\ deleting' = [deleting EXCEPT ![t] = IF last THEN buffer[b].chunk ELSE NoChunk]
  /\ UNCHANGED <<pool, created, local, open, usedsize, pc, message, building, overrun>>

IsLocal(c) == \E t \in Threads : local[t] = c

\* Mutant: only the threads' references keep a chunk.
ReleaseUncounted(t) ==
  \E b \in Buffers :
    Drop(t, b, ~IsLocal(buffer[b].chunk) /\ \A u \in Threads : deleting[u] # buffer[b].chunk)

\* Mutant: the chunk is made without its deleter.
ReleaseWithoutDeleter(t) == \E b \in Buffers : Drop(t, b, FALSE)

\* A session lets go of a buffer: its send has completed, or the session is gone.
Release(t) ==
  \E b \in Buffers :
    Drop(t, b, Holders(buffer[b].chunk) = {b} /\ ~IsLocal(buffer[b].chunk))

\* The deleter: PushGlobal and Push, under the manager's lock.
PushGlobal(t) ==
  /\ deleting[t] # NoChunk
  /\ pool' = Append(pool, deleting[t])
  /\ deleting' = [deleting EXCEPT ![t] = NoChunk]
  /\ UNCHANGED <<created, local, chunkVars, buffer, pc, message, building, overrun>>

-----------------------------------------------------------------------------
Next ==
  \E t \in Threads :
    \/ MakeSendBuffer(t)
    \/ TakeChunk(t)
    \/ InitChunk(t)
    \/ OpenBuffer(t)
    \/ Write(t)
    \/ Close(t)
    \/ Release(t)
    \/ PushGlobal(t)

Spec == Init /\ [][Next]_vars

-----------------------------------------------------------------------------
(* Type invariant                                                            *)

TypeOK ==
  /\ pool \in Seq(Chunks)
  /\ created \subseteq Chunks
  /\ local \in [Threads -> Chunks \cup {NoChunk}]
  /\ open \in [Chunks -> BOOLEAN]
  /\ usedsize \in [Chunks -> 0..ChunkSize]
  /\ buffer \in [Buffers -> SendBuffers]
  /\ memory \in [Chunks -> [Bytes -> Buffers \cup {NoBuffer}]]
  /\ pc \in [Threads -> {"idle", "open", "init", "write", "close", "dead"}]
  /\ message \in [Threads -> MessageSizes \cup {0}]
  /\ building \in [Threads -> Buffers \cup {NoBuffer}]
  /\ deleting \in [Threads -> Chunks \cup {NoChunk}]
  /\ overrun \in BOOLEAN

-----------------------------------------------------------------------------
(* Safety                                                                    *)

PlacesInPool(c) == {i \in DOMAIN pool : pool[i] = c}
LocalTo(c)      == {t \in Threads : local[t] = c}
DeletedBy(c)    == {t \in Threads : deleting[t] = c}

\* A chunk is in the pool at most once, belongs to at most one thread, is
\* deleted by at most one thread, and these exclude each other; a chunk in the
\* pool or in its deleter has no SendBuffer left.  So no thread starts again at
\* the front of a chunk whose bytes somebody still has to send.
ChunkInOnePlace ==
  \A c \in Chunks :
    /\ Cardinality(PlacesInPool(c)) + Cardinality(LocalTo(c))
         + Cardinality(DeletedBy(c)) <= 1
    /\ PlacesInPool(c) # {} \/ DeletedBy(c) # {} => Holders(c) = {}

\* No chunk is lost: every chunk ever made is in the pool, on its way there, or
\* held by a thread or a buffer.
NoChunkLost ==
  \A c \in created :
    PlacesInPool(c) \cup LocalTo(c) \cup DeletedBy(c) \cup Holders(c) # {}

\* The bytes of a closed buffer are its own until it is released, whatever other
\* buffers, also of other threads, are cut from the chunk meanwhile.
BytesKept ==
  \A b \in Buffers :
    buffer[b].state = "sent" =>
      \A i \in Bytes :
        i >= buffer[b].start /\ i < buffer[b].start + buffer[b].size
          => memory[buffer[b].chunk][i] = b

\* Open does not return nullptr to MakeSendBuffer, which would dereference it.
NeverNull == \A t \in Threads : pc[t] # "dead"

\* PacketHandler.h:45: packetSize is dataSize + 4 bytes.  What MakeSendBuffer
\* writes fits into what it has opened.
WritesFit == ~overrun
=============================================================================
