----------------------- MODULE SendBufferPoolProofs -----------------------
(***************************************************************************)
(* Proofs about SendBufferPool for any threads, chunks, buffers and sizes. *)
(*                                                                         *)
(* PoolInv, which every step keeps that does not write past a buffer, says *)
(* where a chunk may be (Places), that one about to be used again has no   *)
(* buffer left (Recycled), what a thread has open (Opened), and that the   *)
(* buffers cut from a chunk lie below the mark from which it is cut on     *)
(* (Cut).                                                                  *)
(***************************************************************************)
EXTENDS SendBufferPool, SequenceTheorems, FiniteSetTheorems, TLAPS

USE PoolAssumption DEF SendBuffers

\* Thread t has a buffer open.
Making(t) == pc[t] \in {"write", "close"}

\* A chunk is at one index of the pool, or local to one thread, or in the
\* deleter one thread runs.
Places ==
  /\ \A i, j \in 1..Len(pool) : pool[i] = pool[j] => i = j
  /\ \A t, u \in Threads : local[t] = local[u] /\ local[t] # NoChunk => t = u
  /\ \A t, u \in Threads : deleting[t] = deleting[u] /\ deleting[t] # NoChunk => t = u
  /\ \A i \in 1..Len(pool), t \in Threads : pool[i] # local[t] /\ pool[i] # deleting[t]
  /\ \A t, u \in Threads : local[t] = deleting[u] => local[t] = NoChunk

\* Those chunks, and those that buffers are in, have been made.
Made ==
  /\ \A i \in 1..Len(pool) : pool[i] \in created
  /\ \A t \in Threads : local[t] \in created \cup {NoChunk}
  /\ \A t \in Threads : deleting[t] \in created \cup {NoChunk}
  /\ \A b \in Buffers : buffer[b].state # "unused" => buffer[b].chunk \in created

\* Nothing is left in a chunk in the pool, in a deleter, or about to be cut
\* again from the front.
Recycled ==
  \A b \in Buffers : buffer[b].state # "unused" =>
    /\ \A i \in 1..Len(pool) : buffer[b].chunk # pool[i]
    /\ \A t \in Threads : buffer[b].chunk # deleting[t]
    /\ \A t \in Threads : pc[t] = "init" => buffer[b].chunk # local[t]

\* No thread has met a null pointer, and each has what it works with.
Running ==
  \A t \in Threads :
    /\ pc[t] # "dead"
    /\ pc[t] # "idle" => message[t] \in MessageSizes
    /\ pc[t] \in {"init", "write", "close"} => local[t] \in Chunks

\* What thread t has open is the room behind what its chunk has used.
OpenedBy(t) ==
  /\ building[t] \in Buffers
  /\ buffer[building[t]].state = "building"
  /\ buffer[building[t]].chunk = local[t]
  /\ buffer[building[t]].start = usedsize[local[t]]
  /\ buffer[building[t]].size = PacketSize(message[t])
  /\ usedsize[local[t]] + PacketSize(message[t]) <= ChunkSize

Builders == \A t \in Threads : Making(t) => OpenedBy(t)

\* A chunk is open only for the thread it is local to.
OpenForOne == \A c \in Chunks : open[c] => \E t \in Threads : Making(t) /\ local[t] = c

Opened == Running /\ Builders /\ OpenForOne

\* What has been cut lies below usedsize and is as it was written.
Cut ==
  /\ \A b \in Buffers : buffer[b].state = "sent" =>
       buffer[b].start + buffer[b].size <= usedsize[buffer[b].chunk]
  /\ \A t \in Threads : pc[t] = "close" =>
       \A i \in Bytes :
         i >= usedsize[local[t]] /\ i < usedsize[local[t]] + Written(message[t])
           => memory[local[t]][i] = building[t]
  /\ BytesKept

\* What holds as long as no write has gone past the buffer it went into.
PoolInv == TypeOK /\ Places /\ Made /\ Recycled /\ Opened /\ Cut

-----------------------------------------------------------------------------
(* Sizes                                                                     *)

\* uint16 arithmetic never makes a number larger, and leaves those that fit.
LEMMA Wraps ==
  ASSUME NEW n \in Nat
  PROVE  /\ n % ChunkSize \in 0..(ChunkSize - 1)
         /\ n % ChunkSize <= n
<1>1. n % ChunkSize \in 0..(ChunkSize - 1)
  OBVIOUS
<1>2. CASE n < ChunkSize
  <2>1. n % ChunkSize = n
    BY <1>2
  <2> QED
    BY <1>1, <2>1
<1>3. CASE n >= ChunkSize
  BY <1>1, <1>3
<1> QED
  BY <1>1, <1>2, <1>3

\* A packet fits into a chunk, and what is written of one that is sent covers
\* it.
LEMMA PacketSizes ==
  ASSUME NEW m \in MessageSizes
  PROVE  /\ PacketSize(m) \in Nat /\ PacketSize(m) <= ChunkSize
         /\ Written(m) \in Nat
         /\ m = DataSize(m) => PacketSize(m) <= Written(m)
<1>1. m \in Nat /\ DataSize(m) \in 0..(ChunkSize - 1)
  BY Wraps DEF DataSize
<1>2. /\ PacketSize(m) \in 0..(ChunkSize - 1)
      /\ PacketSize(m) <= DataSize(m) + HeaderSize
  <2>1. DataSize(m) + HeaderSize \in Nat
    BY <1>1
  <2>2. PacketSize(m) = (DataSize(m) + HeaderSize) % ChunkSize
    BY DEF PacketSize
  <2> HIDE DEF PacketSize
  <2> QED
    BY <2>1, <2>2, Wraps
<1> QED
  BY <1>1, <1>2 DEF Written

\* How much of a chunk is used.
LEMMA UsedSizes ==
  ASSUME TypeOK, NEW c \in Chunks
  PROVE  usedsize[c] \in Nat /\ usedsize[c] <= ChunkSize
<1>1. usedsize \in [Chunks -> 0..ChunkSize]
  BY DEF TypeOK
<1> QED
  BY <1>1

\* Both are sizes of a buffer or a place in a chunk.
LEMMA SizesInRange ==
  ASSUME TypeOK, NEW c \in Chunks, NEW m \in MessageSizes
  PROVE  usedsize[c] \in 0..ChunkSize /\ PacketSize(m) \in 0..ChunkSize
<1>1. PacketSize(m) \in Nat /\ PacketSize(m) <= ChunkSize
  BY PacketSizes
<1>2. usedsize[c] \in Nat /\ usedsize[c] <= ChunkSize
  BY UsedSizes
<1>3. \A n \in Nat : n <= ChunkSize => n \in 0..ChunkSize
  OBVIOUS
<1> HIDE DEF PacketSize
<1> QED
  BY <1>1, <1>2, <1>3

\* What a thread that makes a buffer has.
LEMMA MakerHas ==
  ASSUME Opened, NEW t \in Threads, Making(t)
  PROVE  local[t] \in Chunks /\ message[t] \in MessageSizes /\ OpenedBy(t)
BY DEF Opened, Running, Builders, Making

-----------------------------------------------------------------------------
(* What Pop and Close do under the invariant                                 *)

\* The chunk popped is nowhere else, and no buffer is left in it.
LEMMA PopEffect ==
  ASSUME PoolInv, NEW c \in Chunks, Pop(c)
  PROVE  /\ pool' \in Seq(Chunks)
         /\ Len(pool') <= Len(pool)
         /\ \A i \in 1..Len(pool') : pool'[i] = pool[i] /\ pool[i] # c
         /\ \A i \in 1..Len(pool) : pool[i] # c => i \in 1..Len(pool')
         /\ \A t \in Threads : local[t] # c /\ deleting[t] # c
         /\ \A b \in Buffers : buffer[b].state # "unused" => buffer[b].chunk # c
         /\ created' = created \cup {c}
<1>1. pool \in Seq(Chunks) /\ NoChunk \notin created
  BY DEF PoolInv, TypeOK
<1>2. CASE pool # <<>>
  <2>1. /\ Len(pool) \in 1..Len(pool)
        /\ c = pool[Len(pool)]
        /\ pool' = SubSeq(pool, 1, Len(pool) - 1)
        /\ created' = created
    BY <1>1, <1>2 DEF Pop
  <2>a. Len(pool) \in Nat /\ \A i \in 1..Len(pool) : pool[i] \in Chunks
    BY <1>1
  <2>b. /\ pool' \in Seq(Chunks)
        /\ Len(pool') = IF 1 <= Len(pool) - 1 THEN Len(pool) - 1 - 1 + 1 ELSE 0
        /\ \A i \in 1..(Len(pool) - 1 - 1 + 1) : pool'[i] = pool[1 + i - 1]
    <3>1. \A i \in 1..(Len(pool) - 1) : pool[i] \in Chunks
      BY <2>a
    <3>2. 1 \in Int /\ Len(pool) - 1 \in Int
      BY <2>a
    <3> QED
      BY <2>1, <3>1, <3>2, SubSeqProperties
  <2>2. /\ pool' \in Seq(Chunks)
        /\ Len(pool') = Len(pool) - 1
        /\ \A i \in 1..Len(pool') : pool'[i] = pool[i]
    <3>1. Len(pool) >= 1
      BY <2>1, <2>a
    <3>0. Len(pool') = IF 1 <= Len(pool) - 1 THEN Len(pool) - 1 - 1 + 1 ELSE 0
      BY <2>b
    <3>2. Len(pool') = Len(pool) - 1
      <4>1. \A n, k \in Int : n >= 1 /\ k = (IF 1 <= n - 1 THEN n - 1 - 1 + 1 ELSE 0) => k = n - 1
        OBVIOUS
      <4>2. Len(pool) \in Int /\ Len(pool') \in Int
        BY <2>a, <3>0
      <4> QED
        BY <3>0, <3>1, <4>1, <4>2
    <3>3. Len(pool) - 1 - 1 + 1 = Len(pool')
      BY <2>a, <3>2
    <3>4. \A i \in 1..Len(pool') : 1 + i - 1 = i
      OBVIOUS
    <3> QED
      BY <2>b, <3>2, <3>3, <3>4
  <2>3. \A i \in 1..Len(pool) : pool[i] = c => i = Len(pool)
    BY <2>1 DEF PoolInv, Places
  <2>4. \A t \in Threads : local[t] # c /\ deleting[t] # c
    BY <2>1 DEF PoolInv, Places
  <2>5. \A b \in Buffers : buffer[b].state # "unused" => buffer[b].chunk # c
    BY <2>1 DEF PoolInv, Recycled
  <2>6. c \in created
    BY <2>1 DEF PoolInv, Made
  <2>7. \A i \in 1..Len(pool) : pool[i] # c => i \in 1..Len(pool')
    BY <2>1, <2>2, <2>a
  <2>8. \A i \in 1..Len(pool') : i \in 1..Len(pool) /\ i # Len(pool)
    BY <2>2, <2>a
  <2>9. \A i \in 1..Len(pool') : pool'[i] = pool[i] /\ pool[i] # c
    BY <2>2, <2>3, <2>8
  <2>10. Len(pool') <= Len(pool)
    BY <2>2, <2>a
  <2> QED
    BY <2>1, <2>2, <2>4, <2>5, <2>6, <2>7, <2>9, <2>10
<1>3. CASE pool = <<>>
  <2>1. c \notin created /\ created' = created \cup {c} /\ pool' = pool
    BY <1>3 DEF Pop
  <2>2. \A t \in Threads : local[t] # c /\ deleting[t] # c
    BY <2>1 DEF PoolInv, Made
  <2>3. \A b \in Buffers : buffer[b].state # "unused" => buffer[b].chunk # c
    BY <2>1 DEF PoolInv, Made
  <2> QED
    BY <1>1, <1>3, <2>1, <2>2, <2>3
<1> QED
  BY <1>2, <1>3

\* Two threads that make buffers are in different chunks and buffers.
LEMMA OneMaker ==
  ASSUME PoolInv, NEW t \in Threads, NEW u \in Threads, Making(t), Making(u),
         building[t] = building[u] \/ local[t] = local[u]
  PROVE  t = u
<1>1. local[t] \in Chunks /\ local[t] = local[u]
  BY MakerHas DEF PoolInv, OpenedBy
<1> QED
  BY <1>1 DEF PoolInv, Places

\* A write that stays in its buffer changes bytes of that buffer and nothing else.
LEMMA WriteEffect ==
  ASSUME PoolInv, NEW t \in Threads, Write(t), ~overrun'
  PROVE  /\ pc[t] = "write"
         /\ memory' = [memory EXCEPT ![local[t]] =
              [i \in Bytes |->
                 IF i \in usedsize[local[t]]..(usedsize[local[t]] + Written(message[t]) - 1)
                   THEN building[t] ELSE memory[local[t]][i]]]
         /\ pc' = [pc EXCEPT ![t] = "close"]
         /\ UNCHANGED <<pool, created, local, open, usedsize, buffer, message, building,
                        deleting>>
<1> DEFINE b == building[t]
           n == Written(message[t])
<1>1. pc[t] = "write" /\ Making(t)
  BY DEF Write, Making
<1>2. /\ local[t] \in Chunks /\ message[t] \in MessageSizes
      /\ buffer[b].chunk = local[t] /\ buffer[b].start = usedsize[local[t]]
      /\ buffer[b].size = PacketSize(message[t])
      /\ usedsize[local[t]] + PacketSize(message[t]) <= ChunkSize
  BY <1>1, MakerHas DEF PoolInv, OpenedBy
<1>3. /\ n \in Nat /\ PacketSize(message[t]) \in Nat /\ usedsize[local[t]] \in Nat
  BY <1>2, PacketSizes, UsedSizes DEF PoolInv
<1>4. ~(n > buffer[b].size)
  BY DEF Write
<1>5. ~(buffer[b].start + n > ChunkSize)
  <2> HIDE DEF n
  <2>1. \A k, p, u \in Nat : u + p <= ChunkSize /\ ~(k > p) => ~(u + k > ChunkSize)
    OBVIOUS
  <2> QED
    BY <1>2, <1>3, <1>4, <2>1
<1> QED
  BY <1>1, <1>2, <1>5 DEF Write

\* Close moves the chunk on and sends the buffer, or does neither.
LEMMA CloseEffect ==
  ASSUME PoolInv, NEW t \in Threads, Close(t)
  PROVE  /\ Making(t) /\ pc[t] = "close"
         /\ open' = [open EXCEPT ![local[t]] = FALSE]
         /\ \/ /\ message[t] = DataSize(message[t])
               /\ usedsize' = [usedsize EXCEPT ![local[t]] = @ + PacketSize(message[t])]
               /\ buffer' = [buffer EXCEPT ![building[t]] =
                    [state |-> "sent", chunk |-> local[t],
                     start |-> usedsize[local[t]], size |-> PacketSize(message[t])]]
               /\ memory' = memory
            \/ /\ usedsize' = usedsize
               /\ buffer' = [buffer EXCEPT ![building[t]] = Unused]
               /\ Forget(building[t])
         /\ building' = [building EXCEPT ![t] = NoBuffer]
         /\ pc' = [pc EXCEPT ![t] = "idle"]
         /\ UNCHANGED <<pool, created, local, message, deleting, overrun>>
<1> DEFINE b == building[t]
           m == message[t]
           used == IF Serialized(t) THEN PacketSize(m) ELSE 0
<1>1. pc[t] = "close" /\ Making(t)
  BY DEF Close, CloseBuffer, Making
<1>2. /\ m \in MessageSizes /\ local[t] \in Chunks /\ b \in Buffers
      /\ buffer[b].chunk = local[t] /\ buffer[b].size = PacketSize(m)
      /\ buffer[b].start = usedsize[local[t]]
  BY <1>1, MakerHas DEF PoolInv, OpenedBy
<1>3. PacketSize(m) \in Nat
  BY <1>2, PacketSizes
<1>4. used \in Nat /\ used <= buffer[b].size
  BY <1>2, <1>3
<1>5. usedsize[local[t]] \in Nat /\ usedsize \in [Chunks -> 0..ChunkSize]
  BY <1>2 DEF PoolInv, TypeOK
<1>6. /\ usedsize' = [usedsize EXCEPT ![local[t]] = @ + used]
      /\ open' = [open EXCEPT ![local[t]] = FALSE]
      /\ buffer' = [buffer EXCEPT ![b] =
                      IF Serialized(t) THEN [buffer[b] EXCEPT !.state = "sent"] ELSE Unused]
      /\ IF Serialized(t) THEN UNCHANGED memory ELSE Forget(b)
      /\ building' = [building EXCEPT ![t] = NoBuffer]
      /\ pc' = [pc EXCEPT ![t] = "idle"]
      /\ UNCHANGED <<pool, created, local, message, deleting, overrun>>
  BY <1>2, <1>4 DEF Close, CloseBuffer, UsedWith
<1>7. CASE Serialized(t)
  <2>1. used = PacketSize(m) /\ m = DataSize(m)
    BY <1>7 DEF Serialized
  <2>2. buffer[b] \in [state : {"unused", "building", "sent"}, chunk : Chunks \cup {NoChunk},
                      start : 0..ChunkSize, size : 0..ChunkSize]
    BY <1>2 DEF PoolInv, TypeOK
  <2>3. [buffer[b] EXCEPT !.state = "sent"] =
          [state |-> "sent", chunk |-> local[t],
           start |-> usedsize[local[t]], size |-> PacketSize(m)]
    BY <1>2, <2>2
  <2>4. buffer' = [buffer EXCEPT ![b] =
          [state |-> "sent", chunk |-> local[t],
           start |-> usedsize[local[t]], size |-> PacketSize(m)]]
    BY <1>6, <1>7, <2>3
  <2> QED
    BY <1>1, <1>6, <1>7, <2>1, <2>4
<1>8. CASE ~Serialized(t)
  <2>1. used = 0
    BY <1>8
  <2>2. usedsize' = usedsize
    BY <1>5, <1>6, <2>1
  <2> QED
    BY <1>1, <1>6, <1>8, <2>2
<1> QED
  BY <1>7, <1>8

\* Open finds a closed chunk with room behind what it has used.
LEMMA OpenEffect ==
  ASSUME PoolInv, NEW t \in Threads, OpenBuffer(t)
  PROVE  /\ pc[t] = "open" /\ deleting[t] = NoChunk
         /\ local[t] \in Chunks /\ message[t] \in MessageSizes
         /\ usedsize[local[t]] + PacketSize(message[t]) <= ChunkSize
         /\ \E b \in Buffers :
              /\ buffer[b].state = "unused"
              /\ buffer' = [buffer EXCEPT ![b] =
                   [state |-> "building", chunk |-> local[t],
                    start |-> usedsize[local[t]], size |-> PacketSize(message[t])]]
              /\ building' = [building EXCEPT ![t] = b]
         /\ open' = [open EXCEPT ![local[t]] = TRUE]
         /\ pc' = [pc EXCEPT ![t] = "write"]
         /\ UNCHANGED <<pool, created, local, usedsize, memory, message, deleting, overrun>>
<1>1. pc[t] = "open" /\ deleting[t] = NoChunk
  BY DEF OpenBuffer, Ready
<1>2. local[t] \in Chunks /\ message[t] \in MessageSizes
  <2>1. local[t] # NoChunk /\ local \in [Threads -> Chunks \cup {NoChunk}]
    BY DEF OpenBuffer, NeedsChunk, PoolInv, TypeOK
  <2>2. message[t] \in MessageSizes
    BY <1>1 DEF PoolInv, Opened, Running
  <2> QED
    BY <2>1, <2>2
<1>3. ~open[local[t]]
  <2>1. ASSUME NEW u \in Threads, Making(u), local[u] = local[t] PROVE FALSE
    <3>1. u = t
      BY <1>2, <2>1 DEF PoolInv, Places
    <3> QED
      BY <1>1, <2>1, <3>1 DEF Making
  <2> QED
    BY <1>2, <2>1 DEF PoolInv, Opened, OpenForOne
<1>4. ~(FreeSize(local[t]) < PacketSize(message[t]))
  BY <1>2, <1>3 DEF OpenBuffer, NeedsChunk
<1>5. usedsize[local[t]] + PacketSize(message[t]) <= ChunkSize
  <2>1. PacketSize(message[t]) \in Nat /\ usedsize[local[t]] \in Nat
    BY <1>2, PacketSizes, UsedSizes DEF PoolInv
  <2> QED
    BY <1>4, <2>1 DEF FreeSize
<1> QED
  BY <1>1, <1>2, <1>3, <1>4, <1>5 DEF OpenBuffer

-----------------------------------------------------------------------------
(* Type correctness                                                          *)

LEMMA TypeStep == PoolInv /\ [Next]_vars /\ ~overrun' => TypeOK'
<1> SUFFICES ASSUME PoolInv, [Next]_vars, ~overrun' PROVE TypeOK'
  OBVIOUS
<1> USE DEF chunkVars, threadVars
<1>0. TypeOK
  BY DEF PoolInv
<1>1. CASE UNCHANGED vars
  BY <1>0, <1>1 DEF TypeOK, vars
<1>2. ASSUME NEW t \in Threads, MakeSendBuffer(t) PROVE TypeOK'
  BY <1>0, <1>2 DEF MakeSendBuffer, TypeOK
<1>3. ASSUME NEW t \in Threads, TakeChunk(t) PROVE TypeOK'
  <2>1. PICK c \in Chunks : Pop(c) /\ local' = [local EXCEPT ![t] = c]
    BY <1>3 DEF TakeChunk
  <2>2. pool' \in Seq(Chunks) /\ created' \subseteq Chunks
    BY <1>0, <2>1, PopEffect DEF TypeOK
  <2>3. deleting' \in [Threads -> Chunks \cup {NoChunk}]
    BY <1>0, <1>3 DEF TakeChunk, TypeOK
  <2> QED
    BY <1>0, <1>3, <2>1, <2>2, <2>3 DEF TakeChunk, TypeOK
<1>4. ASSUME NEW t \in Threads, InitChunk(t) PROVE TypeOK'
  <2>1. usedsize' \in [Chunks -> 0..ChunkSize]
    <3>1. usedsize \in [Chunks -> 0..ChunkSize] /\ 0 \in 0..ChunkSize
      BY <1>0 DEF TypeOK
    <3> QED
      BY <1>4, <3>1 DEF InitChunk
  <2>2. open' \in [Chunks -> BOOLEAN]
    BY <1>0, <1>4 DEF InitChunk, TypeOK
  <2> QED
    BY <1>0, <1>4, <2>1, <2>2 DEF InitChunk, TypeOK
<1>5. ASSUME NEW t \in Threads, OpenBuffer(t) PROVE TypeOK'
  <2>1. local[t] \in Chunks /\ message[t] \in MessageSizes
    BY <1>5, OpenEffect
  <2>2. PacketSize(message[t]) \in 0..ChunkSize /\ usedsize[local[t]] \in 0..ChunkSize
    BY <1>0, <2>1, SizesInRange
  <2>3. PICK b \in Buffers :
          /\ buffer' = [buffer EXCEPT ![b] =
               [state |-> "building", chunk |-> local[t],
                start |-> usedsize[local[t]], size |-> PacketSize(message[t])]]
          /\ building' = [building EXCEPT ![t] = b]
    BY <1>5, OpenEffect
  <2>4. buffer' \in [Buffers -> [state : {"unused", "building", "sent"},
                                 chunk : Chunks \cup {NoChunk},
                                 start : 0..ChunkSize, size : 0..ChunkSize]]
    BY <1>0, <2>1, <2>2, <2>3 DEF TypeOK
  <2> QED
    BY <1>0, <1>5, <2>3, <2>4, OpenEffect DEF TypeOK
<1>6. ASSUME NEW t \in Threads, Write(t) PROVE TypeOK'
  <2>1. building[t] \in Buffers
    BY <1>6, MakerHas DEF Write, Making, PoolInv, OpenedBy
  <2>2. message[t] \in MessageSizes /\ Written(message[t]) \in Nat
    BY <1>6, PacketSizes, MakerHas DEF Write, Making, PoolInv
  <2>3. memory' \in [Chunks -> [Bytes -> Buffers \cup {NoBuffer}]]
    <3>1. \E S : memory' = [memory EXCEPT ![local[t]] =
                    [i \in Bytes |-> IF i \in S THEN building[t] ELSE memory[local[t]][i]]]
      BY <1>6, WriteEffect
    <3>2. local[t] \in Chunks /\ memory \in [Chunks -> [Bytes -> Buffers \cup {NoBuffer}]]
      BY <1>0, <1>6, MakerHas DEF Write, Making, PoolInv, TypeOK
    <3> QED
      BY <2>1, <3>1, <3>2
  <2>4. overrun' \in BOOLEAN
    BY <1>0, <1>6 DEF Write, TypeOK
  <2> QED
    BY <1>0, <1>6, <2>3, <2>4, WriteEffect DEF TypeOK
<1>7. ASSUME NEW t \in Threads, Close(t) PROVE TypeOK'
  <2>1. /\ Making(t)
        /\ local[t] \in Chunks /\ message[t] \in MessageSizes
        /\ building[t] \in Buffers
        /\ usedsize[local[t]] + PacketSize(message[t]) <= ChunkSize
    BY <1>7, CloseEffect, MakerHas DEF PoolInv, OpenedBy
  <2>2. PacketSize(message[t]) \in Nat /\ usedsize[local[t]] \in Nat
    BY <1>0, <2>1, PacketSizes, UsedSizes
  <2>a. usedsize \in [Chunks -> 0..ChunkSize]
    BY <1>0 DEF TypeOK
  <2>b. usedsize' \in {usedsize, [usedsize EXCEPT ![local[t]] = @ + PacketSize(message[t])]}
    BY <1>7, CloseEffect
  <2>3. usedsize' \in [Chunks -> 0..ChunkSize]
    BY <2>1, <2>2, <2>a, <2>b
  <2>c. PICK r \in [state : {"unused", "building", "sent"}, chunk : Chunks \cup {NoChunk},
                    start : 0..ChunkSize, size : 0..ChunkSize] :
          buffer' = [buffer EXCEPT ![building[t]] = r]
    <3>1. usedsize[local[t]] \in 0..ChunkSize /\ PacketSize(message[t]) \in 0..ChunkSize
      BY <1>0, <2>1, SizesInRange
    <3>2. /\ [state |-> "sent", chunk |-> local[t], start |-> usedsize[local[t]],
              size |-> PacketSize(message[t])]
             \in [state : {"unused", "building", "sent"}, chunk : Chunks \cup {NoChunk},
                  start : 0..ChunkSize, size : 0..ChunkSize]
          /\ Unused \in [state : {"unused", "building", "sent"}, chunk : Chunks \cup {NoChunk},
                         start : 0..ChunkSize, size : 0..ChunkSize]
      BY <2>1, <3>1 DEF Unused
    <3> QED
      BY <1>7, <3>2, CloseEffect
  <2>4. buffer' \in [Buffers -> [state : {"unused", "building", "sent"},
                                 chunk : Chunks \cup {NoChunk},
                                 start : 0..ChunkSize, size : 0..ChunkSize]]
    BY <1>0, <2>c DEF TypeOK
  <2>5. memory' \in [Chunks -> [Bytes -> Buffers \cup {NoBuffer}]]
    BY <1>0, <1>7, CloseEffect DEF TypeOK, Forget
  <2> QED
    BY <1>0, <1>7, <2>3, <2>4, <2>5, CloseEffect DEF TypeOK
<1>8. ASSUME NEW t \in Threads, Release(t) PROVE TypeOK'
  <2>1. PICK b \in Buffers :
          Drop(t, b, Holders(buffer[b].chunk) = {b} /\ ~IsLocal(buffer[b].chunk))
    BY <1>8 DEF Release
  <2>2. memory' \in [Chunks -> [Bytes -> Buffers \cup {NoBuffer}]]
    BY <1>0, <2>1 DEF Drop, Forget, TypeOK
  <2>3. buffer' \in [Buffers -> [state : {"unused", "building", "sent"},
                                 chunk : Chunks \cup {NoChunk},
                                 start : 0..ChunkSize, size : 0..ChunkSize]]
    BY <1>0, <2>1 DEF Drop, Unused, TypeOK
  <2>4. deleting' \in [Threads -> Chunks \cup {NoChunk}]
    BY <1>0, <2>1 DEF Drop, TypeOK
  <2> QED
    BY <1>0, <2>1, <2>2, <2>3, <2>4 DEF Drop, TypeOK
<1>9. ASSUME NEW t \in Threads, PushGlobal(t) PROVE TypeOK'
  <2>1. deleting[t] \in Chunks
    BY <1>0, <1>9 DEF PushGlobal, TypeOK
  <2> QED
    BY <1>0, <1>9, <2>1 DEF PushGlobal, TypeOK
<1> QED
  BY <1>1, <1>2, <1>3, <1>4, <1>5, <1>6, <1>7, <1>8, <1>9 DEF Next

-----------------------------------------------------------------------------
(* Where the chunks are                                                      *)

\* Chunks move between pool, thread and deleter, and only an empty one is
\* given back.
LEMMA PlacesStep == PoolInv /\ [Next]_vars /\ ~overrun' => Places' /\ Made' /\ Recycled'
<1> SUFFICES ASSUME PoolInv, [Next]_vars, ~overrun' PROVE Places' /\ Made' /\ Recycled'
  OBVIOUS
<1> USE DEF chunkVars, threadVars
<1>0. TypeOK /\ Places /\ Made /\ Recycled
  BY DEF PoolInv
<1>a. ASSUME UNCHANGED <<pool, created, local, deleting>> PROVE Places'
  BY <1>0, <1>a DEF Places
<1>b. ASSUME UNCHANGED <<pool, created, local, deleting, buffer>> PROVE Made'
  BY <1>0, <1>b DEF Made
<1>1. CASE UNCHANGED vars
  BY <1>0, <1>1, <1>a, <1>b DEF Recycled, vars
<1>2. ASSUME NEW t \in Threads, MakeSendBuffer(t) PROVE Places' /\ Made' /\ Recycled'
  <2>1. \A u \in Threads : pc'[u] = "init" => pc[u] = "init"
    BY <1>0, <1>2 DEF MakeSendBuffer, TypeOK
  <2> QED
    BY <1>0, <1>2, <1>a, <1>b, <2>1 DEF MakeSendBuffer, Recycled
<1>3. ASSUME NEW t \in Threads, TakeChunk(t) PROVE Places' /\ Made' /\ Recycled'
  <2>1. PICK c \in Chunks : Pop(c) /\ local' = [local EXCEPT ![t] = c]
    BY <1>3 DEF TakeChunk
  <2>2. /\ deleting[t] = NoChunk
        /\ deleting' = [deleting EXCEPT ![t] = IF local[t] # NoChunk /\ Holders(local[t]) = {}
                                               THEN local[t] ELSE NoChunk]
        /\ pc' = [pc EXCEPT ![t] = "init"]
        /\ UNCHANGED buffer
    BY <1>3 DEF TakeChunk, Ready
  <2>3. local'[t] = c /\ \A u \in Threads \ {t} : local'[u] = local[u]
    BY <1>0, <2>1 DEF TypeOK
  <2>4. /\ deleting'[t] \in {local[t], NoChunk}
        /\ deleting'[t] # NoChunk => Holders(local[t]) = {}
        /\ \A u \in Threads \ {t} : deleting'[u] = deleting[u]
    BY <1>0, <2>2 DEF TypeOK
  <2>5. pc'[t] = "init" /\ \A u \in Threads \ {t} : pc'[u] = pc[u]
    BY <1>0, <2>2 DEF TypeOK
  <2>a. pool' \in Seq(Chunks) /\ pool \in Seq(Chunks)
    BY <1>0, <2>1, PopEffect DEF TypeOK
  <2>b. Len(pool') \in Nat /\ Len(pool) \in Nat
    BY <2>a
  <2>6. /\ Len(pool') <= Len(pool) /\ Len(pool') \in Nat /\ Len(pool) \in Nat
        /\ \A i \in 1..Len(pool') : pool'[i] = pool[i] /\ pool[i] # c
        /\ \A u \in Threads : local[u] # c /\ deleting[u] # c
        /\ \A b \in Buffers : buffer[b].state # "unused" => buffer[b].chunk # c
        /\ created' = created \cup {c}
    BY <2>1, <2>b, PopEffect
  <2> HIDE DEF PoolInv
  <2>7. Places'
    <3>1. \A i, j \in 1..Len(pool') : pool'[i] = pool'[j] => i = j
      BY <1>0, <2>6 DEF Places
    <3>2. \A i \in 1..Len(pool'), u \in Threads : pool'[i] # local'[u]
      BY <1>0, <2>3, <2>6 DEF Places
    <3>3. \A i \in 1..Len(pool'), u \in Threads : pool'[i] # deleting'[u]
      <4>1. \A i \in 1..Len(pool') : pool[i] # NoChunk
        BY <1>0, <2>6 DEF TypeOK
      <4> QED
        BY <1>0, <2>4, <2>6, <4>1 DEF Places
    <3>4. \A u, v \in Threads : local'[u] = local'[v] /\ local'[u] # NoChunk => u = v
      BY <1>0, <2>3, <2>6 DEF Places
    <3>5. \A u, v \in Threads : deleting'[u] = deleting'[v] /\ deleting'[u] # NoChunk => u = v
      BY <1>0, <2>4 DEF Places
    <3>6. \A u, v \in Threads : local'[u] = deleting'[v] => local'[u] = NoChunk
      BY <1>0, <2>3, <2>4, <2>6 DEF Places
    <3> QED
      BY <3>1, <3>2, <3>3, <3>4, <3>5, <3>6 DEF Places
  <2>8. Made'
    BY <1>0, <2>2, <2>3, <2>4, <2>6 DEF Made
  <2>9. Recycled'
    BY <1>0, <2>2, <2>3, <2>4, <2>5, <2>6 DEF Recycled, Holders
  <2> QED
    BY <2>7, <2>8, <2>9
<1>4. ASSUME NEW t \in Threads, InitChunk(t) PROVE Places' /\ Made' /\ Recycled'
  <2>1. \A u \in Threads : pc'[u] = "init" => pc[u] = "init"
    BY <1>0, <1>4 DEF InitChunk, TypeOK
  <2> QED
    BY <1>0, <1>4, <1>a, <1>b, <2>1 DEF InitChunk, Recycled
<1>5. ASSUME NEW t \in Threads, OpenBuffer(t) PROVE Places' /\ Made' /\ Recycled'
  <2>1. local[t] \in Chunks /\ pc[t] = "open" /\ deleting[t] = NoChunk
    BY <1>5, OpenEffect
  <2>2. PICK b \in Buffers :
          buffer' = [buffer EXCEPT ![b] =
               [state |-> "building", chunk |-> local[t],
                start |-> usedsize[local[t]], size |-> PacketSize(message[t])]]
    BY <1>5, OpenEffect
  <2>3. /\ buffer'[b].chunk = local[t]
        /\ \A d \in Buffers \ {b} : buffer'[d] = buffer[d]
    BY <1>0, <2>2 DEF TypeOK
  <2>4. \A u \in Threads : pc'[u] = "init" => pc[u] = "init" /\ u # t
    BY <1>0, <1>5, <2>1, OpenEffect DEF TypeOK
  <2>5. UNCHANGED <<pool, created, local, deleting>>
    BY <1>5, OpenEffect
  <2>6. Made'
    BY <1>0, <2>1, <2>3, <2>5 DEF Made
  <2>7. Recycled'
    BY <1>0, <2>1, <2>3, <2>4, <2>5 DEF Recycled, Places
  <2> QED
    BY <1>a, <2>5, <2>6, <2>7
<1>6. ASSUME NEW t \in Threads, Write(t) PROVE Places' /\ Made' /\ Recycled'
  <2>1. \A u \in Threads : pc'[u] = "init" => pc[u] = "init"
    BY <1>0, <1>6, WriteEffect DEF TypeOK
  <2>2. UNCHANGED <<pool, created, local, buffer, deleting>>
    BY <1>6, WriteEffect
  <2> QED
    BY <1>0, <1>a, <1>b, <2>1, <2>2 DEF Recycled
<1>7. ASSUME NEW t \in Threads, Close(t) PROVE Places' /\ Made' /\ Recycled'
  <2>1. UNCHANGED <<pool, created, local, deleting>> /\ pc' = [pc EXCEPT ![t] = "idle"]
    BY <1>7, CloseEffect
  <2>2. /\ building[t] \in Buffers /\ buffer[building[t]].state # "unused"
        /\ buffer[building[t]].chunk = local[t]
    BY <1>7, CloseEffect, MakerHas DEF PoolInv, OpenedBy
  <2>a. \/ buffer' = [buffer EXCEPT ![building[t]] =
             [state |-> "sent", chunk |-> local[t],
              start |-> usedsize[local[t]], size |-> PacketSize(message[t])]]
        \/ buffer' = [buffer EXCEPT ![building[t]] = Unused]
    BY <1>7, CloseEffect
  <2>3. \A b \in Buffers : buffer'[b].state # "unused" =>
          buffer[b].state # "unused" /\ buffer'[b].chunk = buffer[b].chunk
    <3>1. \A b \in Buffers \ {building[t]} : buffer'[b] = buffer[b]
      BY <1>0, <2>2, <2>a DEF TypeOK
    <3>2. \/ buffer'[building[t]].chunk = local[t]
          \/ buffer'[building[t]].state = "unused"
      BY <1>0, <2>2, <2>a DEF TypeOK, Unused
    <3> QED
      BY <2>2, <3>1, <3>2
  <2>4. \A u \in Threads : pc'[u] = "init" => pc[u] = "init"
    BY <1>0, <2>1 DEF TypeOK
  <2> QED
    BY <1>0, <1>a, <2>1, <2>3, <2>4 DEF Made, Recycled
<1>8. ASSUME NEW t \in Threads, Release(t) PROVE Places' /\ Made' /\ Recycled'
  <2>1. PICK b \in Buffers :
          Drop(t, b, Holders(buffer[b].chunk) = {b} /\ ~IsLocal(buffer[b].chunk))
    BY <1>8 DEF Release
  <2> DEFINE c == buffer[b].chunk
  <2>2. /\ buffer[b].state = "sent" /\ deleting[t] = NoChunk
        /\ buffer' = [buffer EXCEPT ![b] = Unused]
        /\ deleting' = [deleting EXCEPT ![t] = IF Holders(c) = {b} /\ ~IsLocal(c)
                                                 THEN c ELSE NoChunk]
        /\ UNCHANGED <<pool, created, local, pc>>
    BY <2>1 DEF Drop, Ready
  <2>3. c \in created /\ c \in Chunks
    BY <1>0, <2>2 DEF Made, TypeOK
  <2>4. /\ \A i \in 1..Len(pool) : pool[i] # c
        /\ \A u \in Threads : deleting[u] # c
    BY <1>0, <2>2 DEF Recycled
  <2>5. /\ deleting'[t] \in {c, NoChunk}
        /\ deleting'[t] # NoChunk => Holders(c) = {b} /\ ~IsLocal(c)
        /\ \A u \in Threads \ {t} : deleting'[u] = deleting[u]
    BY <1>0, <2>2 DEF TypeOK
  <2>6. /\ buffer'[b].state = "unused"
        /\ \A d \in Buffers \ {b} : buffer'[d] = buffer[d]
    BY <1>0, <2>2 DEF TypeOK, Unused
  <2> HIDE DEF c
  <2>7. Places'
    <3>1. \A i \in 1..Len(pool), u \in Threads : pool[i] # deleting'[u]
      <4>1. \A i \in 1..Len(pool) : pool[i] # NoChunk
        BY <1>0 DEF TypeOK
      <4> QED
        BY <1>0, <2>4, <2>5, <4>1 DEF Places
    <3>2. \A u, v \in Threads : deleting'[u] = deleting'[v] /\ deleting'[u] # NoChunk => u = v
      BY <1>0, <2>4, <2>5 DEF Places
    <3>3. \A u, v \in Threads : local[u] = deleting'[v] => local[u] = NoChunk
      BY <1>0, <2>5 DEF Places, IsLocal
    <3> QED
      BY <1>0, <2>2, <3>1, <3>2, <3>3 DEF Places
  <2>8. Made'
    BY <1>0, <2>2, <2>3, <2>5, <2>6 DEF Made
  <2>9. Recycled'
    BY <1>0, <2>2, <2>3, <2>4, <2>5, <2>6 DEF Recycled, Holders, TypeOK
  <2> QED
    BY <2>7, <2>8, <2>9
<1>9. ASSUME NEW t \in Threads, PushGlobal(t) PROVE Places' /\ Made' /\ Recycled'
  <2> DEFINE c == deleting[t]
             n == Len(pool)
  <2>1. /\ c \in Chunks /\ c \in created
        /\ pool' = Append(pool, c)
        /\ deleting' = [deleting EXCEPT ![t] = NoChunk]
        /\ UNCHANGED <<created, local, buffer, pc>>
    BY <1>0, <1>9 DEF PushGlobal, TypeOK, Made
  <2>2. /\ n \in Nat /\ Len(pool') = n + 1 /\ pool'[n + 1] = c
        /\ \A i \in 1..n : pool'[i] = pool[i] /\ pool[i] # NoChunk
    BY <1>0, <2>1 DEF TypeOK
  <2>3. deleting'[t] = NoChunk /\ \A u \in Threads \ {t} : deleting'[u] = deleting[u]
    BY <1>0, <2>1 DEF TypeOK
  <2>4. /\ \A i \in 1..n : pool[i] # c
        /\ \A u \in Threads : local[u] # c
        /\ \A u \in Threads \ {t} : deleting[u] # c
    BY <1>0, <2>1 DEF Places
  <2>5. \A b \in Buffers : buffer[b].state # "unused" => buffer[b].chunk # c
    BY <1>0 DEF Recycled
  <2>6. \A b \in Buffers : buffer[b].state # "unused" => buffer[b].chunk # NoChunk
    BY <1>0 DEF Made, TypeOK
  <2> HIDE DEF c, n
  <2>7. Places'
    <3>1. \A i, j \in 1..(n + 1) : pool'[i] = pool'[j] => i = j
      BY <1>0, <2>2, <2>4 DEF Places, n
    <3>2. \A i \in 1..(n + 1), u \in Threads : pool'[i] # local[u]
      BY <1>0, <2>2, <2>4 DEF Places, n
    <3>3. \A i \in 1..(n + 1), u \in Threads : pool'[i] # deleting'[u]
      BY <1>0, <2>1, <2>2, <2>3, <2>4 DEF Places, n
    <3> QED
      BY <1>0, <2>1, <2>2, <2>3, <3>1, <3>2, <3>3 DEF Places
  <2>8. Made'
    BY <1>0, <2>1, <2>2, <2>3 DEF Made, n
  <2>9. Recycled'
    BY <1>0, <2>1, <2>2, <2>3, <2>5, <2>6 DEF Recycled, n
  <2> QED
    BY <2>7, <2>8, <2>9
<1> QED
  BY <1>1, <1>2, <1>3, <1>4, <1>5, <1>6, <1>7, <1>8, <1>9 DEF Next

-----------------------------------------------------------------------------
(* What the threads have open                                                *)

\* A step of one thread does not touch what another has open.
LEMMA OpenedStep == PoolInv /\ [Next]_vars /\ ~overrun' => Opened'
<1> SUFFICES ASSUME PoolInv, [Next]_vars, ~overrun' PROVE Opened'
  OBVIOUS
<1> USE DEF chunkVars, threadVars, Making
<1>0. TypeOK /\ Places /\ Opened
  BY DEF PoolInv
<1>a. Running /\ Builders /\ OpenForOne
  BY <1>0 DEF Opened
<1>b. ASSUME NEW u \in Threads, OpenedBy(u), building'[u] = building[u],
             buffer'[building[u]] = buffer[building[u]], local'[u] = local[u],
             usedsize'[local[u]] = usedsize[local[u]], message'[u] = message[u]
      PROVE  OpenedBy(u)'
  BY <1>b DEF OpenedBy
<1>1. CASE UNCHANGED vars
  BY <1>0, <1>1 DEF Opened, Running, Builders, OpenForOne, OpenedBy, vars
<1>2. ASSUME NEW t \in Threads, MakeSendBuffer(t) PROVE Opened'
  <2>1. /\ pc[t] = "idle" /\ pc'[t] = "open" /\ message'[t] \in MessageSizes
        /\ \A u \in Threads \ {t} : pc'[u] = pc[u] /\ message'[u] = message[u]
        /\ UNCHANGED <<local, open, usedsize, buffer, building>>
    BY <1>0, <1>2 DEF MakeSendBuffer, TypeOK
  <2>r. Running'
    BY <1>a, <2>1 DEF Running
  <2>s. Builders'
    BY <1>a, <1>b, <2>1 DEF Builders, OpenedBy
  <2>t. OpenForOne'
    BY <1>a, <2>1 DEF OpenForOne
  <2> QED
    BY <2>r, <2>s, <2>t DEF Opened
<1>3. ASSUME NEW t \in Threads, TakeChunk(t) PROVE Opened'
  <2>1. PICK c \in Chunks : local' = [local EXCEPT ![t] = c]
    BY <1>3 DEF TakeChunk
  <2>2. /\ pc[t] = "open" /\ pc'[t] = "init" /\ local'[t] = c
        /\ \A u \in Threads \ {t} : pc'[u] = pc[u] /\ local'[u] = local[u]
        /\ UNCHANGED <<message, open, usedsize, buffer, building>>
    BY <1>0, <1>3, <2>1 DEF TakeChunk, TypeOK
  <2>r. Running'
    BY <1>a, <2>2 DEF Running
  <2>s. Builders'
    BY <1>a, <1>b, <2>2 DEF Builders, OpenedBy
  <2>t. OpenForOne'
    BY <1>a, <2>2 DEF OpenForOne
  <2> QED
    BY <2>r, <2>s, <2>t DEF Opened
<1>4. ASSUME NEW t \in Threads, InitChunk(t) PROVE Opened'
  <2>1. /\ pc[t] = "init" /\ pc'[t] = "open" /\ local[t] \in Chunks
        /\ \A u \in Threads \ {t} : pc'[u] = pc[u]
        /\ UNCHANGED <<local, message, buffer, building>>
        /\ ~open'[local[t]]
        /\ \A c \in Chunks \ {local[t]} : open'[c] = open[c] /\ usedsize'[c] = usedsize[c]
    BY <1>0, <1>a, <1>4 DEF InitChunk, TypeOK, Running
  <2>2. \A u \in Threads \ {t} : local[u] # local[t]
    BY <1>0, <2>1 DEF Places
  <2>r. Running'
    BY <1>a, <2>1, <2>2 DEF Running
  <2>s. Builders'
    <3> SUFFICES ASSUME NEW u \in Threads, Making(u)' PROVE OpenedBy(u)'
      BY DEF Builders
    <3>1. u # t /\ OpenedBy(u) /\ local[u] \in Chunks
      BY <1>a, <2>1 DEF Builders, Running
    <3> QED
      BY <1>b, <2>1, <2>2, <3>1
  <2>t. OpenForOne'
    BY <1>a, <2>1, <2>2 DEF OpenForOne
  <2> QED
    BY <2>r, <2>s, <2>t DEF Opened
<1>5. ASSUME NEW t \in Threads, OpenBuffer(t) PROVE Opened'
  <2>1. /\ pc[t] = "open" /\ local[t] \in Chunks /\ message[t] \in MessageSizes
        /\ usedsize[local[t]] + PacketSize(message[t]) <= ChunkSize
        /\ UNCHANGED <<local, usedsize, message>>
    BY <1>5, OpenEffect
  <2>2. PICK b \in Buffers :
          /\ buffer[b].state = "unused"
          /\ buffer' = [buffer EXCEPT ![b] =
               [state |-> "building", chunk |-> local[t],
                start |-> usedsize[local[t]], size |-> PacketSize(message[t])]]
          /\ building' = [building EXCEPT ![t] = b]
    BY <1>5, OpenEffect
  <2>3. /\ pc'[t] = "write" /\ building'[t] = b
        /\ \A u \in Threads \ {t} : pc'[u] = pc[u] /\ building'[u] = building[u]
    BY <1>0, <1>5, <2>2, OpenEffect DEF TypeOK
  <2>4. /\ buffer'[b] = [state |-> "building", chunk |-> local[t],
                         start |-> usedsize[local[t]], size |-> PacketSize(message[t])]
        /\ \A d \in Buffers \ {b} : buffer'[d] = buffer[d]
    BY <1>0, <2>2 DEF TypeOK
  <2>5. \A u \in Threads : Making(u) => building[u] # b
    BY <1>a, <2>2 DEF Builders, OpenedBy
  <2>6. \A c \in Chunks : open'[c] => open[c] \/ c = local[t]
    BY <1>0, <1>5, OpenEffect DEF TypeOK
  <2>r. Running'
    BY <1>a, <2>1, <2>2, <2>3, <2>4, <2>5, <2>6 DEF Running
  <2>s. Builders'
    BY <1>a, <1>b, <2>1, <2>2, <2>3, <2>4, <2>5, <2>6 DEF Builders, OpenedBy
  <2>t. OpenForOne'
    BY <1>a, <2>1, <2>2, <2>3, <2>4, <2>5, <2>6 DEF OpenForOne
  <2> QED
    BY <2>r, <2>s, <2>t DEF Opened
<1>6. ASSUME NEW t \in Threads, Write(t) PROVE Opened'
  <2>1. /\ pc[t] = "write" /\ pc'[t] = "close"
        /\ \A u \in Threads \ {t} : pc'[u] = pc[u]
        /\ UNCHANGED <<local, open, usedsize, message, buffer, building>>
    BY <1>0, <1>6, WriteEffect DEF TypeOK
  <2>r. Running'
    BY <1>a, <2>1 DEF Running
  <2>s. Builders'
    BY <1>a, <1>b, <2>1 DEF Builders, OpenedBy
  <2>t. OpenForOne'
    BY <1>a, <2>1 DEF OpenForOne
  <2> QED
    BY <2>r, <2>s, <2>t DEF Opened
<1>7. ASSUME NEW t \in Threads, Close(t) PROVE Opened'
  <2>a. /\ Making(t) /\ open' = [open EXCEPT ![local[t]] = FALSE]
        /\ pc' = [pc EXCEPT ![t] = "idle"]
        /\ building' = [building EXCEPT ![t] = NoBuffer]
        /\ UNCHANGED <<local, message>>
    BY <1>7, CloseEffect
  <2>b. local[t] \in Chunks /\ building[t] \in Buffers
    BY <1>0, <2>a, MakerHas DEF OpenedBy
  <2>c. /\ \/ usedsize' = [usedsize EXCEPT ![local[t]] = @ + PacketSize(message[t])]
           \/ usedsize' = usedsize
        /\ \/ buffer' = [buffer EXCEPT ![building[t]] =
                [state |-> "sent", chunk |-> local[t],
                 start |-> usedsize[local[t]], size |-> PacketSize(message[t])]]
           \/ buffer' = [buffer EXCEPT ![building[t]] = Unused]
    BY <1>7, CloseEffect
  <2>1. /\ Making(t) /\ local[t] \in Chunks /\ building[t] \in Buffers
        /\ pc'[t] = "idle" /\ \A u \in Threads \ {t} : pc'[u] = pc[u]
        /\ \A u \in Threads \ {t} : building'[u] = building[u]
        /\ UNCHANGED <<local, message>>
    BY <1>0, <2>a, <2>b DEF TypeOK
  <2>2. ~open'[local[t]] /\ \A c \in Chunks \ {local[t]} : open'[c] = open[c]
    BY <1>0, <2>a, <2>b DEF TypeOK
  <2>3. \A c \in Chunks \ {local[t]} : usedsize'[c] = usedsize[c]
    BY <1>0, <2>b, <2>c DEF TypeOK
  <2>4. \A b \in Buffers \ {building[t]} : buffer'[b] = buffer[b]
    BY <1>0, <2>b, <2>c DEF TypeOK
  <2>5. \A u \in Threads \ {t} : Making(u) => building[u] # building[t] /\ local[u] # local[t]
    BY <2>1, OneMaker
  <2>r. Running'
    BY <1>a, <2>1, <2>2, <2>3, <2>4, <2>5 DEF Running
  <2>s. Builders'
    <3> SUFFICES ASSUME NEW u \in Threads, Making(u)' PROVE OpenedBy(u)'
      BY DEF Builders
    <3>1. u # t /\ Making(u) /\ OpenedBy(u) /\ local[u] \in Chunks
      BY <1>a, <2>1 DEF Builders, Running
    <3>2. building[u] \in Buffers
      BY <3>1 DEF OpenedBy
    <3> QED
      BY <1>b, <2>1, <2>3, <2>4, <2>5, <3>1, <3>2
  <2>t. OpenForOne'
    BY <1>a, <2>1, <2>2, <2>3, <2>4, <2>5 DEF OpenForOne
  <2> QED
    BY <2>r, <2>s, <2>t DEF Opened
<1>8. ASSUME NEW t \in Threads, Release(t) PROVE Opened'
  <2>1. PICK b \in Buffers :
          Drop(t, b, Holders(buffer[b].chunk) = {b} /\ ~IsLocal(buffer[b].chunk))
    BY <1>8 DEF Release
  <2>2. /\ buffer[b].state = "sent"
        /\ \A d \in Buffers \ {b} : buffer'[d] = buffer[d]
        /\ UNCHANGED <<local, open, usedsize, pc, message, building>>
    BY <1>0, <2>1 DEF Drop, TypeOK
  <2>3. \A u \in Threads : Making(u) => building[u] # b
    BY <1>a, <2>2 DEF Builders, OpenedBy
  <2>r. Running'
    BY <1>a, <2>2, <2>3 DEF Running
  <2>s. Builders'
    BY <1>a, <1>b, <2>2, <2>3 DEF Builders, OpenedBy
  <2>t. OpenForOne'
    BY <1>a, <2>2, <2>3 DEF OpenForOne
  <2> QED
    BY <2>r, <2>s, <2>t DEF Opened
<1>9. ASSUME NEW t \in Threads, PushGlobal(t) PROVE Opened'
  BY <1>0, <1>9 DEF PushGlobal, Opened, Running, Builders, OpenForOne, OpenedBy
<1> QED
  BY <1>1, <1>2, <1>3, <1>4, <1>5, <1>6, <1>7, <1>8, <1>9 DEF Next

-----------------------------------------------------------------------------
(* What has been cut from the chunks                                         *)

\* Nothing is written below the mark a chunk is cut from, and the mark goes back
\* only when nothing is left there.
LEMMA CutStep == PoolInv /\ [Next]_vars /\ ~overrun' => Cut'
<1> SUFFICES ASSUME PoolInv, [Next]_vars, ~overrun' PROVE Cut'
  OBVIOUS
<1> USE DEF chunkVars, threadVars, BytesKept
<1>0. TypeOK /\ Places /\ Recycled /\ Opened /\ Cut
  BY DEF PoolInv
<1>a. \A b \in Buffers : buffer[b].state # "unused" => buffer[b].chunk \in Chunks
  BY DEF PoolInv, Made, TypeOK
<1>1. CASE UNCHANGED vars
  BY <1>0, <1>1 DEF Cut, vars
<1>2. ASSUME NEW t \in Threads, MakeSendBuffer(t) PROVE Cut'
  <2>1. /\ pc'[t] = "open"
        /\ \A u \in Threads \ {t} : pc'[u] = pc[u] /\ message'[u] = message[u]
        /\ UNCHANGED <<local, usedsize, memory, buffer, building>>
    BY <1>0, <1>2 DEF MakeSendBuffer, TypeOK
  <2> QED
    BY <1>0, <2>1 DEF Cut
<1>3. ASSUME NEW t \in Threads, TakeChunk(t) PROVE Cut'
  <2>1. /\ pc'[t] = "init"
        /\ \A u \in Threads \ {t} : pc'[u] = pc[u] /\ local'[u] = local[u]
        /\ UNCHANGED <<usedsize, memory, buffer, message, building>>
    BY <1>0, <1>3 DEF TakeChunk, TypeOK
  <2> QED
    BY <1>0, <2>1 DEF Cut
<1>4. ASSUME NEW t \in Threads, InitChunk(t) PROVE Cut'
  <2>1. /\ pc[t] = "init" /\ pc'[t] = "open" /\ local[t] \in Chunks
        /\ \A u \in Threads \ {t} : pc'[u] = pc[u]
        /\ UNCHANGED <<local, memory, message, buffer, building>>
        /\ \A c \in Chunks \ {local[t]} : usedsize'[c] = usedsize[c]
    BY <1>0, <1>4 DEF InitChunk, TypeOK, Opened, Running
  <2>2. \A u \in Threads \ {t} : local[u] # local[t]
    BY <1>0, <2>1 DEF Places
  <2>3. \A b \in Buffers : buffer[b].state = "sent" => buffer[b].chunk # local[t]
    BY <1>0, <2>1 DEF Recycled
  <2>4. \A u \in Threads \ {t} : pc[u] = "close" => local[u] \in Chunks
    BY <1>0 DEF Opened, Running
  <2> QED
    BY <1>0, <1>a, <2>1, <2>2, <2>3, <2>4 DEF Cut
<1>5. ASSUME NEW t \in Threads, OpenBuffer(t) PROVE Cut'
  <2>1. PICK b \in Buffers :
          /\ buffer[b].state = "unused"
          /\ buffer' = [buffer EXCEPT ![b] =
               [state |-> "building", chunk |-> local[t],
                start |-> usedsize[local[t]], size |-> PacketSize(message[t])]]
          /\ building' = [building EXCEPT ![t] = b]
    BY <1>5, OpenEffect
  <2>2. /\ pc'[t] = "write"
        /\ \A u \in Threads \ {t} : pc'[u] = pc[u] /\ building'[u] = building[u]
        /\ UNCHANGED <<local, usedsize, memory, message>>
    BY <1>0, <1>5, <2>1, OpenEffect DEF TypeOK
  <2>3. /\ buffer'[b].state = "building"
        /\ \A d \in Buffers \ {b} : buffer'[d] = buffer[d]
    BY <1>0, <2>1 DEF TypeOK
  <2> QED
    BY <1>0, <2>2, <2>3 DEF Cut
<1>6. ASSUME NEW t \in Threads, Write(t) PROVE Cut'
  <2> DEFINE c == local[t]
             b == building[t]
             n == Written(message[t])
  <2>1. /\ pc[t] = "write" /\ pc'[t] = "close"
        /\ \A u \in Threads \ {t} : pc'[u] = pc[u]
        /\ UNCHANGED <<local, usedsize, buffer, message, building>>
    BY <1>0, <1>6, WriteEffect DEF TypeOK
  <2>2. /\ c \in Chunks /\ b \in Buffers /\ message[t] \in MessageSizes
        /\ buffer[b].chunk = c /\ buffer[b].start = usedsize[c]
    BY <1>0, <2>1, MakerHas DEF OpenedBy, Making
  <2>3. n \in Nat /\ usedsize[c] \in Nat /\ usedsize[c] <= ChunkSize
    BY <1>0, <2>2, PacketSizes, UsedSizes
  <2>4. memory' = [memory EXCEPT ![c] =
          [i \in Bytes |-> IF i \in usedsize[c]..(usedsize[c] + n - 1)
                             THEN b ELSE memory[c][i]]]
    BY <1>6, WriteEffect
  <2>5. /\ \A d \in Chunks \ {c} : memory'[d] = memory[d]
        /\ \A i \in Bytes : memory'[c][i] = IF i \in usedsize[c]..(usedsize[c] + n - 1)
                                             THEN b ELSE memory[c][i]
    BY <1>0, <2>2, <2>4 DEF TypeOK
  <2>6. \A u \in Threads \ {t} : pc[u] = "close" => local[u] # c /\ local[u] \in Chunks
    BY <1>0, <2>2 DEF Places, Opened, Running
  <2> HIDE DEF c, b, n
  <2>7. \A i \in Bytes : i \in Int
    BY DEF Bytes
  <2>8. \A i \in Bytes : i >= usedsize[c] /\ i < usedsize[c] + n => memory'[c][i] = b
    BY <2>3, <2>5, <2>7
  <2>9. \A i \in Bytes : i < usedsize[c] => memory'[c][i] = memory[c][i]
    BY <2>3, <2>5, <2>7
  <2>10. \A d \in Buffers : buffer[d].state = "sent" =>
           /\ buffer[d].chunk \in Chunks
           /\ buffer[d].start \in Nat /\ buffer[d].size \in Nat
           /\ buffer[d].start + buffer[d].size <= usedsize[buffer[d].chunk]
    BY <1>0, <1>a DEF Cut, TypeOK
  <2>11. BytesKept'
    <3> SUFFICES ASSUME NEW d \in Buffers, buffer[d].state = "sent",
                        NEW i \in Bytes, i >= buffer[d].start,
                        i < buffer[d].start + buffer[d].size
                 PROVE  memory'[buffer[d].chunk][i] = d
      BY <2>1
    <3>1. memory[buffer[d].chunk][i] = d
      BY <1>0 DEF Cut
    <3>2. CASE buffer[d].chunk = c
      <4>1. i < usedsize[c]
        BY <2>3, <2>7, <2>10, <3>2
      <4> QED
        BY <2>9, <3>1, <3>2, <4>1
    <3> QED
      BY <2>5, <2>10, <3>1, <3>2
  <2>12. ASSUME NEW u \in Threads, pc'[u] = "close", NEW i \in Bytes,
                i >= usedsize[local[u]], i < usedsize[local[u]] + Written(message[u])
         PROVE  memory'[local[u]][i] = building[u]
    <3>1. CASE u = t
      BY <2>8, <2>12, <3>1 DEF c, b, n
    <3>2. CASE u # t
      BY <1>0, <2>1, <2>5, <2>6, <2>12, <3>2 DEF Cut
    <3> QED
      BY <3>1, <3>2
  <2> QED
    BY <1>0, <2>1, <2>11, <2>12 DEF Cut
<1>7. ASSUME NEW t \in Threads, Close(t) PROVE Cut'
  <2> DEFINE c == local[t]
             b == building[t]
             n == PacketSize(message[t])
  <2>1. /\ pc[t] = "close" /\ pc'[t] = "idle"
        /\ \A u \in Threads \ {t} : pc'[u] = pc[u] /\ building'[u] = building[u]
        /\ UNCHANGED <<local, message>>
    BY <1>0, <1>7, CloseEffect DEF TypeOK
  <2>2. /\ c \in Chunks /\ b \in Buffers /\ message[t] \in MessageSizes
    BY <1>0, <2>1, MakerHas DEF OpenedBy, Making
  <2>3. n \in Nat /\ usedsize[c] \in Nat
    BY <1>0, <2>2, PacketSizes, UsedSizes
  <2>4. \A u \in Threads \ {t} : pc[u] = "close" =>
           local[u] # c /\ local[u] \in Chunks /\ building[u] # b
    <3> SUFFICES ASSUME NEW u \in Threads \ {t}, pc[u] = "close"
                 PROVE  local[u] # c /\ local[u] \in Chunks /\ building[u] # b
      OBVIOUS
    <3>1. Making(u) /\ Making(t)
      BY <2>1 DEF Making
    <3> QED
      BY <1>0, <3>1, OneMaker, MakerHas
  <2>5. \A d \in Buffers : buffer[d].state = "sent" =>
           /\ buffer[d].chunk \in Chunks
           /\ buffer[d].start \in Nat /\ buffer[d].size \in Nat
           /\ buffer[d].start + buffer[d].size <= usedsize[buffer[d].chunk]
    BY <1>0, <1>a DEF Cut, TypeOK
  <2>6. CASE /\ message[t] = DataSize(message[t])
             /\ usedsize' = [usedsize EXCEPT ![c] = @ + n]
             /\ buffer' = [buffer EXCEPT ![b] =
                  [state |-> "sent", chunk |-> c, start |-> usedsize[c], size |-> n]]
             /\ memory' = memory
    <3>1. /\ usedsize'[c] = usedsize[c] + n
          /\ \A d \in Chunks \ {c} : usedsize'[d] = usedsize[d]
      BY <1>0, <2>2, <2>6 DEF TypeOK
    <3>2. /\ buffer'[b] = [state |-> "sent", chunk |-> c, start |-> usedsize[c], size |-> n]
          /\ \A d \in Buffers \ {b} : buffer'[d] = buffer[d]
      BY <1>0, <2>2, <2>6 DEF TypeOK
    <3>3. n <= Written(message[t]) /\ Written(message[t]) \in Nat
      BY <2>2, <2>6, PacketSizes
    <3>4. \A i \in Bytes : i >= usedsize[c] /\ i < usedsize[c] + n => memory[c][i] = b
      BY <1>0, <2>1, <2>3, <3>3 DEF Cut, Bytes
    <3> HIDE DEF c, b, n
    <3>5. BytesKept'
      BY <1>0, <2>6, <3>2, <3>4 DEF Cut
    <3>6. ASSUME NEW d \in Buffers, buffer'[d].state = "sent"
          PROVE  buffer'[d].start + buffer'[d].size <= usedsize'[buffer'[d].chunk]
      <4>1. CASE d = b
        BY <2>3, <3>1, <3>2, <4>1
      <4>2. CASE d # b
        BY <2>3, <2>5, <3>1, <3>2, <3>6, <4>2
      <4> QED
        BY <4>1, <4>2
    <3>7. ASSUME NEW u \in Threads, pc'[u] = "close", NEW i \in Bytes,
                 i >= usedsize'[local'[u]], i < usedsize'[local'[u]] + Written(message'[u])
          PROVE  memory'[local'[u]][i] = building'[u]
      BY <1>0, <2>1, <2>4, <2>6, <3>1, <3>7 DEF Cut
    <3> QED
      BY <3>5, <3>6, <3>7 DEF Cut
  <2>7. CASE /\ usedsize' = usedsize
             /\ buffer' = [buffer EXCEPT ![b] = Unused]
             /\ Forget(b)
    <3>1. /\ buffer'[b].state = "unused"
          /\ \A d \in Buffers \ {b} : buffer'[d] = buffer[d]
      BY <1>0, <2>2, <2>7 DEF TypeOK, Unused
    <3>2. \A d \in Chunks : \A i \in Bytes :
            memory[d][i] # b => memory'[d][i] = memory[d][i]
      BY <2>7 DEF Forget
    <3> HIDE DEF c, b, n
    <3>3. BytesKept'
      BY <1>0, <2>5, <3>1, <3>2 DEF Cut
    <3>4. ASSUME NEW u \in Threads, pc'[u] = "close", NEW i \in Bytes,
                 i >= usedsize[local[u]], i < usedsize[local[u]] + Written(message[u])
          PROVE  memory'[local[u]][i] = building'[u]
      BY <1>0, <2>1, <2>4, <3>2, <3>4 DEF Cut
    <3> QED
      BY <1>0, <2>1, <2>7, <3>1, <3>3, <3>4 DEF Cut
  <2> QED
    BY <1>7, <2>6, <2>7, CloseEffect
<1>8. ASSUME NEW t \in Threads, Release(t) PROVE Cut'
  <2>1. PICK b \in Buffers :
          Drop(t, b, Holders(buffer[b].chunk) = {b} /\ ~IsLocal(buffer[b].chunk))
    BY <1>8 DEF Release
  <2>2. /\ buffer[b].state = "sent" /\ buffer'[b].state = "unused"
        /\ \A d \in Buffers \ {b} : buffer'[d] = buffer[d]
        /\ UNCHANGED <<local, usedsize, pc, message, building>>
    BY <1>0, <2>1 DEF Drop, TypeOK, Unused
  <2>3. \A d \in Chunks : \A i \in Bytes :
          memory[d][i] # b => memory'[d][i] = memory[d][i]
    BY <2>1 DEF Drop, Forget
  <2>4. \A u \in Threads : pc[u] = "close" => local[u] \in Chunks /\ building[u] # b
    BY <1>0, <2>2, MakerHas DEF OpenedBy, Making
  <2>5. BytesKept'
    BY <1>0, <1>a, <2>2, <2>3 DEF Cut
  <2>6. ASSUME NEW u \in Threads, pc[u] = "close", NEW i \in Bytes,
               i >= usedsize[local[u]], i < usedsize[local[u]] + Written(message[u])
        PROVE  memory'[local[u]][i] = building[u]
    BY <1>0, <2>3, <2>4, <2>6 DEF Cut
  <2> QED
    BY <1>0, <2>2, <2>5, <2>6 DEF Cut
<1>9. ASSUME NEW t \in Threads, PushGlobal(t) PROVE Cut'
  BY <1>0, <1>9 DEF PushGlobal, Cut
<1> QED
  BY <1>1, <1>2, <1>3, <1>4, <1>5, <1>6, <1>7, <1>8, <1>9 DEF Next

-----------------------------------------------------------------------------
(* The theorems                                                              *)

\* A write that has gone past its buffer is not undone.
LEMMA OverrunStays == overrun /\ [Next]_vars => overrun'
<1> SUFFICES ASSUME overrun, [Next]_vars PROVE overrun'
  OBVIOUS
<1>1. CASE UNCHANGED vars
  BY <1>1 DEF vars
<1>2. ASSUME NEW t \in Threads, Write(t) PROVE overrun'
  BY <1>2 DEF Write
<1>3. ASSUME NEW t \in Threads,
             \/ MakeSendBuffer(t) \/ TakeChunk(t) \/ InitChunk(t) \/ OpenBuffer(t)
             \/ Close(t) \/ Release(t) \/ PushGlobal(t)
      PROVE  overrun'
  <2>1. UNCHANGED overrun
    BY <1>3 DEF MakeSendBuffer, TakeChunk, InitChunk, OpenBuffer, Close, CloseBuffer,
                Release, Drop, PushGlobal
  <2> QED
    BY <2>1
<1> QED
  BY <1>1, <1>2, <1>3 DEF Next

\* PoolInv holds in every state that no write past a buffer has led to.
LEMMA PoolInvariant == Spec => [](WritesFit => PoolInv)
<1>1. Init => PoolInv
  <2> SUFFICES ASSUME Init PROVE PoolInv
    OBVIOUS
  <2>a. pool \in Seq(Chunks) /\ usedsize \in [Chunks -> 0..ChunkSize]
    <3>1. 0 \in 0..ChunkSize
      OBVIOUS
    <3> QED
      BY <3>1 DEF Init
  <2>b. buffer \in [Buffers -> [state : {"unused", "building", "sent"},
                                chunk : Chunks \cup {NoChunk},
                                start : 0..ChunkSize, size : 0..ChunkSize]]
    <3>1. Unused \in [state : {"unused", "building", "sent"}, chunk : Chunks \cup {NoChunk},
                      start : 0..ChunkSize, size : 0..ChunkSize]
      BY DEF Unused
    <3> QED
      BY <3>1 DEF Init
  <2>c. memory \in [Chunks -> [Bytes -> Buffers \cup {NoBuffer}]]
    BY DEF Init
  <2>1. TypeOK
    BY <2>a, <2>b, <2>c DEF Init, TypeOK
  <2>2. /\ Len(pool) = 0
        /\ \A t \in Threads : local[t] = NoChunk /\ deleting[t] = NoChunk /\ pc[t] = "idle"
        /\ \A b \in Buffers : buffer[b].state = "unused"
        /\ \A c \in Chunks : ~open[c]
    BY DEF Init, Unused
  <2>3. Places /\ Made /\ Recycled
    BY <2>2 DEF Places, Made, Recycled
  <2>4. Opened /\ Cut
    BY <2>2 DEF Opened, Running, Builders, OpenForOne, Cut, BytesKept, Making
  <2> QED
    BY <2>1, <2>3, <2>4 DEF PoolInv
<1>2. (WritesFit => PoolInv) /\ [Next]_vars => (WritesFit => PoolInv)'
  BY OverrunStays, TypeStep, PlacesStep, OpenedStep, CutStep DEF PoolInv, WritesFit
<1>3. Init => (WritesFit => PoolInv)
  BY <1>1
<1> QED
  BY <1>2, <1>3, PTL DEF Spec

\* As long as no write has gone past the buffer it went into, every variable of the
\* send buffer memory keeps its type: no chunk is cut behind its end.
THEOREM PoolTypeCorrect == Spec => [](WritesFit => TypeOK)
<1>1. PoolInv => TypeOK
  BY DEF PoolInv
<1> QED
  BY <1>1, PoolInvariant, PTL

\* A set without two elements is counted as it should be.
LEMMA AtMostOne ==
  ASSUME NEW S, \A x, y \in S : x = y
  PROVE  Cardinality(S) = IF S = {} THEN 0 ELSE 1
<1>1. CASE S = {}
  BY <1>1, FS_EmptySet
<1>2. CASE S # {}
  <2>1. PICK x \in S : S = {x}
    BY <1>2
  <2> QED
    BY <1>2, <2>1, FS_Singleton
<1> QED
  BY <1>1, <1>2

\* However buffers are cut and released on any number of threads, a chunk is
\* recycled by one of them and only when nothing is left in it, as long as no write
\* has gone past the buffer it went into (and so perhaps into the pool itself).
THEOREM PoolChunkInOnePlace == Spec => [](WritesFit => ChunkInOnePlace)
<1>1. PoolInv => ChunkInOnePlace
  <2> SUFFICES ASSUME PoolInv, NEW c \in Chunks
               PROVE  /\ Cardinality(PlacesInPool(c)) + Cardinality(LocalTo(c))
                           + Cardinality(DeletedBy(c)) <= 1
                      /\ PlacesInPool(c) # {} \/ DeletedBy(c) # {} => Holders(c) = {}
    BY DEF ChunkInOnePlace
  <2>1. TypeOK /\ Places /\ Recycled
    BY DEF PoolInv
  <2>2. DOMAIN pool = 1..Len(pool)
    BY <2>1 DEF TypeOK
  <2>3. /\ \A x, y \in PlacesInPool(c) : x = y
        /\ \A x, y \in LocalTo(c) : x = y
        /\ \A x, y \in DeletedBy(c) : x = y
    BY <2>1, <2>2 DEF Places, PlacesInPool, LocalTo, DeletedBy
  <2>4. /\ PlacesInPool(c) # {} => LocalTo(c) = {} /\ DeletedBy(c) = {}
        /\ LocalTo(c) # {} => DeletedBy(c) = {}
    BY <2>1, <2>2 DEF Places, PlacesInPool, LocalTo, DeletedBy
  <2>5. /\ Cardinality(PlacesInPool(c)) = IF PlacesInPool(c) = {} THEN 0 ELSE 1
        /\ Cardinality(LocalTo(c)) = IF LocalTo(c) = {} THEN 0 ELSE 1
        /\ Cardinality(DeletedBy(c)) = IF DeletedBy(c) = {} THEN 0 ELSE 1
    BY <2>3, AtMostOne
  <2>6. PlacesInPool(c) # {} \/ DeletedBy(c) # {} => Holders(c) = {}
    BY <2>1, <2>2 DEF Recycled, PlacesInPool, DeletedBy, Holders
  <2> QED
    BY <2>4, <2>5, <2>6
<1> QED
  BY <1>1, PoolInvariant, PTL

\* The bytes of a closed buffer stay as they were written until it is released,
\* for any sizes of chunks and messages, as long as no write has gone past the
\* buffer it went into.  PoolWritesFit says of which messages that is true.
THEOREM PoolBytesKept == Spec => [](WritesFit => BytesKept)
<1>1. PoolInv => BytesKept
  BY DEF PoolInv, Cut
<1> QED
  BY <1>1, PoolInvariant, PTL

\* As long as no write has gone past the buffer it went into, Open never returns the
\* null pointer MakeSendBuffer would dereference.
THEOREM PoolNeverNull == Spec => [](WritesFit => NeverNull)
<1>1. PoolInv => NeverNull
  BY DEF PoolInv, Opened, Running, NeverNull
<1> QED
  BY <1>1, PoolInvariant, PTL

\* Somebody refers to c, or it waits in the pool.
Kept(c) ==
  \/ \E i \in 1..Len(pool) : pool[i] = c
  \/ \E t \in Threads : local[t] = c \/ deleting[t] = c
  \/ \E b \in Buffers : buffer[b].state # "unused" /\ buffer[b].chunk = c

\* Who lets go of a chunk last runs its deleter, and a deleter ends in the pool, as
\* long as no write has gone past the buffer it went into.
THEOREM PoolNoChunkLost == Spec => [](WritesFit => NoChunkLost)
<1> DEFINE Inv == \A c \in created : Kept(c)
<1>1. Init => Inv
  BY DEF Init
<1>2. PoolInv /\ Inv /\ [Next]_vars /\ ~overrun' => Inv'
  <2> SUFFICES ASSUME PoolInv, Inv, [Next]_vars, ~overrun' PROVE Inv'
    OBVIOUS
  <2> USE DEF chunkVars, threadVars
  <2>0. TypeOK /\ Opened
    BY DEF PoolInv
  <2>1. ASSUME UNCHANGED <<pool, created, local, deleting, buffer>> PROVE Inv'
    BY <2>1 DEF Kept
  <2>2. CASE UNCHANGED vars
    BY <2>1, <2>2 DEF vars
  <2>3. ASSUME NEW t \in Threads, MakeSendBuffer(t) PROVE Inv'
    BY <2>1, <2>3 DEF MakeSendBuffer
  <2>4. ASSUME NEW t \in Threads, TakeChunk(t) PROVE Inv'
    <3>1. PICK c \in Chunks : Pop(c) /\ local' = [local EXCEPT ![t] = c]
      BY <2>4 DEF TakeChunk
    <3>2. /\ deleting[t] = NoChunk
          /\ deleting' = [deleting EXCEPT ![t] = IF local[t] # NoChunk /\ Holders(local[t]) = {}
                                                 THEN local[t] ELSE NoChunk]
          /\ UNCHANGED buffer
      BY <2>4 DEF TakeChunk, Ready
    <3>3. local'[t] = c /\ \A u \in Threads \ {t} : local'[u] = local[u]
      BY <2>0, <3>1 DEF TypeOK
    <3>4. /\ local[t] # NoChunk => deleting'[t] = local[t] \/ Holders(local[t]) # {}
          /\ \A u \in Threads \ {t} : deleting'[u] = deleting[u]
      BY <2>0, <3>2 DEF TypeOK
    <3>5. /\ \A i \in 1..Len(pool) : pool[i] # c => i \in 1..Len(pool') /\ pool'[i] = pool[i]
          /\ created' = created \cup {c}
      BY <3>1, PopEffect
    <3> SUFFICES ASSUME NEW d \in created, d # c PROVE Kept(d)'
      BY <3>3, <3>5 DEF Kept
    <3>6. d # NoChunk /\ Kept(d)
      BY <2>0 DEF TypeOK
    <3>7. CASE \E i \in 1..Len(pool) : pool[i] = d
      BY <3>5, <3>7 DEF Kept
    <3>8. CASE \E u \in Threads : local[u] = d
      <4>1. CASE local[t] = d
        BY <3>2, <3>4, <3>6, <4>1 DEF Kept, Holders
      <4>2. CASE local[t] # d
        BY <3>3, <3>8, <4>2 DEF Kept
      <4> QED
        BY <4>1, <4>2
    <3>9. CASE \E u \in Threads : deleting[u] = d
      BY <3>2, <3>4, <3>6, <3>9 DEF Kept
    <3>10. CASE \E b \in Buffers : buffer[b].state # "unused" /\ buffer[b].chunk = d
      BY <3>2, <3>10 DEF Kept
    <3> QED
      BY <3>6, <3>7, <3>8, <3>9, <3>10 DEF Kept
  <2>5. ASSUME NEW t \in Threads, InitChunk(t) PROVE Inv'
    BY <2>1, <2>5 DEF InitChunk
  <2>6. ASSUME NEW t \in Threads, OpenBuffer(t) PROVE Inv'
    <3>1. PICK b \in Buffers :
            /\ buffer[b].state = "unused"
            /\ buffer' = [buffer EXCEPT ![b] =
                 [state |-> "building", chunk |-> local[t],
                  start |-> usedsize[local[t]], size |-> PacketSize(message[t])]]
      BY <2>6, OpenEffect
    <3>2. \A d \in Buffers \ {b} : buffer'[d] = buffer[d]
      BY <3>1, <2>0 DEF TypeOK
    <3>3. UNCHANGED <<pool, created, local, deleting>>
      BY <2>6, OpenEffect
    <3> QED
      BY <3>1, <3>2, <3>3 DEF Kept
  <2>7. ASSUME NEW t \in Threads, Write(t) PROVE Inv'
    BY <2>1, <2>7, WriteEffect
  <2>8. ASSUME NEW t \in Threads, Close(t) PROVE Inv'
    <3>1. /\ building[t] \in Buffers /\ buffer[building[t]].chunk = local[t]
          /\ UNCHANGED <<pool, created, local, deleting>>
      BY <2>0, <2>8, CloseEffect, MakerHas DEF OpenedBy
    <3>a. \E r : buffer' = [buffer EXCEPT ![building[t]] = r]
      BY <2>8, CloseEffect
    <3>2. \A d \in Buffers \ {building[t]} : buffer'[d] = buffer[d]
      BY <2>0, <3>1, <3>a DEF TypeOK
    <3> QED
      BY <3>1, <3>2 DEF Kept
  <2>9. ASSUME NEW t \in Threads, Release(t) PROVE Inv'
    <3>1. PICK b \in Buffers :
            Drop(t, b, Holders(buffer[b].chunk) = {b} /\ ~IsLocal(buffer[b].chunk))
      BY <2>9 DEF Release
    <3> DEFINE c == buffer[b].chunk
    <3>2. /\ buffer[b].state = "sent" /\ deleting[t] = NoChunk
          /\ \A d \in Buffers \ {b} : buffer'[d] = buffer[d]
          /\ Holders(c) = {b} /\ ~IsLocal(c) => deleting'[t] = c
          /\ \A u \in Threads \ {t} : deleting'[u] = deleting[u]
          /\ UNCHANGED <<pool, created, local>>
      BY <2>0, <3>1 DEF Drop, Ready, TypeOK
    <3>3. b \in Holders(c)
      BY <3>2 DEF Holders
    <3> HIDE DEF c
    <3> SUFFICES ASSUME NEW d \in created PROVE Kept(d)'
      BY <3>2
    <3>4. d # NoChunk /\ Kept(d)
      BY <2>0 DEF TypeOK
    <3>5. CASE d = c
      <4>1. CASE Holders(c) = {b} /\ ~IsLocal(c)
        BY <3>2, <3>5, <4>1 DEF Kept
      <4>2. CASE IsLocal(c)
        BY <3>2, <3>5, <4>2 DEF Kept, IsLocal
      <4>3. CASE Holders(c) # {b}
        <5>1. PICK e \in Holders(c) : e # b
          BY <3>3, <4>3
        <5> QED
          BY <3>2, <3>5, <5>1 DEF Kept, Holders
      <4> QED
        BY <4>1, <4>2, <4>3
    <3>6. CASE d # c
      <4>1. CASE \E i \in 1..Len(pool) : pool[i] = d
        BY <3>2, <4>1 DEF Kept
      <4>2. CASE \E u \in Threads : local[u] = d \/ deleting[u] = d
        BY <3>2, <3>4, <4>2 DEF Kept
      <4>3. CASE \E e \in Buffers : buffer[e].state # "unused" /\ buffer[e].chunk = d
        BY <3>2, <3>6, <4>3 DEF Kept, c
      <4> QED
        BY <3>4, <4>1, <4>2, <4>3 DEF Kept
    <3> QED
      BY <3>5, <3>6
  <2>10. ASSUME NEW t \in Threads, PushGlobal(t) PROVE Inv'
    <3>1. /\ pool' = Append(pool, deleting[t])
          /\ deleting[t] \in Chunks
          /\ \A u \in Threads \ {t} : deleting'[u] = deleting[u]
          /\ UNCHANGED <<created, local, buffer>>
      BY <2>0, <2>10 DEF PushGlobal, TypeOK
    <3>2. /\ Len(pool') = Len(pool) + 1 /\ Len(pool) \in Nat
          /\ pool'[Len(pool) + 1] = deleting[t]
          /\ \A i \in 1..Len(pool) : pool'[i] = pool[i]
      BY <2>0, <3>1 DEF TypeOK
    <3>3. ASSUME NEW d, Kept(d) PROVE Kept(d)'
      <4>1. CASE \E i \in 1..Len(pool) : pool[i] = d
        BY <3>2, <4>1 DEF Kept
      <4>2. CASE \E u \in Threads : local[u] = d
        BY <3>1, <4>2 DEF Kept
      <4>3. CASE \E u \in Threads : deleting[u] = d
        BY <3>1, <3>2, <4>3 DEF Kept
      <4>4. CASE \E e \in Buffers : buffer[e].state # "unused" /\ buffer[e].chunk = d
        BY <3>1, <4>4 DEF Kept
      <4> QED
        BY <3>3, <4>1, <4>2, <4>3, <4>4 DEF Kept
    <3> QED
      BY <3>1, <3>3
  <2> QED
    BY <2>2, <2>3, <2>4, <2>5, <2>6, <2>7, <2>8, <2>9, <2>10 DEF Next
<1>3. PoolInv /\ Inv => NoChunkLost
  <2> SUFFICES ASSUME PoolInv, Inv, NEW c \in created
               PROVE  PlacesInPool(c) \cup LocalTo(c) \cup DeletedBy(c) \cup Holders(c) # {}
    BY DEF NoChunkLost
  <2>1. DOMAIN pool = 1..Len(pool)
    BY DEF PoolInv, TypeOK
  <2> QED
    BY <2>1 DEF Kept, PlacesInPool, LocalTo, DeletedBy, Holders
<1>4. Init => (WritesFit => Inv)
  BY <1>1
<1>5. (WritesFit => PoolInv) /\ (WritesFit => Inv) /\ [Next]_vars => (WritesFit => Inv)'
  BY <1>2, OverrunStays DEF WritesFit
<1>6. (WritesFit => PoolInv) /\ (WritesFit => Inv) => (WritesFit => NoChunkLost)
  BY <1>3
<1> QED
  BY <1>4, <1>5, <1>6, PoolInvariant, PTL DEF Spec

-----------------------------------------------------------------------------
(* Messages that fit                                                         *)

\* A message whose dataSize leaves room for the header in uint16 gets a buffer of
\* the size that is written.
LEMMA FittingWritten ==
  ASSUME NEW m \in MessageSizes, DataSize(m) + HeaderSize < ChunkSize
  PROVE  Written(m) <= PacketSize(m)
<1>1. m \in Nat /\ DataSize(m) \in Nat /\ HeaderSize \in Nat
  BY Wraps DEF DataSize
<1>2. PacketSize(m) = DataSize(m) + HeaderSize
  <2>1. DataSize(m) + HeaderSize \in 0..(ChunkSize - 1)
    BY <1>1
  <2>2. \A n \in 0..(ChunkSize - 1) : n % ChunkSize = n
    OBVIOUS
  <2> QED
    BY <2>1, <2>2 DEF PacketSize
<1> HIDE DEF DataSize
<1> QED
  BY <1>1, <1>2 DEF Written

\* PacketHandler.h:45 is right of every message whose dataSize, itself cut to uint16,
\* leaves room for the header, however many there are and whoever makes them:
\* MakeSendBuffer then never writes past the buffer it has opened, not even for a
\* message too large to be serialized.  send_buffer_wrap shows the others.
THEOREM PoolWritesFit ==
  ASSUME \A m \in MessageSizes : DataSize(m) + HeaderSize < ChunkSize
  PROVE  Spec => []WritesFit
<1>1. Init => WritesFit
  BY DEF Init, WritesFit
<1>2. (WritesFit => PoolInv) /\ WritesFit /\ [Next]_vars => WritesFit'
  <2> SUFFICES ASSUME PoolInv, ~overrun, [Next]_vars PROVE ~overrun'
    BY DEF WritesFit
  <2>1. CASE UNCHANGED vars
    BY <2>1 DEF vars
  <2>2. ASSUME NEW t \in Threads, Write(t) PROVE ~overrun'
    <3>1. overrun' = (overrun \/ Written(message[t]) > buffer[building[t]].size)
          /\ pc[t] = "write"
      BY <2>2 DEF Write
    <3>2. message[t] \in MessageSizes /\ buffer[building[t]].size = PacketSize(message[t])
      BY <3>1 DEF PoolInv, Opened, Running, Builders, Making, OpenedBy
    <3>3. PICK m \in MessageSizes : m = message[t]
      BY <3>2
    <3>4. Written(m) <= PacketSize(m) /\ Written(m) \in Nat /\ PacketSize(m) \in Nat
      BY FittingWritten, PacketSizes
    <3>5. ~(Written(m) > PacketSize(m))
      BY <3>4
    <3> QED
      BY <3>1, <3>2, <3>3, <3>5
  <2>3. ASSUME NEW t \in Threads,
               \/ MakeSendBuffer(t) \/ TakeChunk(t) \/ InitChunk(t) \/ OpenBuffer(t)
               \/ Close(t) \/ Release(t) \/ PushGlobal(t)
        PROVE  ~overrun'
    <3>1. UNCHANGED overrun
      BY <2>3 DEF MakeSendBuffer, TakeChunk, InitChunk, OpenBuffer, Close, CloseBuffer,
                  Release, Drop, PushGlobal
    <3> QED
      BY <3>1
  <2> QED
    BY <2>1, <2>2, <2>3 DEF Next
<1> QED
  BY <1>1, <1>2, PoolInvariant, PTL DEF Spec

=============================================================================
