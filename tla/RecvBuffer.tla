----------------------------- MODULE RecvBuffer -----------------------------
(***************************************************************************)
(* The two cursors of a receive buffer, in C++ (ServerCore/RecvBuffer.cpp) *)
(* and in C# (ClientCSharp/Network/RecvBuffer.cs).  The bytes between them *)
(* are the part of the stream received and not yet consumed.  The two      *)
(* differ in Clear only: C# always moves the rest to the front, C++ only   *)
(* when less than one bufferSize is free behind it.                        *)
(***************************************************************************)
EXTENDS Integers

CONSTANT Capacity

Empty == [readPos |-> 0, writePos |-> 0]

Buffers == [readPos : 0..Capacity, writePos : 0..Capacity]

DataSize(b) == b.writePos - b.readPos
FreeSize(b) == Capacity - b.writePos

\* OnRead and OnWrite return false, and change nothing, outside these bounds.
CanRead(b, n)  == n <= DataSize(b)
CanWrite(b, n) == n <= FreeSize(b)

OnRead(b, n)  == [b EXCEPT !.readPos = @ + n]
OnWrite(b, n) == [b EXCEPT !.writePos = @ + n]

\* The rest goes to the front; with nothing left both cursors return to 0.
Compact(b) == [readPos |-> 0, writePos |-> DataSize(b)]

\* Mutant: off by one at the limit.
ClearTooLate(b, bufferSize) ==
  IF DataSize(b) = 0 \/ FreeSize(b) + 1 < bufferSize THEN Compact(b) ELSE b

\* RecvBuffer::Clear of ServerCore.
ClearWhenTight(b, bufferSize) ==
  IF DataSize(b) = 0 \/ FreeSize(b) < bufferSize THEN Compact(b) ELSE b
=============================================================================
