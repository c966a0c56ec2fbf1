---------------------------- MODULE PacketStream ----------------------------
(***************************************************************************)
(* What a receive path promises the packet handlers, without buffers: the  *)
(* peer's bytes form one stream of packets, cut by the network wherever it *)
(* likes; each packet is dispatched once, in order, when its last byte has *)
(* arrived and not before, and a packet that has arrived is not left       *)
(* behind while the receiver is open.  After a fault of the receiver a     *)
(* packet may be dispatched too early or too late, and the handlers may be *)
(* given bytes that are not the next packet of the stream: stray ones.     *)
(***************************************************************************)
EXTENDS Naturals, Sequences

VARIABLES
  ends,        \* ends[k]: the number of bytes up to the end of packet k
  arrived,     \* bytes received so far
  dispatched,  \* packets dispatched so far
  closed,      \* the receiver has stopped
  fault,       \* the receiver has met what it cannot handle
  stray        \* TRUE once stray bytes have been dispatched

vars == <<ends, arrived, dispatched, closed, fault, stray>>

\* The stream position after k packets.
EndOf(k) == IF k = 0 THEN 0 ELSE ends[k]

Total == EndOf(Len(ends))

Init ==
  /\ arrived = 0
  /\ dispatched = 0
  /\ closed = FALSE
  /\ fault = FALSE
  /\ stray = FALSE

Arrive ==
  /\ ~closed
  /\ arrived' \in (arrived + 1)..Total
  /\ UNCHANGED <<ends, dispatched, closed, fault, stray>>

Dispatch ==
  /\ ~closed
  /\ ~fault
  /\ dispatched < Len(ends)
  /\ ends[dispatched + 1] <= arrived
  /\ dispatched' = dispatched + 1
  /\ UNCHANGED <<ends, arrived, closed, fault, stray>>

Close ==
  /\ closed' = TRUE
  /\ UNCHANGED <<ends, arrived, dispatched, fault, stray>>

\* The fault, and every step after it.
Faulty ==
  /\ fault' = TRUE
  /\ arrived' \in arrived..Total
  /\ dispatched' \in dispatched..(dispatched + 1)
  /\ closed => closed'
  /\ stray => stray'
  /\ UNCHANGED ends

Next == Arrive \/ Dispatch \/ Close \/ Faulty

\* The promise without the part about time.
Safety == Init /\ [][Next]_vars

Spec == Safety /\ WF_vars(Dispatch)
=============================================================================
