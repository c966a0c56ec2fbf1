----------------------------- MODULE SendStream -----------------------------
(***************************************************************************)
(* What Send promises its callers, in C++ and C#, without threads, locks   *)
(* or I/O completions: the buffers pushed on one session form one stream.  *)
(* They are numbered in the order of the pushes and reach the wire in that *)
(* order, each at most once.                                               *)
(*                                                                         *)
(* Nothing is skipped before the first fault (C++: a WSASend refused on    *)
(* the spot; C#: a batch left in bufferList, or Disconnect); after it      *)
(* buffers may go missing but neither swap places nor go out twice.  Once  *)
(* the queue itself is torn (C++ only: two threads inside sendQueue at the *)
(* same time) any promise about what still waits is gone: only what is on  *)
(* the wire stays as it is.                                                *)
(***************************************************************************)
EXTENDS Naturals, Sequences

VARIABLES
  accepted,   \* how many buffers have been pushed: the n-th one is number n
  backlog,    \* the numbers pushed and not yet on the wire, oldest first
  wire,       \* the numbers handed to the network, in that order
  fault,      \* TRUE once a batch may have been dropped
  torn        \* TRUE once the queue can hold anything

vars == <<accepted, backlog, wire, fault, torn>>

Init ==
  /\ accepted = 0
  /\ backlog = <<>>
  /\ wire = <<>>
  /\ fault = FALSE
  /\ torn = FALSE

\* A buffer joins the stream behind all earlier ones.
Accept ==
  /\ accepted' = accepted + 1
  /\ backlog' = Append(backlog, accepted + 1)
  /\ UNCHANGED <<wire, fault, torn>>

\* Some of the oldest waiting buffers go out together, in order.
Transmit ==
  \E n \in 0..Len(backlog) :
    /\ wire' = wire \o SubSeq(backlog, 1, n)
    /\ backlog' = SubSeq(backlog, n + 1, Len(backlog))
    /\ UNCHANGED <<accepted, fault, torn>>

Fault ==
  /\ fault' = TRUE
  /\ UNCHANGED <<accepted, backlog, wire, torn>>

\* After a fault the oldest waiting buffers may be dropped.
Drop ==
  /\ fault
  /\ \E n \in 0..Len(backlog) : backlog' = SubSeq(backlog, n + 1, Len(backlog))
  /\ UNCHANGED <<accepted, wire, fault, torn>>

\* A torn queue loses buffers, gives them out again or makes some up (0); one
\* being pushed fares no better.
Tear ==
  /\ torn' = TRUE
  /\ accepted' \in {accepted, accepted + 1}
  /\ backlog' \in Seq(0..accepted')
  /\ UNCHANGED <<wire, fault>>

Next == Accept \/ Transmit \/ Fault \/ Drop \/ Tear

Spec == Init /\ [][Next]_vars
=============================================================================
