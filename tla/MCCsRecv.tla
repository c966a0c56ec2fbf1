------------------------------ MODULE MCCsRecv ------------------------------
(* CsRecv on all streams of up to three packets with sizes from PacketSizes. *)
EXTENDS CsRecv

CONSTANT PacketSizes

\* Streams of up to three packets, as the positions where they end.
MCLayouts ==
  {<<a>> : a \in PacketSizes}
    \cup {<<a, a + b>> : a, b \in PacketSizes}
    \cup {<<a, a + b, a + b + c>> : a, b, c \in PacketSizes}
=============================================================================
