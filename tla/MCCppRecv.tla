----------------------------- MODULE MCCppRecv -----------------------------
(* CppRecv on all streams of up to three packets with sizes from PacketSizes. *)
EXTENDS CppRecv

CONSTANT PacketSizes

\* Streams of up to three packets, as the positions where they end.
MCLayouts ==
  {<<a>> : a \in PacketSizes}
    \cup {<<a, a + b>> : a, b \in PacketSizes}
    \cup {<<a, a + b, a + b + c>> : a, b, c \in PacketSizes}
=============================================================================
