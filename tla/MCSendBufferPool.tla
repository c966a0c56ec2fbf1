-------------------------- MODULE MCSendBufferPool --------------------------
(* SendBufferPool on small instances.                                        *)
EXTENDS SendBufferPool, TLC

\* Threads, chunks and buffers are interchangeable.
PoolSymmetry ==
  Permutations(Threads) \cup Permutations(Chunks) \cup Permutations(Buffers)
=============================================================================
