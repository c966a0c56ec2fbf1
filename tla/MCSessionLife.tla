--------------------------- MODULE MCSessionLife ---------------------------
(* SessionLife on small instances.                                           *)
EXTENDS SessionLife, TLC

\* Workers, sessions and accept events are interchangeable.
LifeSymmetry ==
  Permutations(Workers) \cup Permutations(Sessions) \cup Permutations(AcceptEvents)
=============================================================================
