--------------------------- MODULE MCSessionSend ---------------------------
(* SessionSend on small instances: threads are model values, the bounds are  *)
(* in the configurations.                                                    *)
EXTENDS SessionSend, TLC

\* Threads are interchangeable in the safety runs.
ThreadSymmetry == Permutations(Threads)
=============================================================================
