--------------------------- MODULE MCHighWaterMark ---------------------------
(***************************************************************************)
(* Threads making a couple of calls with small deltas at a scaled int64_t; *)
(* the threads are interchangeable.                                        *)
(***************************************************************************)
EXTENDS HighWaterMark, TLC

Symmetry == Permutations(Threads)
=============================================================================
