----------------------------- MODULE MCMpmcRing -----------------------------
(***************************************************************************)
(* TLC instances of MpmcRing.  Threads and values are interchangeable.     *)
(***************************************************************************)
EXTENDS MpmcRing, TLC

Symmetry == Permutations(Threads) \cup Permutations(Values)
=============================================================================
