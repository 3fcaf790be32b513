----------------------------- MODULE MCJobLatch -----------------------------
(***************************************************************************)
(* Instance of JobLatch for TLC: three workers, two jobs at a time.        *)
(***************************************************************************)
EXTENDS JobLatch, TLC

Symmetry == Permutations(Workers)
=============================================================================
