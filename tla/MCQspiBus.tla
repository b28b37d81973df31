----------------------------- MODULE MCQspiBus -----------------------------
(* Instances of QspiBus for TLC: two or three threads as model values.     *)
EXTENDS BusRefinement, TLC

CONSTANTS t1, t2, t3

(* Sound for the runs that check safety only.                              *)
Symmetry == Permutations(Threads)
=============================================================================
