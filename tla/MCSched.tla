------------------------------ MODULE MCSched ------------------------------
(* Model-checking instances of Sched: threads differ only in their state. *)
EXTENDS Sched, TLC

Symmetry == Permutations(Threads)
=============================================================================
