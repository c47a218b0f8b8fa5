------------------------------- MODULE MCSem -------------------------------
(* Model-checking instances of Sem: threads differ only in their state. *)
EXTENDS Sem, TLC

Symmetry == Permutations(Threads)
=============================================================================
