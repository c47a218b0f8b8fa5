----------------------------- MODULE MCCondVar -----------------------------
(* Model-checking instance of CondVar: the threads differ only in their
   state. *)
EXTENDS CondVar, TLC

Symmetry == Permutations(Threads)
=============================================================================
