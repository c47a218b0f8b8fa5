------------------------------ MODULE MCMutex ------------------------------
(* Model-checking instances of Mutex: threads and mutexes differ only in
   their state. *)
EXTENDS Mutex, TLC

Symmetry == Permutations(Threads) \cup Permutations(Mutexes)
=============================================================================
