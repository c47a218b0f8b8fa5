----------------------------- MODULE MCObjects -----------------------------
(* Model-checking instances of Objects. *)
EXTENDS Objects

CONSTANTS i1, i2

\* Lists for two waiting threads: each is handed an item.
MCLists == {<<i1, i2>>}

\* A list with fewer items than there may be waiting threads.
ShortLists == {<<i1>>}

\* What is written to a pipe is more than its ring holds: it goes to a reader, to the
\* ring and to a second reader or a refill.
MCWrites == {<<i1, i2, i2>>}
\* The heap of one CPU is large enough for a block to be moved out of the way of
\* another; that of two CPUs for two blocks.
MCHeapSizes == (1 :> 7) @@ (2 :> 4)
MCAllocs == {[align |-> 1, sz |-> 2], [align |-> 2, sz |-> 2], [align |-> 1, sz |-> 4]}
=============================================================================
