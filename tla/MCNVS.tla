------------------------------- MODULE MCNVS -------------------------------
(* Model-checking instances of NVS: a short and a long value. *)
EXTENDS NVS, TLC

CONSTANTS x, y

MCLenOf == (x :> 1) @@ (y :> 2)

\* Two sectors swap roles at every collection; of three, one holds old pairs.
MCShapes == {<<2, 6>>, <<2, 7>>, <<2, 8>>, <<3, 6>>}

Symmetry == Permutations(Ids)
=============================================================================
