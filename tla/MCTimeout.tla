----------------------------- MODULE MCTimeout -----------------------------
(* Model-checking instances of Timeout. *)
EXTENDS Timeout

CONSTANTS c0, c1, t1, t2, t3

\* One CPU with a list of three timeouts; two that announce.
MCBuilds == {[cpus |-> {c0}, timeouts |-> {t1, t2, t3}],
             [cpus |-> {c0, c1}, timeouts |-> {t1, t2}]}
=============================================================================
