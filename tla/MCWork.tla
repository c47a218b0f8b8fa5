------------------------------- MODULE MCWork -------------------------------
(* Model-checking instances of Work. *)
EXTENDS Work

CONSTANTS q1, q2, w1, w2, c1, c2

AllCalls == {"chained", "delay", "cancel", "cancel_sync", "flush", "drain"}

\* Two items and one caller, one item and two callers; one item and two queues,
\* with nested interrupts.
MCSetups ==
    {[items |-> {w1, w2}, queues |-> {q1}, callers |-> {c1}, race |-> FALSE,
      calls |-> AllCalls],
     [items |-> {w1, w2}, queues |-> {q1}, callers |-> {c1, c2}, race |-> FALSE,
      calls |-> AllCalls \ {"delay"}],
     [items |-> {w2}, queues |-> {q1}, callers |-> {c1, c2}, race |-> FALSE,
      calls |-> AllCalls],
     [items |-> {w2}, queues |-> {q1, q2}, callers |-> {c1}, race |-> TRUE,
      calls |-> AllCalls \ {"chained"}]}

\* Two threads cancel the same item.
TwoCancels ==
    {[items |-> {w2}, queues |-> {q1}, callers |-> {c1, c2}, race |-> FALSE,
      calls |-> {"cancel_sync"}]}
=============================================================================
