---------------------------- MODULE TimeoutAbs ----------------------------
(***************************************************************************)
(* What the timeout queue promises, without its delta list: a set of       *)
(* deadlines and a clock.  The clock never passes a deadline that has not  *)
(* expired, and timeouts expire in deadline order at exactly their tick.   *)
(* When several CPUs announce ticks the clock may step back meanwhile.     *)
(***************************************************************************)
EXTENDS Integers

CONSTANTS Timeouts, NULL

VARIABLES deadline,  \* tick each pending timeout expires at, NULL if inactive
          now,
          steady     \* the clock never steps back

absVars == <<deadline, now, steady>>

Pending == {t \in Timeouts : deadline[t] # NULL}

AbsInit == deadline = [t \in Timeouts |-> NULL] /\ now = 0 /\ steady \in BOOLEAN

Add(t) ==
    /\ t \notin Pending
    /\ deadline'[t] \in Int /\ deadline'[t] > now
    /\ deadline' = [deadline EXCEPT ![t] = deadline'[t]]
    /\ UNCHANGED now

Abort(t) ==
    /\ t \in Pending
    /\ deadline' = [deadline EXCEPT ![t] = NULL]
    /\ UNCHANGED now

Expire(t) ==
    /\ t \in Pending
    /\ \A u \in Pending : deadline[t] <= deadline[u]
    /\ now' = deadline[t]
    /\ deadline' = [deadline EXCEPT ![t] = NULL]

Advance ==
    /\ steady => now' >= now
    /\ \A u \in Pending : now' < deadline[u]
    /\ UNCHANGED deadline

AbsNext ==
    /\ Advance \/ \E t \in Timeouts : Add(t) \/ Abort(t) \/ Expire(t)
    /\ UNCHANGED steady

AbsSpec == AbsInit /\ [][AbsNext]_absVars
=============================================================================
