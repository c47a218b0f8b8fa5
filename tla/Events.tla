------------------------------- MODULE Events -------------------------------
(***************************************************************************)
(* kernel/events.c: a set of events that threads wait for, any or all of   *)
(* some.  Posting walks the wait queue under the scheduler's lock, marks   *)
(* the threads whose condition is met and cancels their timeouts, and then *)
(* wakes them one by one.  A timeout that has expired already and finds a  *)
(* marked thread leaves it to the poster.                                  *)
(***************************************************************************)
EXTENDS Obj

CONSTANT EventBits

EventInit ==
    /\ kind = "event"
    /\ obj = [events |-> {}]

\* are_wait_conditions_met().
ConditionMet(desired, current, all) ==
    IF all THEN desired \subseteq current ELSE desired \cap current # {}

\* The waiters event_walk_op() links, the last of the queue first.
Matches(current) ==
    LET met(t) == ConditionMet(call[t][2].desired, current, call[t][2].all)
    IN  Reverse(SelectSeq(Waiters, met))

\* k_event_post_internal(): k_event_post(), _set(), _set_masked() and _clear()
\* differ in the mask.
EventPost(new, mask) ==
    LET current == (obj.events \ mask) \cup (new \cap mask)
    IN  /\ Free
        /\ obj' = [events |-> current]
        /\ no_wake' = no_wake \cup ToSet(Matches(current))
        /\ timer' = timer \ ToSet(Matches(current))
        /\ lock' = IF Matches(current) = <<>> THEN NULL
                   ELSE <<"event_post", Matches(current)>>
        /\ cause' = [t \in Threads |-> IF t \in ToSet(Matches(current))
                                       THEN <<"handed", current>> ELSE cause[t]]
        /\ UNCHANGED <<waitq, ready, suspended, firing, waking, halting, swap_retval,
                       prio, kind, cpus, call, swap_data>>

\* The poster stores the result and wakes the next thread of its list.
EventWake ==
    /\ Holds("event_post")
    /\ LET t == Head(lock[2])
       IN  /\ swap_retval' = [swap_retval EXCEPT ![t] = OK]
           /\ swap_data' = [swap_data EXCEPT ![t] = obj.events]
           /\ no_wake' = no_wake \ {t}
           /\ waitq' = [waitq EXCEPT ![wait_q] = z_priq_wait_remove(@, t)]
           /\ UNCHANGED <<suspended, timer>>
           /\ ready_thread(t)
    /\ lock' = IF Len(lock[2]) = 1 THEN NULL ELSE <<"event_post", Tail(lock[2])>>
    /\ UNCHANGED <<firing, waking, halting, prio, kind, cpus, obj, call, cause>>

\* k_event_wait_internal() may reset the events first; it returns at once when
\* the condition is met, which changes nothing else ...
EventReset == Immediate([events |-> {}])

\* ... and else waits.
EventWaitPend(t, desired, all, reset, timed) ==
    LET current == IF reset THEN {} ELSE obj.events
    IN  /\ Free /\ Runs(t) /\ call[t] = NULL
        /\ ~ConditionMet(desired, current, all)
        /\ obj' = [events |-> current]
        /\ z_pend_curr(t, wait_q, timed)
        /\ call' = [call EXCEPT ![t] = <<"wait", [desired |-> desired, all |-> all]>>]
        /\ UNCHANGED <<kind, cpus, lock, swap_data, no_wake, cause>>

EventReturns(t) == BlockedIn(t, "wait") /\ Returns(t) /\ UNCHANGED obj

EventNext ==
    /\ kind = "event"
    /\ \/ \E new, mask \in SUBSET EventBits : new \subseteq mask /\ EventPost(new, mask)
       \/ EventWake
       \/ EventReset
       \/ \E t \in Threads :
            \/ \E desired \in SUBSET EventBits \ {{}}, all, reset, timed \in BOOLEAN :
                 EventWaitPend(t, desired, all, reset, timed)
            \/ EventReturns(t)
-----------------------------------------------------------------------------
\* Nobody waits for events that are there, and a marked thread is one that a
\* poster is about to wake.
EventNobodyWaitsInVain ==
    kind = "event" =>
        /\ Free => Matches(obj.events) = <<>>
        /\ no_wake \subseteq IF Holds("event_post") THEN ToSet(lock[2]) ELSE {}

\* On any number of CPUs a wait returns events exactly when a post matched it:
\* a timeout that expires while the poster is at work does not take them away.
EventAnswer ==
    kind = "event" => \A t \in Threads : call[t] # NULL /\ call'[t] = NULL =>
        IF cause[t][1] = "handed"
        THEN /\ swap_retval[t] = OK
             /\ ConditionMet(call[t][2].desired, swap_data[t], call[t][2].all)
        ELSE swap_retval[t] # OK
=============================================================================
