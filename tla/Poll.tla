-------------------------------- MODULE Poll --------------------------------
(***************************************************************************)
(* kernel/poll.c: k_poll() on a poll signal and a semaphore.  The poller   *)
(* registers with one object after the other and releases the lock in      *)
(* between; an object that becomes available meanwhile clears is_polling,  *)
(* so that the poller does not go to sleep.  k_sem_give() counts the unit  *)
(* under the semaphore's lock and only then takes the lock of k_poll().    *)
(*                                                                         *)
(* As the documentation asks, one thread polls an object at a time.        *)
(* Polling without waiting registers nothing and is left out.              *)
(***************************************************************************)
EXTENDS Obj

CONSTANT SemLimit

PollEvents == <<"signal", "sem">>  \* the array passed to k_poll()
Polled == {"signal", "sem"}

\* registered: the poll_events lists, the poller of each; state: the events of
\* the array that were set ready.
PollInit ==
    /\ kind = "poll"
    /\ obj = [signaled |-> FALSE, count |-> 0, polling |-> {}, state |-> {},
              registered |-> [e \in Polled |-> NULL]]

PollLockFree == Free \/ Holds("sem_give")

is_condition_met(e) == IF e = "signal" THEN obj.signaled ELSE obj.count > 0

\* Thread t goes on to pc; k_poll() returns when that is NULL.
PollGoto(t, pc, o) ==
    /\ call' = [call EXCEPT ![t] = pc]
    /\ obj' = o
    /\ UNCHANGED <<pendVars, kind, cpus, lock, swap_data, no_wake, cause>>

\* k_poll() begins.
PollStart(t, timed) ==
    /\ Runs(t)
    /\ call = [u \in Threads |-> NULL]
    /\ PollGoto(t, <<"register", [ii |-> 1, timed |-> timed]>>,
                [obj EXCEPT !.polling = {t}, !.state = {}])

\* register_events() looks at the next event of the array.
PollRegister(t) ==
    LET ii == call[t][2].ii
        e == PollEvents[ii]
    IN  /\ PollLockFree /\ Runs(t) /\ BlockedIn(t, "register")
        /\ PollGoto(t, IF ii = Len(PollEvents) THEN <<"sleep", call[t][2]>>
                       ELSE <<"register", [call[t][2] EXCEPT !.ii = ii + 1]>>,
                    IF is_condition_met(e)
                    THEN [obj EXCEPT !.state = @ \cup {e}, !.polling = @ \ {t}]
                    ELSE IF t \in obj.polling
                    THEN [obj EXCEPT !.registered[e] = t] ELSE obj)

\* Nothing is ready: the poller waits.
PollPend(t) ==
    /\ PollLockFree /\ Runs(t) /\ BlockedIn(t, "sleep")
    /\ t \in obj.polling
    /\ z_pend_curr(t, wait_q, call[t][2].timed)
    /\ call' = [call EXCEPT ![t] = <<"wait", NULL>>]
    /\ obj' = [obj EXCEPT !.polling = @ \ {t}]
    /\ UNCHANGED <<kind, cpus, lock, swap_data, no_wake, cause>>

\* Something is, or was signalled since: k_poll() will return 0.
PollReady(t) ==
    /\ PollLockFree /\ Runs(t) /\ BlockedIn(t, "sleep")
    /\ t \notin obj.polling
    /\ PollGoto(t, <<"clear", OK>>, obj)

PollWoken(t) ==
    /\ Runs(t) /\ BlockedIn(t, "wait")
    /\ PollGoto(t, <<"clear", swap_retval[t]>>, obj)

\* clear_event_registrations() goes backwards through the array and releases the
\* lock after each event ...
PollClear(t, e) ==
    /\ PollLockFree /\ Runs(t) /\ BlockedIn(t, "clear")
    /\ obj.registered[e] = t /\ (e = "sem" \/ obj.registered["sem"] # t)
    /\ PollGoto(t, call[t], [obj EXCEPT !.registered[e] = NULL])

\* ... and k_poll() returns.
PollReturns(t) ==
    /\ BlockedIn(t, "clear")
    /\ \A e \in Polled : obj.registered[e] # t
    /\ Returns(t)
    /\ UNCHANGED obj

-----------------------------------------------------------------------------
\* signal_poll_event() for the first event registered with e, o being the object
\* as its owner has changed it: a pending poller is unpended, another one only
\* learns that it is no longer polling.
Signal(e, o) ==
    LET t == obj.registered[e]
    IN  IF t = NULL
        THEN /\ obj' = o
             /\ lock' = NULL
             /\ UNCHANGED <<pendVars, kind, cpus, callVars>>
        ELSE /\ obj' = [o EXCEPT !.registered[e] = NULL, !.polling = @ \ {t},
                                 !.state = @ \cup {e}]
             /\ IF Pended(t)
                THEN /\ UnpendThread(t)
                     /\ lock' = <<"poll_ready", NULL>>
                     /\ cause' = [cause EXCEPT ![t] = <<"handed", e>>]
                     /\ UNCHANGED <<kind, cpus, call, swap_data, no_wake>>
                ELSE lock' = NULL /\ UNCHANGED <<pendVars, kind, cpus, callVars>>

\* The timeout is aborted, and signal_poller() sets the return value and makes the
\* thread ready.
PollSignalReady ==
    /\ Holds("poll_ready")
    /\ timer' = timer \ {waking}
    /\ swap_retval' = [swap_retval EXCEPT ![waking] = OK]
    /\ UNCHANGED <<waitq, suspended, firing, halting, prio>>
    /\ ready_thread(waking)
    /\ waking' = NULL
    /\ lock' = NULL
    /\ UNCHANGED <<kind, cpus, obj, callVars>>

\* k_poll_signal_raise() and k_poll_signal_reset().
PollRaise == Free /\ Signal("signal", [obj EXCEPT !.signaled = TRUE])

PollReset ==
    /\ InterruptsOn /\ obj.signaled
    /\ obj' = [obj EXCEPT !.signaled = FALSE]
    /\ UNCHANGED <<pendVars, kind, cpus, lock, callVars>>

\* k_sem_give() with nobody waiting in k_sem_take() counts the unit ...
PollGiveCount ==
    /\ Free
    /\ obj' = [obj EXCEPT !.count = IF @ # SemLimit THEN @ + 1 ELSE @]
    /\ lock' = <<"sem_give", NULL>>
    /\ UNCHANGED <<pendVars, kind, cpus, callVars>>

\* Mutant: a poller that is not pending yet is not told.
PollGiveHandleOnlyPended ==
    /\ Holds("sem_give")
    /\ IF obj.registered["sem"] # NULL /\ ~Pended(obj.registered["sem"])
       THEN lock' = NULL /\ UNCHANGED <<pendVars, kind, cpus, obj, callVars>>
       ELSE Signal("sem", obj)

\* ... and z_handle_obj_poll_events() tells the poller.
PollGiveHandle == Holds("sem_give") /\ Signal("sem", obj)

PollTake ==
    /\ obj.count > 0
    /\ Immediate([obj EXCEPT !.count = @ - 1])

PollNext ==
    /\ kind = "poll"
    /\ \/ PollRaise \/ PollReset \/ PollSignalReady
       \/ PollGiveCount \/ PollGiveHandle \/ PollTake
       \/ \E t \in Threads :
            \/ \E timed \in BOOLEAN : PollStart(t, timed)
            \/ PollRegister(t) \/ PollPend(t) \/ PollReady(t) \/ PollWoken(t)
            \/ \E e \in Polled : PollClear(t, e)
            \/ PollReturns(t)
-----------------------------------------------------------------------------
\* No poller sleeps while one of its objects is available: what becomes so while
\* it is still registering is not missed.
PollNobodyWaitsInVain ==
    kind = "poll" /\ Free /\ Waiters # <<>> => \A e \in Polled : ~is_condition_met(e)

\* k_poll() returns 0 only with an event of its array marked ready.
PollAnswer ==
    kind = "poll" => \A t \in Threads :
        BlockedIn(t, "clear") /\ call[t][2] = OK => obj.state # {}
=============================================================================
