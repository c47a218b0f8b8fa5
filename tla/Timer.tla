------------------------------- MODULE Timer -------------------------------
(***************************************************************************)
(* kernel/timer.c: k_timer.  When its timeout expires the timer interrupt  *)
(* unlinks it, calls z_timer_expiration_handler() with interrupts enabled, *)
(* and this calls the application's expiry function without the lock of    *)
(* the timers.  The timer may be started or stopped at each of these       *)
(* points, by the expiry function too.  k_timer_stop() takes no lock.      *)
(*                                                                         *)
(* `handler' and `stop' tell how far the expiration handler and a call of  *)
(* k_timer_stop() are: <<next step, thread to wake>>.  When the timeout    *)
(* expires is left open, see Timeout.  Only one thread at a time           *)
(* synchronizes with the timer, as its documentation asks.                 *)
(***************************************************************************)
EXTENDS Obj

CONSTANT MaxStatus  \* bound: the timer does not expire with a higher status

\* `stopped' and `missed' are ghosts: the timer was stopped, not while an expiry of
\* it was still to be handled, and has not been started since; and a stop looked for
\* a waiter after the thread had found the timer running and before it waited.
TimerInit ==
    /\ kind = "timer"
    /\ obj = [linked |-> FALSE, periodic |-> FALSE, status |-> 0,
              handler |-> NULL, stop |-> NULL, stop_isr |-> FALSE, stopped |-> FALSE,
              missed |-> FALSE]

HandlerAt(step) == obj.handler # NULL /\ obj.handler[1] = step
StopAt(step) == obj.stop # NULL /\ obj.stop[1] = step

\* On one CPU the handler is left only for a nested interrupt, which returns
\* before it goes on; a thread waits for both.
HandlerRuns == cpus > 1 \/ ~(obj.stop # NULL /\ obj.stop_isr)
StopRuns == cpus > 1 \/ obj.stop_isr \/ obj.handler = NULL
ThreadMayCall(t) == Runs(t) /\ (cpus > 1 \/ obj.handler = NULL) /\ HandlerRuns

SetObj(o) == obj' = o /\ UNCHANGED <<pendVars, kind, cpus, lock, callVars>>

\* z_ready_thread(t) for a thread that was unpended before.
Ready(t, o) ==
    /\ obj' = o
    /\ UNCHANGED <<waitq, suspended, timer, firing, waking, halting, swap_retval, prio,
                   kind, cpus, lock, callVars>>
    /\ ready_thread(t)

-----------------------------------------------------------------------------
\* k_timer_start() with a duration other than K_FOREVER.
TimerStart(periodic) ==
    Immediate([obj EXCEPT !.linked = TRUE, !.periodic = periodic, !.status = 0,
                          !.stopped = FALSE, !.missed = FALSE])

\* sys_clock_announce() unlinks the timeout.
TimerExpire ==
    /\ InterruptsOn /\ HandlerRuns
    /\ obj.linked /\ obj.handler = NULL
    /\ obj.status < MaxStatus
    /\ SetObj([obj EXCEPT !.linked = FALSE, !.handler = <<"expired", NULL>>])

\* z_timer_expiration_handler() up to the call of the expiry function: nothing if
\* the timer was restarted meanwhile, else a periodic timer is linked again.
TimerHandler ==
    /\ HandlerAt("expired") /\ HandlerRuns
    /\ IF obj.linked THEN Immediate([obj EXCEPT !.handler = NULL])
       ELSE Immediate([obj EXCEPT !.linked = obj.periodic, !.status = @ + 1,
                                  !.handler = <<"expiry_fn", NULL>>])

\* Mutant: a periodic timer is restarted after the expiry function.
TimerHandlerHeadRestarts ==
    /\ HandlerAt("expiry_fn") /\ HandlerRuns
    /\ Free
    /\ obj' = [obj EXCEPT !.handler = IF Waiters = <<>> THEN NULL
                                      ELSE <<"unpend", Head(Waiters)>>,
                          !.linked = obj.periodic]
    /\ lock' = IF Waiters = <<>> THEN NULL ELSE <<"timer_handler", NULL>>
    /\ UNCHANGED <<pendVars, kind, cpus, callVars>>

\* The expiry function has returned; the first waiter, if any, ...
TimerHandlerHead ==
    /\ HandlerAt("expiry_fn") /\ HandlerRuns
    /\ Free
    /\ obj' = [obj EXCEPT !.handler = IF Waiters = <<>> THEN NULL
                                      ELSE <<"unpend", Head(Waiters)>>]
    /\ lock' = IF Waiters = <<>> THEN NULL ELSE <<"timer_handler", NULL>>
    /\ UNCHANGED <<pendVars, kind, cpus, callVars>>

\* ... is taken off the wait queue before the lock is released ...
TimerHandlerUnpend ==
    /\ HandlerAt("unpend")
    /\ waitq' = [waitq EXCEPT ![wait_q] = z_priq_wait_remove(@, obj.handler[2])]
    /\ swap_retval' = [swap_retval EXCEPT ![obj.handler[2]] = OK]
    /\ obj' = [obj EXCEPT !.handler = <<"ready", obj.handler[2]>>]
    /\ lock' = NULL
    /\ UNCHANGED <<ready, suspended, timer, firing, waking, halting, prio, kind, cpus,
                   callVars>>

\* ... and made ready after.
TimerHandlerReady ==
    /\ HandlerAt("ready") /\ HandlerRuns
    /\ Ready(obj.handler[2], [obj EXCEPT !.handler = NULL])

-----------------------------------------------------------------------------
\* k_timer_stop() of a timer that is linked, by a thread or an interrupt handler;
\* of another one it does nothing.
TimerStopAbort(isr) ==
    /\ obj.linked /\ obj.stop = NULL
    /\ InterruptsOn
    /\ isr \/ cpus > 1 \/ obj.handler = NULL
    /\ SetObj([obj EXCEPT !.linked = FALSE, !.stop = <<"unpend", NULL>>,
                          !.stop_isr = isr, !.stopped = ~HandlerAt("expired")])

\* After the stop function one waiter is taken off the wait queue ...
TimerStopUnpend ==
    /\ StopAt("unpend") /\ StopRuns /\ InterruptsOn
    /\ waitq' = [waitq EXCEPT ![wait_q] = IF @ = <<>> THEN @ ELSE Tail(@)]
    /\ obj' = [obj EXCEPT !.stop = IF Waiters = <<>> THEN NULL
                                   ELSE <<"ready", Head(Waiters)>>,
                          !.missed = @ \/ Holds("timer_sync")]
    /\ UNCHANGED <<ready, suspended, timer, firing, waking, halting, swap_retval, prio,
                   kind, cpus, lock, callVars>>

\* ... and made ready.
TimerStopReady ==
    /\ StopAt("ready") /\ StopRuns /\ InterruptsOn
    /\ Ready(obj.stop[2], [obj EXCEPT !.stop = NULL])

\* k_timer_status_get(), and k_timer_status_sync() when it need not wait.
TimerStatusGet == Immediate([obj EXCEPT !.status = 0])

\* k_timer_status_sync() finds the timer running and not expired ...
TimerSyncCheck(t) ==
    /\ Free /\ ThreadMayCall(t)
    /\ call = [u \in Threads |-> NULL]
    /\ obj.status = 0 /\ obj.linked
    /\ lock' = <<"timer_sync", t>>
    /\ UNCHANGED <<pendVars, kind, cpus, obj, callVars>>

\* ... and waits.
TimerSyncPend ==
    /\ Holds("timer_sync")
    /\ z_pend_curr(lock[2], wait_q, FALSE)
    /\ call' = [call EXCEPT ![lock[2]] = <<"sync", NULL>>]
    /\ lock' = NULL
    /\ UNCHANGED <<kind, cpus, obj, swap_data, no_wake, cause>>

TimerSyncReturns(t) ==
    /\ Free /\ ThreadMayCall(t)
    /\ BlockedIn(t, "sync")
    /\ Returns(t)
    /\ obj' = [obj EXCEPT !.status = 0]

TimerHandlerStep ==
    TimerHandler \/ TimerHandlerHead \/ TimerHandlerUnpend \/ TimerHandlerReady

TimerStopStep == TimerStopUnpend \/ TimerStopReady

TimerNext ==
    /\ kind = "timer"
    /\ \/ \E b \in BOOLEAN : TimerStart(b) \/ TimerStopAbort(b)
       \/ TimerExpire \/ TimerHandlerStep \/ TimerStopStep
       \/ TimerStatusGet
       \/ TimerSyncPend
       \/ \E t \in Threads : TimerSyncCheck(t) \/ TimerSyncReturns(t)
-----------------------------------------------------------------------------
\* A thread waits only for a timer that will wake it: one that runs, whose expiry is
\* being handled, or that is being stopped; unless another CPU stopped it between
\* the thread's look at the timer and its wait, for k_timer_stop() takes no lock.
TimerNobodyWaitsInVain ==
    kind = "timer" /\ Waiters # <<>> =>
        obj.linked \/ obj.handler # NULL \/ StopAt("unpend") \/ obj.missed

\* Once stopped, a timer stays so until it is started again, even if it was
\* stopped by its own expiry function.
TimerStaysStopped ==
    kind = "timer" /\ obj.stopped => ~obj.linked /\ ~HandlerAt("expired")

\* The threads the handler and a stop have taken off the wait queue.
TimerWakes(t) ==
    /\ kind = "timer"
    /\ \/ HandlerAt("ready") /\ obj.handler[2] = t
       \/ StopAt("ready") /\ obj.stop[2] = t
=============================================================================
