-------------------------------- MODULE Sem --------------------------------
(***************************************************************************)
(* kernel/sem.c: counting semaphores.  Each semaphore is identified with   *)
(* its wait queue.  One system-wide spinlock covers them all; `lock' tells *)
(* which call holds it across several scheduler-lock sections.             *)
(*                                                                         *)
(* k_sem_give(), k_sem_reset() and a k_sem_take() that does not wait may   *)
(* come from interrupt handlers, also from one nested in the timer         *)
(* interrupt between the expiry of a timeout and its handler.              *)
(* CONFIG_POLL is not set, so handle_poll_events() does nothing.           *)
(***************************************************************************)
EXTENDS Pend

CONSTANTS Limit,  \* limit of every semaphore
          Calls   \* the calls the application makes besides give and take

ASSUME SemAssumption ==
    /\ Limit \in Nat \ {0}
    /\ NULL \notin {"give", "reset"} \X WaitQs
    /\ Calls \subseteq {"reset", "suspend", "set_prio", "set_prio_pended"}

VARIABLES count,
          lock,    \* NULL, or <<"give" or "reset", semaphore>>
          call,    \* the semaphore whose k_sem_take() a thread is blocked in
          timed,   \* the blocked threads whose wait is not K_FOREVER
          cause,   \* ghost: what ended the wait of a blocked thread
          arrival  \* ghost: the pended threads in the order they came

semVars == <<count, lock, call, timed, cause, arrival>>
vars == <<pendVars, semVars>>

Sems == WaitQs
Causes == {"none", "token", "reset", "timeout"}

\* On one CPU a spinlock masks interrupts, and threads wait for the timer
\* interrupt to end; on SMP only the lock itself excludes.
InterruptsOn == SMP \/ lock = NULL
ThreadsRun == SMP \/ (lock = NULL /\ firing = NULL)
Runs(t) == t \in ready /\ ThreadsRun

-----------------------------------------------------------------------------
\* k_sem_take() by a thread or an interrupt handler that finds a unit.  One that
\* finds none and does not wait returns -EBUSY and changes nothing.
TakeNow(s) ==
    /\ lock = NULL
    /\ count[s] > 0
    /\ count' = [count EXCEPT ![s] = @ - 1]
    /\ UNCHANGED <<pendVars, lock, call, timed, cause, arrival>>

TakePend(t, s, finite) ==
    /\ lock = NULL /\ Runs(t) /\ call[t] = NULL
    /\ count[s] = 0
    /\ z_pend_curr(t, s, finite)
    /\ call' = [call EXCEPT ![t] = s]
    /\ timed' = IF finite THEN timed \cup {t} ELSE timed
    /\ arrival' = Append(arrival, t)
    /\ UNCHANGED <<count, lock, cause>>

\* z_swap() returns in the thread that had pended.  What the call leaves in
\* swap_retval is dead: the next z_swap() presets it.
TakeReturns(t) ==
    /\ Runs(t) /\ call[t] # NULL
    /\ call' = [call EXCEPT ![t] = NULL]
    /\ swap_retval' = [swap_retval EXCEPT ![t] = EAGAIN]
    /\ timed' = timed \ {t}
    /\ cause' = [cause EXCEPT ![t] = "none"]
    /\ UNCHANGED <<waitq, ready, suspended, timer, firing, waking, halting, prio,
                   count, lock, arrival>>

\* Mutant: a unit is counted although a thread waits.
GiveCountAlways(s) ==
    /\ lock = NULL
    /\ count' = [count EXCEPT ![s] = IF @ # Limit THEN @ + 1 ELSE @]
    /\ UNCHANGED <<pendVars, lock, call, timed, cause, arrival>>

\* k_sem_give() with nobody waiting counts the unit, up to the limit.
GiveCount(s) ==
    /\ lock = NULL
    /\ waitq[s] = <<>>
    /\ count' = [count EXCEPT ![s] = IF @ # Limit THEN @ + 1 ELSE @]
    /\ UNCHANGED <<pendVars, lock, call, timed, cause, arrival>>

\* The first waiter of s is taken off its queue for the reason c.
Unpend(s, c) ==
    /\ z_unpend_first_thread(s)
    /\ cause' = [cause EXCEPT ![Head(waitq[s])] = c]
    /\ arrival' = z_priq_wait_remove(arrival, Head(waitq[s]))
    /\ UNCHANGED <<count, call, timed>>

\* k_sem_give() hands the unit to the first waiter ...
GiveUnpend(s) ==
    /\ lock = NULL
    /\ Unpend(s, "token")
    /\ lock' = <<"give", s>>

\* ... and makes it ready with return value 0.
GiveReady(s) ==
    /\ lock = <<"give", s>>
    /\ z_ready_thread(OK)
    /\ lock' = NULL
    /\ UNCHANGED <<count, call, timed, cause, arrival>>

\* k_sem_reset() holds the lock while it wakes every waiter with -EAGAIN.
Resetting(s) == lock \in {NULL, <<"reset", s>>} /\ waking = NULL

ResetUnpend(s) ==
    /\ "reset" \in Calls /\ Resetting(s)
    /\ Unpend(s, "reset")
    /\ lock' = <<"reset", s>>

ResetReady(s) ==
    /\ lock = <<"reset", s>> /\ waking # NULL
    /\ z_ready_thread(EAGAIN)
    /\ UNCHANGED semVars

ResetDone(s) ==
    /\ "reset" \in Calls /\ Resetting(s)
    /\ waitq[s] = <<>>
    /\ count' = [count EXCEPT ![s] = 0]
    /\ lock' = NULL
    /\ UNCHANGED <<pendVars, call, timed, cause, arrival>>

-----------------------------------------------------------------------------
\* Time and the scheduler calls of the application.
Expire(t) ==
    /\ InterruptsOn
    /\ ThreadTimeoutExpires(t)
    /\ UNCHANGED semVars

TimeoutHandler ==
    /\ InterruptsOn
    /\ z_thread_timeout
    /\ cause' = [cause EXCEPT ![firing] = IF Pended(firing) THEN "timeout" ELSE @]
    /\ arrival' = z_priq_wait_remove(arrival, firing)
    /\ UNCHANGED <<count, lock, call, timed>>

Suspend(t) ==
    /\ "suspend" \in Calls /\ ThreadsRun
    /\ SuspendAbortTimeout(t) \/ (halting = t /\ z_thread_halt)
    /\ UNCHANGED semVars

Resume(t) ==
    /\ InterruptsOn
    /\ k_thread_resume(t)
    /\ UNCHANGED semVars

SetPriority(t, p) ==
    /\ "set_prio" \in Calls /\ ThreadsRun
    /\ Pended(t) => "set_prio_pended" \in Calls
    /\ z_thread_prio_set(t, p)
    /\ UNCHANGED semVars

Init ==
    /\ PendInit
    /\ count \in [Sems -> 0..Limit]
    /\ lock = NULL
    /\ call = [t \in Threads |-> NULL]
    /\ timed = {}
    /\ cause = [t \in Threads |-> "none"]
    /\ arrival = <<>>

Give(s) == GiveCount(s) \/ GiveUnpend(s) \/ GiveReady(s)
Reset(s) == ResetUnpend(s) \/ ResetReady(s) \/ ResetDone(s)

Next ==
    \/ \E s \in Sems : TakeNow(s) \/ Give(s) \/ Reset(s)
    \/ \E t \in Threads :
        \/ \E s \in Sems, finite \in BOOLEAN : TakePend(t, s, finite)
        \/ TakeReturns(t)
        \/ Expire(t) \/ Suspend(t) \/ Resume(t)
        \/ \E p \in Prios : SetPriority(t, p)
    \/ TimeoutHandler

Spec == Init /\ [][Next]_vars
-----------------------------------------------------------------------------
\* The state stays in range; the count of a semaphore never exceeds its limit.
TypeOK ==
    /\ PendTypeOK
    /\ count \in [Sems -> 0..Limit]
    /\ lock \in {NULL} \cup ({"give", "reset"} \X Sems)
    /\ call \in [Threads -> Sems \cup {NULL}]
    /\ timed \subseteq Threads
    /\ cause \in [Threads -> Causes]
    /\ arrival \in Seq(Threads)

\* A semaphore with units left has no waiter: no interleaving of gives, takes,
\* resets, expiring timeouts and suspensions loses a wakeup.
NoLostWakeup == \A s \in Sems : count[s] > 0 => waitq[s] = <<>>

\* A k_sem_take() that has waited returns 0 exactly when a give was spent on it:
\* no unit vanishes in a call that reports a timeout, and none is made up.
SuccessIffToken ==
    [][\A t \in Threads : call[t] # NULL /\ call'[t] = NULL
            => (swap_retval[t] = OK <=> cause[t] = "token")]_vars

\* Only a reset ends a K_FOREVER wait with -EAGAIN, never a timeout, such as the
\* one of an earlier wait of the thread whose handler was still to run.
ForeverIsForever == \A t \in Threads : cause[t] = "timeout" => t \in timed

\* A thread taken off its wait queue is ready, is being made ready by the call
\* that holds the lock, or is suspended; it is never left in no queue at all.
NeverStranded ==
    \A t \in Threads : ~Pended(t) => t \in ready \cup suspended \cup {waking}

\* A give goes to the highest-priority thread that has waited longest: every wait
\* queue is ordered by priority and, within one, by arrival.
LongestWaitingFirst ==
    \A s \in Sems : \A i, j \in DOMAIN waitq[s] : i < j =>
        \/ prio[waitq[s][i]] < prio[waitq[s][j]]
        \/ /\ prio[waitq[s][i]] = prio[waitq[s][j]]
           /\ \E k, l \in DOMAIN arrival :
                k < l /\ arrival[k] = waitq[s][i] /\ arrival[l] = waitq[s][j]
=============================================================================
