-------------------------------- MODULE Pend --------------------------------
(***************************************************************************)
(* How a thread waits and is woken (kernel/sched.c): wait queues ordered   *)
(* by priority, the thread timeout, the swap return value, suspension.     *)
(* The kernel objects (semaphores, mutexes, ...) are built from these.     *)
(*                                                                         *)
(* Every section under _sched_spinlock is one step.  A waker that holds    *)
(* the lock of its object takes a thread off the wait queue in one such    *)
(* section and makes it ready in another; `waking' is the thread between   *)
(* the two.  On one CPU interrupts stay masked from the first to the       *)
(* second, on SMP the other CPUs go on.                                    *)
(*                                                                         *)
(* A thread timeout is modelled by whether it is linked; when it expires,  *)
(* sys_clock_announce() unlinks it and only then calls z_thread_timeout(): *)
(* `firing' is the thread between the two.  A thread is in `ready' when it *)
(* is on the run queue or running; which ready thread runs is left open.   *)
(***************************************************************************)
EXTENDS Integers, Sequences, FiniteSets, SequencesExt

CONSTANTS Threads,
          WaitQs,    \* the wait queues, one per kernel object
          Prios,     \* thread priorities, a smaller number is a higher one
          SMP,       \* CONFIG_SMP
          NULL

ASSUME PendAssumption ==
    /\ NULL \notin Threads \cup WaitQs
    /\ Prios \subseteq Int
    /\ SMP \in BOOLEAN

VARIABLES waitq,        \* the threads pended on each wait queue, in order
          ready,
          suspended,    \* _THREAD_SUSPENDED
          timer,        \* the threads whose base.timeout is linked
          firing,
          waking,
          halting,      \* target of a k_thread_suspend() not yet under its lock
          swap_retval,
          prio

pendVars == <<waitq, ready, suspended, timer, firing, waking, halting,
              swap_retval, prio>>

OK == 0
EAGAIN == -11
EBUSY == -16

-----------------------------------------------------------------------------
PendedIn(wq, t) == \E q \in WaitQs : t \in ToSet(wq[q])

Pended(t) == PendedIn(waitq, t)

\* Mutant: t goes before threads of its own priority.
LowerThanOrEqual(wq, t) == {i \in DOMAIN wq : prio[wq[i]] >= prio[t]}

\* Positions of wq whose thread has a lower priority than t.
LowerThan(wq, t) == {i \in DOMAIN wq : prio[wq[i]] > prio[t]}

\* z_priq_dumb_add(): before the first thread of lower priority.
z_priq_wait_add(wq, t) ==
    IF LowerThan(wq, t) = {} THEN Append(wq, t)
    ELSE InsertAt(wq, CHOOSE i \in LowerThan(wq, t) :
                          \A j \in LowerThan(wq, t) : i <= j, t)

z_priq_wait_remove(wq, t) ==
    IF t \in ToSet(wq) THEN RemoveAt(wq, CHOOSE i \in DOMAIN wq : wq[i] = t) ELSE wq

\* ready_thread(), once the other variables have their new values.
ready_thread(t) ==
    ready' = IF t \notin suspended' \cup timer' /\ ~PendedIn(waitq', t)
             THEN ready \cup {t} ELSE ready

\* Mutant: the timeout is armed for K_FOREVER, too.
z_pend_currAlwaysTimed(t, q, timed) ==
    /\ waitq' = [waitq EXCEPT ![q] = z_priq_wait_add(@, t)]
    /\ ready' = ready \ {t}
    /\ timer' = timer \cup {t}
    /\ swap_retval' = [swap_retval EXCEPT ![t] = EAGAIN]
    /\ UNCHANGED <<suspended, firing, waking, halting, prio>>

\* z_pend_curr(): t leaves the processor; z_swap() presets -EAGAIN.
z_pend_curr(t, q, timed) ==
    /\ waitq' = [waitq EXCEPT ![q] = z_priq_wait_add(@, t)]
    /\ ready' = ready \ {t}
    /\ timer' = IF timed THEN timer \cup {t} ELSE timer
    /\ swap_retval' = [swap_retval EXCEPT ![t] = EAGAIN]
    /\ UNCHANGED <<suspended, firing, waking, halting, prio>>

z_unpend_first_thread(q) ==
    /\ waitq[q] # <<>>
    /\ waking' = Head(waitq[q])
    /\ waitq' = [waitq EXCEPT ![q] = Tail(@)]
    /\ timer' = timer \ {Head(waitq[q])}
    /\ UNCHANGED <<ready, suspended, firing, halting, swap_retval, prio>>

\* Mutant: the return value is never set.
z_ready_threadNoRetval(retval) ==
    /\ UNCHANGED <<swap_retval, waitq, suspended, timer, firing, halting, prio>>
    /\ ready_thread(waking)
    /\ waking' = NULL

\* arch_thread_return_value_set() and z_ready_thread() on the unpended thread.
z_ready_thread(retval) ==
    /\ swap_retval' = [swap_retval EXCEPT ![waking] = retval]
    /\ UNCHANGED <<waitq, suspended, timer, firing, halting, prio>>
    /\ ready_thread(waking)
    /\ waking' = NULL

-----------------------------------------------------------------------------
\* sys_clock_announce() takes the expired timeout of t off its list.
ThreadTimeoutExpires(t) ==
    /\ firing = NULL
    /\ t \in timer
    /\ firing' = t
    /\ timer' = timer \ {t}
    /\ UNCHANGED <<waitq, ready, suspended, waking, halting, swap_retval, prio>>

\* Mutant: a thread that is still pended is not unpended.
z_thread_timeoutNoUnpend ==
    /\ firing # NULL
    /\ suspended' = suspended \ {firing}
    /\ UNCHANGED <<waitq, timer, waking, halting, swap_retval, prio>>
    /\ ready_thread(firing)
    /\ firing' = NULL

\* z_sched_wake_thread(thread, true): unpend, resume and ready the thread,
\* whatever it is waiting for by now.
z_thread_timeout ==
    /\ firing # NULL
    /\ waitq' = [q \in WaitQs |-> z_priq_wait_remove(waitq[q], firing)]
    /\ suspended' = suspended \ {firing}
    /\ UNCHANGED <<timer, waking, halting, swap_retval, prio>>
    /\ ready_thread(firing)
    /\ firing' = NULL

\* k_thread_suspend() cancels the timeout before it takes the scheduler lock ...
SuspendAbortTimeout(t) ==
    /\ halting = NULL
    /\ halting' = t
    /\ timer' = timer \ {t}
    /\ UNCHANGED <<waitq, ready, suspended, firing, waking, swap_retval, prio>>

\* ... and then halts the thread, pended or not.
z_thread_halt ==
    /\ halting # NULL
    /\ suspended' = suspended \cup {halting}
    /\ ready' = ready \ {halting}
    /\ halting' = NULL
    /\ UNCHANGED <<waitq, timer, firing, waking, swap_retval, prio>>

\* Mutant: the resumed thread is not made ready.
k_thread_resumeNoReady(t) ==
    /\ t \in suspended
    /\ suspended' = suspended \ {t}
    /\ UNCHANGED <<waitq, ready, timer, firing, waking, halting, swap_retval, prio>>

k_thread_resume(t) ==
    /\ t \in suspended
    /\ suspended' = suspended \ {t}
    /\ UNCHANGED <<waitq, timer, firing, waking, halting, swap_retval, prio>>
    /\ ready_thread(t)

\* z_thread_prio_set() moves a ready thread within the run queue and leaves a
\* pended one where it is in its wait queue.
z_thread_prio_set(t, p) ==
    /\ prio' = [prio EXCEPT ![t] = p]
    /\ UNCHANGED <<waitq, ready, suspended, timer, firing, waking, halting, swap_retval>>

PendInit ==
    /\ waitq = [q \in WaitQs |-> <<>>]
    /\ ready = Threads
    /\ suspended = {} /\ timer = {}
    /\ firing = NULL /\ waking = NULL /\ halting = NULL
    /\ swap_retval = [t \in Threads |-> EAGAIN]
    /\ prio \in [Threads -> Prios]

PendTypeOK ==
    /\ waitq \in [WaitQs -> Seq(Threads)]
    /\ ready \subseteq Threads /\ suspended \subseteq Threads /\ timer \subseteq Threads
    /\ firing \in Threads \cup {NULL}
    /\ waking \in Threads \cup {NULL}
    /\ halting \in Threads \cup {NULL}
    /\ swap_retval \in [Threads -> {OK, EAGAIN}]
    /\ prio \in [Threads -> Prios]
=============================================================================
