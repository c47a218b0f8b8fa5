-------------------------------- MODULE Obj --------------------------------
(***************************************************************************)
(* What the kernel objects have in common: message queues, queues, stacks, *)
(* memory slabs, events, timers, the futex, polling, pipes, heaps and      *)
(* mailboxes.                                                              *)
(* The modules that extend this one are about one object each; Objects     *)
(* lets the application choose which object it uses, and on how many CPUs. *)
(*                                                                         *)
(* `obj' is the C structure of the object in use, `lock' the step a call   *)
(* that holds its spinlock has reached.  Calls that do not wait may come   *)
(* from threads and interrupt handlers; only the threads in Threads wait.  *)
(***************************************************************************)
EXTENDS Pend

CONSTANTS Items,   \* the data that is passed around
          NumCPUs  \* the numbers of CPUs the kernel is run on

VARIABLES kind,       \* the object the application uses
          cpus,
          obj,
          lock,       \* NULL, or <<what its holder goes on to do, with what>>
          call,       \* NULL, or <<the call a thread is blocked in, its argument>>
          swap_data,  \* thread->base.swap_data, with what it points to
          no_wake,    \* the threads whose no_wake_on_timeout is set
          cause       \* ghost: <<what ended the wait of a thread, with what>>

callVars == <<call, swap_data, no_wake, cause>>
vars == <<pendVars, kind, cpus, obj, lock, callVars>>

ASSUME ObjAssumption ==
    /\ NULL \notin Items
    /\ SMP                       \* cpus tells whether there is a second CPU
    /\ Cardinality(WaitQs) = 2   \* of one object; most objects have only one

wait_q == CHOOSE q \in WaitQs : TRUE
Waiters == waitq[wait_q]
ENOMSG == -35

\* On one CPU a spinlock masks interrupts and threads wait for the timer
\* interrupt to end; with more of them only the lock itself excludes.
InterruptsOn == cpus > 1 \/ lock = NULL
ThreadsRun == cpus > 1 \/ (lock = NULL /\ firing = NULL)
Runs(t) == t \in ready /\ ThreadsRun

Holds(step) == lock # NULL /\ lock[1] = step
Free == lock = NULL
BlockedIn(t, c) == call[t] # NULL /\ call[t][1] = c

-----------------------------------------------------------------------------
\* Thread t blocks in call c with its swap_data pointing to d.
Pend(t, c, d, timed) ==
    /\ z_pend_curr(t, wait_q, timed)
    /\ call' = [call EXCEPT ![t] = c]
    /\ swap_data' = [swap_data EXCEPT ![t] = d]
    /\ UNCHANGED <<kind, cpus, obj, lock, no_wake, cause>>

\* A call holding the lock takes the first waiter off the wait queue for the
\* reason c and goes on with `step'.
UnpendFirst(step, c) ==
    /\ z_unpend_first_thread(wait_q)
    /\ lock' = step
    /\ cause' = [cause EXCEPT ![Head(Waiters)] = c]
    /\ UNCHANGED <<kind, cpus, call, swap_data, no_wake>>

\* z_thread_return_value_set_with_data() and z_ready_thread().
ReadyWithData(retval, d) ==
    /\ waking # NULL
    /\ z_ready_thread(retval)
    /\ swap_data' = [swap_data EXCEPT ![waking] = d]
    /\ UNCHANGED <<kind, cpus, call, no_wake, cause>>

\* z_unpend_thread(t): t is taken off its wait queue, if it has not timed out ...
UnpendThread(t) ==
    /\ waking' = t
    /\ waitq' = [q \in WaitQs |-> z_priq_wait_remove(waitq[q], t)]
    /\ UNCHANGED <<ready, suspended, timer, firing, halting, swap_retval, prio>>

\* ... and, in another section, its timeout is aborted; z_ready_thread(t) follows,
\* with no return value set.
ReadyUnpended ==
    /\ timer' = timer \ {waking}
    /\ UNCHANGED <<waitq, suspended, firing, halting, swap_retval, prio>>
    /\ ready_thread(waking)
    /\ waking' = NULL

\* A call that finds what it needs, or nobody to wake: only the object changes.
Immediate(o) ==
    /\ lock = NULL
    /\ obj' = o
    /\ UNCHANGED <<pendVars, kind, cpus, lock, callVars>>

\* z_swap() returns in t, and the call with it unless it goes on.
Returns(t) ==
    /\ Runs(t)
    /\ call' = [call EXCEPT ![t] = NULL]
    /\ swap_data' = [swap_data EXCEPT ![t] = NULL]
    /\ swap_retval' = [swap_retval EXCEPT ![t] = EAGAIN]
    /\ cause' = [cause EXCEPT ![t] = NULL]
    /\ UNCHANGED <<waitq, ready, suspended, timer, firing, waking, halting, prio,
                   kind, cpus, lock, no_wake>>

\* The timeout of a waiting thread expires ...
Expire(t) ==
    /\ InterruptsOn
    /\ ThreadTimeoutExpires(t)
    /\ UNCHANGED <<kind, cpus, obj, lock, callVars>>

\* ... and z_sched_wake_thread(thread, true) wakes it, unless the poster of an
\* event has it on its list already.
TimeoutHandler ==
    /\ InterruptsOn
    /\ firing # NULL
    /\ no_wake' = no_wake \ {firing}
    /\ \/ /\ firing \notin no_wake
          /\ z_thread_timeout
          /\ cause' = [cause EXCEPT ![firing] = 
                           IF Pended(firing) THEN <<"timeout", NULL>> ELSE @]
       \/ /\ firing \in no_wake
          /\ firing' = NULL
          /\ UNCHANGED <<waitq, ready, suspended, timer, waking, halting, swap_retval,
                         prio, cause>>
    /\ UNCHANGED <<kind, cpus, obj, lock, call, swap_data>>

ObjInit ==
    /\ PendInit
    /\ cpus \in NumCPUs
    /\ lock = NULL
    /\ call = [t \in Threads |-> NULL]
    /\ swap_data = [t \in Threads |-> NULL]
    /\ no_wake = {}
    /\ cause = [t \in Threads |-> NULL]
=============================================================================
