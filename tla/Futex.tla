------------------------------- MODULE Futex -------------------------------
(***************************************************************************)
(* kernel/futex.c and its client lib/os/sem.c (CONFIG_USERSPACE): a        *)
(* semaphore whose count lives in user memory.  A count of SYS_SEM_        *)
(* CONTENDED (-1) tells sys_sem_give() that somebody may be waiting.       *)
(* k_futex_wait() compares the count before it takes the lock under which  *)
(* it pends, so a give may come between the two.                           *)
(***************************************************************************)
EXTENDS Obj

CONSTANT SysSemLimit

CONTENDED == -1

\* `waker' is a give that has changed the count and not called k_futex_wake() yet;
\* `late' is a ghost: the threads whose comparison was overtaken by a give.
FutexInit ==
    /\ kind = "futex"
    /\ obj = [val |-> 0, waker |-> FALSE, late |-> {}]

At(t, pc) == Runs(t) /\ BlockedIn(t, pc)

\* Thread t goes on to pc, or leaves sys_sem_take() if that is NULL.
Goto(t, pc, o) ==
    /\ call' = [call EXCEPT ![t] = IF pc = NULL THEN NULL ELSE <<pc, NULL>>]
    /\ obj' = o
    /\ UNCHANGED <<pendVars, kind, cpus, lock, swap_data, no_wake, cause>>

\* sys_sem_take() begins, or loops, with bounded_dec(): a unit, or the count
\* becomes (or stays) contended.
SysSemTakeDec(t) ==
    /\ Runs(t) /\ (call[t] = NULL \/ BlockedIn(t, "loop"))
    /\ \/ obj.val > 0 /\ Goto(t, NULL, [obj EXCEPT !.val = @ - 1])
       \/ obj.val <= 0 /\ Goto(t, "compare", [obj EXCEPT !.val = CONTENDED])

\* k_futex_wait(): the value is compared ...
FutexCompare(t) ==
    /\ At(t, "compare")
    /\ Goto(t, IF obj.val = CONTENDED THEN "pend" ELSE "loop", obj)

\* ... and only then is the lock taken and the thread pended.
FutexPend(t, timed) ==
    /\ Free /\ At(t, "pend")
    /\ Pend(t, <<"wait", NULL>>, NULL, timed)

\* Woken, the thread tries again; timed out, it gives up.
FutexReturns(t) ==
    /\ At(t, "wait")
    /\ call' = [call EXCEPT ![t] = IF swap_retval[t] = OK THEN <<"loop", NULL>> ELSE NULL]
    /\ swap_retval' = [swap_retval EXCEPT ![t] = EAGAIN]
    /\ cause' = [cause EXCEPT ![t] = NULL]
    /\ obj' = [obj EXCEPT !.late = @ \ {t}]
    /\ UNCHANGED <<waitq, ready, suspended, timer, firing, waking, halting, prio, kind,
                   cpus, lock, swap_data, no_wake>>

\* sys_sem_give(): bounded_inc(), refused at the limit.
SysSemGiveInc ==
    /\ ~obj.waker
    /\ obj.val < SysSemLimit
    /\ obj' = [obj EXCEPT
                !.val = (IF @ < 0 THEN 0 ELSE @) + 1,
                !.waker = obj.val < 0,
                !.late = IF obj.val < 0
                         THEN @ \cup {t \in Threads : BlockedIn(t, "pend")} ELSE @]
    /\ InterruptsOn
    /\ UNCHANGED <<pendVars, kind, cpus, lock, callVars>>

\* k_futex_wake(wake_all) for a contended semaphore.
FutexWakeUnpend ==
    /\ (Free /\ obj.waker) \/ (Holds("futex_wake") /\ waking = NULL)
    /\ UnpendFirst(<<"futex_wake", NULL>>, <<"handed", NULL>>)
    /\ obj' = [obj EXCEPT !.waker = FALSE]

FutexWakeReady ==
    /\ Holds("futex_wake")
    /\ ReadyWithData(OK, NULL)
    /\ UNCHANGED <<lock, obj>>

FutexWakeDone ==
    /\ (Free /\ obj.waker) \/ (Holds("futex_wake") /\ waking = NULL)
    /\ Waiters = <<>>
    /\ lock' = NULL
    /\ obj' = [obj EXCEPT !.waker = FALSE]
    /\ UNCHANGED <<pendVars, kind, cpus, callVars>>

FutexNext ==
    /\ kind = "futex"
    /\ \/ SysSemGiveInc
       \/ FutexWakeUnpend \/ FutexWakeReady \/ FutexWakeDone
       \/ \E t \in Threads :
            \/ SysSemTakeDec(t) \/ FutexCompare(t) \/ FutexReturns(t)
            \/ \E timed \in BOOLEAN : FutexPend(t, timed)
-----------------------------------------------------------------------------
\* A unit never stays beside a thread that waits for it, unless the give came
\* between the comparison and the pend of that thread.
FutexNobodyWaitsInVain ==
    kind = "futex" /\ Free /\ ~obj.waker /\ obj.val # CONTENDED =>
        ToSet(Waiters) \subseteq obj.late
=============================================================================
