------------------------------- MODULE Mutex -------------------------------
(***************************************************************************)
(* kernel/mutex.c: reentrant mutexes with priority inheritance.  A mutex   *)
(* is identified with its wait queue.  One system-wide spinlock covers all *)
(* of them; `lock' is the call that holds it across several sections under *)
(* the scheduler lock.  Only threads call these functions.                 *)
(*                                                                         *)
(* k_thread_priority_set() on a thread that takes part in priority         *)
(* inheritance is left out: its documentation excludes it.                 *)
(***************************************************************************)
EXTENDS Pend

CONSTANTS Ceiling,  \* CONFIG_PRIORITY_CEILING
          MaxHeld,  \* bound on the locks, nested ones included, that a thread holds
          CondVars, \* the wait queues that belong to condition variables
          Habits    \* what the application does besides locking and unlocking

\* "nested": a thread that holds a mutex may lock another one; "any_order": it
\* may unlock them in another order than the reverse of locking.
ASSUME MutexAssumption ==
    /\ Ceiling \in Int
    /\ MaxHeld \in Nat
    /\ CondVars \subseteq WaitQs
    /\ NULL \notin {"lock", "unlock"} \X WaitQs \X Threads
    /\ Habits \subseteq {"nested", "any_order", "suspend"}

VARIABLES owner, lock_count, owner_orig_prio,
          lock,   \* NULL, or <<"lock" or "unlock", mutex, caller>>
          call,   \* the mutex whose k_mutex_lock() a thread is blocked in
          late,   \* the callers whose z_pend_curr() has returned -EAGAIN
          held,   \* ghost: the locks a thread knows it holds, oldest first
          base    \* ghost: the priorities the threads were created with, or 0 once
                  \* a thread has unlocked in another order than that of nesting

mutexVars == <<owner, lock_count, owner_orig_prio, lock, call, late, held, base>>
vars == <<pendVars, mutexVars>>

Mutexes == WaitQs \ CondVars

\* On one CPU a spinlock masks interrupts, and threads wait for the timer
\* interrupt to end; on SMP only the lock itself excludes.
InterruptsOn == SMP \/ lock = NULL
ThreadsRun == SMP \/ (lock = NULL /\ firing = NULL)
Runs(t) == t \in ready /\ ThreadsRun
MayCall(t) == Runs(t) /\ call[t] = NULL /\ \A m \in Mutexes : lock # <<"unlock", m, t>>

Min2(a, b) == IF a < b THEN a ELSE b
Max2(a, b) == IF a > b THEN a ELSE b

\* A smaller number is a higher priority, and none is inherited above the ceiling.
new_prio_for_inheritance(target, limit) == Max2(Min2(target, limit), Ceiling)

\* Mutant: the waiters that are left no longer count.
prio_after_timeoutAlone(m) == owner_orig_prio[m]

\* The priority of the owner once a waiter of m has given up.
prio_after_timeout(m) ==
    IF waitq[m] = <<>> THEN owner_orig_prio[m]
    ELSE new_prio_for_inheritance(prio[Head(waitq[m])], owner_orig_prio[m])

-----------------------------------------------------------------------------
\* Mutant: the owner is not compared with the caller.
LockNowShared(t, m) ==
    /\ lock = NULL /\ MayCall(t)
    /\ Len(held[t]) < MaxHeld
    /\ "nested" \in Habits \/ ToSet(held[t]) \subseteq {m}
    /\ owner_orig_prio' = [owner_orig_prio EXCEPT ![m] = IF lock_count[m] = 0 THEN prio[t] ELSE @]
    /\ lock_count' = [lock_count EXCEPT ![m] = @ + 1]
    /\ owner' = [owner EXCEPT ![m] = t]
    /\ held' = [held EXCEPT ![t] = Append(@, m)]
    /\ UNCHANGED <<pendVars, lock, call, late, base>>

\* Mutant: the original priority is saved again on every nested lock.
LockNowResaves(t, m) ==
    /\ lock = NULL /\ MayCall(t)
    /\ lock_count[m] = 0 \/ owner[m] = t
    /\ Len(held[t]) < MaxHeld
    /\ "nested" \in Habits \/ ToSet(held[t]) \subseteq {m}
    /\ owner_orig_prio' = [owner_orig_prio EXCEPT ![m] = prio[t]]
    /\ lock_count' = [lock_count EXCEPT ![m] = @ + 1]
    /\ owner' = [owner EXCEPT ![m] = t]
    /\ held' = [held EXCEPT ![t] = Append(@, m)]
    /\ UNCHANGED <<pendVars, lock, call, late, base>>

\* k_mutex_lock() of a free mutex, or of one the caller owns.  A caller that
\* finds it taken and does not wait returns -EBUSY and changes nothing.
LockNow(t, m) ==
    /\ lock = NULL /\ MayCall(t)
    /\ lock_count[m] = 0 \/ owner[m] = t
    /\ Len(held[t]) < MaxHeld
    /\ "nested" \in Habits \/ ToSet(held[t]) \subseteq {m}
    /\ owner_orig_prio' = [owner_orig_prio EXCEPT ![m] = IF lock_count[m] = 0 THEN prio[t] ELSE @]
    /\ lock_count' = [lock_count EXCEPT ![m] = @ + 1]
    /\ owner' = [owner EXCEPT ![m] = t]
    /\ held' = [held EXCEPT ![t] = Append(@, m)]
    /\ UNCHANGED <<pendVars, lock, call, late, base>>

\* Otherwise k_mutex_lock() raises the owner to the caller's priority ...
LockRaise(t, m) ==
    LET new_prio == new_prio_for_inheritance(prio[t], prio[owner[m]])
    IN  /\ lock = NULL /\ MayCall(t)
        /\ lock_count[m] > 0 /\ owner[m] # t
        /\ Len(held[t]) < MaxHeld
        /\ "nested" \in Habits \/ held[t] = <<>>
        /\ z_thread_prio_set(owner[m], Min2(new_prio, prio[owner[m]]))
        /\ lock' = <<"lock", m, t>>
        /\ call' = [call EXCEPT ![t] = m]
        /\ UNCHANGED <<owner, lock_count, owner_orig_prio, late, held, base>>

\* ... and pends.
LockPend(t, m, finite) ==
    /\ lock = <<"lock", m, t>>
    /\ z_pend_curr(t, m, finite)
    /\ lock' = NULL
    /\ UNCHANGED <<owner, lock_count, owner_orig_prio, call, late, held, base>>

\* z_pend_curr() returns 0: the unlocking thread has made the caller the owner.
LockGot(t) ==
    /\ Runs(t) /\ call[t] # NULL /\ t \notin late
    /\ \A m \in Mutexes : lock # <<"lock", m, t>>
    /\ swap_retval[t] = OK
    /\ swap_retval' = [swap_retval EXCEPT ![t] = EAGAIN]
    /\ call' = [call EXCEPT ![t] = NULL]
    /\ held' = [held EXCEPT ![t] = Append(@, call[t])]
    /\ UNCHANGED <<waitq, ready, suspended, timer, firing, waking, halting, prio,
                   owner, lock_count, owner_orig_prio, lock, late, base>>

\* z_pend_curr() returns -EAGAIN ...
LockWaitFails(t) ==
    /\ Runs(t) /\ call[t] # NULL /\ t \notin late
    /\ \A m \in Mutexes : lock # <<"lock", m, t>>
    /\ swap_retval[t] = EAGAIN
    /\ late' = late \cup {t}
    /\ UNCHANGED <<pendVars, owner, lock_count, owner_orig_prio, lock, call, held, base>>

\* ... and k_mutex_lock() takes back what the owner inherited from the caller.
LockTimedOut(t) ==
    /\ lock = NULL /\ Runs(t) /\ t \in late
    /\ LET m == call[t] IN
        IF owner[m] = NULL THEN UNCHANGED pendVars
        ELSE z_thread_prio_set(owner[m], prio_after_timeout(m))
    /\ late' = late \ {t}
    /\ call' = [call EXCEPT ![t] = NULL]
    /\ UNCHANGED <<owner, lock_count, owner_orig_prio, lock, held, base>>

-----------------------------------------------------------------------------
\* The latest lock of m by t is given up.
Forget(t, m) ==
    LET i == CHOOSE i \in DOMAIN held[t] :
                held[t][i] = m /\ \A j \in DOMAIN held[t] : held[t][j] = m => j <= i
    IN  /\ held' = [held EXCEPT ![t] = RemoveAt(@, i)]
        /\ base' = [base EXCEPT ![t] = IF m = Last(held[t]) THEN @ ELSE 0]

\* k_mutex_unlock() checks the owner and the count without the lock; anyone but
\* the owner gets -EINVAL or -EPERM and changes nothing.
MayUnlock(t, m) ==
    /\ MayCall(t) /\ owner[m] = t /\ held[t] # <<>>
    /\ IF "any_order" \in Habits THEN m \in ToSet(held[t]) ELSE m = Last(held[t])

UnlockNested(t, m) ==
    /\ MayUnlock(t, m)
    /\ lock_count[m] > 1
    /\ lock_count' = [lock_count EXCEPT ![m] = @ - 1]
    /\ Forget(t, m)
    /\ UNCHANGED <<pendVars, owner, owner_orig_prio, lock, call, late>>

\* The outermost unlock: the owner gets its priority back ...
UnlockRestore(t, m) ==
    /\ lock = NULL /\ MayUnlock(t, m)
    /\ lock_count[m] = 1
    /\ z_thread_prio_set(t, owner_orig_prio[m])
    /\ lock' = <<"unlock", m, t>>
    /\ Forget(t, m)
    /\ UNCHANGED <<owner, lock_count, owner_orig_prio, call, late>>

\* ... the first waiter becomes the owner, with lock_count still 1 ...
UnlockHandOver(t, m) ==
    /\ lock = <<"unlock", m, t>> /\ waking = NULL
    /\ z_unpend_first_thread(m)
    /\ owner' = [owner EXCEPT ![m] = Head(waitq[m])]
    /\ owner_orig_prio' = [owner_orig_prio EXCEPT ![m] = prio[Head(waitq[m])]]
    /\ UNCHANGED <<lock_count, lock, call, late, held, base>>

\* Mutant: the new owner is told that its wait timed out.
UnlockReadyLate(t, m) ==
    /\ lock = <<"unlock", m, t>> /\ waking # NULL
    /\ z_ready_thread(EAGAIN)
    /\ lock' = NULL
    /\ UNCHANGED <<owner, lock_count, owner_orig_prio, call, late, held, base>>

\* ... and is made ready with return value 0;
UnlockReady(t, m) ==
    /\ lock = <<"unlock", m, t>> /\ waking # NULL
    /\ z_ready_thread(OK)
    /\ lock' = NULL
    /\ UNCHANGED <<owner, lock_count, owner_orig_prio, call, late, held, base>>

\* Mutant: a mutex with waiters is freed.
UnlockFreeAlways(t, m) ==
    /\ lock = <<"unlock", m, t>> /\ waking = NULL
    /\ owner' = [owner EXCEPT ![m] = NULL]
    /\ lock_count' = [lock_count EXCEPT ![m] = 0]
    /\ lock' = NULL
    /\ UNCHANGED <<pendVars, owner_orig_prio, call, late, held, base>>

\* with no waiter the mutex is free.
UnlockFree(t, m) ==
    /\ lock = <<"unlock", m, t>> /\ waking = NULL
    /\ waitq[m] = <<>>
    /\ owner' = [owner EXCEPT ![m] = NULL]
    /\ lock_count' = [lock_count EXCEPT ![m] = 0]
    /\ lock' = NULL
    /\ UNCHANGED <<pendVars, owner_orig_prio, call, late, held, base>>

-----------------------------------------------------------------------------
Expire(t) ==
    /\ InterruptsOn
    /\ ThreadTimeoutExpires(t)
    /\ UNCHANGED mutexVars

TimeoutHandler ==
    /\ InterruptsOn
    /\ z_thread_timeout
    /\ UNCHANGED mutexVars

Suspend(t) ==
    /\ "suspend" \in Habits /\ ThreadsRun
    /\ SuspendAbortTimeout(t) \/ (halting = t /\ z_thread_halt)
    /\ UNCHANGED mutexVars

Resume(t) ==
    /\ InterruptsOn
    /\ k_thread_resume(t)
    /\ UNCHANGED mutexVars

Init ==
    /\ PendInit
    /\ owner = [m \in Mutexes |-> NULL]
    /\ lock_count = [m \in Mutexes |-> 0]
    /\ owner_orig_prio = [m \in Mutexes |-> 0]
    /\ lock = NULL
    /\ call = [t \in Threads |-> NULL]
    /\ late = {}
    /\ held = [t \in Threads |-> <<>>]
    /\ base = prio

Lock(t, m) ==
    \/ LockNow(t, m) \/ LockRaise(t, m)
    \/ \E finite \in BOOLEAN : LockPend(t, m, finite)

Unlock(t, m) ==
    \/ UnlockNested(t, m) \/ UnlockRestore(t, m)
    \/ UnlockHandOver(t, m) \/ UnlockReady(t, m) \/ UnlockFree(t, m)

Next ==
    \/ \E t \in Threads :
        \/ \E m \in Mutexes : Lock(t, m) \/ Unlock(t, m)
        \/ LockGot(t) \/ LockWaitFails(t) \/ LockTimedOut(t)
        \/ Expire(t) \/ Suspend(t) \/ Resume(t)
    \/ TimeoutHandler

Spec == Init /\ [][Next]_vars

\* Ticks come, interrupt handlers and locked sections end, a thread that can run
\* does not wait for the processor for ever, and an owner unlocks in the end.
Fairness ==
    /\ WF_vars(TimeoutHandler)
    /\ \A t \in Threads :
        /\ WF_vars(\E m \in Mutexes : \/ UnlockHandOver(t, m) \/ UnlockReady(t, m)
                                      \/ UnlockFree(t, m)
                                      \/ \E finite \in BOOLEAN : LockPend(t, m, finite))
        /\ SF_vars(LockGot(t) \/ LockWaitFails(t) \/ LockTimedOut(t))
        /\ SF_vars(\E m \in Mutexes : UnlockNested(t, m))
        /\ SF_vars(\E m \in Mutexes : UnlockRestore(t, m))

FairSpec == Spec /\ Fairness
-----------------------------------------------------------------------------
Unlocking(m) == \E t \in Threads : lock = <<"unlock", m, t>>
LocksOf(t, m) == Cardinality({i \in DOMAIN held[t] : held[t][i] = m})

\* Mutual exclusion, as the threads see it: nobody but the owner has locks that
\* k_mutex_lock() granted and k_mutex_unlock() did not take back, through every
\* hand-over, timeout and nested lock.
OwnerAlone ==
    \A m \in Mutexes, t \in Threads : owner[m] # t => m \notin ToSet(held[t])

\* The owner knows that it is: once its k_mutex_lock() has returned it holds
\* exactly lock_count locks.  A mutex granted to a thread that was told -EAGAIN
\* would stay locked for ever.
OwnerKnows ==
    \A m \in Mutexes, t \in Threads :
        owner[m] = t /\ call[t] # m /\ ~Unlocking(m) => LocksOf(t, m) = lock_count[m]

\* Nobody waits for a free mutex.
NoLostWakeup ==
    \A m \in Mutexes : (owner[m] = NULL <=> lock_count[m] = 0)
                        /\ (owner[m] = NULL => waitq[m] = <<>>)

\* A waiter that was taken off the queue but has yet to lower the owner.
GivingUp(m) == \E t \in Threads : call[t] = m /\ ~Pended(t) /\ owner[m] # t

\* The owner inherits what it must, and only that: it runs at least at the
\* priority of every waiter, or at the ceiling; with no waiter left, and none on
\* its way to say that it timed out, it is back at the priority it had at first.
Inherits ==
    \A m \in Mutexes : owner[m] # NULL /\ ~Unlocking(m) =>
        /\ \A w \in ToSet(waitq[m]) : prio[owner[m]] <= Max2(prio[w], Ceiling)
        /\ waitq[m] = <<>> /\ ~GivingUp(m) => prio[owner[m]] = owner_orig_prio[m]

\* "Once the mutex has been unlocked, the unlocking thread resets its priority":
\* a thread without locks has the priority it was created with, if it always
\* unlocked the mutexes it held in the reverse order of locking.
PriorityRestored ==
    \A t \in Threads : base[t] # 0 /\ (\A m \in Mutexes : owner[m] # t) => prio[t] = base[t]

\* A waiter that no other thread outranks gets an answer if the owners unlock,
\* although others of its priority may come and go; lower ones can starve.
LockEnds ==
    \A t \in Threads :
        call[t] # NULL /\ (\A u \in Threads : prio[t] <= prio[u]) ~> call[t] = NULL
=============================================================================
