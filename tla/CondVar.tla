------------------------------ MODULE CondVar ------------------------------
(***************************************************************************)
(* kernel/condvar.c on top of kernel/mutex.c: k_condvar_wait() takes the   *)
(* lock of the condition variables, unlocks the mutex under it, pends, and *)
(* locks the mutex again once the thread was woken.                        *)
(*                                                                         *)
(* The application is a monitor.  Its condition is a number of tokens that *)
(* is used with the mutex held; a thread that finds none waits and looks   *)
(* again when the wait returns, for whatever reason; a thread that has     *)
(* added one signals, a thread that has added several broadcasts, before   *)
(* or after it gives the mutex back.                                       *)
(***************************************************************************)
EXTENDS Mutex, Functions

CONSTANTS MaxTokens,  \* bound on the tokens
          NumCPUs     \* the numbers of CPUs the kernel is run on

VARIABLES cpus,
          cv_lock,    \* NULL, or <<"wait", "signal" or "broadcast", caller>>
          cv_waking,  \* the thread a signal has unpended and not made ready yet
          phase,      \* where each thread is in k_condvar_wait(), "none" outside
          tokens,
          owed        \* the tokens a thread has added and not signalled yet

cvVars == <<cpus, cv_lock, cv_waking, phase, tokens, owed>>
monitorVars == <<vars, cvVars>>

ASSUME CondVarAssumption ==
    /\ SMP                           \* cpus tells whether there is a second CPU
    /\ Cardinality(CondVars) = 1 /\ Cardinality(Mutexes) = 1

cv == CHOOSE c \in CondVars : TRUE
mutex == CHOOSE m \in Mutexes : TRUE

\* On one CPU a thread runs unless another one has a lock or the timer interrupt
\* is being handled, which the locks mask.
InCv(t) == cv_lock \in {"wait", "signal", "broadcast"} \X {t}
InMutex(t) == lock \in {"lock", "unlock"} \X Mutexes \X {t}
MayRun(t) == cpus > 1 \/ (firing = NULL /\ (lock # NULL => InMutex(t))
                                        /\ (cv_lock # NULL => InCv(t)))
MayInterrupt == cpus > 1 \/ (lock = NULL /\ cv_lock = NULL)

Holds(t) == owner[mutex] = t /\ call[t] = NULL /\ lock # <<"unlock", mutex, t>>

\* The thread is outside of the calls of this module; in phase "back" its
\* k_condvar_wait() has returned and it has yet to look at the tokens.
Outside(t) == MayRun(t) /\ MayCall(t) /\ phase[t] \in {"none", "back"}
                        /\ ~InCv(t)

-----------------------------------------------------------------------------
\* Mutant: the mutex is unlocked before the lock is taken.
CondWaitUnlocksFirst(t) ==
    /\ Outside(t) /\ Holds(t) /\ lock_count[mutex] = 1
    /\ tokens = 0 /\ owed[t] = 0
    /\ phase' = [phase EXCEPT ![t] = "unlock"]
    /\ UNCHANGED <<vars, cpus, cv_lock, cv_waking, tokens, owed>>

\* k_condvar_wait() takes the lock of the condition variables ...
CondWait(t) ==
    /\ Outside(t) /\ Holds(t) /\ lock_count[mutex] = 1
    /\ tokens = 0 /\ owed[t] = 0
    /\ cv_lock = NULL
    /\ cv_lock' = <<"wait", t>>
    /\ phase' = [phase EXCEPT ![t] = "unlock"]
    /\ UNCHANGED <<vars, cpus, cv_waking, tokens, owed>>

\* ... unlocks the mutex, which cannot switch threads under that lock ...
CondUnlock(t) ==
    /\ phase[t] = "unlock" /\ MayRun(t)
    /\ Unlock(t, mutex)
    /\ UNCHANGED cvVars

\* ... and pends, which gives the lock back.
CondPend(t, finite) ==
    /\ phase[t] = "unlock" /\ MayRun(t)
    /\ owner[mutex] # t /\ lock # <<"unlock", mutex, t>>
    /\ z_pend_curr(t, cv, finite)
    /\ cv_lock' = NULL
    /\ phase' = [phase EXCEPT ![t] = "wait"]
    /\ UNCHANGED <<mutexVars, cpus, cv_waking, tokens, owed>>

\* z_pend_curr() returns ...
CondWoken(t) ==
    /\ phase[t] = "wait" /\ t \in ready /\ MayRun(t)
    /\ swap_retval' = [swap_retval EXCEPT ![t] = EAGAIN]
    /\ phase' = [phase EXCEPT ![t] = "relock"]
    /\ UNCHANGED <<waitq, ready, suspended, timer, firing, waking, halting, prio,
                   mutexVars, cpus, cv_lock, cv_waking, tokens, owed>>

\* Mutant: the mutex is waited for with a timeout.
CondRelockTimed(t) ==
    /\ phase[t] = "relock" /\ MayRun(t)
    /\ \/ /\ LockNow(t, mutex) \/ LockGot(t) \/ LockTimedOut(t)
          /\ phase' = [phase EXCEPT ![t] = "back"]
       \/ /\ LockRaise(t, mutex) \/ LockPend(t, mutex, TRUE) \/ LockWaitFails(t)
          /\ UNCHANGED phase
    /\ UNCHANGED <<cpus, cv_lock, cv_waking, tokens, owed>>

\* ... and the mutex is locked again, with K_FOREVER, and the result ignored.
CondRelock(t) ==
    /\ phase[t] = "relock" /\ MayRun(t)
    /\ \/ /\ LockNow(t, mutex) \/ LockGot(t) \/ LockTimedOut(t)
          /\ phase' = [phase EXCEPT ![t] = "back"]
       \/ /\ LockRaise(t, mutex) \/ LockPend(t, mutex, FALSE) \/ LockWaitFails(t)
          /\ UNCHANGED phase
    /\ UNCHANGED <<cpus, cv_lock, cv_waking, tokens, owed>>

-----------------------------------------------------------------------------
\* k_condvar_signal() or k_condvar_broadcast() takes the lock ...
CondSignal(t) ==
    /\ Outside(t) /\ owed[t] > 0
    /\ cv_lock = NULL
    /\ cv_lock' = <<IF owed[t] = 1 THEN "signal" ELSE "broadcast", t>>
    /\ owed' = [owed EXCEPT ![t] = 0]
    /\ UNCHANGED <<vars, cpus, cv_waking, phase, tokens>>

Signals(t) == MayRun(t) /\ t \in ready /\ cv_lock \in {"signal", "broadcast"} \X {t}

\* ... takes the first waiter off the queue ...
CondUnpend(t) ==
    /\ Signals(t) /\ cv_waking = NULL /\ waitq[cv] # <<>>
    /\ cv_waking' = Head(waitq[cv])
    /\ waitq' = [waitq EXCEPT ![cv] = Tail(@)]
    /\ timer' = timer \ {Head(waitq[cv])}
    /\ UNCHANGED <<ready, suspended, firing, waking, halting, swap_retval, prio,
                   mutexVars, cpus, cv_lock, phase, tokens, owed>>

\* ... and makes it ready with return value 0; a broadcast goes on ...
CondReady(t) ==
    /\ Signals(t) /\ cv_waking # NULL
    /\ swap_retval' = [swap_retval EXCEPT ![cv_waking] = OK]
    /\ UNCHANGED <<waitq, suspended, timer, firing, waking, halting, prio>>
    /\ ready_thread(cv_waking)
    /\ cv_waking' = NULL
    /\ cv_lock' = IF cv_lock[1] = "signal" THEN NULL ELSE cv_lock
    /\ UNCHANGED <<mutexVars, cpus, phase, tokens, owed>>

\* ... until nobody waits.
CondSignalEnds(t) ==
    /\ Signals(t) /\ cv_waking = NULL /\ waitq[cv] = <<>>
    /\ cv_lock' = NULL
    /\ UNCHANGED <<vars, cpus, cv_waking, phase, tokens, owed>>

-----------------------------------------------------------------------------
\* The application, with the mutex held as far as it knows.
AddTokens(t, n) ==
    /\ Outside(t) /\ Holds(t) /\ phase[t] = "none" /\ owed[t] = 0
    /\ tokens + n <= MaxTokens
    /\ tokens' = tokens + n
    /\ owed' = [owed EXCEPT ![t] = n]
    /\ UNCHANGED <<vars, cpus, cv_lock, cv_waking, phase>>

TakeToken(t) ==
    /\ Outside(t) /\ (Holds(t) \/ phase[t] = "back")
    /\ tokens > 0
    /\ tokens' = tokens - 1
    /\ phase' = [phase EXCEPT ![t] = "none"]
    /\ UNCHANGED <<vars, cpus, cv_lock, cv_waking, owed>>

GiveUp(t) ==
    /\ Outside(t) /\ phase[t] = "back" /\ tokens = 0
    /\ phase' = [phase EXCEPT ![t] = "none"]
    /\ UNCHANGED <<vars, cpus, cv_lock, cv_waking, tokens, owed>>

\* The mutex used on its own, and the part of other calls under way.
MutexCall(t) ==
    /\ phase[t] = "none" /\ MayRun(t) /\ ~InCv(t)
    /\ \/ Lock(t, mutex) \/ Unlock(t, mutex)
       \/ LockGot(t) \/ LockWaitFails(t) \/ LockTimedOut(t)
    /\ UNCHANGED cvVars

Ticks ==
    /\ MayInterrupt
    /\ TimeoutHandler \/ \E t \in Threads : Expire(t)
    /\ UNCHANGED cvVars

MonitorInit ==
    /\ Init
    /\ cpus \in NumCPUs
    /\ cv_lock = NULL /\ cv_waking = NULL
    /\ phase = [t \in Threads |-> "none"]
    /\ tokens = 0
    /\ owed = [t \in Threads |-> 0]

MonitorNext ==
    \/ Ticks
    \/ \E t \in Threads :
        \/ CondWait(t) \/ CondUnlock(t) \/ (\E finite \in BOOLEAN : CondPend(t, finite))
        \/ CondWoken(t) \/ CondRelock(t)
        \/ CondSignal(t) \/ CondUnpend(t) \/ CondReady(t) \/ CondSignalEnds(t)
        \/ (\E n \in 1..MaxTokens : AddTokens(t, n)) \/ TakeToken(t) \/ GiveUp(t)
        \/ MutexCall(t)

MonitorSpec == MonitorInit /\ [][MonitorNext]_monitorVars

-----------------------------------------------------------------------------
\* Threads that were woken and have yet to look at the tokens.
OnTheWay == {t \in Threads : \/ phase[t] \in {"relock", "back"}
                             \/ phase[t] = "wait" /\ t \notin ToSet(waitq[cv])}

\* What signals that are due or under way may still wake.
Due == FoldFunction(+, 0, owed)
       + (IF cv_lock = NULL \/ cv_lock[1] = "wait" THEN 0
          ELSE IF cv_lock[1] = "signal" THEN (IF cv_waking = NULL THEN 1 ELSE 0)
          ELSE MaxTokens)

\* No signal is lost, "k_condvar_wait performs atomically" the unlock and the
\* wait: while a thread waits, every token there is has a thread on the way to
\* it, or a signal that is due or under way.
NoLostSignal ==
    waitq[cv] # <<>> =>
        tokens <= Cardinality(OnTheWay) + Due

\* "the mutex is released, then re-acquired before ... the call returns": on one
\* CPU a thread comes back from k_condvar_wait() with the mutex, whatever ended
\* the wait.
WaitReturnsLocked ==
    \A t \in Threads : cpus = 1 /\ phase[t] = "back" => Holds(t)
=============================================================================
