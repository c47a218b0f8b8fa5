--------------------------- MODULE Mutex_proofs -----------------------------
(***************************************************************************)
(* Theorems about kernel/mutex.c for any threads, mutexes, priorities,     *)
(* ceiling and depth of nesting, on one CPU and on SMP: the steps of       *)
(* k_mutex_unlock() and of the timeouts keep the invariant of              *)
(* MutexLock_proofs, and so it always holds.                               *)
(***************************************************************************)
EXTENDS MutexLock_proofs

\* A nested unlock takes back one lock of several.
LEMMA UnlockNestedStep ==
    ASSUME IInv, NEW t \in Threads, NEW m \in Mutexes, UnlockNested(t, m)
    PROVE  IInv'
<1>0. /\ TypeOK /\ LockInv /\ PendedInv /\ GrantInv /\ CountInv /\ NoLostWakeup /\ OwnerAlone
  BY DEF IInv
<1>1. /\ lock_count[m] > 1 /\ lock_count' = [lock_count EXCEPT ![m] = @ - 1] /\ Forget(t, m)
      /\ UNCHANGED <<waitq, waking, swap_retval, ready, owner, lock, call, late>>
  BY DEF UnlockNested, pendVars
<1>2. owner[m] = t /\ m \in ToSet(held[t]) /\ call[t] = NULL
  BY <1>0, MayUnlockFacts DEF UnlockNested
<1>3. /\ held' \in [Threads -> Seq(Mutexes)]
      /\ \A u \in Threads : ToSet(held'[u]) \subseteq ToSet(held[u])
      /\ \A n \in Mutexes, u \in Threads :
            LocksOf(u, n)' = IF u = t /\ n = m THEN LocksOf(u, n) - 1 ELSE LocksOf(u, n)
  BY <1>0, <1>1, <1>2, ForgetLocks
<1>4. /\ \A n \in Mutexes : lock_count'[n] = IF n = m THEN lock_count[n] - 1 ELSE lock_count[n]
      /\ lock_count' \in [Mutexes -> Nat]
  BY <1>0, <1>1 DEF TypeOK
<1>5. TypeOK' /\ Distinct'
  BY <1>0, <1>1, <1>3, <1>4 DEF IInv, TypeOK, Distinct
<1>6. LockInv'
  <2>1. \A u \in Threads : Pended(u)' <=> Pended(u)
    BY <1>1 DEF Pended, PendedIn
  <2>2. \A u \in Threads : lock # <<"unlock", m, u>>
    BY <1>0, <1>1 DEF LockInv
  <2>3. \A n \in Mutexes : n # m => lock_count'[n] = lock_count[n]
    BY <1>4
  <2> QED BY <1>0, <1>1, <1>3, <2>1, <2>2, <2>3 DEF LockInv
<1>7. PendedInv' /\ GrantInv' /\ OwnerAlone'
  BY <1>0, <1>1, <1>3 DEF PendedInv, GrantInv, OwnerAlone
<1>8. CountInv'
  <2> SUFFICES ASSUME NEW n \in Mutexes, NEW u \in Threads, owner[n] = u
               PROVE  /\ LocksOf(u, n)' <= lock_count'[n]
                      /\ call[u] = n => lock_count'[n] = 1 /\ n \notin ToSet(held'[u])
    BY <1>1 DEF CountInv
  <2>1. CASE n = m
    <3>1. u = t /\ call[u] # n /\ LocksOf(t, m) <= lock_count[m]
      BY <1>0, <1>2, <2>1, PendAssumption DEF CountInv, Mutexes
    <3>2. LocksOf(t, m) \in Nat /\ lock_count[m] \in Nat
      BY <1>0, NoLocks DEF TypeOK
    <3> QED BY <1>3, <1>4, <2>1, <3>1, <3>2
  <2>2. CASE n # m
    BY <1>0, <1>3, <1>4, <2>2 DEF CountInv
  <2> QED BY <2>1, <2>2
<1>9. NoLostWakeup'
  <2>1. \A n \in Mutexes : lock_count'[n] = 0 <=> lock_count[n] = 0
    BY <1>0, <1>1, <1>4 DEF TypeOK
  <2> QED BY <1>0, <1>1, <2>1 DEF NoLostWakeup
<1> QED BY <1>5, <1>6, <1>7, <1>8, <1>9 DEF IInv

\* The outermost unlock gives up the last lock its caller has of the mutex.
LEMMA UnlockRestoreStep ==
    ASSUME IInv, NEW t \in Threads, NEW m \in Mutexes, UnlockRestore(t, m)
    PROVE  IInv'
<1>0. /\ TypeOK /\ LockInv /\ PendedInv /\ GrantInv /\ CountInv /\ NoLostWakeup /\ OwnerAlone
  BY DEF IInv
<1>1. /\ lock = NULL /\ lock_count[m] = 1 /\ lock' = <<"unlock", m, t>> /\ Forget(t, m)
      /\ UNCHANGED <<waitq, waking, swap_retval, ready, owner, lock_count, call, late>>
  BY DEF UnlockRestore, z_thread_prio_set
<1>2. owner[m] = t /\ m \in ToSet(held[t]) /\ call[t] = NULL
  BY <1>0, MayUnlockFacts DEF UnlockRestore
<1>3. /\ held' \in [Threads -> Seq(Mutexes)]
      /\ \A u \in Threads : ToSet(held'[u]) \subseteq ToSet(held[u])
      /\ \A n \in Mutexes, u \in Threads :
            LocksOf(u, n)' = IF u = t /\ n = m THEN LocksOf(u, n) - 1 ELSE LocksOf(u, n)
  BY <1>0, <1>1, <1>2, ForgetLocks
<1>4. TypeOK' /\ Distinct'
  BY <1>0, <1>1, <1>3 DEF IInv, TypeOK, Distinct
<1>5. m \notin ToSet(held'[t])
  <2>1. LocksOf(t, m) \in Nat /\ LocksOf(t, m) # 0 /\ LocksOf(t, m) <= 1
    BY <1>0, <1>1, <1>2, NoLocks DEF CountInv
  <2>2. LocksOf(t, m)' = 0
    BY <1>3, <2>1
  <2>3. held'[t] \in Seq(Mutexes) /\ LocksOf(t, m)' = Cardinality(Places(held'[t], m))
    BY <1>3 DEF LocksOf, Places
  <2> QED BY <2>2, <2>3, PlacesFinite
<1>6. LockInv'
  <2>1. lock' # NULL /\ waking = NULL
    BY <1>0, <1>1, MutexAssumption DEF LockInv, Mutexes
  <2>2. \A n \in Mutexes, u \in Threads :
            lock' # <<"lock", n, u>> /\ (lock' = <<"unlock", n, u>> => n = m /\ u = t)
    BY <1>1
  <2> QED BY <1>1, <1>2, <1>5, <2>1, <2>2 DEF LockInv
<1>7. PendedInv' /\ NoLostWakeup' /\ OwnerAlone'
  BY <1>0, <1>1, <1>3 DEF PendedInv, NoLostWakeup, OwnerAlone
<1>8. GrantInv'
  <2>1. \A n \in Mutexes, u \in Threads : lock # <<"lock", n, u>>
    BY <1>1, MutexAssumption DEF Mutexes
  <2> QED BY <1>0, <1>1, <2>1 DEF GrantInv
<1>9. CountInv'
  <2> SUFFICES ASSUME NEW n \in Mutexes, NEW u \in Threads, owner[n] = u
               PROVE  /\ LocksOf(u, n)' <= lock_count[n]
                      /\ call[u] = n => lock_count[n] = 1 /\ n \notin ToSet(held'[u])
    BY <1>1 DEF CountInv
  <2>1. LocksOf(u, n) \in Nat /\ lock_count[n] \in Nat
    BY <1>0, NoLocks DEF TypeOK
  <2> QED BY <1>0, <1>3, <2>1 DEF CountInv
<1> QED BY <1>4, <1>6, <1>7, <1>8, <1>9 DEF IInv

\* Handing the mutex over to its first waiter, which has no lock of it yet.
LEMMA UnlockHandOverStep ==
    ASSUME IInv, NEW t \in Threads, NEW m \in Mutexes, UnlockHandOver(t, m)
    PROVE  IInv'
<1>0. /\ TypeOK /\ LockInv /\ PendedInv /\ GrantInv /\ CountInv /\ NoLostWakeup /\ OwnerAlone
      /\ Distinct
  BY DEF IInv
<1> DEFINE w == Head(waitq[m])
<1>1. /\ lock = <<"unlock", m, t>> /\ waking = NULL /\ z_unpend_first_thread(m)
      /\ owner' = [owner EXCEPT ![m] = w]
      /\ UNCHANGED <<swap_retval, ready, lock_count, lock, call, late, held>>
  BY DEF UnlockHandOver, z_unpend_first_thread
<1>2. m \in WaitQs
  BY DEF Mutexes
<1>3. /\ waitq' \in [WaitQs -> Seq(Threads)] /\ Distinct'
      /\ waking' = w /\ w \in Threads /\ w \in ToSet(waitq[m])
      /\ \A q \in WaitQs : ToSet(waitq'[q]) =
            IF q = m THEN ToSet(waitq[q]) \ {w} ELSE ToSet(waitq[q])
  BY <1>0, <1>1, <1>2, UnpendQueues DEF TypeOK
<1> HIDE DEF w
<1>4. /\ call[t] = NULL /\ lock_count[m] = 1 /\ owner[m] = t /\ m \notin ToSet(held[t])
  BY <1>0, <1>1 DEF LockInv
<1>5. call[w] = m /\ owner[m] # w /\ swap_retval[w] = EAGAIN /\ w # NULL
  BY <1>0, <1>2, <1>3, PendAssumption DEF PendedInv
<1>6. m \notin ToSet(held[w]) /\ LocksOf(w, m) = 0
  BY <1>0, <1>3, <1>5, NoLocks DEF OwnerAlone
<1>7. /\ \A n \in Mutexes : owner'[n] = IF n = m THEN w ELSE owner[n]
      /\ owner' \in [Mutexes -> Threads \cup {NULL}]
  BY <1>0, <1>1, <1>3 DEF TypeOK
<1>8. TypeOK'
  BY <1>0, <1>1, <1>3, <1>7 DEF TypeOK
<1>9. LockInv'
  <2>1. lock' # NULL
    BY <1>1, MutexAssumption DEF Mutexes
  <2>2. \A n \in Mutexes, u \in Threads :
            lock' # <<"lock", n, u>> /\ (lock' = <<"unlock", n, u>> => n = m /\ u = t)
    BY <1>1
  <2> QED BY <1>1, <1>3, <1>4, <1>5, <1>7, <2>1, <2>2 DEF LockInv
<1>10. PendedInv'
  <2> SUFFICES ASSUME NEW q \in WaitQs, NEW u \in ToSet(waitq'[q])
               PROVE  /\ q \in Mutexes /\ call[u] = q /\ owner'[q] # u
                      /\ u \notin ready /\ swap_retval[u] = EAGAIN
    BY <1>1 DEF PendedInv
  <2>1. u \in ToSet(waitq[q]) /\ (q = m => u # w)
    BY <1>3
  <2> QED BY <1>0, <1>7, <2>1 DEF PendedInv
<1>11. GrantInv'
  <2> SUFFICES ASSUME NEW u \in Threads, swap_retval[u] = OK, call[u] # NULL, u \notin late,
                      \A n \in Mutexes : lock # <<"lock", n, u>>
               PROVE  owner'[call[u]] = u
    BY <1>1 DEF GrantInv
  <2>1. owner[call[u]] = u /\ call[u] \in Mutexes
    BY <1>0 DEF GrantInv, TypeOK
  <2> QED BY <1>4, <1>7, <2>1
<1>12. CountInv'
  <2>1. \A n, u : LocksOf(u, n)' = LocksOf(u, n)
    BY <1>1 DEF LocksOf
  <2> SUFFICES ASSUME NEW n \in Mutexes, NEW u \in Threads, owner'[n] = u
               PROVE  /\ LocksOf(u, n) <= lock_count[n]
                      /\ call[u] = n => lock_count[n] = 1 /\ n \notin ToSet(held[u])
    BY <1>1, <2>1 DEF CountInv
  <2>2. CASE n = m
    BY <1>4, <1>6, <1>7, <2>2
  <2>3. CASE n # m
    BY <1>0, <1>7, <2>3 DEF CountInv
  <2> QED BY <2>2, <2>3
<1>13. NoLostWakeup'
  <2>1. \A n \in Mutexes : n # m => waitq'[n] = waitq[n]
    BY <1>0, <1>1 DEF z_unpend_first_thread, TypeOK, Mutexes
  <2> QED BY <1>0, <1>1, <1>4, <1>5, <1>7, <2>1 DEF NoLostWakeup
<1>14. OwnerAlone'
  BY <1>0, <1>1, <1>4, <1>7 DEF OwnerAlone
<1> QED BY <1>3, <1>8, <1>9, <1>10, <1>11, <1>12, <1>13, <1>14 DEF IInv

\* The new owner is made ready with return value 0.
LEMMA UnlockReadyStep ==
    ASSUME IInv, NEW t \in Threads, NEW m \in Mutexes, UnlockReady(t, m)
    PROVE  IInv'
<1>0. /\ TypeOK /\ LockInv /\ PendedInv /\ GrantInv /\ CountInv /\ NoLostWakeup /\ OwnerAlone
  BY DEF IInv
<1>1. /\ lock = <<"unlock", m, t>> /\ lock' = NULL /\ waking # NULL /\ waking' = NULL
      /\ swap_retval' = [swap_retval EXCEPT ![waking] = OK]
      /\ UNCHANGED <<waitq, owner, lock_count, call, late, held>>
  BY DEF UnlockReady, z_ready_thread
<1>2. \A u \in ready' : u \in ready \/ ~Pended(u)
  BY DEF UnlockReady, z_ready_thread, ready_thread, Pended
<1>3. owner[m] = waking /\ call[waking] = m /\ waking \in Threads
  BY <1>0, <1>1 DEF LockInv, TypeOK
<1>4. /\ \A u \in Threads : swap_retval'[u] = IF u = waking THEN OK ELSE swap_retval[u]
      /\ swap_retval' \in [Threads -> {OK, EAGAIN}]
  BY <1>0, <1>1, <1>3 DEF TypeOK
<1>5. TypeOK' /\ Distinct'
  BY <1>0, <1>1, <1>4 DEF IInv, TypeOK, Distinct
<1>6. LockInv'
  <2>1. \A n \in Mutexes, u \in Threads : lock' # <<"lock", n, u>> /\ lock' # <<"unlock", n, u>>
    BY <1>1, MutexAssumption DEF Mutexes
  <2> QED BY <1>1, <2>1 DEF LockInv
<1>7. PendedInv'
  <2> SUFFICES ASSUME NEW q \in WaitQs, NEW u \in ToSet(waitq[q])
               PROVE  /\ q \in Mutexes /\ call[u] = q /\ owner[q] # u
                      /\ u \notin ready' /\ swap_retval'[u] = EAGAIN
    BY <1>1 DEF PendedInv
  <2>1. q \in Mutexes /\ call[u] = q /\ owner[q] # u /\ u \notin ready /\ swap_retval[u] = EAGAIN
    BY <1>0 DEF PendedInv
  <2>2. u \in Threads /\ Pended(u)
    BY <1>0 DEF TypeOK, ToSet, Pended, PendedIn
  <2>3. u # waking
    BY <1>3, <2>1
  <2> QED BY <1>2, <1>4, <2>1, <2>2, <2>3
<1>8. GrantInv'
  <2> SUFFICES ASSUME NEW u \in Threads, swap_retval'[u] = OK, call[u] # NULL, u \notin late
               PROVE  owner[call[u]] = u
    BY <1>1 DEF GrantInv
  <2>1. \A n \in Mutexes : lock # <<"lock", n, u>>
    BY <1>1
  <2> QED BY <1>0, <1>3, <1>4, <2>1 DEF GrantInv
<1>9. CountInv' /\ NoLostWakeup' /\ OwnerAlone'
  BY <1>0, <1>1 DEF CountInv, LocksOf, NoLostWakeup, OwnerAlone
<1> QED BY <1>5, <1>6, <1>7, <1>8, <1>9 DEF IInv

\* A mutex without a waiter is free, and nobody has a lock of it.
LEMMA UnlockFreeStep ==
    ASSUME IInv, NEW t \in Threads, NEW m \in Mutexes, UnlockFree(t, m)
    PROVE  IInv'
<1>0. /\ TypeOK /\ LockInv /\ PendedInv /\ GrantInv /\ CountInv /\ NoLostWakeup /\ OwnerAlone
  BY DEF IInv
<1>1. /\ lock = <<"unlock", m, t>> /\ lock' = NULL /\ waking = NULL /\ waitq[m] = <<>>
      /\ owner' = [owner EXCEPT ![m] = NULL] /\ lock_count' = [lock_count EXCEPT ![m] = 0]
      /\ UNCHANGED <<waitq, waking, swap_retval, ready, call, late, held>>
  BY DEF UnlockFree, pendVars
<1>2. owner[m] = t /\ m \notin ToSet(held[t]) /\ call[t] = NULL
  BY <1>0, <1>1 DEF LockInv
<1>3. /\ \A n \in Mutexes : owner'[n] = IF n = m THEN NULL ELSE owner[n]
      /\ \A n \in Mutexes : lock_count'[n] = IF n = m THEN 0 ELSE lock_count[n]
      /\ owner' \in [Mutexes -> Threads \cup {NULL}] /\ lock_count' \in [Mutexes -> Nat]
  BY <1>0, <1>1 DEF TypeOK
<1>4. TypeOK' /\ Distinct'
  BY <1>0, <1>1, <1>3 DEF IInv, TypeOK, Distinct
<1>5. LockInv'
  <2>1. \A n \in Mutexes, u \in Threads : lock' # <<"lock", n, u>> /\ lock' # <<"unlock", n, u>>
    BY <1>1, MutexAssumption DEF Mutexes
  <2> QED BY <1>1, <2>1 DEF LockInv
<1>6. PendedInv'
  <2> SUFFICES ASSUME NEW q \in WaitQs, NEW u \in ToSet(waitq[q])
               PROVE  /\ q \in Mutexes /\ call[u] = q /\ owner'[q] # u
                      /\ u \notin ready /\ swap_retval[u] = EAGAIN
    BY <1>1 DEF PendedInv
  <2>1. q \in Mutexes /\ call[u] = q /\ owner[q] # u /\ u \notin ready /\ swap_retval[u] = EAGAIN
    BY <1>0 DEF PendedInv
  <2>2. u \in Threads
    BY <1>0 DEF TypeOK, ToSet
  <2> QED BY <1>3, <2>1, <2>2, PendAssumption
<1>7. GrantInv'
  <2> SUFFICES ASSUME NEW u \in Threads, swap_retval[u] = OK, call[u] # NULL, u \notin late
               PROVE  owner'[call[u]] = u
    BY <1>1 DEF GrantInv
  <2>1. \A n \in Mutexes : lock # <<"lock", n, u>>
    BY <1>1
  <2>2. owner[call[u]] = u /\ call[u] \in Mutexes
    BY <1>0, <2>1 DEF GrantInv, TypeOK
  <2> QED BY <1>2, <1>3, <2>2
<1>8. CountInv' /\ NoLostWakeup'
  <2>1. \A n, u : LocksOf(u, n)' = LocksOf(u, n)
    BY <1>1 DEF LocksOf
  <2>2. CountInv'
    BY <1>0, <1>1, <1>3, <2>1, PendAssumption DEF CountInv
  <2>3. NoLostWakeup'
    BY <1>0, <1>1, <1>3 DEF NoLostWakeup
  <2> QED BY <2>2, <2>3
<1>9. OwnerAlone'
  BY <1>0, <1>1, <1>2, <1>3 DEF OwnerAlone
<1> QED BY <1>4, <1>5, <1>6, <1>7, <1>8, <1>9 DEF IInv

\* z_thread_timeout() takes a thread off its queue and grants it nothing.
LEMMA TimeoutStep ==
    ASSUME IInv, TimeoutHandler
    PROVE  IInv'
<1>0. /\ TypeOK /\ LockInv /\ PendedInv /\ GrantInv /\ CountInv /\ NoLostWakeup /\ OwnerAlone
      /\ Distinct
  BY DEF IInv
<1>1. /\ z_thread_timeout
      /\ UNCHANGED <<waking, swap_retval, owner, lock_count, lock, call, late, held>>
  BY DEF TimeoutHandler, z_thread_timeout, mutexVars
<1>2. /\ waitq' \in [WaitQs -> Seq(Threads)] /\ Distinct'
      /\ \A q \in WaitQs : waitq[q] = <<>> => waitq'[q] = <<>>
      /\ \A q \in WaitQs : ToSet(waitq'[q]) = ToSet(waitq[q]) \ {firing}
  BY <1>0, <1>1, TimeoutQueues DEF TypeOK
<1>3. \A u \in ready' : u \in ready \/ ~Pended(u)'
  BY <1>1 DEF z_thread_timeout, ready_thread, Pended
<1>4. \A u \in Threads : Pended(u)' => Pended(u)
  BY <1>2 DEF Pended, PendedIn
<1>5. TypeOK'
  BY <1>0, <1>1, <1>2 DEF TypeOK
<1>6. LockInv'
  BY <1>0, <1>1, <1>4 DEF LockInv
<1>7. PendedInv'
  <2> SUFFICES ASSUME NEW q \in WaitQs, NEW u \in ToSet(waitq'[q])
               PROVE  /\ q \in Mutexes /\ call[u] = q /\ owner[q] # u
                      /\ u \notin ready' /\ swap_retval[u] = EAGAIN
    BY <1>1 DEF PendedInv
  <2>1. u \in ToSet(waitq[q]) /\ Pended(u)'
    BY <1>2 DEF Pended, PendedIn
  <2> QED BY <1>0, <1>3, <2>1 DEF PendedInv
<1>8. GrantInv' /\ CountInv' /\ OwnerAlone'
  BY <1>0, <1>1 DEF GrantInv, CountInv, LocksOf, OwnerAlone
<1>9. NoLostWakeup'
  BY <1>0, <1>1, <1>2 DEF NoLostWakeup, Mutexes
<1> QED BY <1>2, <1>5, <1>6, <1>7, <1>8, <1>9 DEF IInv

\* Every step of a thread or of the timer interrupt preserves IInv.
LEMMA IInvStep == IInv /\ [Next]_vars => IInv'
<1> SUFFICES ASSUME IInv, [Next]_vars PROVE IInv'
  OBVIOUS
<1>1. ASSUME NEW t \in Threads, LockWaitFails(t) PROVE IInv'
  BY <1>1, Quiet DEF LockWaitFails, pendVars
<1>2. ASSUME NEW t \in Threads, Expire(t) PROVE IInv'
  BY <1>2, Quiet DEF Expire, ThreadTimeoutExpires, mutexVars
<1>3. ASSUME NEW t \in Threads, Suspend(t) PROVE IInv'
  BY <1>3, Quiet DEF Suspend, SuspendAbortTimeout, z_thread_halt, mutexVars
<1>4. ASSUME NEW t \in Threads, Resume(t) PROVE IInv'
  <2>1. /\ UNCHANGED <<waitq, waking, swap_retval>> /\ UNCHANGED mutexVars
        /\ ready' = IF t \notin suspended' \cup timer' /\ ~PendedIn(waitq', t)
                    THEN ready \cup {t} ELSE ready
    BY <1>4 DEF Resume, k_thread_resume, ready_thread
  <2>2. \A u \in ready' : u \in ready \/ ~Pended(u)
    BY <2>1 DEF Pended
  <2> QED BY <2>1, <2>2, Quiet DEF mutexVars
<1>5. CASE UNCHANGED vars
  BY <1>5, Quiet DEF vars, pendVars, mutexVars
<1> QED
  BY <1>1, <1>2, <1>3, <1>4, <1>5, LockNowStep, LockRaiseStep, LockPendStep, LockGotStep,
     LockTimedOutStep, UnlockNestedStep, UnlockRestoreStep, UnlockHandOverStep,
     UnlockReadyStep, UnlockFreeStep, TimeoutStep DEF Next, Lock, Unlock

\* IInv holds initially.
LEMMA IInvInit == Init => IInv
<1> SUFFICES ASSUME Init PROVE IInv
  OBVIOUS
<1>1. TypeOK
  BY DEF Init, PendInit, TypeOK
<1>2. \A q \in WaitQs : waitq[q] = <<>>
  BY DEF Init, PendInit
<1>3. Distinct /\ PendedInv
  BY <1>2 DEF Distinct, IsInjective, PendedInv, ToSet
<1>4. LockInv
  <2>1. \A n \in Mutexes, u \in Threads : lock # <<"lock", n, u>> /\ lock # <<"unlock", n, u>>
    BY MutexAssumption DEF Init, Mutexes
  <2> QED BY <2>1 DEF Init, PendInit, LockInv
<1>5. GrantInv
  BY DEF Init, GrantInv
<1>6. CountInv
  BY PendAssumption DEF Init, CountInv
<1>7. NoLostWakeup /\ OwnerAlone
  BY <1>2 DEF Init, NoLostWakeup, OwnerAlone, ToSet, Mutexes
<1> QED BY <1>1, <1>3, <1>4, <1>5, <1>6, <1>7 DEF IInv

\* Mutual exclusion: on one CPU and on SMP, whatever hand-overs, timeouts,
\* suspensions and nested locks come between, nobody but the owner of a mutex
\* has a lock of it that k_mutex_lock() granted.
THEOREM MutualExclusion == Spec => []OwnerAlone
<1>1. IInv => OwnerAlone
  BY DEF IInv
<1> QED BY IInvInit, IInvStep, <1>1, PTL DEF Spec

\* k_mutex_unlock() never frees a mutex that somebody waits for, on one CPU and
\* on SMP.
THEOREM WakeupsKept == Spec => []NoLostWakeup
<1>1. IInv => NoLostWakeup
  BY DEF IInv
<1> QED BY IInvInit, IInvStep, <1>1, PTL DEF Spec
=============================================================================
