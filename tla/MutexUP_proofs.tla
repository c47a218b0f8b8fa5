-------------------------- MODULE MutexUP_proofs ----------------------------
(***************************************************************************)
(* What holds of kernel/mutex.c without CONFIG_SMP only: the owner of a    *)
(* mutex knows that it is.                                                 *)
(***************************************************************************)
EXTENDS Mutex_proofs

\* One CPU.  A thread that was made the owner is on its way to hear of it, and
\* one that has heard -EAGAIN is not the owner.
AnswerInv ==
    /\ \A t \in Threads : call[t] # NULL /\ owner[call[t]] = t
            => t = waking \/ (swap_retval[t] = OK /\ t \notin late)
    /\ late \subseteq Threads
    /\ \A t \in late :
        /\ call[t] # NULL /\ t # waking /\ ~Pended(t)
        /\ \A m \in Mutexes : lock # <<"lock", m, t>>

UPInv == AnswerInv /\ OwnerKnows

\* On one CPU nobody runs while a mutex is being handed over.
LEMMA RunsAlone ==
    ASSUME ~SMP, IInv, NEW t, Runs(t)
    PROVE  t \in ready /\ lock = NULL /\ waking = NULL /\ ~Pended(t)
BY DEF IInv, LockInv, PendedInv, Pended, PendedIn, Runs, ThreadsRun

\* No step that leaves the mutexes and the queues as they are disturbs UPInv.
LEMMA QuietUP ==
    ASSUME UPInv, UNCHANGED <<waitq, waking, swap_retval, owner, lock_count, lock, call, late, held>>
    PROVE  UPInv'
<1>1. AnswerInv'
  BY DEF UPInv, AnswerInv, Pended, PendedIn
<1>2. OwnerKnows'
  BY DEF UPInv, OwnerKnows, Unlocking, LocksOf
<1> QED BY <1>1, <1>2 DEF UPInv

\* The steps of k_mutex_lock() keep UPInv.
LEMMA LockUP ==
    ASSUME ~SMP, IInv, UPInv, NEW t \in Threads,
           \/ \E m \in Mutexes : Lock(t, m)
           \/ LockGot(t) \/ LockWaitFails(t) \/ LockTimedOut(t)
    PROVE  UPInv'
<1>0. /\ TypeOK /\ LockInv /\ PendedInv /\ GrantInv /\ CountInv /\ NoLostWakeup /\ OwnerAlone
      /\ Distinct /\ AnswerInv /\ OwnerKnows /\ t # NULL
  BY PendAssumption DEF IInv, UPInv
<1>1. ASSUME NEW m \in Mutexes, LockNow(t, m) PROVE UPInv'
  <2>1. /\ lock = NULL /\ waking = NULL /\ call[t] = NULL /\ (lock_count[m] = 0 \/ owner[m] = t)
        /\ UNCHANGED <<waitq, waking, swap_retval, lock, call, late>>
        /\ owner' = [owner EXCEPT ![m] = t] /\ lock_count' = [lock_count EXCEPT ![m] = @ + 1]
        /\ held' = [held EXCEPT ![t] = Append(@, m)]
    BY <1>1, RunsAlone DEF LockNow, MayCall, pendVars
  <2>2. /\ \A n \in Mutexes : owner'[n] = IF n = m THEN t ELSE owner[n]
        /\ \A n \in Mutexes : lock_count'[n] = IF n = m THEN lock_count[n] + 1 ELSE lock_count[n]
    BY <1>0, <2>1 DEF TypeOK
  <2>3. \A n \in Mutexes, u \in Threads :
            LocksOf(u, n)' = IF u = t /\ n = m THEN LocksOf(u, n) + 1 ELSE LocksOf(u, n)
    BY <1>0, <2>1, AppendLocks
  <2>4. \A n \in Mutexes : ~Unlocking(n) /\ ~Unlocking(n)'
    BY <2>1, MutexAssumption DEF Unlocking, Mutexes
  <2>5. AnswerInv'
    <3>1. ASSUME NEW u \in Threads, call[u] # NULL, owner'[call[u]] = u PROVE owner[call[u]] = u
      <4>1. call[u] \in Mutexes /\ u # t
        BY <1>0, <2>1, <3>1 DEF TypeOK
      <4> QED BY <2>2, <3>1, <4>1
    <3> QED BY <1>0, <2>1, <3>1 DEF AnswerInv, Pended, PendedIn
  <2>6. OwnerKnows'
    <3> SUFFICES ASSUME NEW n \in Mutexes, NEW u \in Threads, owner'[n] = u, call[u] # n
                 PROVE  LocksOf(u, n)' = lock_count'[n]
      BY <2>1 DEF OwnerKnows
    <3>1. CASE n = m
      <4>1. u = t /\ call[t] # m
        BY <2>1, <2>2, <3>1, PendAssumption DEF Mutexes
      <4>2. LocksOf(t, m) = lock_count[m]
        <5>1. CASE owner[m] = t
          BY <1>0, <2>4, <4>1, <5>1 DEF OwnerKnows
        <5>2. CASE owner[m] # t
          BY <1>0, <2>1, <5>2, NoLocks DEF OwnerAlone
        <5> QED BY <5>1, <5>2
      <4> QED BY <2>2, <2>3, <3>1, <4>1, <4>2
    <3>2. CASE n # m
      BY <1>0, <2>2, <2>3, <2>4, <3>2 DEF OwnerKnows
    <3> QED BY <3>1, <3>2
  <2> QED BY <2>5, <2>6 DEF UPInv
<1>2. ASSUME NEW m \in Mutexes, LockRaise(t, m) PROVE UPInv'
  <2>1. /\ lock = NULL /\ lock' = <<"lock", m, t>> /\ waking = NULL
        /\ call[t] = NULL /\ call' = [call EXCEPT ![t] = m] /\ owner[m] # t
        /\ UNCHANGED <<waitq, waking, swap_retval, owner, lock_count, late, held>>
    BY <1>2, RunsAlone DEF LockRaise, MayCall, z_thread_prio_set
  <2>2. \A u \in Threads : call'[u] = IF u = t THEN m ELSE call[u]
    BY <1>0, <2>1 DEF TypeOK
  <2>3. \A n \in Mutexes : ~Unlocking(n) /\ ~Unlocking(n)'
    BY <2>1, MutexAssumption DEF Unlocking, Mutexes
  <2>4. t \notin late /\ \A n \in Mutexes, u \in Threads : lock' = <<"lock", n, u>> => u = t
    BY <1>0, <2>1 DEF AnswerInv
  <2>5. AnswerInv'
    <3>1. \A u \in Threads : call'[u] # NULL /\ owner'[call'[u]] = u
                => u = waking' \/ (swap_retval'[u] = OK /\ u \notin late')
      BY <1>0, <2>1, <2>2 DEF AnswerInv
    <3> QED BY <1>0, <2>1, <2>2, <2>4, <3>1 DEF AnswerInv, Pended, PendedIn
  <2>6. OwnerKnows'
    <3>1. \A n, u : LocksOf(u, n)' = LocksOf(u, n)
      BY <2>1 DEF LocksOf
    <3>2. \A n \in Mutexes : call[t] # n
      BY <2>1, PendAssumption DEF Mutexes
    <3> QED BY <1>0, <2>1, <2>2, <2>3, <3>1, <3>2 DEF OwnerKnows
  <2> QED BY <2>5, <2>6 DEF UPInv
<1>3. ASSUME NEW m \in Mutexes, NEW finite \in BOOLEAN, LockPend(t, m, finite) PROVE UPInv'
  <2>1. /\ lock = <<"lock", m, t>> /\ lock' = NULL /\ z_pend_curr(t, m, finite)
        /\ swap_retval' = [swap_retval EXCEPT ![t] = EAGAIN]
        /\ UNCHANGED <<waking, owner, lock_count, call, late, held>>
    BY <1>3 DEF LockPend, z_pend_curr
  <2>2. waking = NULL /\ call[t] = m /\ owner[m] # t /\ t \notin late
    BY <1>0, <2>1 DEF LockInv, AnswerInv
  <2>3. \A u : Pended(u)' => Pended(u) \/ u = t
    <3>1. \A q \in WaitQs : ToSet(waitq'[q]) =
              IF q = m THEN ToSet(waitq[q]) \cup {t} ELSE ToSet(waitq[q])
      BY <1>0, <2>1, PendQueues DEF TypeOK, Mutexes
    <3> QED BY <3>1 DEF Pended, PendedIn
  <2>4. \A u \in Threads : swap_retval'[u] = IF u = t THEN EAGAIN ELSE swap_retval[u]
    BY <1>0, <2>1 DEF TypeOK
  <2>5. \A n \in Mutexes, u \in Threads : lock' # <<"lock", n, u>>
    BY <2>1, MutexAssumption DEF Mutexes
  <2>6. AnswerInv'
    <3>1. \A u \in Threads : call[u] # NULL /\ owner[call[u]] = u
                => u = waking \/ (swap_retval'[u] = OK /\ u \notin late)
      BY <1>0, <2>2, <2>4 DEF AnswerInv
    <3>2. \A u \in late : \A n \in Mutexes : lock' # <<"lock", n, u>>
      BY <1>0, <2>5 DEF AnswerInv
    <3> QED BY <1>0, <2>1, <2>2, <2>3, <3>1, <3>2 DEF AnswerInv
  <2>7. OwnerKnows'
    <3>1. \A n \in Mutexes : ~Unlocking(n) /\ ~Unlocking(n)'
      BY <2>1, MutexAssumption DEF Unlocking, Mutexes
    <3> QED BY <1>0, <2>1, <3>1 DEF OwnerKnows, LocksOf
  <2> QED BY <2>6, <2>7 DEF UPInv
<1>4. CASE LockGot(t)
  <2> DEFINE m == call[t]
  <2>1. /\ m # NULL /\ t \notin late /\ swap_retval[t] = OK /\ lock = NULL /\ waking = NULL
        /\ \A n \in Mutexes : lock # <<"lock", n, t>>
        /\ swap_retval' = [swap_retval EXCEPT ![t] = EAGAIN]
        /\ call' = [call EXCEPT ![t] = NULL] /\ held' = [held EXCEPT ![t] = Append(@, m)]
        /\ UNCHANGED <<waitq, waking, owner, lock_count, lock, late>>
    BY <1>4, RunsAlone DEF LockGot
  <2>2. m \in Mutexes /\ owner[m] = t
    BY <1>0, <2>1 DEF GrantInv, TypeOK
  <2>3. lock_count[m] = 1 /\ LocksOf(t, m) = 0
    BY <1>0, <2>2, NoLocks DEF CountInv
  <2>4. /\ \A u \in Threads : swap_retval'[u] = IF u = t THEN EAGAIN ELSE swap_retval[u]
        /\ \A u \in Threads : call'[u] = IF u = t THEN NULL ELSE call[u]
    BY <1>0, <2>1 DEF TypeOK
  <2> HIDE DEF m
  <2>5. \A n \in Mutexes, u \in Threads :
            LocksOf(u, n)' = IF u = t /\ n = m THEN LocksOf(u, n) + 1 ELSE LocksOf(u, n)
    <3>1. held' = [held EXCEPT ![t] = Append(@, m)]
      BY <2>1
    <3> QED BY <1>0, <2>2, <3>1, AppendLocks
  <2>6. AnswerInv'
    <3>1. \A u \in Threads : call'[u] # NULL /\ owner[call'[u]] = u
                => u = waking \/ (swap_retval'[u] = OK /\ u \notin late)
      BY <1>0, <2>4 DEF AnswerInv
    <3>2. \A u \in late : call'[u] # NULL
      BY <1>0, <2>1 DEF AnswerInv
    <3> QED BY <1>0, <2>1, <3>1, <3>2 DEF AnswerInv, Pended, PendedIn
  <2>7. OwnerKnows'
    <3> SUFFICES ASSUME NEW n \in Mutexes, NEW u \in Threads, owner[n] = u, call'[u] # n
                 PROVE  LocksOf(u, n)' = lock_count[n]
      BY <2>1 DEF OwnerKnows
    <3>1. ~Unlocking(n)
      BY <2>1, MutexAssumption DEF Unlocking, Mutexes
    <3>2. CASE u = t /\ n = m
      BY <2>3, <2>5, <3>2
    <3>3. CASE ~(u = t /\ n = m)
      <4>1. call[u] # n
        BY <2>4, <3>3 DEF m
      <4> QED BY <1>0, <2>5, <3>1, <3>3, <4>1 DEF OwnerKnows
    <3> QED BY <3>2, <3>3
  <2> QED BY <2>6, <2>7 DEF UPInv
<1>5. CASE LockWaitFails(t)
  <2>1. /\ call[t] # NULL /\ swap_retval[t] = EAGAIN /\ late' = late \cup {t}
        /\ lock = NULL /\ waking = NULL /\ ~Pended(t)
        /\ \A m \in Mutexes : lock # <<"lock", m, t>>
        /\ UNCHANGED <<waitq, waking, swap_retval, owner, lock_count, lock, call, held>>
    BY <1>5, RunsAlone DEF LockWaitFails, pendVars
  <2>2. owner[call[t]] # t
    BY <1>0, <2>1 DEF AnswerInv, OK, EAGAIN
  <2>3. AnswerInv'
    BY <1>0, <2>1, <2>2 DEF AnswerInv, Pended, PendedIn
  <2>4. OwnerKnows'
    BY <1>0, <2>1 DEF OwnerKnows, Unlocking, LocksOf
  <2> QED BY <2>3, <2>4 DEF UPInv
<1>6. CASE LockTimedOut(t)
  <2>1. /\ t \in late /\ lock = NULL /\ waking = NULL /\ late' = late \ {t}
        /\ call' = [call EXCEPT ![t] = NULL]
        /\ UNCHANGED <<waitq, waking, swap_retval, owner, lock_count, lock, held>>
    BY <1>6, RunsAlone DEF LockTimedOut, z_thread_prio_set, pendVars
  <2>2. call[t] # NULL /\ owner[call[t]] # t
    BY <1>0, <2>1 DEF AnswerInv
  <2>3. \A u \in Threads : call'[u] = IF u = t THEN NULL ELSE call[u]
    BY <1>0, <2>1 DEF TypeOK
  <2>4. AnswerInv'
    <3>1. \A u \in Threads : call'[u] # NULL /\ owner[call'[u]] = u
                => u = waking \/ (swap_retval[u] = OK /\ u \notin late')
      BY <1>0, <2>1, <2>3 DEF AnswerInv
    <3>2. \A u \in late' : call'[u] # NULL
      BY <1>0, <2>1 DEF AnswerInv
    <3> QED BY <1>0, <2>1, <3>1, <3>2 DEF AnswerInv, Pended, PendedIn
  <2>5. OwnerKnows'
    <3>1. \A n \in Mutexes, u \in Threads : owner[n] = u /\ call'[u] # n => call[u] # n
      BY <2>2, <2>3
    <3>2. \A n, u : LocksOf(u, n)' = LocksOf(u, n)
      BY <2>1 DEF LocksOf
    <3> QED BY <1>0, <2>1, <3>1, <3>2 DEF OwnerKnows, Unlocking
  <2> QED BY <2>4, <2>5 DEF UPInv
<1> QED BY <1>1, <1>2, <1>3, <1>4, <1>5, <1>6 DEF Lock

\* The steps of k_mutex_unlock() keep UPInv.
LEMMA UnlockUP ==
    ASSUME ~SMP, IInv, UPInv, NEW t \in Threads, NEW m \in Mutexes, Unlock(t, m)
    PROVE  UPInv'
<1>0. /\ TypeOK /\ LockInv /\ PendedInv /\ GrantInv /\ CountInv /\ NoLostWakeup /\ OwnerAlone
      /\ Distinct /\ AnswerInv /\ OwnerKnows /\ t # NULL /\ m \in WaitQs
  BY PendAssumption DEF IInv, UPInv, Mutexes
<1>1. CASE UnlockNested(t, m)
  <2>1. /\ lock_count' = [lock_count EXCEPT ![m] = @ - 1] /\ Forget(t, m)
        /\ UNCHANGED <<waitq, waking, swap_retval, owner, lock, call, late>>
    BY <1>1 DEF UnlockNested, pendVars
  <2>2. owner[m] = t /\ m \in ToSet(held[t]) /\ call[t] # m
    BY <1>0, <1>1, MayUnlockFacts, PendAssumption DEF UnlockNested
  <2>3. \A n \in Mutexes, u \in Threads :
            LocksOf(u, n)' = IF u = t /\ n = m THEN LocksOf(u, n) - 1 ELSE LocksOf(u, n)
    BY <1>0, <2>1, <2>2, ForgetLocks
  <2>4. \A n \in Mutexes : lock_count'[n] = IF n = m THEN lock_count[n] - 1 ELSE lock_count[n]
    BY <1>0, <2>1 DEF TypeOK
  <2>5. AnswerInv'
    BY <1>0, <2>1 DEF AnswerInv, Pended, PendedIn
  <2>6. OwnerKnows'
    BY <1>0, <2>1, <2>2, <2>3, <2>4 DEF OwnerKnows, Unlocking
  <2> QED BY <2>5, <2>6 DEF UPInv
<1>2. CASE UnlockRestore(t, m)
  <2>1. /\ lock = NULL /\ lock' = <<"unlock", m, t>> /\ Forget(t, m)
        /\ UNCHANGED <<waitq, waking, swap_retval, owner, lock_count, call, late>>
    BY <1>2 DEF UnlockRestore, z_thread_prio_set
  <2>2. owner[m] = t /\ m \in ToSet(held[t])
    BY <1>0, <1>2, MayUnlockFacts DEF UnlockRestore
  <2>3. \A n \in Mutexes, u \in Threads :
            LocksOf(u, n)' = IF u = t /\ n = m THEN LocksOf(u, n) - 1 ELSE LocksOf(u, n)
    BY <1>0, <2>1, <2>2, ForgetLocks
  <2>4. AnswerInv'
    <3>1. \A n \in Mutexes, u \in Threads : lock' # <<"lock", n, u>>
      BY <2>1
    <3> QED BY <1>0, <2>1, <3>1 DEF AnswerInv, Pended, PendedIn
  <2>5. OwnerKnows'
    <3>1. Unlocking(m)' /\ \A n \in Mutexes : ~Unlocking(n)
      BY <2>1, MutexAssumption DEF Unlocking, Mutexes
    <3> QED BY <1>0, <2>1, <2>3, <3>1 DEF OwnerKnows
  <2> QED BY <2>4, <2>5 DEF UPInv
<1>3. CASE UnlockHandOver(t, m)
  <2> DEFINE w == Head(waitq[m])
  <2>1. /\ lock = <<"unlock", m, t>> /\ waking = NULL /\ z_unpend_first_thread(m)
        /\ owner' = [owner EXCEPT ![m] = w]
        /\ UNCHANGED <<swap_retval, lock_count, lock, call, late, held>>
    BY <1>3 DEF UnlockHandOver, z_unpend_first_thread
  <2>2. /\ waking' = w /\ w \in Threads /\ w \in ToSet(waitq[m])
        /\ \A q \in WaitQs : ToSet(waitq'[q]) \subseteq ToSet(waitq[q])
    BY <1>0, <2>1, UnpendQueues DEF TypeOK
  <2> HIDE DEF w
  <2>3. \A n \in Mutexes : owner'[n] = IF n = m THEN w ELSE owner[n]
    BY <1>0, <2>1 DEF TypeOK
  <2>4. Pended(w) /\ w \notin late /\ \A u : Pended(u)' => Pended(u)
    BY <1>0, <2>2 DEF AnswerInv, Pended, PendedIn
  <2>5. AnswerInv'
    <3>1. ASSUME NEW u \in Threads, call[u] # NULL, owner'[call[u]] = u
          PROVE  u = w \/ (swap_retval[u] = OK /\ u \notin late)
      <4>1. call[u] \in Mutexes
        BY <1>0, <3>1 DEF TypeOK
      <4> QED BY <1>0, <2>1, <2>3, <3>1, <4>1, PendAssumption DEF AnswerInv
    <3> QED BY <1>0, <2>1, <2>2, <2>4, <3>1 DEF AnswerInv
  <2>6. OwnerKnows'
    <3>1. Unlocking(m)'
      BY <2>1 DEF Unlocking
    <3>2. \A n, u : LocksOf(u, n)' = LocksOf(u, n)
      BY <2>1 DEF LocksOf
    <3>3. \A n : Unlocking(n)' = Unlocking(n)
      BY <2>1 DEF Unlocking
    <3> QED BY <1>0, <2>1, <2>3, <3>1, <3>2, <3>3 DEF OwnerKnows
  <2> QED BY <2>5, <2>6 DEF UPInv
<1>4. CASE UnlockReady(t, m)
  <2>1. /\ lock = <<"unlock", m, t>> /\ lock' = NULL /\ waking # NULL /\ waking' = NULL
        /\ swap_retval' = [swap_retval EXCEPT ![waking] = OK]
        /\ UNCHANGED <<waitq, owner, lock_count, call, late, held>>
    BY <1>4 DEF UnlockReady, z_ready_thread
  <2>2. owner[m] = waking /\ call[waking] = m /\ waking \in Threads /\ waking \notin late
    BY <1>0, <2>1 DEF LockInv, TypeOK, AnswerInv
  <2>3. \A u \in Threads : swap_retval'[u] = IF u = waking THEN OK ELSE swap_retval[u]
    BY <1>0, <2>1, <2>2 DEF TypeOK
  <2>4. AnswerInv'
    <3>1. \A u \in Threads : call[u] # NULL /\ owner[call[u]] = u
                => swap_retval'[u] = OK /\ u \notin late
      BY <1>0, <2>2, <2>3 DEF AnswerInv
    <3>2. late \subseteq Threads /\ \A u \in late : u # NULL
      BY <1>0, PendAssumption DEF AnswerInv
    <3>3. \A n \in Mutexes, u \in Threads : lock' # <<"lock", n, u>>
      BY <2>1, MutexAssumption DEF Mutexes
    <3> QED BY <1>0, <2>1, <3>1, <3>2, <3>3 DEF AnswerInv, Pended, PendedIn
  <2>5. OwnerKnows'
    <3>1. \A n \in Mutexes : n # m => ~Unlocking(n)
      BY <2>1 DEF Unlocking
    <3>2. \A n, u : LocksOf(u, n)' = LocksOf(u, n)
      BY <2>1 DEF LocksOf
    <3> QED BY <1>0, <2>1, <2>2, <3>1, <3>2 DEF OwnerKnows
  <2> QED BY <2>4, <2>5 DEF UPInv
<1>5. CASE UnlockFree(t, m)
  <2>1. /\ lock = <<"unlock", m, t>> /\ lock' = NULL
        /\ owner' = [owner EXCEPT ![m] = NULL] /\ lock_count' = [lock_count EXCEPT ![m] = 0]
        /\ UNCHANGED <<waitq, waking, swap_retval, call, late, held>>
    BY <1>5 DEF UnlockFree, pendVars
  <2>2. /\ \A n \in Mutexes : owner'[n] = IF n = m THEN NULL ELSE owner[n]
        /\ \A n \in Mutexes : n # m => lock_count'[n] = lock_count[n]
    BY <1>0, <2>1 DEF TypeOK
  <2>3. AnswerInv'
    <3>1. ASSUME NEW u \in Threads, call[u] # NULL, owner'[call[u]] = u
          PROVE  owner[call[u]] = u
      <4>1. call[u] \in Mutexes
        BY <1>0, <3>1 DEF TypeOK
      <4> QED BY <2>2, <3>1, <4>1, PendAssumption
    <3>2. late \subseteq Threads
      BY <1>0 DEF AnswerInv
    <3>3. \A n \in Mutexes, u \in Threads : lock' # <<"lock", n, u>>
      BY <2>1, MutexAssumption DEF Mutexes
    <3> QED BY <1>0, <2>1, <3>1, <3>2, <3>3 DEF AnswerInv, Pended, PendedIn
  <2>4. OwnerKnows'
    <3>1. \A n \in Mutexes : n # m => ~Unlocking(n)
      BY <2>1 DEF Unlocking
    <3>2. \A n, u : LocksOf(u, n)' = LocksOf(u, n)
      BY <2>1 DEF LocksOf
    <3> QED BY <1>0, <2>1, <2>2, <3>1, <3>2, PendAssumption DEF OwnerKnows
  <2> QED BY <2>3, <2>4 DEF UPInv
<1> QED BY <1>1, <1>2, <1>3, <1>4, <1>5 DEF Unlock

\* On one CPU every step preserves UPInv.
LEMMA UPInvStep ==
    ASSUME ~SMP PROVE IInv /\ UPInv /\ [Next]_vars => UPInv'
<1> SUFFICES ASSUME IInv, UPInv, [Next]_vars PROVE UPInv'
  OBVIOUS
<1>1. ASSUME NEW t \in Threads, Expire(t) PROVE UPInv'
  BY <1>1, QuietUP DEF Expire, ThreadTimeoutExpires, mutexVars
<1>2. ASSUME NEW t \in Threads, Suspend(t) PROVE UPInv'
  BY <1>2, QuietUP DEF Suspend, SuspendAbortTimeout, z_thread_halt, mutexVars
<1>3. ASSUME NEW t \in Threads, Resume(t) PROVE UPInv'
  BY <1>3, QuietUP DEF Resume, k_thread_resume, mutexVars
<1>4. CASE TimeoutHandler
  <2>1. /\ z_thread_timeout
        /\ UNCHANGED <<waking, swap_retval, owner, lock_count, lock, call, late, held>>
    BY <1>4 DEF TimeoutHandler, z_thread_timeout, mutexVars
  <2>2. \A u : Pended(u)' => Pended(u)
    BY <2>1, TimeoutQueues DEF IInv, TypeOK, Pended, PendedIn
  <2>3. AnswerInv'
    BY <2>1, <2>2 DEF UPInv, AnswerInv
  <2>4. OwnerKnows'
    BY <2>1 DEF UPInv, OwnerKnows, Unlocking, LocksOf
  <2> QED BY <2>3, <2>4 DEF UPInv
<1>5. CASE UNCHANGED vars
  BY <1>5, QuietUP DEF vars, pendVars, mutexVars
<1> QED BY <1>1, <1>2, <1>3, <1>4, <1>5, LockUP, UnlockUP DEF Next

\* UPInv holds initially.
LEMMA UPInvInit == Init => UPInv
BY PendAssumption DEF Init, UPInv, AnswerInv, OwnerKnows

\* Without SMP, the owner of a mutex knows that it is: once its k_mutex_lock() has
\* returned it has exactly lock_count locks, so a mutex is never granted to a
\* thread that was told -EAGAIN.
THEOREM OwnersAnswered ==
    ASSUME ~SMP PROVE Spec => []OwnerKnows
<1>1. UPInv => OwnerKnows
  BY DEF UPInv
<1> QED BY IInvInit, IInvStep, UPInvInit, UPInvStep, <1>1, PTL DEF Spec
=============================================================================
