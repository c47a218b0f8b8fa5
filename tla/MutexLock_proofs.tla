------------------------- MODULE MutexLock_proofs ---------------------------
(***************************************************************************)
(* The inductive invariant of kernel/mutex.c, and the proof that the steps of *)
(* k_mutex_lock() keep it, on one CPU and on SMP.                          *)
(***************************************************************************)
EXTENDS Mutex, MutexPlaces_proofs

\* The types of what the proofs are about.
TypeOK ==
    /\ waitq \in [WaitQs -> Seq(Threads)]
    /\ waking \in Threads \cup {NULL}
    /\ swap_retval \in [Threads -> {OK, EAGAIN}]
    /\ owner \in [Mutexes -> Threads \cup {NULL}]
    /\ lock_count \in [Mutexes -> Nat]
    /\ lock \in {NULL} \cup ({"lock", "unlock"} \X Mutexes \X Threads)
    /\ call \in [Threads -> Mutexes \cup {NULL}]
    /\ held \in [Threads -> Seq(Mutexes)]

\* What the call that holds the spinlock has established: a locker that the
\* mutex is taken, an unlocker that it is giving up its only lock, and that
\* after the hand-over the mutex belongs to the thread it is about to ready.
LockInv ==
    /\ lock = NULL => waking = NULL
    /\ \A m \in Mutexes, t \in Threads :
        /\ lock = <<"lock", m, t>> =>
            /\ waking = NULL /\ call[t] = m /\ owner[m] # t /\ owner[m] # NULL
            /\ ~Pended(t)
        /\ lock = <<"unlock", m, t>> =>
            /\ call[t] = NULL /\ lock_count[m] = 1
            /\ IF waking = NULL THEN owner[m] = t /\ m \notin ToSet(held[t])
                                ELSE /\ owner[m] = waking /\ call[waking] = m
                                     /\ swap_retval[waking] = EAGAIN

\* A pended thread waits for a mutex that is not its own, with -EAGAIN preset.
PendedInv ==
    \A q \in WaitQs : \A t \in ToSet(waitq[q]) :
        /\ q \in Mutexes /\ call[t] = q /\ owner[q] # t
        /\ t \notin ready /\ swap_retval[t] = EAGAIN

\* A caller that will see 0 from z_pend_curr() owns the mutex it waited for.
GrantInv ==
    \A t \in Threads :
        /\ swap_retval[t] = OK /\ call[t] # NULL /\ t \notin late
        /\ \A m \in Mutexes : lock # <<"lock", m, t>>
        => owner[call[t]] = t

\* lock_count covers the locks of the owner, the one being handed over included.
CountInv ==
    \A m \in Mutexes, t \in Threads : owner[m] = t =>
        /\ LocksOf(t, m) <= lock_count[m]
        /\ call[t] = m => lock_count[m] = 1 /\ m \notin ToSet(held[t])

IInv == /\ TypeOK /\ Distinct /\ LockInv /\ PendedInv /\ GrantInv /\ CountInv
        /\ NoLostWakeup /\ OwnerAlone

\* IInv does not depend on the other variables, nor on which of the threads that
\* are not pended are ready, and a thread may hear of its -EAGAIN at any time.
LEMMA Quiet ==
    ASSUME IInv, UNCHANGED <<waitq, waking, swap_retval, owner, lock_count, lock, call, held>>,
           late \subseteq late', \A t \in ready' : t \in ready \/ ~Pended(t)
    PROVE  IInv'
<1>1. TypeOK' /\ Distinct'
  BY DEF IInv, TypeOK, Distinct
<1>2. LockInv'
  BY DEF IInv, LockInv, Pended, PendedIn
<1>3. PendedInv'
  BY DEF IInv, PendedInv, Pended, PendedIn
<1>4. GrantInv'
  BY DEF IInv, GrantInv
<1>5. CountInv' /\ NoLostWakeup' /\ OwnerAlone'
  BY DEF IInv, CountInv, LocksOf, NoLostWakeup, OwnerAlone
<1> QED BY <1>1, <1>2, <1>3, <1>4, <1>5 DEF IInv

\* The locks of a thread that has forgotten its latest lock of m.
LEMMA ForgetLocks ==
    ASSUME TypeOK, NEW t \in Threads, NEW m \in Mutexes, m \in ToSet(held[t]), Forget(t, m)
    PROVE  /\ held' \in [Threads -> Seq(Mutexes)]
           /\ \A u \in Threads : ToSet(held'[u]) \subseteq ToSet(held[u])
           /\ \A n \in Mutexes, u \in Threads :
                 LocksOf(u, n)' = IF u = t /\ n = m THEN LocksOf(u, n) - 1 ELSE LocksOf(u, n)
<1> DEFINE i == CHOOSE k \in DOMAIN held[t] :
                    held[t][k] = m /\ \A j \in DOMAIN held[t] : held[t][j] = m => j <= k
           r == RemoveAt(held[t], i)
<1>1. held' = [held EXCEPT ![t] = r]
  BY DEF Forget
<1>2. held[t] \in Seq(Mutexes) /\ held \in [Threads -> Seq(Mutexes)]
  BY DEF TypeOK
<1>3. ASSUME NEW n
      PROVE  /\ r \in Seq(Mutexes) /\ ToSet(r) \subseteq ToSet(held[t])
             /\ Cardinality(Places(r, n)) = IF n = m THEN Cardinality(Places(held[t], n)) - 1
                                                     ELSE Cardinality(Places(held[t], n))
  <2> HIDE DEF i
  <2>1. /\ i \in DOMAIN held[t] /\ held[t][i] = m
        /\ \A j \in DOMAIN held[t] : held[t][j] = m => j <= i
    BY <1>2, LatestPlace DEF i
  <2>2. ASSUME NEW s \in Seq(Mutexes), NEW l \in DOMAIN s, s[l] = m,
               \A j \in DOMAIN s : s[j] = m => j <= l
        PROVE  /\ RemoveAt(s, l) \in Seq(Mutexes) /\ ToSet(RemoveAt(s, l)) \subseteq ToSet(s)
               /\ Cardinality(Places(RemoveAt(s, l), n)) =
                     IF n = m THEN Cardinality(Places(s, n)) - 1 ELSE Cardinality(Places(s, n))
    BY <2>2, PlacesForget
  <2> QED BY <1>2, <2>1, <2>2
<1> HIDE DEF r
<1>4. \A u \in Threads : held'[u] = IF u = t THEN r ELSE held[u]
  BY <1>1, <1>2
<1>5. \A n, u : LocksOf(u, n) = Cardinality(Places(held[u], n))
                /\ LocksOf(u, n)' = Cardinality(Places(held'[u], n))
  BY DEF LocksOf, Places
<1>6. held' \in [Threads -> Seq(Mutexes)]
  BY <1>1, <1>2, <1>3
<1> QED BY <1>3, <1>4, <1>5, <1>6

\* The locks of a thread that has been granted another lock of m.
LEMMA AppendLocks ==
    ASSUME TypeOK, NEW t \in Threads, NEW m \in Mutexes,
           held' = [held EXCEPT ![t] = Append(@, m)]
    PROVE  /\ held' \in [Threads -> Seq(Mutexes)]
           /\ \A u \in Threads : ToSet(held'[u]) =
                 IF u = t THEN ToSet(held[u]) \cup {m} ELSE ToSet(held[u])
           /\ \A n \in Mutexes, u \in Threads :
                 LocksOf(u, n)' = IF u = t /\ n = m THEN LocksOf(u, n) + 1 ELSE LocksOf(u, n)
<1> DEFINE r == Append(held[t], m)
<1>1. held' = [held EXCEPT ![t] = r]
  OBVIOUS
<1>2. held[t] \in Seq(Mutexes) /\ held \in [Threads -> Seq(Mutexes)]
  BY DEF TypeOK
<1>3. ASSUME NEW n
      PROVE  /\ r \in Seq(Mutexes) /\ ToSet(r) = ToSet(held[t]) \cup {m}
             /\ Cardinality(Places(r, n)) = IF n = m THEN Cardinality(Places(held[t], n)) + 1
                                                     ELSE Cardinality(Places(held[t], n))
  <2>1. ASSUME NEW s \in Seq(Mutexes)
        PROVE  /\ Append(s, m) \in Seq(Mutexes) /\ ToSet(Append(s, m)) = ToSet(s) \cup {m}
               /\ Cardinality(Places(Append(s, m), n)) = IF n = m THEN Cardinality(Places(s, n)) + 1
                                                                ELSE Cardinality(Places(s, n))
    BY PlacesAppend
  <2> QED BY <1>2, <2>1
<1> HIDE DEF r
<1>4. \A u \in Threads : held'[u] = IF u = t THEN r ELSE held[u]
  BY <1>1, <1>2
<1>5. \A n, u : LocksOf(u, n) = Cardinality(Places(held[u], n))
                /\ LocksOf(u, n)' = Cardinality(Places(held'[u], n))
  BY DEF LocksOf, Places
<1>6. held' \in [Threads -> Seq(Mutexes)]
  BY <1>1, <1>2, <1>3
<1> QED BY <1>3, <1>4, <1>5, <1>6

\* A thread has no lock of m iff m is not among its locks.
LEMMA NoLocks ==
    ASSUME TypeOK, NEW t \in Threads, NEW m \in Mutexes
    PROVE  LocksOf(t, m) \in Nat /\ (LocksOf(t, m) = 0 <=> m \notin ToSet(held[t]))
<1>1. held[t] \in Seq(Mutexes)
  BY DEF TypeOK
<1>2. LocksOf(t, m) = Cardinality(Places(held[t], m))
  BY DEF LocksOf, Places
<1> QED BY <1>1, <1>2, PlacesFinite

\* Whoever may unlock m is its owner, is in no other call and has a lock of it.
LEMMA MayUnlockFacts ==
    ASSUME TypeOK, NEW t \in Threads, NEW m \in Mutexes, MayUnlock(t, m)
    PROVE  /\ owner[m] = t /\ m \in ToSet(held[t]) /\ call[t] = NULL /\ t \in ready
           /\ \A n \in Mutexes : lock # <<"unlock", n, t>>
<1>1. held[t] \in Seq(Mutexes)
  BY DEF TypeOK
<1>2. held[t] # <<>> => Last(held[t]) \in ToSet(held[t])
  <2> SUFFICES ASSUME held[t] # <<>> PROVE Len(held[t]) \in DOMAIN held[t]
    BY DEF Last, ToSet
  <2> QED BY <1>1, LenProperties, EmptySeq
<1> QED BY <1>2 DEF MayUnlock, MayCall, Runs

-----------------------------------------------------------------------------
\* k_mutex_lock() of a free mutex, or once more of one's own, keeps IInv.
LEMMA LockNowStep ==
    ASSUME IInv, NEW t \in Threads, NEW m \in Mutexes, LockNow(t, m)
    PROVE  IInv'
<1>0. /\ TypeOK /\ LockInv /\ PendedInv /\ GrantInv /\ CountInv /\ NoLostWakeup /\ OwnerAlone
  BY DEF IInv
<1>1. /\ lock = NULL /\ t \in ready /\ call[t] = NULL /\ (lock_count[m] = 0 \/ owner[m] = t)
      /\ UNCHANGED <<waitq, waking, swap_retval, ready, lock, call, late>>
      /\ owner' = [owner EXCEPT ![m] = t] /\ lock_count' = [lock_count EXCEPT ![m] = @ + 1]
      /\ held' = [held EXCEPT ![t] = Append(@, m)]
  BY DEF LockNow, MayCall, Runs, pendVars
<1>2. /\ \A n \in Mutexes : owner'[n] = IF n = m THEN t ELSE owner[n]
      /\ \A n \in Mutexes : lock_count'[n] = IF n = m THEN lock_count[n] + 1 ELSE lock_count[n]
      /\ owner' \in [Mutexes -> Threads \cup {NULL}] /\ lock_count' \in [Mutexes -> Nat]
  BY <1>0, <1>1 DEF TypeOK
<1>3. /\ held' \in [Threads -> Seq(Mutexes)]
      /\ \A u \in Threads : ToSet(held'[u]) =
            IF u = t THEN ToSet(held[u]) \cup {m} ELSE ToSet(held[u])
      /\ \A n \in Mutexes, u \in Threads :
            LocksOf(u, n)' = IF u = t /\ n = m THEN LocksOf(u, n) + 1 ELSE LocksOf(u, n)
  BY <1>0, <1>1, AppendLocks
<1>4. owner[m] = NULL \/ owner[m] = t
  BY <1>0, <1>1 DEF NoLostWakeup
<1>5. t # NULL
  BY PendAssumption
<1>6. TypeOK' /\ Distinct'
  BY <1>0, <1>1, <1>2, <1>3 DEF IInv, TypeOK, Distinct
<1>7. LockInv'
  <2>1. lock' = NULL /\ waking' = NULL
    BY <1>0, <1>1 DEF LockInv
  <2>2. \A n \in Mutexes, u \in Threads : lock' # <<"lock", n, u>> /\ lock' # <<"unlock", n, u>>
    BY <2>1, MutexAssumption DEF Mutexes
  <2> QED BY <2>1, <2>2 DEF LockInv
<1>8. PendedInv'
  <2> SUFFICES ASSUME NEW q \in WaitQs, NEW u \in ToSet(waitq[q])
               PROVE  /\ q \in Mutexes /\ call[u] = q /\ owner'[q] # u
                      /\ u \notin ready /\ swap_retval[u] = EAGAIN
    BY <1>1 DEF PendedInv
  <2>1. q \in Mutexes /\ call[u] = q /\ owner[q] # u /\ u \notin ready /\ swap_retval[u] = EAGAIN
    BY <1>0 DEF PendedInv
  <2> QED BY <1>1, <1>2, <2>1
<1>9. GrantInv'
  <2> SUFFICES ASSUME NEW u \in Threads, swap_retval[u] = OK, call[u] # NULL, u \notin late,
                      \A n \in Mutexes : lock # <<"lock", n, u>>
               PROVE  owner'[call[u]] = u
    BY <1>1 DEF GrantInv
  <2>1. owner[call[u]] = u /\ call[u] \in Mutexes
    BY <1>0 DEF GrantInv, TypeOK
  <2> QED BY <1>1, <1>2, <1>4, <2>1, PendAssumption
<1>10. CountInv'
  <2> SUFFICES ASSUME NEW n \in Mutexes, NEW u \in Threads, owner'[n] = u
               PROVE  /\ LocksOf(u, n)' <= lock_count'[n]
                      /\ call[u] = n => lock_count'[n] = 1 /\ n \notin ToSet(held'[u])
    BY <1>1 DEF CountInv
  <2>1. CASE n = m
    <3>1. u = t /\ call[u] # n
      BY <1>1, <1>2, <2>1, PendAssumption DEF Mutexes
    <3>2. LocksOf(t, m) <= lock_count[m]
      <4>1. CASE owner[m] = t
        BY <1>0, <4>1 DEF CountInv
      <4>2. CASE owner[m] # t
        <5>1. LocksOf(t, m) = 0
          BY <1>0, <4>2, NoLocks DEF OwnerAlone
        <5> QED BY <1>0, <5>1 DEF TypeOK
      <4> QED BY <4>1, <4>2
    <3>3. LocksOf(t, m) \in Nat /\ lock_count[m] \in Nat
      BY <1>0, NoLocks DEF TypeOK
    <3> QED BY <1>2, <1>3, <2>1, <3>1, <3>2, <3>3
  <2>2. CASE n # m
    <3>1. owner[n] = u /\ lock_count'[n] = lock_count[n] /\ LocksOf(u, n)' = LocksOf(u, n)
      BY <1>2, <1>3, <2>2
    <3>2. n \in ToSet(held'[u]) => n \in ToSet(held[u])
      BY <1>3, <2>2
    <3> QED BY <1>0, <3>1, <3>2 DEF CountInv
  <2> QED BY <2>1, <2>2
<1>11. NoLostWakeup'
  <2> SUFFICES ASSUME NEW n \in Mutexes
               PROVE  /\ owner'[n] = NULL <=> lock_count'[n] = 0
                      /\ owner'[n] = NULL => waitq[n] = <<>>
    BY <1>1 DEF NoLostWakeup
  <2>1. CASE n = m
    BY <1>0, <1>2, <1>5, <2>1 DEF TypeOK
  <2>2. CASE n # m
    BY <1>0, <1>2, <2>2 DEF NoLostWakeup
  <2> QED BY <2>1, <2>2
<1>12. OwnerAlone'
  <2> SUFFICES ASSUME NEW n \in Mutexes, NEW u \in Threads, owner'[n] # u
               PROVE  n \notin ToSet(held'[u])
    BY DEF OwnerAlone
  <2>1. owner[n] # u \/ (n = m /\ u = t)
    BY <1>2, <1>4, PendAssumption
  <2> QED BY <1>0, <1>2, <1>3, <2>1 DEF OwnerAlone
<1> QED BY <1>6, <1>7, <1>8, <1>9, <1>10, <1>11, <1>12 DEF IInv

\* Raising the owner and holding the lock for a caller about to pend keeps IInv.
LEMMA LockRaiseStep ==
    ASSUME IInv, NEW t \in Threads, NEW m \in Mutexes, LockRaise(t, m)
    PROVE  IInv'
<1>0. /\ TypeOK /\ LockInv /\ PendedInv /\ GrantInv /\ CountInv /\ NoLostWakeup /\ OwnerAlone
  BY DEF IInv
<1>1. /\ lock = NULL /\ t \in ready /\ call[t] = NULL /\ lock_count[m] > 0 /\ owner[m] # t
      /\ UNCHANGED <<waitq, waking, swap_retval, ready, owner, lock_count, late, held>>
      /\ lock' = <<"lock", m, t>> /\ call' = [call EXCEPT ![t] = m]
  BY DEF LockRaise, MayCall, Runs, z_thread_prio_set
<1>2. /\ \A u \in Threads : call'[u] = IF u = t THEN m ELSE call[u]
      /\ call' \in [Threads -> Mutexes \cup {NULL}]
  BY <1>0, <1>1 DEF TypeOK
<1>3. waking = NULL /\ owner[m] # NULL
  BY <1>0, <1>1 DEF LockInv, NoLostWakeup
<1>4. ~Pended(t)
  BY <1>0, <1>1 DEF PendedInv, Pended, PendedIn
<1>5. TypeOK' /\ Distinct'
  BY <1>0, <1>1, <1>2 DEF IInv, TypeOK, Distinct
<1>6. LockInv'
  <2>1. lock' # NULL
    BY <1>1, MutexAssumption DEF Mutexes
  <2>2. \A n \in Mutexes, u \in Threads :
            lock' # <<"unlock", n, u>> /\ (lock' = <<"lock", n, u>> => n = m /\ u = t)
    BY <1>1
  <2>3. ~Pended(t)'
    BY <1>1, <1>4 DEF Pended, PendedIn
  <2> QED BY <1>1, <1>2, <1>3, <2>1, <2>2, <2>3 DEF LockInv
<1>7. PendedInv'
  <2>1. \A q \in WaitQs : ToSet(waitq[q]) \subseteq Threads
    BY <1>0, <1>5 DEF TypeOK, ToSet
  <2> QED BY <1>0, <1>1, <1>2, <2>1 DEF PendedInv
<1>8. GrantInv'
  <2> SUFFICES ASSUME NEW u \in Threads, swap_retval[u] = OK, call'[u] # NULL, u \notin late,
                      \A n \in Mutexes : lock' # <<"lock", n, u>>
               PROVE  owner[call'[u]] = u
    BY <1>1 DEF GrantInv
  <2>1. u # t
    BY <1>1
  <2>2. \A n \in Mutexes : lock # <<"lock", n, u>>
    BY <1>1, MutexAssumption DEF Mutexes
  <2> QED BY <1>0, <1>2, <2>1, <2>2 DEF GrantInv
<1>9. CountInv' /\ NoLostWakeup' /\ OwnerAlone'
  <2>1. \A n, u : LocksOf(u, n)' = LocksOf(u, n)
    BY <1>1 DEF LocksOf
  <2> QED BY <1>0, <1>1, <1>2, <2>1 DEF CountInv, NoLostWakeup, OwnerAlone
<1> QED BY <1>5, <1>6, <1>7, <1>8, <1>9 DEF IInv

\* The caller goes on the wait queue of a mutex that somebody else owns.
LEMMA LockPendStep ==
    ASSUME IInv, NEW t \in Threads, NEW m \in Mutexes, NEW finite \in BOOLEAN,
           LockPend(t, m, finite)
    PROVE  IInv'
<1>0. /\ TypeOK /\ LockInv /\ PendedInv /\ GrantInv /\ CountInv /\ NoLostWakeup /\ OwnerAlone
      /\ Distinct
  BY DEF IInv
<1>1. /\ lock = <<"lock", m, t>> /\ lock' = NULL /\ z_pend_curr(t, m, finite)
      /\ ready' = ready \ {t} /\ swap_retval' = [swap_retval EXCEPT ![t] = EAGAIN]
      /\ UNCHANGED <<waking, owner, lock_count, call, late, held>>
  BY DEF LockPend, z_pend_curr
<1>2. waking = NULL /\ call[t] = m /\ owner[m] # t /\ owner[m] # NULL /\ ~Pended(t)
  BY <1>0, <1>1 DEF LockInv
<1>3. m \in WaitQs
  BY DEF Mutexes
<1>4. /\ waitq' \in [WaitQs -> Seq(Threads)] /\ Distinct'
      /\ \A q \in WaitQs : ToSet(waitq'[q]) =
            IF q = m THEN ToSet(waitq[q]) \cup {t} ELSE ToSet(waitq[q])
  BY <1>0, <1>1, <1>2, <1>3, PendQueues DEF TypeOK, Pended, PendedIn
<1>5. /\ \A u \in Threads : swap_retval'[u] = IF u = t THEN EAGAIN ELSE swap_retval[u]
      /\ swap_retval' \in [Threads -> {OK, EAGAIN}]
  BY <1>0, <1>1 DEF TypeOK
<1>6. TypeOK'
  BY <1>0, <1>1, <1>4, <1>5 DEF TypeOK
<1>7. LockInv'
  <2>1. \A n \in Mutexes, u \in Threads : lock' # <<"lock", n, u>> /\ lock' # <<"unlock", n, u>>
    BY <1>1, MutexAssumption DEF Mutexes
  <2> QED BY <1>1, <1>2, <2>1 DEF LockInv
<1>8. PendedInv'
  <2> SUFFICES ASSUME NEW q \in WaitQs, NEW u \in ToSet(waitq'[q])
               PROVE  /\ q \in Mutexes /\ call[u] = q /\ owner[q] # u
                      /\ u \notin ready' /\ swap_retval'[u] = EAGAIN
    BY <1>1 DEF PendedInv
  <2>1. CASE u = t
    <3>1. q = m
      BY <1>2, <1>4, <2>1 DEF Pended, PendedIn
    <3> QED BY <1>1, <1>2, <1>5, <2>1, <3>1
  <2>2. CASE u # t
    <3>1. u \in ToSet(waitq[q]) /\ u \in Threads
      BY <1>4, <2>2 DEF ToSet
    <3> QED BY <1>0, <1>1, <1>5, <2>2, <3>1 DEF PendedInv
  <2> QED BY <2>1, <2>2
<1>9. GrantInv'
  <2> SUFFICES ASSUME NEW u \in Threads, swap_retval'[u] = OK, call[u] # NULL, u \notin late
               PROVE  owner[call[u]] = u
    BY <1>1 DEF GrantInv
  <2>1. u # t /\ swap_retval[u] = OK
    BY <1>5 DEF OK, EAGAIN
  <2>2. \A n \in Mutexes : lock # <<"lock", n, u>>
    BY <1>1, <2>1
  <2> QED BY <1>0, <2>1, <2>2 DEF GrantInv
<1>10. CountInv' /\ OwnerAlone'
  BY <1>0, <1>1 DEF CountInv, OwnerAlone, LocksOf
<1>11. NoLostWakeup'
  <2>1. \A n \in Mutexes : n # m => waitq'[n] = waitq[n]
    BY <1>0, <1>1, <1>3 DEF z_pend_curr, TypeOK, Mutexes
  <2> QED BY <1>0, <1>1, <1>2, <2>1 DEF NoLostWakeup
<1> QED BY <1>4, <1>6, <1>7, <1>8, <1>9, <1>10, <1>11 DEF IInv

\* k_mutex_lock() returns 0 after a wait: the caller owns the mutex.
LEMMA LockGotStep ==
    ASSUME IInv, NEW t \in Threads, LockGot(t)
    PROVE  IInv'
<1>0. /\ TypeOK /\ LockInv /\ PendedInv /\ GrantInv /\ CountInv /\ NoLostWakeup /\ OwnerAlone
  BY DEF IInv
<1> DEFINE m == call[t]
<1>1. /\ t \in ready /\ m # NULL /\ t \notin late /\ swap_retval[t] = OK
      /\ \A n \in Mutexes : lock # <<"lock", n, t>>
      /\ swap_retval' = [swap_retval EXCEPT ![t] = EAGAIN]
      /\ call' = [call EXCEPT ![t] = NULL] /\ held' = [held EXCEPT ![t] = Append(@, m)]
      /\ UNCHANGED <<waitq, waking, ready, owner, lock_count, lock, late>>
  BY DEF LockGot, Runs
<1>2. m \in Mutexes /\ owner[m] = t
  BY <1>0, <1>1 DEF GrantInv, TypeOK
<1>3. lock_count[m] = 1 /\ m \notin ToSet(held[t]) /\ LocksOf(t, m) = 0
  BY <1>0, <1>2, NoLocks DEF CountInv
<1>4. /\ \A u \in Threads : swap_retval'[u] = IF u = t THEN EAGAIN ELSE swap_retval[u]
      /\ \A u \in Threads : call'[u] = IF u = t THEN NULL ELSE call[u]
      /\ swap_retval' \in [Threads -> {OK, EAGAIN}] /\ call' \in [Threads -> Mutexes \cup {NULL}]
  BY <1>0, <1>1 DEF TypeOK
<1> HIDE DEF m
<1>5. /\ held' \in [Threads -> Seq(Mutexes)]
      /\ \A u \in Threads : ToSet(held'[u]) =
            IF u = t THEN ToSet(held[u]) \cup {m} ELSE ToSet(held[u])
      /\ \A n \in Mutexes, u \in Threads :
            LocksOf(u, n)' = IF u = t /\ n = m THEN LocksOf(u, n) + 1 ELSE LocksOf(u, n)
  BY <1>0, <1>1, <1>2, AppendLocks
<1>6. TypeOK' /\ Distinct'
  BY <1>0, <1>1, <1>4, <1>5 DEF IInv, TypeOK, Distinct
<1>7. LockInv'
  <2> SUFFICES ASSUME NEW n \in Mutexes, NEW u \in Threads
               PROVE  /\ lock = <<"lock", n, u>> =>
                           /\ waking = NULL /\ call'[u] = n /\ owner[n] # u /\ owner[n] # NULL
                           /\ ~Pended(u)
                      /\ lock = <<"unlock", n, u>> =>
                           /\ call'[u] = NULL /\ lock_count[n] = 1
                           /\ IF waking = NULL THEN owner[n] = u /\ n \notin ToSet(held'[u])
                                               ELSE /\ owner[n] = waking /\ call'[waking] = n
                                                    /\ swap_retval'[waking] = EAGAIN
    BY <1>0, <1>1 DEF LockInv, Pended, PendedIn
  <2>1. CASE lock = <<"lock", n, u>>
    BY <1>0, <1>1, <1>4, <2>1 DEF LockInv
  <2>2. CASE lock = <<"unlock", n, u>>
    <3>1. call[u] = NULL /\ lock_count[n] = 1 /\ u # t
      BY <1>0, <1>1, <2>2 DEF LockInv, m
    <3>2. CASE waking = NULL
      BY <1>0, <1>4, <1>5, <2>2, <3>1, <3>2 DEF LockInv
    <3>3. CASE waking # NULL
      <4>1. owner[n] = waking /\ call[waking] = n /\ swap_retval[waking] = EAGAIN
        BY <1>0, <2>2, <3>3 DEF LockInv
      <4>2. waking \in Threads /\ waking # t
        BY <1>0, <1>1, <3>3, <4>1 DEF TypeOK, OK, EAGAIN
      <4> QED BY <1>4, <2>2, <3>1, <3>3, <4>1, <4>2
    <3> QED BY <3>1, <3>2, <3>3, <2>2
  <2> QED BY <2>1, <2>2
<1>8. PendedInv'
  <2> SUFFICES ASSUME NEW q \in WaitQs, NEW u \in ToSet(waitq[q])
               PROVE  /\ q \in Mutexes /\ call'[u] = q /\ owner[q] # u
                      /\ u \notin ready /\ swap_retval'[u] = EAGAIN
    BY <1>1 DEF PendedInv
  <2>1. q \in Mutexes /\ call[u] = q /\ owner[q] # u /\ u \notin ready /\ swap_retval[u] = EAGAIN
    BY <1>0 DEF PendedInv
  <2>2. u \in Threads
    BY <1>0 DEF TypeOK, ToSet
  <2> QED BY <1>1, <1>4, <2>1, <2>2
<1>9. GrantInv'
  <2>1. \A u \in Threads : call'[u] # NULL => u # t /\ call'[u] = call[u] /\ swap_retval'[u] = swap_retval[u]
    BY <1>4
  <2> QED BY <1>0, <1>1, <2>1 DEF GrantInv
<1>10. CountInv'
  <2> SUFFICES ASSUME NEW n \in Mutexes, NEW u \in Threads, owner[n] = u
               PROVE  /\ LocksOf(u, n)' <= lock_count[n]
                      /\ call'[u] = n => lock_count[n] = 1 /\ n \notin ToSet(held'[u])
    BY <1>1 DEF CountInv
  <2>1. CASE u = t /\ n = m
    BY <1>3, <1>4, <1>5, <2>1, PendAssumption DEF Mutexes
  <2>2. CASE u = t /\ n # m
    BY <1>0, <1>4, <1>5, <2>2, PendAssumption DEF CountInv, Mutexes
  <2>3. CASE u # t
    BY <1>0, <1>4, <1>5, <2>3 DEF CountInv
  <2> QED BY <2>1, <2>2, <2>3
<1>11. NoLostWakeup'
  BY <1>0, <1>1 DEF NoLostWakeup
<1>12. OwnerAlone'
  BY <1>0, <1>1, <1>2, <1>5 DEF OwnerAlone
<1> QED BY <1>6, <1>7, <1>8, <1>9, <1>10, <1>11, <1>12 DEF IInv

\* k_mutex_lock() gives up: only the priority of the owner changes.
LEMMA LockTimedOutStep ==
    ASSUME IInv, NEW t \in Threads, LockTimedOut(t)
    PROVE  IInv'
<1>0. /\ TypeOK /\ LockInv /\ PendedInv /\ GrantInv /\ CountInv /\ NoLostWakeup /\ OwnerAlone
  BY DEF IInv
<1>1. /\ lock = NULL /\ t \in ready /\ late' = late \ {t} /\ call' = [call EXCEPT ![t] = NULL]
      /\ UNCHANGED <<waitq, waking, swap_retval, ready, owner, lock_count, lock, held>>
  BY DEF LockTimedOut, Runs, z_thread_prio_set, pendVars
<1>2. /\ \A u \in Threads : call'[u] = IF u = t THEN NULL ELSE call[u]
      /\ call' \in [Threads -> Mutexes \cup {NULL}]
  BY <1>0, <1>1 DEF TypeOK
<1>3. TypeOK' /\ Distinct'
  BY <1>0, <1>1, <1>2 DEF IInv, TypeOK, Distinct
<1>4. LockInv'
  <2>1. \A n \in Mutexes, u \in Threads : lock' # <<"lock", n, u>> /\ lock' # <<"unlock", n, u>>
    BY <1>1, MutexAssumption DEF Mutexes
  <2> QED BY <1>0, <1>1, <2>1 DEF LockInv
<1>5. PendedInv'
  <2>1. \A q \in WaitQs : ToSet(waitq[q]) \subseteq Threads
    BY <1>0 DEF TypeOK, ToSet
  <2> QED BY <1>0, <1>1, <1>2, <2>1 DEF PendedInv
<1>6. GrantInv'
  <2>1. \A u \in Threads : call'[u] # NULL => u # t /\ call'[u] = call[u]
    BY <1>2
  <2> QED BY <1>0, <1>1, <2>1 DEF GrantInv
<1>7. CountInv' /\ NoLostWakeup' /\ OwnerAlone'
  <2>1. \A n, u : LocksOf(u, n)' = LocksOf(u, n)
    BY <1>1 DEF LocksOf
  <2>2. \A n \in Mutexes, u \in Threads : call'[u] = n => call[u] = n
    BY <1>2, PendAssumption DEF Mutexes
  <2> QED BY <1>0, <1>1, <2>1, <2>2 DEF CountInv, NoLostWakeup, OwnerAlone
<1> QED BY <1>3, <1>4, <1>5, <1>6, <1>7 DEF IInv
=============================================================================
