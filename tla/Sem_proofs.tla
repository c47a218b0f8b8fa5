----------------------------- MODULE Sem_proofs -----------------------------
(***************************************************************************)
(* Theorems about kernel/sem.c for any threads, semaphores, limits and     *)
(* priorities.  The first part holds on one CPU and on SMP; the second is  *)
(* about a kernel without CONFIG_SMP, where interrupts stay masked while   *)
(* a waiter is between its wait queue and the run queue.                   *)
(***************************************************************************)
EXTENDS Sem, Pend_proofs

\* The lock of sem.c is held whenever a thread is between its two queues, and a
\* give has one in hand for as long as it holds the lock.
LockInv ==
    /\ lock = NULL => waking = NULL
    /\ \A s \in Sems : lock = <<"give", s>> => waking # NULL

IInv == TypeOK /\ LockInv /\ NoLostWakeup

\* The variables of the wait machinery keep their types when z_ready_thread()
\* hands over the thread in waking.
LEMMA ReadyType ==
    ASSUME PendTypeOK, waking # NULL, NEW r \in {OK, EAGAIN}, z_ready_thread(r)
    PROVE  PendTypeOK' /\ waitq' = waitq /\ waking' = NULL
BY DEF PendTypeOK, z_ready_thread, ready_thread

\* Unpending the first waiter keeps the types and names a thread to wake.
LEMMA UnpendType ==
    ASSUME TypeOK, NEW s \in Sems, NEW c \in Causes, Unpend(s, c)
    PROVE  /\ PendTypeOK' /\ waking' # NULL /\ count' = count
           /\ cause' \in [Threads -> Causes] /\ arrival' \in Seq(Threads)
           /\ call' = call /\ timed' = timed
<1>1. z_unpend_first_thread(s)
  BY DEF Unpend
<1>2. waitq' \in [WaitQs -> Seq(Threads)] /\ waking' = Head(waitq[s]) /\ waking' \in Threads
  BY <1>1, UnpendQueues DEF TypeOK, PendTypeOK, Sems
<1>3. PendTypeOK'
  BY <1>1, <1>2 DEF TypeOK, PendTypeOK, z_unpend_first_thread
<1>4. waking' # NULL
  BY <1>2, PendAssumption
<1>5. cause' \in [Threads -> Causes]
  BY <1>2 DEF Unpend, TypeOK
<1>6. arrival' \in Seq(Threads)
  BY <1>2, WaitRemoveElements DEF Unpend, TypeOK
<1> QED BY <1>3, <1>4, <1>5, <1>6 DEF Unpend

\* Every step of a thread, an interrupt or a tick preserves IInv.
LEMMA IInvStep == IInv /\ [Next]_vars => IInv'
<1> SUFFICES ASSUME IInv, [Next]_vars PROVE IInv'
  OBVIOUS
<1> USE DEF Sems
<1>0. TypeOK /\ PendTypeOK /\ LockInv /\ NoLostWakeup
  BY DEF IInv, TypeOK
<1>1. ASSUME NEW s \in Sems, TakeNow(s) PROVE IInv'
  <2>1. TypeOK'
    BY <1>0, <1>1, SemAssumption DEF TakeNow, TypeOK, pendVars, PendTypeOK
  <2>2. NoLostWakeup'
    BY <1>0, <1>1, SemAssumption DEF TakeNow, TypeOK, pendVars, NoLostWakeup
  <2>3. LockInv'
    BY <1>0, <1>1 DEF TakeNow, LockInv, pendVars
  <2> QED BY <2>1, <2>2, <2>3 DEF IInv
<1>2. ASSUME NEW s \in Sems, GiveCount(s) PROVE IInv'
  <2>1. TypeOK'
    BY <1>0, <1>2, SemAssumption DEF GiveCount, TypeOK, pendVars, PendTypeOK
  <2>2. NoLostWakeup'
    BY <1>0, <1>2, SemAssumption DEF GiveCount, TypeOK, pendVars, NoLostWakeup
  <2>3. LockInv'
    BY <1>0, <1>2 DEF GiveCount, LockInv, pendVars
  <2> QED BY <2>1, <2>2, <2>3 DEF IInv
<1>3. ASSUME NEW s \in Sems, NEW c \in Causes, NEW k \in {"give", "reset"},
             Unpend(s, c), lock' = <<k, s>>
      PROVE  IInv'
  <2>1. /\ PendTypeOK' /\ waking' # NULL /\ count' = count
        /\ cause' \in [Threads -> Causes] /\ arrival' \in Seq(Threads)
        /\ call' = call /\ timed' = timed
    BY <1>0, <1>3, UnpendType
  <2>2. lock' \in {"give", "reset"} \X Sems /\ lock' # NULL
    BY <1>3, SemAssumption
  <2>3. TypeOK'
    BY <1>0, <2>1, <2>2 DEF TypeOK
  <2>4. LockInv'
    BY <2>1, <2>2 DEF LockInv
  <2>5. NoLostWakeup'
    <3>1. /\ waitq[s] # <<>> /\ waitq' = [waitq EXCEPT ![s] = Tail(waitq[s])]
      BY <1>3 DEF Unpend, z_unpend_first_thread
    <3>2. waitq \in [WaitQs -> Seq(Threads)]
      BY <1>0 DEF PendTypeOK
    <3> QED BY <1>0, <2>1, <3>1, <3>2 DEF NoLostWakeup
  <2> QED BY <2>3, <2>4, <2>5 DEF IInv
<1>4. ASSUME NEW s \in Sems, GiveUnpend(s) PROVE IInv'
  BY <1>3, <1>4 DEF GiveUnpend, Causes
<1>5. ASSUME NEW s \in Sems, ResetUnpend(s) PROVE IInv'
  BY <1>3, <1>5 DEF ResetUnpend, Causes
<1>6. ASSUME NEW s \in Sems, GiveReady(s) PROVE IInv'
  <2>1. waking # NULL
    BY <1>0, <1>6 DEF GiveReady, LockInv
  <2>2. PendTypeOK' /\ waitq' = waitq /\ waking' = NULL
    BY <1>0, <1>6, <2>1, ReadyType DEF GiveReady
  <2>3. TypeOK'
    BY <1>0, <1>6, <2>2 DEF GiveReady, TypeOK
  <2>4. NoLostWakeup'
    BY <1>0, <1>6, <2>2 DEF GiveReady, NoLostWakeup
  <2>5. LockInv'
    BY <1>6, <2>2, SemAssumption DEF GiveReady, LockInv
  <2> QED BY <2>3, <2>4, <2>5 DEF IInv
<1>7. ASSUME NEW s \in Sems, ResetReady(s) PROVE IInv'
  <2>2. PendTypeOK' /\ waitq' = waitq /\ waking' = NULL
    BY <1>0, <1>7, ReadyType DEF ResetReady
  <2>3. TypeOK'
    BY <1>0, <1>7, <2>2 DEF ResetReady, TypeOK, semVars
  <2>4. NoLostWakeup'
    BY <1>0, <1>7, <2>2 DEF ResetReady, NoLostWakeup, semVars
  <2>5. LockInv'
    <3>1. lock' = <<"reset", s>>
      BY <1>7 DEF ResetReady, semVars
    <3>2. \A u \in Sems : lock' # <<"give", u>>
      BY <3>1
    <3> QED BY <2>2, <3>2 DEF LockInv
  <2> QED BY <2>3, <2>4, <2>5 DEF IInv
<1>8. ASSUME NEW s \in Sems, ResetDone(s) PROVE IInv'
  <2>1. TypeOK'
    BY <1>0, <1>8, SemAssumption DEF ResetDone, TypeOK, pendVars, PendTypeOK
  <2>2. NoLostWakeup'
    BY <1>0, <1>8, SemAssumption DEF ResetDone, TypeOK, pendVars, NoLostWakeup
  <2>3. LockInv'
    BY <1>0, <1>8, SemAssumption DEF ResetDone, Resetting, LockInv, pendVars
  <2> QED BY <2>1, <2>2, <2>3 DEF IInv
<1>9. ASSUME NEW t \in Threads, NEW s \in Sems, NEW finite \in BOOLEAN,
             TakePend(t, s, finite)
      PROVE  IInv'
  <2>1. z_pend_curr(t, s, finite)
    BY <1>9 DEF TakePend
  <2>2. waitq' \in [WaitQs -> Seq(Threads)]
    BY <1>0, <2>1, PendQueues DEF PendTypeOK
  <2>3. PendTypeOK'
    BY <1>0, <2>1, <2>2 DEF PendTypeOK, z_pend_curr
  <2>4. arrival' \in Seq(Threads)
    BY <1>0, <1>9, AppendProperties DEF TakePend, TypeOK
  <2>5. TypeOK'
    BY <1>0, <1>9, <2>3, <2>4 DEF TakePend, TypeOK
  <2>6. NoLostWakeup'
    <3>1. waitq' = [waitq EXCEPT ![s] = z_priq_wait_add(waitq[s], t)] /\ count' = count /\ count[s] = 0
      BY <1>9, <2>1 DEF TakePend, z_pend_curr
    <3>2. waitq \in [WaitQs -> Seq(Threads)]
      BY <1>0 DEF PendTypeOK
    <3> QED BY <1>0, <3>1, <3>2 DEF NoLostWakeup
  <2>7. LockInv'
    BY <1>0, <1>9, <2>1 DEF TakePend, z_pend_curr, LockInv
  <2> QED BY <2>5, <2>6, <2>7 DEF IInv
<1>10. ASSUME NEW t \in Threads, TakeReturns(t) PROVE IInv'
  <2>1. TypeOK'
    BY <1>0, <1>10 DEF TakeReturns, TypeOK, PendTypeOK, Causes
  <2> QED BY <1>0, <1>10, <2>1 DEF TakeReturns, IInv, LockInv, NoLostWakeup
<1>11. ASSUME NEW t \in Threads, Expire(t) PROVE IInv'
  <2>1. TypeOK'
    BY <1>0, <1>11 DEF Expire, ThreadTimeoutExpires, semVars, TypeOK, PendTypeOK
  <2> QED BY <1>0, <1>11, <2>1
          DEF Expire, ThreadTimeoutExpires, semVars, IInv, LockInv, NoLostWakeup
<1>12. ASSUME NEW t \in Threads, Suspend(t) PROVE IInv'
  <2>1. TypeOK'
    BY <1>0, <1>12 DEF Suspend, SuspendAbortTimeout, z_thread_halt, semVars, TypeOK, PendTypeOK
  <2> QED BY <1>0, <1>12, <2>1
          DEF Suspend, SuspendAbortTimeout, z_thread_halt, semVars, IInv, LockInv, NoLostWakeup
<1>13. ASSUME NEW t \in Threads, Resume(t) PROVE IInv'
  <2>1. TypeOK'
    BY <1>0, <1>13 DEF Resume, k_thread_resume, ready_thread, semVars, TypeOK, PendTypeOK
  <2> QED BY <1>0, <1>13, <2>1
          DEF Resume, k_thread_resume, semVars, IInv, LockInv, NoLostWakeup
<1>14. ASSUME NEW t \in Threads, NEW p \in Prios, SetPriority(t, p) PROVE IInv'
  <2>1. TypeOK'
    BY <1>0, <1>14 DEF SetPriority, z_thread_prio_set, semVars, TypeOK, PendTypeOK
  <2> QED BY <1>0, <1>14, <2>1
          DEF SetPriority, z_thread_prio_set, semVars, IInv, LockInv, NoLostWakeup
<1>15. ASSUME TimeoutHandler PROVE IInv'
  <2>1. z_thread_timeout /\ firing \in Threads
    BY <1>0, <1>15 DEF TimeoutHandler, z_thread_timeout, PendTypeOK
  <2>2. /\ waitq' \in [WaitQs -> Seq(Threads)]
        /\ \A s \in Sems : waitq[s] = <<>> => waitq'[s] = <<>>
    BY <1>0, <2>1, TimeoutQueues DEF PendTypeOK
  <2>3. PendTypeOK'
    BY <1>0, <2>1, <2>2 DEF PendTypeOK, z_thread_timeout, ready_thread
  <2>4. arrival' \in Seq(Threads)
    BY <1>0, <1>15, WaitRemoveElements DEF TimeoutHandler, TypeOK
  <2>5. TypeOK'
    BY <1>0, <1>15, <2>1, <2>3, <2>4 DEF TimeoutHandler, TypeOK, Causes
  <2> QED BY <1>0, <1>15, <2>1, <2>2, <2>5
          DEF TimeoutHandler, z_thread_timeout, IInv, LockInv, NoLostWakeup
<1>16. CASE UNCHANGED vars
  BY <1>16, <1>0 DEF vars, pendVars, semVars, IInv, TypeOK, PendTypeOK, LockInv, NoLostWakeup
<1> QED
  BY <1>1, <1>2, <1>4, <1>5, <1>6, <1>7, <1>8, <1>9, <1>10, <1>11, <1>12, <1>13,
     <1>14, <1>15, <1>16 DEF Next, Give, Reset

\* IInv holds initially.
LEMMA IInvInit == Init => IInv
<1> SUFFICES ASSUME Init PROVE IInv
  OBVIOUS
<1>1. TypeOK
  BY SemAssumption DEF Init, PendInit, TypeOK, PendTypeOK, Sems, Causes
<1> QED BY <1>1, SemAssumption DEF Init, PendInit, IInv, LockInv, NoLostWakeup, Sems

\* Counts stay within 0..limit and every variable keeps its type, on one CPU and
\* on SMP.
THEOREM TypeCorrect == Spec => []TypeOK
<1>1. IInv => TypeOK
  BY DEF IInv
<1> QED BY IInvInit, IInvStep, <1>1, PTL DEF Spec

\* k_sem_give() and k_sem_take() never leave a unit counted beside a waiter, on
\* one CPU and on SMP, whatever resets, timeouts and suspensions come between.
THEOREM WakeupsKept == Spec => []NoLostWakeup
<1>1. IInv => NoLostWakeup
  BY DEF IInv
<1> QED BY IInvInit, IInvStep, <1>1, PTL DEF Spec

-----------------------------------------------------------------------------
\* One CPU.  A pended thread is blocked in a take of that semaphore and nothing
\* has ended its wait yet.
PendedInv ==
    \A s \in Sems : \A t \in ToSet(waitq[s]) :
        /\ call[t] = s /\ t \notin ready /\ t # waking
        /\ cause[t] = "none" /\ swap_retval[t] = EAGAIN

\* Only pended threads have a timeout, and it is theirs: a thread cannot go on
\* to another wait between the expiry of its timeout and the handler.
TimerInv ==
    /\ \A t \in timer : Pended(t) /\ t \in timed /\ t # firing
    /\ firing # NULL => call[firing] # NULL /\ firing \in timed

\* The thread in the hands of a give or of a reset.
WakingInv ==
    waking # NULL =>
        /\ call[waking] # NULL /\ waking \notin ready /\ swap_retval[waking] = EAGAIN
        /\ \E s \in Sems : \/ lock = <<"give", s>> /\ cause[waking] = "token"
                           \/ lock = <<"reset", s>> /\ cause[waking] = "reset"

\* A thread whose wait has ended has the return value that goes with the cause.
ReturnInv ==
    \A t \in Threads :
        /\ call[t] # NULL /\ ~Pended(t) /\ t # waking
              => (swap_retval[t] = OK <=> cause[t] = "token")
        /\ call[t] = NULL => cause[t] = "none"

UPInv == /\ Distinct /\ PendedInv /\ TimerInv /\ WakingInv /\ ReturnInv
         /\ NeverStranded /\ ForeverIsForever

\* Taking the first waiter off its queue, for a token or for a reset, keeps UPInv.
LEMMA UnpendUP ==
    ASSUME IInv, UPInv, NEW s \in Sems, waking = NULL,
           NEW c, NEW k, <<k, c>> \in {<<"give", "token">>, <<"reset", "reset">>},
           Unpend(s, c), lock' = <<k, s>>
    PROVE  UPInv'
<1> USE DEF Sems
<1>1. TypeOK /\ PendTypeOK /\ z_unpend_first_thread(s)
  BY DEF IInv, TypeOK, Unpend
<1> DEFINE w == Head(waitq[s])
<1>2. /\ waking' = w /\ w \in Threads /\ w \in ToSet(waitq[s])
      /\ \A q \in WaitQs : ToSet(waitq'[q]) =
            IF q = s THEN ToSet(waitq[q]) \ {w} ELSE ToSet(waitq[q])
      /\ Distinct'
  BY <1>1, UnpendQueues DEF PendTypeOK, UPInv
<1>3. /\ timer' = timer \ {w} /\ cause' = [cause EXCEPT ![w] = c]
      /\ UNCHANGED <<ready, suspended, firing, swap_retval, call, timed>>
  BY DEF Unpend, z_unpend_first_thread
<1> HIDE DEF w
<1>4. /\ w # NULL /\ call[w] = s /\ w \notin ready /\ cause[w] = "none"
      /\ swap_retval[w] = EAGAIN /\ call[w] # NULL
  BY <1>2, PendAssumption DEF UPInv, PendedInv
<1>5. \A q \in WaitQs : w \in ToSet(waitq[q]) => q = s
  BY <1>4 DEF UPInv, PendedInv
<1>6. \A t : Pended(t)' <=> Pended(t) /\ t # w
  BY <1>2, <1>5 DEF Pended, PendedIn
<1>7. PendedInv'
  <2> SUFFICES ASSUME NEW q \in Sems, NEW t \in ToSet(waitq'[q])
               PROVE  /\ call'[t] = q /\ t \notin ready' /\ t # waking'
                      /\ cause'[t] = "none" /\ swap_retval'[t] = EAGAIN
    BY DEF PendedInv
  <2>1. t \in ToSet(waitq[q]) /\ t # w
    BY <1>2, <1>5
  <2>2. cause'[t] = cause[t]
    BY <1>3, <2>1, <1>1 DEF TypeOK
  <2> QED BY <1>2, <1>3, <2>1, <2>2 DEF UPInv, PendedInv
<1>8. TimerInv'
  BY <1>3, <1>6 DEF UPInv, TimerInv
<1>9. WakingInv'
  <2>1. cause'[w] = c
    BY <1>1, <1>2, <1>3 DEF TypeOK
  <2> QED BY <1>2, <1>3, <1>4, <2>1 DEF WakingInv
<1>10. ReturnInv'
  <2> SUFFICES ASSUME NEW t \in Threads
               PROVE  /\ call'[t] # NULL /\ ~Pended(t)' /\ t # waking'
                            => (swap_retval'[t] = OK <=> cause'[t] = "token")
                      /\ call'[t] = NULL => cause'[t] = "none"
    BY DEF ReturnInv
  <2>1. CASE t = w
    BY <1>2, <1>3, <1>4, <2>1
  <2>2. CASE t # w
    <3>1. cause'[t] = cause[t]
      BY <1>1, <1>3, <2>2 DEF TypeOK
    <3> QED BY <1>2, <1>3, <1>6, <2>2, <3>1, PendAssumption DEF UPInv, ReturnInv
  <2> QED BY <2>1, <2>2
<1>11. NeverStranded'
  BY <1>2, <1>3, <1>6, PendAssumption DEF UPInv, NeverStranded
<1>12. ForeverIsForever'
  <2>1. \A t \in Threads : cause'[t] = IF t = w THEN c ELSE cause[t]
    BY <1>1, <1>3 DEF TypeOK
  <2> QED BY <1>3, <2>1 DEF UPInv, ForeverIsForever
<1> QED BY <1>2, <1>7, <1>8, <1>9, <1>10, <1>11, <1>12 DEF UPInv

\* Making the woken thread ready with the return value of its cause keeps UPInv.
LEMMA ReadyUP ==
    ASSUME IInv, UPInv, waking # NULL, NEW r \in {OK, EAGAIN},
           r = OK <=> cause[waking] = "token",
           z_ready_thread(r), UNCHANGED <<call, timed, cause>>
    PROVE  UPInv'
<1> USE DEF Sems
<1>1. /\ TypeOK /\ PendTypeOK /\ waking \in Threads
  BY DEF IInv, TypeOK, PendTypeOK
<1>2. /\ waking' = NULL /\ UNCHANGED <<waitq, suspended, timer, firing>>
      /\ swap_retval' = [swap_retval EXCEPT ![waking] = r]
      /\ ready' = IF waking \notin suspended \cup timer /\ ~Pended(waking)
                  THEN ready \cup {waking} ELSE ready
  BY DEF z_ready_thread, ready_thread, Pended
<1>3. \A t \in Threads : swap_retval'[t] = IF t = waking THEN r ELSE swap_retval[t]
  BY <1>1, <1>2 DEF PendTypeOK
<1>4. \A t : Pended(t)' <=> Pended(t)
  BY <1>2 DEF Pended, PendedIn
<1>5. ~Pended(waking) /\ waking \notin timer
  BY DEF UPInv, PendedInv, TimerInv, Pended, PendedIn
<1>6. Distinct'
  BY <1>2 DEF UPInv, Distinct
<1>7. PendedInv'
  <2> SUFFICES ASSUME NEW q \in Sems, NEW t \in ToSet(waitq[q])
               PROVE  /\ call[t] = q /\ t \notin ready' /\ t # NULL
                      /\ cause[t] = "none" /\ swap_retval'[t] = EAGAIN
    BY <1>2 DEF PendedInv
  <2>1. t # waking /\ call[t] = q /\ t \notin ready /\ cause[t] = "none" /\ swap_retval[t] = EAGAIN
    BY DEF UPInv, PendedInv
  <2>2. t \in Threads
    BY <1>1 DEF PendTypeOK, ToSet
  <2> QED BY <1>2, <1>3, <2>1, <2>2, PendAssumption
<1>8. TimerInv'
  BY <1>2, <1>4 DEF UPInv, TimerInv
<1>9. WakingInv'
  BY <1>2 DEF WakingInv
<1>10. ReturnInv'
  BY <1>2, <1>3, <1>4 DEF UPInv, ReturnInv
<1>11. NeverStranded'
  BY <1>2, <1>4, <1>5 DEF UPInv, NeverStranded
<1>12. ForeverIsForever'
  BY DEF UPInv, ForeverIsForever
<1> QED BY <1>6, <1>7, <1>8, <1>9, <1>10, <1>11, <1>12 DEF UPInv

\* Without SMP every step preserves UPInv.
LEMMA UPInvStep ==
    ASSUME ~SMP PROVE IInv /\ UPInv /\ [Next]_vars => UPInv'
<1> SUFFICES ASSUME IInv, UPInv, [Next]_vars PROVE UPInv'
  OBVIOUS
<1> USE DEF Sems
<1>0. TypeOK /\ PendTypeOK /\ LockInv
  BY DEF IInv, TypeOK
<1> DEFINE Same == UNCHANGED <<waitq, ready, suspended, timer, firing, waking,
                               swap_retval, call, timed, cause, lock>>
<1>1. ASSUME Same PROVE UPInv'
  BY <1>1 DEF UPInv, Distinct, PendedInv, TimerInv, WakingInv, ReturnInv,
              NeverStranded, ForeverIsForever, Pended, PendedIn
<1>2. ASSUME NEW s \in Sems, TakeNow(s) PROVE UPInv'
  BY <1>1, <1>2 DEF TakeNow, pendVars
<1>3. ASSUME NEW s \in Sems, GiveCount(s) PROVE UPInv'
  BY <1>1, <1>3 DEF GiveCount, pendVars
<1>4. ASSUME NEW s \in Sems, GiveUnpend(s) PROVE UPInv'
  BY <1>0, <1>4, UnpendUP DEF GiveUnpend, LockInv
<1>5. ASSUME NEW s \in Sems, ResetUnpend(s) PROVE UPInv'
  BY <1>5, UnpendUP DEF ResetUnpend, Resetting
<1>6. ASSUME NEW s \in Sems, GiveReady(s) PROVE UPInv'
  <2>1. waking # NULL /\ cause[waking] = "token"
    <3>1. waking # NULL /\ lock = <<"give", s>>
      BY <1>0, <1>6 DEF LockInv, GiveReady
    <3> QED BY <3>1 DEF UPInv, WakingInv
  <2> QED BY <1>6, <2>1, ReadyUP DEF GiveReady
<1>7. ASSUME NEW s \in Sems, ResetReady(s) PROVE UPInv'
  <2>1. waking # NULL /\ cause[waking] = "reset"
    <3>1. waking # NULL /\ lock = <<"reset", s>>
      BY <1>7 DEF ResetReady
    <3> QED BY <3>1 DEF UPInv, WakingInv
  <2> QED BY <1>7, <2>1, ReadyUP DEF ResetReady, semVars, OK, EAGAIN
<1>8. ASSUME NEW s \in Sems, ResetDone(s) PROVE UPInv'
  <2>1. waking = NULL /\ UNCHANGED <<pendVars, call, timed, cause>>
    BY <1>8 DEF ResetDone, Resetting
  <2> QED BY <2>1 DEF pendVars, UPInv, Distinct, PendedInv, TimerInv, WakingInv, ReturnInv,
                      NeverStranded, ForeverIsForever, Pended, PendedIn
<1>9. ASSUME NEW t \in Threads, NEW s \in Sems, NEW finite \in BOOLEAN,
             TakePend(t, s, finite)
      PROVE  UPInv'
  <2>1. /\ z_pend_curr(t, s, finite) /\ lock = NULL /\ firing = NULL /\ waking = NULL
        /\ t \in ready /\ call[t] = NULL
    BY <1>0, <1>9 DEF TakePend, Runs, ThreadsRun, LockInv
  <2>2. ~Pended(t)
    BY <2>1 DEF Pended, PendedIn, UPInv, PendedInv
  <2>3. /\ \A q \in WaitQs : ToSet(waitq'[q]) =
              IF q = s THEN ToSet(waitq[q]) \cup {t} ELSE ToSet(waitq[q])
        /\ Distinct'
    BY <1>0, <2>1, <2>2, PendQueues DEF PendTypeOK, UPInv, Pended, PendedIn
  <2>4. \A u : Pended(u)' <=> Pended(u) \/ u = t
    BY <2>3 DEF Pended, PendedIn
  <2>5. /\ ready' = ready \ {t} /\ timer' \subseteq timer \cup {t}
        /\ (t \in timer' => t \in timed' \/ t \in timer) /\ timed \subseteq timed'
        /\ UNCHANGED <<suspended, firing, waking, lock, cause>>
    BY <1>9, <2>1 DEF z_pend_curr, TakePend
  <2>6. /\ \A u \in Threads : call'[u] = IF u = t THEN s ELSE call[u]
        /\ \A u \in Threads : swap_retval'[u] = IF u = t THEN EAGAIN ELSE swap_retval[u]
    BY <1>0, <1>9, <2>1 DEF z_pend_curr, TakePend, TypeOK, PendTypeOK
  <2>7. cause[t] = "none"
    BY <2>1 DEF UPInv, ReturnInv
  <2>8. PendedInv'
    <3> SUFFICES ASSUME NEW q \in Sems, NEW u \in ToSet(waitq'[q])
                 PROVE  /\ call'[u] = q /\ u \notin ready' /\ u # waking'
                        /\ cause'[u] = "none" /\ swap_retval'[u] = EAGAIN
      BY DEF PendedInv
    <3>1. CASE u = t
      <4>1. q = s
        BY <2>2, <2>3, <3>1 DEF Pended, PendedIn
      <4> QED BY <2>1, <2>5, <2>6, <2>7, <3>1, <4>1, PendAssumption
    <3>2. CASE u # t
      <4>1. u \in ToSet(waitq[q])
        BY <2>3, <3>2
      <4>2. u \in Threads
        BY <1>0, <4>1 DEF PendTypeOK, ToSet
      <4>3. call[u] = q /\ u \notin ready /\ u # waking /\ cause[u] = "none" /\ swap_retval[u] = EAGAIN
        BY <4>1 DEF UPInv, PendedInv
      <4> QED BY <2>5, <2>6, <3>2, <4>2, <4>3
    <3> QED BY <3>1, <3>2
  <2>9. TimerInv'
    BY <2>1, <2>4, <2>5, PendAssumption DEF UPInv, TimerInv
  <2>10. WakingInv'
    BY <2>1, <2>5 DEF WakingInv
  <2>11. ReturnInv'
    BY <2>4, <2>5, <2>6, <2>7, PendAssumption DEF UPInv, ReturnInv
  <2>12. NeverStranded'
    BY <2>4, <2>5 DEF UPInv, NeverStranded
  <2>13. ForeverIsForever'
    BY <2>5 DEF UPInv, ForeverIsForever
  <2> QED BY <2>3, <2>8, <2>9, <2>10, <2>11, <2>12, <2>13 DEF UPInv
<1>10. ASSUME NEW t \in Threads, TakeReturns(t) PROVE UPInv'
  <2>1. /\ lock = NULL /\ firing = NULL /\ waking = NULL /\ t \in ready
        /\ UNCHANGED <<waitq, ready, suspended, timer, firing, waking, lock>>
        /\ timed' = timed \ {t}
    BY <1>0, <1>10 DEF TakeReturns, Runs, ThreadsRun, LockInv
  <2>2. ~Pended(t)
    BY <2>1 DEF Pended, PendedIn, UPInv, PendedInv
  <2>3. \A u : Pended(u)' <=> Pended(u)
    BY <2>1 DEF Pended, PendedIn
  <2>4. /\ \A u \in Threads : call'[u] = IF u = t THEN NULL ELSE call[u]
        /\ \A u \in Threads : swap_retval'[u] = IF u = t THEN EAGAIN ELSE swap_retval[u]
        /\ \A u \in Threads : cause'[u] = IF u = t THEN "none" ELSE cause[u]
    BY <1>0, <1>10 DEF TakeReturns, TypeOK, PendTypeOK
  <2>5. Distinct'
    BY <2>1 DEF UPInv, Distinct
  <2>6. PendedInv'
    <3> SUFFICES ASSUME NEW q \in Sems, NEW u \in ToSet(waitq[q])
                 PROVE  /\ call'[u] = q /\ u \notin ready /\ u # waking
                        /\ cause'[u] = "none" /\ swap_retval'[u] = EAGAIN
      BY <2>1 DEF PendedInv
    <3>1. u \in Threads /\ u # t
      BY <1>0, <2>2 DEF PendTypeOK, ToSet, Pended, PendedIn
    <3> QED BY <2>4, <3>1 DEF UPInv, PendedInv
  <2>7. TimerInv'
    BY <2>1, <2>2, <2>3 DEF UPInv, TimerInv
  <2>8. WakingInv'
    BY <2>1 DEF WakingInv
  <2>9. ReturnInv'
    BY <2>1, <2>3, <2>4 DEF UPInv, ReturnInv
  <2>10. NeverStranded'
    BY <2>1, <2>3 DEF UPInv, NeverStranded
  <2>11. ForeverIsForever'
    BY <2>1, <2>4 DEF UPInv, ForeverIsForever
  <2> QED BY <2>5, <2>6, <2>7, <2>8, <2>9, <2>10, <2>11 DEF UPInv
<1>11. ASSUME NEW t \in Threads, Expire(t) PROVE UPInv'
  <2>1. /\ lock = NULL /\ firing = NULL /\ t \in timer
        /\ firing' = t /\ timer' = timer \ {t}
        /\ UNCHANGED <<waitq, ready, suspended, waking, swap_retval, call, timed, cause, lock>>
    BY <1>11 DEF Expire, InterruptsOn, ThreadTimeoutExpires, semVars
  <2>2. call[t] # NULL /\ t \in timed
    BY <2>1, PendAssumption DEF UPInv, TimerInv, PendedInv, Pended, PendedIn
  <2>3. \A u : Pended(u)' <=> Pended(u)
    BY <2>1 DEF Pended, PendedIn
  <2>4. TimerInv'
    BY <2>1, <2>2, <2>3 DEF UPInv, TimerInv
  <2> QED BY <2>1, <2>3, <2>4 DEF UPInv, Distinct, PendedInv, WakingInv, ReturnInv,
                                  NeverStranded, ForeverIsForever
<1>12. ASSUME NEW t \in Threads, Suspend(t) PROVE UPInv'
  <2>1. /\ UNCHANGED <<waitq, firing, waking, swap_retval, call, timed, cause, lock>>
        /\ timer' \subseteq timer /\ ready' \subseteq ready /\ suspended \subseteq suspended'
        /\ ready \subseteq ready' \cup suspended'
    BY <1>12 DEF Suspend, SuspendAbortTimeout, z_thread_halt, semVars
  <2>2. \A u : Pended(u)' <=> Pended(u)
    BY <2>1 DEF Pended, PendedIn
  <2>3. TimerInv'
    BY <2>1, <2>2 DEF UPInv, TimerInv
  <2>4. NeverStranded'
    BY <2>1, <2>2 DEF UPInv, NeverStranded
  <2> QED BY <2>1, <2>2, <2>3, <2>4 DEF UPInv, Distinct, PendedInv, WakingInv, ReturnInv,
                                        ForeverIsForever
<1>13. ASSUME NEW t \in Threads, Resume(t) PROVE UPInv'
  <2>1. /\ lock = NULL /\ waking = NULL
        /\ UNCHANGED <<waitq, timer, firing, waking, swap_retval, call, timed, cause, lock>>
        /\ suspended' = suspended \ {t}
        /\ ready' = IF t \notin suspended' \cup timer /\ ~Pended(t) THEN ready \cup {t} ELSE ready
    BY <1>0, <1>13 DEF Resume, InterruptsOn, k_thread_resume, ready_thread, semVars, Pended, LockInv
  <2>2. \A u : Pended(u)' <=> Pended(u)
    BY <2>1 DEF Pended, PendedIn
  <2>3. PendedInv'
    BY <2>1 DEF UPInv, PendedInv, Pended, PendedIn
  <2>4. NeverStranded'
    BY <2>1, <2>2 DEF UPInv, NeverStranded, TimerInv
  <2>5. TimerInv' /\ WakingInv'
    BY <2>1, <2>2 DEF UPInv, TimerInv, WakingInv
  <2> QED BY <2>1, <2>2, <2>3, <2>4, <2>5 DEF UPInv, Distinct, ReturnInv, ForeverIsForever
<1>14. ASSUME NEW t \in Threads, NEW p \in Prios, SetPriority(t, p) PROVE UPInv'
  BY <1>1, <1>14 DEF SetPriority, z_thread_prio_set, semVars
<1>15. ASSUME TimeoutHandler PROVE UPInv'
  <2>1. /\ z_thread_timeout /\ firing \in Threads /\ firing # NULL
        /\ lock = NULL /\ waking = NULL
    BY <1>0, <1>15 DEF TimeoutHandler, InterruptsOn, z_thread_timeout, PendTypeOK, LockInv
  <2>2. /\ \A q \in WaitQs : ToSet(waitq'[q]) = ToSet(waitq[q]) \ {firing}
        /\ Distinct'
    BY <1>0, <2>1, TimeoutQueues DEF PendTypeOK, UPInv
  <2>3. \A u : Pended(u)' <=> Pended(u) /\ u # firing
    BY <2>2 DEF Pended, PendedIn
  <2>4. firing \notin timer
    BY DEF UPInv, TimerInv
  <2>5. /\ suspended' = suspended \ {firing} /\ ready' = ready \cup {firing} /\ firing' = NULL
        /\ UNCHANGED <<timer, waking, swap_retval, call, timed, lock>>
    <3>1. ~PendedIn(waitq', firing)
      BY <2>2 DEF PendedIn
    <3>2. /\ UNCHANGED <<timer, waking, swap_retval, call, timed, lock>> /\ firing' = NULL
          /\ suspended' = suspended \ {firing}
      BY <1>15 DEF TimeoutHandler, z_thread_timeout
    <3>3. firing \notin suspended' \cup timer'
      BY <2>4, <3>2
    <3> QED BY <2>1, <3>1, <3>2, <3>3 DEF z_thread_timeout, ready_thread
  <2>6. \A u \in Threads : cause'[u] = IF u = firing /\ Pended(u) THEN "timeout" ELSE cause[u]
    BY <1>0, <1>15 DEF TimeoutHandler, TypeOK
  <2>7. PendedInv'
    <3> SUFFICES ASSUME NEW q \in Sems, NEW u \in ToSet(waitq'[q])
                 PROVE  /\ call[u] = q /\ u \notin ready' /\ u # waking
                        /\ cause'[u] = "none" /\ swap_retval[u] = EAGAIN
      BY <2>5 DEF PendedInv
    <3>1. u \in ToSet(waitq[q]) /\ u # firing
      BY <2>2
    <3>2. u \in Threads
      BY <1>0, <3>1 DEF PendTypeOK, ToSet
    <3> QED BY <2>5, <2>6, <3>1, <3>2 DEF UPInv, PendedInv
  <2>8. TimerInv'
    BY <2>3, <2>4, <2>5, <1>0, PendAssumption DEF UPInv, TimerInv, PendTypeOK
  <2>9. WakingInv'
    BY <2>1, <2>5 DEF WakingInv
  <2>10. ReturnInv'
    <3> SUFFICES ASSUME NEW u \in Threads
                 PROVE  /\ call[u] # NULL /\ ~Pended(u)' /\ u # NULL
                              => (swap_retval[u] = OK <=> cause'[u] = "token")
                        /\ call[u] = NULL => cause'[u] = "none"
      BY <2>1, <2>5 DEF ReturnInv
    <3>1. CASE u = firing /\ Pended(u)
      <4>1. swap_retval[u] = EAGAIN /\ call[u] \in WaitQs
        BY <3>1 DEF UPInv, PendedInv, Pended, PendedIn
      <4> QED BY <2>6, <3>1, <4>1, PendAssumption DEF OK, EAGAIN
    <3>2. CASE ~(u = firing /\ Pended(u))
      <4>1. cause'[u] = cause[u] /\ (~Pended(u)' => ~Pended(u))
        BY <2>3, <2>6, <3>2
      <4> QED BY <2>1, <4>1 DEF UPInv, ReturnInv
    <3> QED BY <3>1, <3>2
  <2>11. NeverStranded'
    BY <2>3, <2>5 DEF UPInv, NeverStranded
  <2>12. ForeverIsForever'
    BY <2>1, <2>5, <2>6 DEF UPInv, ForeverIsForever, TimerInv
  <2> QED BY <2>2, <2>7, <2>8, <2>9, <2>10, <2>11, <2>12 DEF UPInv
<1>16. CASE UNCHANGED vars
  BY <1>1, <1>16 DEF vars, pendVars, semVars
<1> QED
  BY <1>2, <1>3, <1>4, <1>5, <1>6, <1>7, <1>8, <1>9, <1>10, <1>11, <1>12, <1>13,
     <1>14, <1>15, <1>16 DEF Next, Give, Reset

\* UPInv holds initially.
LEMMA UPInvInit == Init => UPInv
<1> SUFFICES ASSUME Init PROVE UPInv
  OBVIOUS
<1>1. \A q \in WaitQs : waitq[q] = <<>> /\ ToSet(waitq[q]) = {}
  BY DEF Init, PendInit, ToSet
<1>2. \A t : ~Pended(t)
  BY <1>1 DEF Pended, PendedIn
<1>3. Distinct
  BY <1>1 DEF Distinct, IsInjective
<1> QED BY <1>1, <1>2, <1>3
        DEF Init, PendInit, UPInv, PendedInv, TimerInv, WakingInv, ReturnInv,
            NeverStranded, ForeverIsForever, Sems

\* Without SMP, an expired timeout never ends a K_FOREVER k_sem_take(): the timer
\* interrupt runs z_thread_timeout() before the thread can start another wait.
THEOREM ForeverWaits ==
    ASSUME ~SMP PROVE Spec => []ForeverIsForever
<1>1. UPInv => ForeverIsForever
  BY DEF UPInv
<1> QED BY IInvInit, IInvStep, UPInvInit, UPInvStep, <1>1, PTL DEF Spec

\* Without SMP, a thread that k_sem_give(), k_sem_reset() or a timeout takes off
\* its wait queue reaches the run queue unless it is suspended.
THEOREM WokenThreadsKept ==
    ASSUME ~SMP PROVE Spec => []NeverStranded
<1>1. UPInv => NeverStranded
  BY DEF UPInv
<1> QED BY IInvInit, IInvStep, UPInvInit, UPInvStep, <1>1, PTL DEF Spec

\* Without SMP, the return value of a k_sem_take() that has waited agrees with
\* what ended the wait: 0 if and only if a k_sem_give() was spent on it.
THEOREM TokensKept ==
    ASSUME ~SMP PROVE Spec => SuccessIffToken
<1> DEFINE A == \A t \in Threads : call[t] # NULL /\ call'[t] = NULL
                    => (swap_retval[t] = OK <=> cause[t] = "token")
<1>1. ASSUME IInv, UPInv, [Next]_vars PROVE [A]_vars
  <2> SUFFICES ASSUME Next, NEW t \in Threads, call[t] # NULL, call'[t] = NULL
               PROVE  swap_retval[t] = OK <=> cause[t] = "token"
    BY <1>1
  <2>1. TypeOK
    BY <1>1 DEF IInv
  <2>2. ASSUME ~TakeReturns(t) PROVE call'[t] = call[t]
    <3>1. ASSUME NEW u \in Threads, NEW s \in Sems, NEW finite \in BOOLEAN,
                 TakePend(u, s, finite)
          PROVE  call'[t] = call[t]
      BY <2>1, <3>1, PendAssumption DEF TakePend, TypeOK, Sems
    <3>2. ASSUME NEW u \in Threads, TakeReturns(u) PROVE call'[t] = call[t]
      BY <2>1, <2>2, <3>2 DEF TakeReturns, TypeOK
    <3>3. ASSUME NEW u \in Threads,
                 Expire(u) \/ Suspend(u) \/ Resume(u) \/ \E p \in Prios : SetPriority(u, p)
          PROVE  call' = call
      BY <3>3 DEF Expire, Suspend, Resume, SetPriority, semVars
    <3>4. ASSUME NEW s \in Sems, TakeNow(s) \/ Give(s) \/ Reset(s) PROVE call' = call
      BY <3>4 DEF TakeNow, Give, GiveCount, GiveUnpend, GiveReady, Reset, ResetUnpend,
                  ResetReady, ResetDone, Unpend, semVars
    <3>5. ASSUME TimeoutHandler PROVE call' = call
      BY <3>5 DEF TimeoutHandler
    <3> QED BY <3>1, <3>2, <3>3, <3>4, <3>5 DEF Next
  <2>3. t \in ready
    BY <2>2 DEF TakeReturns, Runs
  <2>4. ~Pended(t) /\ t # waking
    BY <1>1, <2>3, PendAssumption DEF UPInv, PendedInv, WakingInv, Pended, PendedIn, Sems
  <2> QED BY <1>1, <2>4 DEF UPInv, ReturnInv
<1> QED BY IInvInit, IInvStep, UPInvInit, UPInvStep, <1>1, PTL DEF Spec, SuccessIffToken
=============================================================================
