------------------------------- MODULE Sched -------------------------------
(***************************************************************************)
(* The scheduler of a single CPU (kernel/sched.c, kernel/timeslicing.c,    *)
(* CONFIG_SMP=n, CONFIG_USE_SWITCH=y, list run queues): which thread runs, *)
(* preemption, scheduler locks, MetaIRQ threads, time slices, sleeping,    *)
(* suspension, start, abort and join.                                      *)
(*                                                                         *)
(* `k' is the kernel state.  The functions of sched.c are operators from a *)
(* kernel state to a kernel state, composed as the code composes them; a   *)
(* step is one section with interrupts masked.  Between two sections of a  *)
(* call an interrupt may come and other threads may run: `call' is what    *)
(* each thread still has to do of the call it is in.                       *)
(*                                                                         *)
(* _THREAD_QUEUED is membership in runq.  A thread timeout is modelled by  *)
(* whether it is linked; expiry and its handler are one step of the timer  *)
(* interrupt.  OBJ stands for the wait queue of any kernel object, a       *)
(* thread u as a wait queue for u's join_queue.                            *)
(***************************************************************************)
EXTENDS Naturals, Sequences, SequencesExt

CONSTANTS Threads, IDLE, DUMMY, NULL, OBJ,
          Prios,         \* priorities of the threads, 0 is the highest
          NumMetairq,    \* priorities below it are MetaIRQ priorities
          FirstPreempt,  \* from this priority on threads are preemptible
          SliceMaxPrio,  \* slice_max_prio
          Workloads,     \* sets of kernel services an application may use together
          MaxLock        \* bound on nested k_sched_lock()

ASSUME SchedAssumption ==
    /\ Prios \subseteq Nat
    /\ NumMetairq \in Nat /\ FirstPreempt \in Nat /\ NumMetairq <= FirstPreempt
    /\ SliceMaxPrio \in Nat /\ MaxLock \in Nat
    /\ {IDLE, DUMMY, NULL, OBJ} \cap Threads = {}

VARIABLES k, call, isr,
          Calls,      \* the services the threads and handlers use, one of Workloads
          halted,     \* history: suspended by k_thread_suspend() with no timeout linked,
                      \* and not yet resumed
          promised    \* history: the cooperative thread a MetaIRQ thread preempted

vars == <<k, call, isr, Calls, halted, promised>>

All == Threads \cup {IDLE, DUMMY}

\* An application may do without cooperative threads.
PriosUsed == {p \in Prios : "preemptive" \in Calls => p >= FirstPreempt}

Flags == {"pending", "suspended", "prestart", "dead", "dummy"}
NoCall == [op |-> "none", arg |-> NULL]

-----------------------------------------------------------------------------
Queued(s, t) == t \in ToSet(s.runq)

Prevented(s, t) == s.flags[t] # {}

z_is_thread_ready(s, t) == ~Prevented(s, t) /\ t \notin s.timeout

Metairq(s, t) == t \in Threads /\ s.prio[t] < NumMetairq

Preemptible(s, t) ==
    t \in Threads => s.prio[t] >= FirstPreempt /\ s.sched_locked[t] = 0

\* Mutant: t goes before threads of its own priority.
LowerOrEqual(s, q, t) == {i \in DOMAIN q : s.prio[q[i]] >= s.prio[t]}

Lower(s, q, t) == {i \in DOMAIN q : s.prio[q[i]] > s.prio[t]}

\* z_priq_dumb_add(): before the first thread of lower priority.
PriqAdd(s, q, t) ==
    IF Lower(s, q, t) = {} THEN Append(q, t) ELSE InsertAt(q, Min(Lower(s, q, t)), t)

queue_thread(s, t) == [s EXCEPT !.runq = PriqAdd(s, @, t)]

dequeue_thread(s, t) == [s EXCEPT !.runq = Remove(@, t)]

\* Mutant: a sched-locked or cooperative thread is preempted by any thread.
should_preemptAny(s, t, preempt_ok) == TRUE

\* Mutant: a MetaIRQ thread waits for a cooperative thread.
should_preemptNoMetairq(s, t, preempt_ok) ==
    preempt_ok \/ Prevented(s, s.current) \/ Preemptible(s, s.current)

should_preempt(s, t, preempt_ok) ==
    \/ preempt_ok
    \/ Prevented(s, s.current)
    \/ Preemptible(s, s.current)
    \/ Metairq(s, t)

\* Mutant: the best thread of the queue, whatever a MetaIRQ thread preempted.
next_upBest(s) ==
    [thread |-> IF s.runq = <<>> THEN IDLE ELSE Head(s.runq), preempted |-> s.preempted]

\* The thread to run and the new value of metairq_preempted.
next_up(s) ==
    LET best == IF s.runq = <<>> THEN IDLE ELSE Head(s.runq)
        back == s.preempted # NULL /\ ~Metairq(s, best)
    IN  [thread |-> IF back /\ ~Prevented(s, s.preempted) THEN s.preempted ELSE best,
         preempted |-> IF back /\ Prevented(s, s.preempted) THEN NULL ELSE s.preempted]

thread_is_sliceable(s, t) ==
    /\ "slice" \in Calls
    /\ t \in Threads
    /\ Preemptible(s, t)
    /\ s.prio[t] >= SliceMaxPrio
    /\ ~Prevented(s, t)

\* Mutant: the slice of the thread that leaves decides.
z_reset_time_sliceOld(s, t) ==
    [s EXCEPT !.slice = IF thread_is_sliceable(s, s.current) THEN "armed" ELSE "off"]

z_reset_time_slice(s, t) ==
    [s EXCEPT !.slice = IF thread_is_sliceable(s, t) THEN "armed" ELSE "off"]

update_metairq_preempt(s, t) ==
    IF Metairq(s, t) /\ ~Metairq(s, s.current) /\ ~Preemptible(s, s.current)
    THEN [s EXCEPT !.preempted = s.current]
    ELSE IF ~Metairq(s, t) /\ t # IDLE THEN [s EXCEPT !.preempted = NULL] ELSE s

update_cache(s, preempt_ok) ==
    LET next == next_up(s)
        n == [s EXCEPT !.preempted = next.preempted]
        sliced == IF next.thread # s.current THEN z_reset_time_slice(n, next.thread) ELSE n
    IN  IF should_preempt(n, next.thread, preempt_ok)
        THEN [update_metairq_preempt(sliced, next.thread) EXCEPT !.cache = next.thread]
        ELSE [n EXCEPT !.cache = s.current]

ready_thread(s, t) ==
    IF ~Queued(s, t) /\ z_is_thread_ready(s, t)
    THEN update_cache(queue_thread(s, t), FALSE) ELSE s

unready_thread(s, t) == update_cache(dequeue_thread(s, t), t = s.current)

\* do_swap(): to the thread in the cache.
z_swap(s) ==
    IF s.cache = s.current THEN s
    ELSE z_reset_time_slice([s EXCEPT !.current = s.cache], s.cache)

\* Only a thread switches here, a handler leaves it to the interrupt exit.
z_reschedule(s) == IF isr = "no" THEN z_swap(s) ELSE s

-----------------------------------------------------------------------------
WaitQs == Threads \cup {OBJ}

PendedOn(s, t) == {q \in WaitQs : t \in ToSet(s.waitq[q])}

add_to_waitq_locked(s, t, q) ==
    LET u == unready_thread(s, t) IN
    [u EXCEPT !.flags[t] = @ \cup {"pending"}, !.waitq[q] = PriqAdd(u, @, t)]

AddTimeout(s, t) == [s EXCEPT !.timeout = @ \cup {t}]

AbortTimeout(s, t) == [s EXCEPT !.timeout = @ \ {t}]

\* unpend_thread_no_timeout(), if the thread is pended.
unpend_thread(s, t) ==
    IF PendedOn(s, t) = {} THEN s
    ELSE [s EXCEPT !.waitq = [q \in WaitQs |-> Remove(s.waitq[q], t)],
                   !.flags[t] = @ \ {"pending"}]

\* Mutant: waking a thread ends its suspension, too.
WakeFirstResumes(s, q) ==
    LET t == Head(s.waitq[q])
        u == [unpend_thread(s, t) EXCEPT !.flags[t] = @ \ {"suspended"}]
    IN  ready_thread(AbortTimeout(u, t), t)

\* z_unpend_first_thread() and z_ready_thread().
WakeFirst(s, q) ==
    LET t == Head(s.waitq[q]) IN ready_thread(AbortTimeout(unpend_thread(s, t), t), t)

unpend_all(s, q) ==
    LET Wake(u, t) == ready_thread(AbortTimeout(unpend_thread(u, t), t), t)
    IN  FoldLeft(Wake, s, s.waitq[q])

\* z_sched_wake_thread() by a timeout.
z_sched_wake_thread(s, t) ==
    LET u == [unpend_thread(s, t) EXCEPT !.flags[t] = @ \ {"prestart", "suspended"}]
    IN  IF "dead" \in s.flags[t] THEN s ELSE ready_thread(u, t)

\* Mutant: the threads that join the aborted thread are forgotten.
halt_threadNoJoin(s, t, new_state) ==
    LET u == dequeue_thread([s EXCEPT !.flags[t] = @ \cup {new_state}], t)
        d == AbortTimeout(unpend_thread(u, t), t)
        dummify == new_state = "dead" /\ t = s.current /\ isr # "no"
        n == update_cache(IF new_state = "dead" THEN d ELSE u, TRUE)
    IN  IF new_state \in s.flags[t] THEN s
        ELSE IF dummify THEN [n EXCEPT !.current = DUMMY] ELSE n

halt_thread(s, t, new_state) ==
    LET u == dequeue_thread([s EXCEPT !.flags[t] = @ \cup {new_state}], t)
        d == unpend_all(AbortTimeout(unpend_thread(u, t), t), t)
        dummify == new_state = "dead" /\ t = s.current /\ isr # "no"
        n == update_cache(IF new_state = "dead" THEN d ELSE u, TRUE)
    IN  IF new_state \in s.flags[t] THEN s
        ELSE IF dummify THEN [n EXCEPT !.current = DUMMY] ELSE n

\* z_thread_halt() on one CPU: a thread that halts itself swaps.
z_thread_halt(s, t, new_state) ==
    LET n == halt_thread(s, t, new_state)
    IN  IF t = s.current /\ isr = "no" THEN z_swap(n) ELSE n

-----------------------------------------------------------------------------
\* A handler may call, and the running thread when it is in no other call.
MayCall(op) ==
    /\ op \in Calls
    /\ isr = "no" => k.current \in Threads /\ call[k.current] = NoCall

Running(t, op) == isr = "no" /\ k.current = t /\ call[t] = NoCall /\ op \in Calls

Continues(t, op) == isr = "no" /\ k.current = t /\ call[t].op = op

\* The promise a MetaIRQ thread makes to the cooperative thread it preempts.
Promise(s) ==
    LET old == k.current IN
    IF /\ Metairq(s, s.current) /\ old \in Threads /\ ~Metairq(s, old)
       /\ ~Preemptible(s, old) /\ ~Prevented(s, old)
    THEN old
    ELSE IF \/ s.current # DUMMY /\ ~Metairq(s, s.current)
            \/ promised # NULL /\ Prevented(s, promised)
         THEN NULL ELSE promised

\* The kernel state becomes s; an aborted thread is in no call any more.
To(s, calls) ==
    /\ k' = s
    /\ call' = [t \in Threads |-> IF "dead" \in s.flags[t] THEN NoCall ELSE calls[t]]
    /\ promised' = Promise(s)
    /\ UNCHANGED Calls

Becomes(s) == To(s, call)

k_yield(t) ==
    /\ Running(t, "yield")
    /\ Becomes(z_swap(update_cache(queue_thread(dequeue_thread(k, t), t), TRUE)))
    /\ UNCHANGED <<isr, halted>>

\* z_tick_sleep() of a positive number of ticks.
k_sleep(t) ==
    /\ Running(t, "sleep")
    /\ LET s == AddTimeout(unready_thread(k, t), t)
       IN  Becomes(z_swap([s EXCEPT !.flags[t] = @ \cup {"suspended"}]))
    /\ UNCHANGED <<isr, halted>>

\* z_pend_curr() on a kernel object, for ever or with a timeout.
z_pend_curr(t, timed) ==
    /\ Running(t, "pend")
    /\ timed => "timed" \in Calls
    /\ LET s == add_to_waitq_locked(k, t, OBJ)
       IN  Becomes(z_swap(IF timed THEN AddTimeout(s, t) ELSE s))
    /\ UNCHANGED <<isr, halted>>

\* The calls that return at once (0, -EBUSY, -EDEADLK) change nothing.
k_thread_join(t, u, timed) ==
    /\ Running(t, "join")
    /\ "dead" \notin k.flags[u] /\ u # t /\ t \notin PendedOn(k, u)
    /\ timed => "timed" \in Calls
    /\ LET s == add_to_waitq_locked(k, t, u)
       IN  Becomes(z_swap(IF timed THEN AddTimeout(s, t) ELSE s))
    /\ UNCHANGED <<isr, halted>>

k_sched_lock(t) ==
    /\ Running(t, "lock")
    /\ k.sched_locked[t] < MaxLock
    /\ Becomes([k EXCEPT !.sched_locked[t] = @ + 1])
    /\ UNCHANGED <<isr, halted>>

Resched(t) == [call EXCEPT ![t] = [op |-> "resched", arg |-> NULL]]

k_sched_unlock(t) ==
    /\ Running(t, "lock")
    /\ k.sched_locked[t] > 0
    /\ To(update_cache([k EXCEPT !.sched_locked[t] = @ - 1], FALSE), Resched(t))
    /\ UNCHANGED <<isr, halted>>

\* Mutant: the thread keeps its place in the run queue.
z_thread_prio_setInPlace(s, u, p) ==
    IF z_is_thread_ready(s, u) THEN update_cache([s EXCEPT !.prio[u] = p], TRUE)
    ELSE [s EXCEPT !.prio[u] = p]

z_thread_prio_set(s, u, p) ==
    IF z_is_thread_ready(s, u)
    THEN update_cache(queue_thread([dequeue_thread(s, u) EXCEPT !.prio[u] = p], u), TRUE)
    ELSE [s EXCEPT !.prio[u] = p]

k_thread_priority_set(t, u, p) ==
    /\ Running(t, "prio")
    /\ To(z_thread_prio_set(k, u, p),
          IF z_is_thread_ready(k, u) /\ k.sched_locked[t] = 0 THEN Resched(t) ELSE call)
    /\ UNCHANGED <<isr, halted>>

\* z_reschedule_unlocked() at the end of the two calls above.
z_reschedule_unlocked(t) ==
    /\ Continues(t, "resched")
    /\ To(z_swap(k), [call EXCEPT ![t] = NoCall])
    /\ UNCHANGED <<isr, halted>>

-----------------------------------------------------------------------------
\* A kernel object is given: its first waiter is woken.
Give ==
    /\ MayCall("pend")
    /\ k.waitq[OBJ] # <<>>
    /\ Becomes(z_reschedule(WakeFirst(k, OBJ)))
    /\ UNCHANGED <<isr, halted>>

z_sched_start(u) ==
    /\ MayCall("start")
    /\ "prestart" \in k.flags[u]
    /\ u \in k.timeout => "start_early" \in Calls
    /\ Becomes(z_reschedule(ready_thread([k EXCEPT !.flags[u] = @ \ {"prestart"}], u)))
    /\ UNCHANGED <<isr, halted>>

\* z_thread_abort(); a thread that returns from its entry function aborts itself.
k_thread_abort(u) ==
    /\ MayCall("abort")
    /\ (isr = "no" /\ u = k.current) \/ "kill" \in Calls
    /\ "dead" \notin k.flags[u]
    /\ Becomes(z_thread_halt(k, u, "dead"))
    /\ halted' = halted \ {u}
    /\ UNCHANGED isr

\* k_thread_suspend() after it aborted the timeout: under the scheduler lock.
Suspend(s, u) ==
    IF "suspended" \in s.flags[u] THEN s ELSE z_thread_halt(s, u, "suspended")

\* The timeout is aborted before the scheduler lock is taken.
k_thread_suspend(t, u) ==
    /\ Running(t, "suspend")
    /\ u = t \/ "halt" \in Calls
    /\ To(AbortTimeout(k, u), [call EXCEPT ![t] = [op |-> "suspend", arg |-> u]])
    /\ UNCHANGED <<isr, halted>>

SuspendLocked(t) ==
    /\ Continues(t, "suspend")
    /\ To(Suspend(k, call[t].arg), [call EXCEPT ![t] = NoCall])
    /\ halted' = halted \cup ({call[t].arg} \ k.timeout)
    /\ UNCHANGED isr

SuspendFromHandler(u) ==
    /\ isr # "no" /\ {"suspend", "halt"} \subseteq Calls
    /\ Becomes(Suspend(AbortTimeout(k, u), u))
    /\ halted' = halted \cup {u}
    /\ UNCHANGED isr

k_thread_resume(u) ==
    /\ MayCall("suspend")
    /\ "suspended" \in k.flags[u]
    /\ Becomes(z_reschedule(ready_thread([k EXCEPT !.flags[u] = @ \ {"suspended"}], u)))
    /\ halted' = halted \ {u}
    /\ UNCHANGED isr

\* The end of k_wakeup(), under the scheduler lock.
Wakeup(s, u) == z_reschedule(ready_thread([s EXCEPT !.flags[u] = @ \ {"suspended"}], u))

Wakeable(s, u) == u \in s.timeout \/ s.flags[u] = {"suspended"}

\* The first check is made without a lock.
k_wakeup(t, u) ==
    /\ Running(t, "wakeup")
    /\ "pending" \notin k.flags[u]
    /\ To(k, [call EXCEPT ![t] = [op |-> "wake_abort", arg |-> u]])
    /\ UNCHANGED <<isr, halted>>

WakeupAborts(t) ==
    /\ Continues(t, "wake_abort")
    /\ LET u == call[t].arg IN
       To(AbortTimeout(k, u),
          [call EXCEPT ![t] = IF Wakeable(k, u) THEN [op |-> "wake_ready", arg |-> u] ELSE NoCall])
    /\ UNCHANGED <<isr, halted>>

WakeupLocked(t) ==
    /\ Continues(t, "wake_ready")
    /\ To(Wakeup(k, call[t].arg), [call EXCEPT ![t] = NoCall])
    /\ halted' = halted \ {call[t].arg}
    /\ UNCHANGED isr

WakeupFromHandler(u) ==
    /\ isr # "no" /\ "wakeup" \in Calls
    /\ "pending" \notin k.flags[u] /\ Wakeable(k, u)
    /\ Becomes(Wakeup(AbortTimeout(k, u), u))
    /\ halted' = halted \ {u}
    /\ UNCHANGED isr

-----------------------------------------------------------------------------
InterruptEnter(kind) ==
    /\ isr = "no"
    /\ isr' = kind
    /\ UNCHANGED <<k, call, Calls, halted, promised>>

\* sys_clock_announce() unlinks the timeout of t and calls z_thread_timeout().
ThreadTimeout(t) ==
    /\ isr = "timer"
    /\ t \in k.timeout
    /\ Becomes(z_sched_wake_thread(AbortTimeout(k, t), t))
    /\ UNCHANGED <<isr, halted>>

slice_timeout ==
    /\ isr = "timer"
    /\ k.slice = "armed"
    /\ Becomes([k EXCEPT !.slice = "expired"])
    /\ UNCHANGED <<isr, halted>>

\* z_time_slice(), called last by sys_clock_announce().
z_time_slice(s) ==
    IF s.slice = "expired" /\ thread_is_sliceable(s, s.current)
    THEN z_reset_time_slice(
            update_cache(queue_thread(dequeue_thread(s, s.current), s.current), TRUE),
            s.current)
    ELSE s

\* z_get_next_switch_handle(): the interrupt returns to the thread in the cache.
InterruptExit ==
    /\ isr # "no"
    /\ LET s == IF isr = "timer" THEN z_time_slice(k) ELSE k
       IN  Becomes([s EXCEPT !.current = s.cache])
    /\ isr' = "no"
    /\ UNCHANGED halted

\* After boot: the threads were created with a delay, for ever or finite.
Init ==
    /\ Calls \in Workloads
    /\ \E prio \in [Threads -> PriosUsed], delayed \in SUBSET Threads :
          k = [flags |-> [t \in All |-> CASE t \in Threads -> {"prestart"}
                                          [] t = IDLE -> {}
                                          [] OTHER -> {"dummy"}],
               prio |-> prio, sched_locked |-> [t \in Threads |-> 0], timeout |-> delayed,
               runq |-> <<>>, waitq |-> [q \in WaitQs |-> <<>>],
               current |-> IDLE, cache |-> IDLE, preempted |-> NULL, slice |-> "off"]
    /\ call = [t \in Threads |-> NoCall]
    /\ isr = "no"
    /\ halted = {}
    /\ promised = NULL

\* Only the thread that runs steps, and no thread while a handler does.
ThreadStep(t) ==
    /\ isr = "no" /\ k.current = t
    /\ \/ k_yield(t)
       \/ k_sleep(t)
       \/ \E timed \in BOOLEAN : z_pend_curr(t, timed)
       \/ \E u \in Threads, timed \in BOOLEAN : k_thread_join(t, u, timed)
       \/ k_sched_lock(t)
       \/ k_sched_unlock(t)
       \/ \E u \in Threads, p \in PriosUsed : k_thread_priority_set(t, u, p)
       \/ z_reschedule_unlocked(t)
       \/ \E u \in Threads : k_thread_suspend(t, u)
       \/ SuspendLocked(t)
       \/ \E u \in Threads : k_wakeup(t, u)
       \/ WakeupAborts(t)
       \/ WakeupLocked(t)

AnyStep ==
    \/ Give
    \/ \E u \in Threads : z_sched_start(u)
    \/ \E u \in Threads : k_thread_abort(u)
    \/ \E u \in Threads : k_thread_resume(u)

HandlerStep ==
    \/ \E kind \in {"timer", "irq"} : InterruptEnter(kind)
    \/ \E t \in Threads : ThreadTimeout(t)
    \/ slice_timeout
    \/ \E u \in Threads : SuspendFromHandler(u)
    \/ \E u \in Threads : WakeupFromHandler(u)
    \/ InterruptExit

Next == (\E t \in Threads : ThreadStep(t)) \/ AnyStep \/ HandlerStep

Spec == Init /\ [][Next]_vars

-----------------------------------------------------------------------------
Targets == {call[t].arg : t \in {u \in Threads : call[u].op \in {"suspend", "wake_ready"}}}

\* Whatever the order of the calls and interrupts, exactly the threads that
\* could run are in the run queue, each once and by priority: ready_thread(),
\* unready_thread() and halt_thread() never lose or duplicate a thread.  (A
\* call that has aborted the timeout of its target still has to queue it.)
\* Exactly the pending threads are in a wait queue, each in one.
QueuesExact ==
    /\ LET could_run == {t \in Threads : z_is_thread_ready(k, t)}
       IN  ToSet(k.runq) \subseteq could_run /\ could_run \subseteq ToSet(k.runq) \cup Targets
    /\ \A i, j \in DOMAIN k.runq :
          i < j => k.runq[i] # k.runq[j] /\ k.prio[k.runq[i]] <= k.prio[k.runq[j]]
    /\ \A t \in Threads : /\ ("pending" \in k.flags[t]) <=> (PendedOn(k, t) # {})
                          /\ \A q, r \in PendedOn(k, t) : q = r

\* Outside handlers the CPU runs a thread that may run, and a better one waits
\* only for a thread that is cooperative or holds the scheduler lock; it does
\* not even wait for these if it is a MetaIRQ thread (next_up(),
\* should_preempt(), z_reschedule()).  Aborting another thread is no reschedule
\* point, so applications in which a thread that is joined may be killed are
\* left out: the joiner waits for the next one.
HighestRuns ==
    /\ isr = "no" /\ (k.current \in Threads => call[k.current].op # "resched")
    /\ ~({"kill", "join"} \subseteq Calls)
    =>
        /\ ~Prevented(k, k.current)
        /\ \A u \in ToSet(k.runq) :
              k.current = IDLE \/ k.prio[u] < k.prio[k.current] =>
                 ~Preemptible(k, k.current) /\ ~Metairq(k, u)

\* An interrupt does not take the CPU from a cooperative thread, or from one
\* that holds the scheduler lock, unless for a MetaIRQ thread.  Applications
\* that set priorities are left out: z_thread_prio_set() refreshes the cache as
\* if the running thread could always be preempted, and the interrupt obeys it.
CoopKept ==
    []["prio" \notin Calls /\ isr # "no" /\ isr' = "no" /\ ~Preemptible(k, k.current) /\ ~Prevented(k, k.current)
         => k'.current = k.current \/ Metairq(k, k'.current)]_vars

\* "MetaIRQs must always attempt to return back to a cooperative thread they
\* preempted": the first other thread to run is that thread, if it can run.
MetairqReturns ==
    [][k'.current # k.current /\ k'.current # DUMMY /\ ~Metairq(k', k'.current)
         /\ promised # NULL /\ ~Prevented(k', promised)
         => k'.current = promised]_vars

\* A thread suspended by k_thread_suspend() does not run until it is resumed or
\* woken, whatever is given to it meanwhile.  (Not so if it slept again, or began
\* another timed wait, after k_thread_suspend() had aborted its timeout.)
SuspendHolds == isr = "no" => k.current \notin halted

\* A dead thread is gone from every queue and its joiners are released; nobody
\* waits to join a thread that waits to join it.
DeadIsGone ==
    /\ \A t \in Threads : "dead" \in k.flags[t] =>
          /\ k.waitq[t] = <<>> /\ PendedOn(k, t) = {}
          /\ t \notin k.timeout /\ k.current # t
    /\ \A t, u \in Threads : u \in PendedOn(k, t) => t \notin PendedOn(k, u)

\* While a thread that can be sliced runs, its slice is running or over, so it
\* will be required to yield (z_reset_time_slice()).  Without scheduler locks: a
\* thread that is switched to while it holds one gets no slice, and
\* k_sched_unlock() does not start it.
SliceRuns ==
    isr = "no" /\ "lock" \notin Calls /\ thread_is_sliceable(k, k.current)
        => k.slice # "off"

\* u is before t, of the same priority, in the run queue.
Ahead(s, u, t) ==
    /\ s.prio[t] = s.prio[u]
    /\ \E i, j \in DOMAIN s.runq : i < j /\ s.runq[i] = u /\ s.runq[j] = t

\* Threads of one priority take turns: no thread that becomes ready, yields or
\* uses up its slice gets before one that has been waiting for the CPU.  (Setting
\* the priority of a thread sends it to the end, even if it is the same.)
TurnKept ==
    [][\A t \in ToSet(k.runq) \ {k.current}, u \in ToSet(k'.runq) :
           "prio" \notin Calls /\ Ahead(k', u, t) => Ahead(k, u, t)]_vars
=============================================================================
