-------------------------------- MODULE Work --------------------------------
(***************************************************************************)
(* kernel/work.c: work items, delayable work items and work queues.  One   *)
(* spinlock protects all of it, so each section under the lock is a step;  *)
(* a handler runs between two of them.                                     *)
(*                                                                         *)
(* Every item is modelled as a delayable one: for an item that is never    *)
(* scheduled k_work_cancel() and k_work_flush() are the delayable calls.   *)
(* The flusher that k_work_flush() queues behind the item is represented   *)
(* by the thread that waits for it.  All queues are started.  BUSY is      *)
(* running[q] # NULL.                                                      *)
(***************************************************************************)
EXTENDS Integers, Sequences, FiniteSets, SequencesExt

CONSTANTS Items, Queues,
          Callers,   \* the threads that flush, cancel and drain
          Setups,    \* the applications, of which one runs
          NULL

\* An application uses some items, queues and callers and makes some of the calls;
\* race: other contexts run between an expiry and work_timeout().
ASSUME WorkAssumption ==
    /\ Items \cap Callers = {} /\ NULL \notin Items \cup Callers \cup Queues
    /\ Setups \subseteq
         [items : SUBSET Items, queues : SUBSET Queues, callers : SUBSET Callers,
          race : BOOLEAN,
          calls : SUBSET {"chained", "delay", "cancel", "cancel_sync", "flush", "drain"}]

VARIABLES setup,
          flags, queue,      \* of struct k_work
          dqueue,            \* queue of struct k_work_delayable
          timer,             \* the items whose timeout is linked
          firing,            \* the item whose timeout has been taken off the list
          pending, qflags,   \* of struct k_work_q
          running,           \* the item or flusher whose handler a queue runs
          asleep,            \* the queues whose thread waits on notifyq
          pending_cancels,
          call,              \* what a caller waits for: <<kind, item or queue>>
          given,             \* the callers whose wait is over
          owed,              \* ghost: the runs of its item a flush has to wait for
          promised           \* ghost: scheduled, and neither submitted nor canceled

vars == <<flags, queue, dqueue, timer, firing, pending, qflags, running, asleep,
          pending_cancels, call, given, owed, promised>>

itemVars == <<flags, queue, pending, asleep>>

Race == setup.race
Calls == setup.calls

Busy(w) == flags[w] # {}
Idle(t) == call[t] = NULL

\* Who may run now: on one CPU, and unless interrupts nest, nobody comes between
\* the expiry of a timeout and its handler.
MayCall == Race \/ firing = NULL

\* A caller is the thread of a queue, inside a handler, or someone else (NULL).
Contexts == {NULL} \cup {q \in Queues : "chained" \in Calls /\ running[q] \in Items}

-----------------------------------------------------------------------------
\* Mutant: an item may be submitted to another queue than the one that runs it.
CandidateAny(w, q) == q

\* submit_to_queue_locked(): a running item goes to the queue that runs it.
Candidate(w, q) == IF "RUNNING" \in flags[w] THEN queue[w] ELSE q

\* queue_submit_locked()
Accepts(q, by) ==
    /\ "DRAIN" \in qflags[q] => by = q
    /\ "PLUGGED" \in qflags[q] => "DRAIN" \in qflags[q]

\* Mutant: an item can be submitted while it is canceling.
SubmittableCanceling(w, q, by) ==
    "QUEUED" \notin flags[w] /\ Accepts(Candidate(w, q), by)

Submittable(w, q, by) ==
    flags[w] \cap {"CANCELING", "QUEUED"} = {} /\ Accepts(Candidate(w, q), by)

\* The flags and the queue of w, the lists and the sleeping queues after
\* submit_to_queue_locked() in context by.
submit_to_queue_locked(w, q, by) ==
    IF Submittable(w, q, by)
    THEN [f |-> flags[w] \cup {"QUEUED"}, queue |-> Candidate(w, q),
          pending |-> [pending EXCEPT ![Candidate(w, q)] = Append(@, w)],
          asleep |-> asleep \ {Candidate(w, q)}]
    ELSE [f |-> flags[w], queue |-> queue[w], pending |-> pending, asleep |-> asleep]

\* w leaves the section in the state r, less the flags drop.
Becomes(w, r, drop) ==
    /\ flags' = [flags EXCEPT ![w] = r.f \ drop]
    /\ queue' = [queue EXCEPT ![w] = r.queue]
    /\ pending' = r.pending
    /\ asleep' = r.asleep

k_work_submit_to_queue(w, q, by) ==
    /\ MayCall
    /\ Becomes(w, submit_to_queue_locked(w, q, by), {})
    /\ UNCHANGED <<dqueue, timer, firing, qflags, running, pending_cancels, call,
                   given, owed, promised>>

\* unschedule_locked(): what is linked when it returns.
Unscheduled(w) == IF "DELAYED" \in flags[w] THEN timer \ {w} ELSE timer

\* schedule_for_queue_locked() with a delay; linked is what was linked before.
\* z_add_timeout() asserts that the timeout is not: with Race it can be, when the
\* item was rescheduled between an expiry and work_timeout(), and the kernel
\* stops there.
ScheduleDelayed(w, q, linked) ==
    /\ w \notin linked
    /\ flags' = [flags EXCEPT ![w] = @ \cup {"DELAYED"}]
    /\ dqueue' = [dqueue EXCEPT ![w] = q]
    /\ timer' = linked \cup {w}
    /\ promised' = promised \cup {w}
    /\ UNCHANGED <<queue, firing, pending, qflags, running, asleep, pending_cancels,
                   call, given, owed>>

\* k_work_schedule_for_queue() does nothing unless the item is idle or running.
\* Without a delay it is k_work_submit_to_queue().
k_work_schedule_for_queue(w, q) ==
    /\ "delay" \in Calls /\ MayCall
    /\ flags[w] \subseteq {"RUNNING"}
    /\ ScheduleDelayed(w, q, timer)

k_work_reschedule_for_queue(w, q) ==
    /\ "delay" \in Calls /\ MayCall
    /\ ScheduleDelayed(w, q, Unscheduled(w))

\* The same with K_NO_WAIT.
RescheduleNow(w, q, by) ==
    /\ "delay" \in Calls /\ MayCall
    /\ timer' = Unscheduled(w)
    /\ Becomes(w, submit_to_queue_locked(w, q, by), {"DELAYED"})
    /\ promised' = promised \ {w}
    /\ UNCHANGED <<dqueue, firing, qflags, running, pending_cancels, call, given,
                   owed>>

-----------------------------------------------------------------------------
\* The flags of w after cancel_delayable_async_locked().
Canceled(w) ==
    LET left == flags[w] \ (IF "CANCELING" \in flags[w] THEN {"DELAYED"}
                            ELSE {"DELAYED", "QUEUED"})
    IN  IF left = {} THEN {} ELSE left \cup {"CANCELING"}

\* cancel_delayable_async_locked(): off the timeout list and off the queue.
cancel_delayable_async_locked(w) ==
    /\ timer' = Unscheduled(w)
    /\ flags' = [flags EXCEPT ![w] = Canceled(w)]
    /\ pending' = IF "QUEUED" \in flags[w] /\ "CANCELING" \notin flags[w]
                  THEN [pending EXCEPT ![queue[w]] = SelectSeq(@, LAMBDA n : n # w)]
                  ELSE pending
    /\ promised' = promised \ {w}
    /\ owed' = [t \in Callers |-> IF call[t] = <<"flush", w>> THEN owed[t] \ {"queued"}
                                  ELSE owed[t]]
    /\ UNCHANGED <<queue, dqueue, firing, qflags, running, asleep, given>>

k_work_cancel_delayable(w) ==
    /\ "cancel" \in Calls /\ MayCall
    /\ cancel_delayable_async_locked(w)
    /\ UNCHANGED <<pending_cancels, call>>

\* The caller waits if the handler is still running.
k_work_cancel_delayable_sync(t, w) ==
    /\ "cancel_sync" \in Calls /\ MayCall
    /\ Idle(t) /\ Busy(w)
    /\ cancel_delayable_async_locked(w)
    /\ IF "CANCELING" \in Canceled(w)
       THEN /\ pending_cancels' = Append(pending_cancels, t)
            /\ call' = [call EXCEPT ![t] = <<"cancel", w>>]
       ELSE UNCHANGED <<pending_cancels, call>>

\* Mutant: the flusher goes to the head of the queue even if w is queued.
queue_flusher_lockedHead(list, w, t) == <<t>> \o list

\* Behind w if it is queued, else at the head.
queue_flusher_locked(list, w, t) ==
    IF w \in ToSet(list) THEN InsertAt(list, SelectInSeq(list, LAMBDA n : n = w) + 1, t)
    ELSE <<t>> \o list

\* k_work_flush_delayable(): an item whose timeout could be aborted is submitted
\* at once, then the caller waits for what is queued or running.
k_work_flush_delayable(t, w) ==
    LET aborted == "DELAYED" \in flags[w] /\ w \in timer
        r == IF aborted THEN submit_to_queue_locked(w, dqueue[w], NULL)
             ELSE [f |-> flags[w], queue |-> queue[w], pending |-> pending, asleep |-> asleep]
        wait == r.f \cap {"QUEUED", "RUNNING"} # {}
        flushed == IF wait
                   THEN [r EXCEPT !.pending[r.queue] = queue_flusher_locked(@, w, t),
                                  !.asleep = @ \ {r.queue}]
                   ELSE r
    IN  /\ "flush" \in Calls /\ MayCall
        /\ Idle(t) /\ Busy(w)
        /\ timer' = Unscheduled(w)
        /\ Becomes(w, flushed, {"DELAYED"})
        /\ promised' = IF aborted THEN promised \ {w} ELSE promised
        /\ call' = IF wait THEN [call EXCEPT ![t] = <<"flush", w>>] ELSE call
        /\ owed' = IF wait THEN [owed EXCEPT ![t] =
                        {k \in {"queued", "running"} :
                            \/ k = "queued" /\ "QUEUED" \in r.f
                            \/ k = "running" /\ "RUNNING" \in r.f}]
                   ELSE owed
        /\ UNCHANGED <<dqueue, firing, qflags, running, pending_cancels, given>>

\* k_work_queue_drain() of a queue that is idle returns at once, unless it plugs.
k_work_queue_drain(t, q, plug) ==
    /\ "drain" \in Calls /\ MayCall /\ Idle(t)
    /\ \/ running[q] # NULL \/ "DRAIN" \in qflags[q] \/ plug \/ pending[q] # <<>>
    /\ qflags' = [qflags EXCEPT ![q] = @ \cup {"DRAIN"} \cup (IF plug THEN {"PLUGGED"} ELSE {})]
    /\ asleep' = asleep \ {q}
    /\ call' = [call EXCEPT ![t] = <<"drain", q>>]
    /\ UNCHANGED <<flags, queue, dqueue, timer, firing, pending, running,
                   pending_cancels, given, owed, promised>>

k_work_queue_unplug(q) ==
    /\ MayCall
    /\ "PLUGGED" \in qflags[q]
    /\ qflags' = [qflags EXCEPT ![q] = @ \ {"PLUGGED"}]
    /\ UNCHANGED <<flags, queue, dqueue, timer, firing, pending, running, asleep,
                   pending_cancels, call, given, owed, promised>>

\* k_sem_take() or z_sched_wait() returns in the caller.
CallReturns(t) ==
    /\ MayCall /\ t \in given
    /\ given' = given \ {t}
    /\ call' = [call EXCEPT ![t] = NULL]
    /\ owed' = [owed EXCEPT ![t] = {}]
    /\ UNCHANGED <<flags, queue, dqueue, timer, firing, pending, qflags, running,
                   asleep, pending_cancels, promised>>

-----------------------------------------------------------------------------
\* Mutant: the flags are overwritten.
WorkerTakesOverwrites(q) ==
    LET n == Head(pending[q]) IN
    /\ q \notin asleep /\ running[q] = NULL /\ pending[q] # <<>>
    /\ pending' = [pending EXCEPT ![q] = Tail(@)]
    /\ running' = [running EXCEPT ![q] = n]
    /\ flags' = IF n \in Items THEN [flags EXCEPT ![n] = {"RUNNING"}] ELSE flags
    /\ owed' = [t \in Callers |->
                  IF call[t] = <<"flush", n>> /\ "queued" \in owed[t] THEN {"running"}
                  ELSE owed[t]]
    /\ UNCHANGED <<queue, dqueue, timer, firing, qflags, asleep, pending_cancels, call,
                   given, promised>>

\* Mutant: a plugged queue stops working.
WorkerTakesPlugged(q) ==
    LET n == Head(pending[q]) IN
    /\ q \notin asleep /\ running[q] = NULL /\ pending[q] # <<>>
    /\ "PLUGGED" \notin qflags[q]
    /\ pending' = [pending EXCEPT ![q] = Tail(@)]
    /\ running' = [running EXCEPT ![q] = n]
    /\ flags' = IF n \in Items
                THEN [flags EXCEPT ![n] = (@ \ {"QUEUED"}) \cup {"RUNNING"}] ELSE flags
    /\ owed' = [t \in Callers |->
                  IF call[t] = <<"flush", n>> /\ "queued" \in owed[t] THEN {"running"}
                  ELSE owed[t]]
    /\ UNCHANGED <<queue, dqueue, timer, firing, qflags, asleep, pending_cancels, call,
                   given, promised>>

\* work_queue_main(): the thread of q takes the next item and calls its handler.
WorkerTakes(q) ==
    LET n == Head(pending[q]) IN
    /\ q \notin asleep /\ running[q] = NULL /\ pending[q] # <<>>
    /\ pending' = [pending EXCEPT ![q] = Tail(@)]
    /\ running' = [running EXCEPT ![q] = n]
    /\ flags' = IF n \in Items
                THEN [flags EXCEPT ![n] = (@ \ {"QUEUED"}) \cup {"RUNNING"}] ELSE flags
    /\ owed' = [t \in Callers |->
                  IF call[t] = <<"flush", n>> /\ "queued" \in owed[t] THEN {"running"}
                  ELSE owed[t]]
    /\ UNCHANGED <<queue, dqueue, timer, firing, qflags, asleep, pending_cancels, call,
                   given, promised>>

\* With nothing to do it wakes those who wait for the drain, and sleeps.
WorkerSleeps(q) ==
    /\ q \notin asleep /\ running[q] = NULL /\ pending[q] = <<>>
    /\ qflags' = [qflags EXCEPT ![q] = @ \ {"DRAIN"}]
    /\ given' = IF "DRAIN" \in qflags[q]
                THEN given \cup {t \in Callers : call[t] = <<"drain", q>>} ELSE given
    /\ asleep' = asleep \cup {q}
    /\ UNCHANGED <<flags, queue, dqueue, timer, firing, pending, running,
                   pending_cancels, call, owed, promised>>

\* Mutant: the canceller is taken off the list but not released.
finalize_cancel_lockedSilent(w) ==
    /\ pending_cancels' = SelectSeq(pending_cancels, LAMBDA t : call[t] # <<"cancel", w>>)
    /\ UNCHANGED given

\* finalize_cancel_locked() releases the first canceller of w on the list.
finalize_cancel_locked(w) ==
    LET first == SelectInSeq(pending_cancels, LAMBDA t : call[t] = <<"cancel", w>>) IN
    IF first = 0 THEN UNCHANGED <<pending_cancels, given>>
    ELSE /\ pending_cancels' = RemoveAt(pending_cancels, first)
         /\ given' = given \cup {pending_cancels[first]}

\* The handler of item w returns.
WorkerFinishes(q) ==
    LET w == running[q] IN
    /\ w \in Items
    /\ running' = [running EXCEPT ![q] = NULL]
    /\ flags' = [flags EXCEPT ![w] = @ \ {"RUNNING", "CANCELING"}]
    /\ IF "CANCELING" \in flags[w] THEN finalize_cancel_locked(w)
       ELSE UNCHANGED <<pending_cancels, given>>
    /\ owed' = [t \in Callers |-> IF call[t] = <<"flush", w>> THEN owed[t] \ {"running"}
                                  ELSE owed[t]]
    /\ UNCHANGED <<queue, dqueue, timer, firing, pending, qflags, asleep, call,
                   promised>>

\* A flusher has nothing to do but to release its caller (finalize_flush_locked()).
WorkerFlushes(q) ==
    /\ running[q] \in Callers
    /\ running' = [running EXCEPT ![q] = NULL]
    /\ given' = given \cup {running[q]}
    /\ UNCHANGED <<flags, queue, dqueue, timer, firing, pending, qflags, asleep,
                   pending_cancels, call, owed, promised>>

\* sys_clock_announce() takes the timeout of w off its list ...
Expire(w) ==
    /\ firing = NULL /\ w \in timer
    /\ firing' = w
    /\ timer' = timer \ {w}
    /\ UNCHANGED <<flags, queue, dqueue, pending, qflags, running, asleep,
                   pending_cancels, call, given, owed, promised>>

\* ... and calls work_timeout(), which submits the item if it is still delayed.
\* A submission that is refused is abandoned.
work_timeout ==
    /\ firing # NULL
    /\ firing' = NULL
    /\ IF "DELAYED" \in flags[firing]
       THEN Becomes(firing, submit_to_queue_locked(firing, dqueue[firing], NULL), {"DELAYED"})
       ELSE UNCHANGED itemVars
    /\ promised' = IF "DELAYED" \in flags[firing] THEN promised \ {firing} ELSE promised
    /\ UNCHANGED <<dqueue, timer, qflags, running, pending_cancels, call, given, owed>>

Init ==
    /\ setup \in Setups
    /\ flags = [w \in Items |-> {}]
    /\ queue = [w \in Items |-> NULL] /\ dqueue = [w \in Items |-> NULL]
    /\ timer = {} /\ firing = NULL
    /\ pending = [q \in Queues |-> <<>>] /\ qflags = [q \in Queues |-> {}]
    /\ running = [q \in Queues |-> NULL]
    /\ asleep = {}
    /\ pending_cancels = <<>>
    /\ call = [t \in Callers |-> NULL] /\ given = {}
    /\ owed = [t \in Callers |-> {}] /\ promised = {}

Worker(q) ==
    /\ MayCall /\ q \in setup.queues
    /\ WorkerTakes(q) \/ WorkerSleeps(q) \/ WorkerFinishes(q) \/ WorkerFlushes(q)

Next ==
    /\ \/ \E w \in setup.items, q \in setup.queues :
           \/ \E by \in Contexts : k_work_submit_to_queue(w, q, by) \/ RescheduleNow(w, q, by)
           \/ k_work_schedule_for_queue(w, q) \/ k_work_reschedule_for_queue(w, q)
       \/ \E w \in setup.items : k_work_cancel_delayable(w) \/ Expire(w)
       \/ \E t \in setup.callers, w \in setup.items :
           k_work_cancel_delayable_sync(t, w) \/ k_work_flush_delayable(t, w)
       \/ \E t \in setup.callers, q \in setup.queues, plug \in BOOLEAN :
           k_work_queue_drain(t, q, plug)
       \/ \E t \in setup.callers : CallReturns(t)
       \/ \E q \in Queues : k_work_queue_unplug(q) \/ Worker(q)
       \/ work_timeout
    /\ UNCHANGED setup

Spec == Init /\ [][Next]_<<vars, setup>>

\* The timer interrupt ends, the threads of the queues get to run between two of
\* them, handlers return, and so do released callers.
Fairness ==
    /\ WF_vars(work_timeout)
    /\ \A q \in Queues : SF_vars(Worker(q))
    /\ \A t \in Callers : SF_vars(CallReturns(t))

FairSpec == Spec /\ Fairness
-----------------------------------------------------------------------------
Places(n) == {<<q, i>> \in Queues \X (1..(Cardinality(Items \cup Callers))) :
                i <= Len(pending[q]) /\ pending[q][i] = n}

\* The flags say where the item is.  QUEUED: on the list of work->queue, once, and
\* on no other; an item linked twice would corrupt the list.  RUNNING: the thread
\* of work->queue runs its handler, and no other does, so it is not reentered.
QueuedOnce ==
    \A w \in Items :
        /\ IF "QUEUED" \in flags[w]
           THEN Cardinality(Places(w)) = 1 /\ \A p \in Places(w) : p[1] = queue[w]
           ELSE Places(w) = {}
        /\ {q \in Queues : running[q] = w} =
               IF "RUNNING" \in flags[w] THEN {queue[w]} ELSE {}

\* k_work_flush() returns when every run of the item that was queued or in progress
\* when it was called has finished or has been canceled.
FlushWaits == \A t \in given : owed[t] = {}

\* A synchronous cancel returns from an item that is not running and that nobody
\* could submit: "On return the work structure will be idle".
CancelWaits ==
    [][\A t \in given' \ given : call[t][1] = "cancel" =>
            flags'[call[t][2]] \subseteq {"DELAYED"}]_vars

\* A scheduled item that was neither submitted nor canceled is still going to be,
\* if nobody runs between an expiry and work_timeout().
PromiseKept == \A w \in promised : ~Race => w \in timer \cup {firing} /\ "DELAYED" \in flags[w]

\* Every flush, synchronous cancel and drain returns.
CallEnds == \A t \in Callers : call[t] # NULL ~> call[t] = NULL

\* The same for an application in which only one thread makes such calls and no
\* handler goes on submitting work to a queue that is drained.
LoneCallEnds ==
    \A t \in Callers :
        call[t] # NULL /\ setup.callers = {t} /\ "chained" \notin Calls ~> call[t] = NULL

\* A submitted item runs or is canceled.
QueuedRuns == \A w \in Items : "QUEUED" \in flags[w] ~> "QUEUED" \notin flags[w]
=============================================================================
