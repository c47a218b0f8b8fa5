# A TLA+ model of the Zephyr kernel

This directory models the concurrent core of the Zephyr kernel (`src/kernel`): the
timeout queue, the way threads wait and are woken, the single-CPU scheduler with
time slicing, and the kernel objects, from semaphores to pipes; and one system
above it that is about crashes, the non-volatile storage (`src/subsys/fs/nvs`).
The properties are checked with TLC on small instances; those of semaphores and
mutexes are proved with TLAPS for every instance. All definitions are translated
from the C code; `PROJECT.json` gives the lines for each of them.

## The system

| Part | Code | Model |
|---|---|---|
| Timeout queue | `timeout.c` | `Timeout`, abstract: `TimeoutAbs` |
| Waiting and waking of threads | `sched.c` (wait queues, thread timeouts, suspend, resume) | `Pend`, `Pend_proofs` |
| Semaphores | `sem.c` | `Sem`, `Sem_proofs` |
| Mutexes | `mutex.c` | `Mutex`, `Mutex_proofs` and the modules it extends, `MutexUP_proofs` |
| Condition variables | `condvar.c` | `CondVar`, on top of `Mutex` |
| Message queues | `msg_q.c` | `MsgQ` |
| Queues, FIFOs, LIFOs | `queue.c`, `sys/list_gen.h` | `Queue`, on `SFList` |
| Stacks, memory slabs | `stack.c`, `mem_slab.c` | `Stack` |
| Event objects | `events.c` | `Events` |
| Kernel timers | `timer.c` | `Timer` |
| Futexes and user semaphores | `futex.c`, `lib/os/sem.c` | `Futex` |
| Polling | `poll.c` | `Poll` |
| Pipes | `pipes.c` | `Pipe` |
| Heaps | `kheap.c`, `lib/heap/heap.c`, `heap.h` | `KHeap`, on `SysHeap` |
| Mailboxes | `mailbox.c` | `Mailbox` |
| Work queues | `work.c` | `Work` |
| Scheduler on one CPU, time slicing | `sched.c`, `timeslicing.c`, `kthread.h`, `kswap.h`, `priority_q.h` | `Sched` |
| Non-volatile storage | `nvs.c`, `nvs_priv.h` | `NVS` |

How they interact. A driver announces ticks to the timeout queue, which runs
callbacks with its lock released. One callback, `z_thread_timeout()`, ends a
thread's wait; others submit a delayed work item, end a time slice, or expire a
timer. Kernel objects keep waiting threads on wait queues; to wake one they take it
off the queue in one section under the scheduler lock and make it ready in another.
Whatever becomes ready enters the run queue, and the scheduler decides at the next
swap or interrupt exit what runs. The storage uses the kernel for a mutex only.

## The modules

A step is one section under a lock (with interrupts masked, on one CPU).
Everything the code does inside is part of the step; what it does after the lock
is dropped is another step, and other threads, interrupts and CPUs come between.
Definitions have the name of the C function they translate wherever one C
function is one definition. Where a function has several sections its parts have
a name for what they do (`GiveUnpend`, `GiveReady`). Definitions marked *Mutant*
are deliberately wrong variants of the definition that follows them; they show
that the properties can fail and are used by no specification.

- **`Timeout`**: `timeout_list` with `dticks` as deltas, `curr_tick`,
  `announce_remaining`; `firing[c]` is the callback CPU `c` runs. `real`,
  `announced` and `programmed` are the driver, modelled from its interface
  (`system_timer.h`): it counts, interrupts no later than it was asked to, possibly
  earlier, and hands over what it has counted. `due` records the deadline each
  caller asked for. `Builds` are the machines: one CPU, or two that announce.
- **`TimeoutAbs`**: the promise of the queue: a set of deadlines and a clock that
  never passes one. `RefinesDeadlines` states that `Timeout` implements it, with
  `z_timeout_expires()` as the refinement mapping.
- **`Pend`**: operators over the state of waiting threads: `waitq`, `ready`,
  `suspended`, linked `timer`s, the thread whose timeout is being handled
  (`firing`), the thread between wait queue and run queue (`waking`),
  `swap_retval`, `prio`. The objects extend it, so each specification is the
  composition of the object, the waiting machinery, the timer interrupt and the
  threads. Which ready thread runs is open: what holds here holds for every
  scheduling policy.
- **`Sem`**, **`Mutex`**: with threads that suspend, resume and reprioritise others.
  `lock` is the call that holds the object's spinlock across several scheduler
  sections. `cause`, `arrival`, `held` and `base` are history variables.
- **`CondVar`**: the composition with the mutex. Its user is a monitor: a thread
  that finds no token waits, one that adds tokens signals or broadcasts.
- **`Obj`** has what the other objects share: `obj` is the C structure, `call` what
  each thread is blocked in, `swap_data` what the waker finds and leaves; then one
  module per object, and **`Objects`** is their union: the first state chooses the
  object and the number of CPUs. The ghost `fifo` of `MsgQ`, `Queue` and `Pipe` is what
  was accepted and not delivered.
- **`SFList`**, **`SysHeap`**: the linked list below `Queue` and the allocator below
  `KHeap`, as operators from state to state. `k_queue_remove()` and
  `k_queue_unique_append()` take no lock, so in `Queue` each node they look at and each
  store they make is a step (`walk`); a call that takes the lock of the queue is a step
  with all its stores. `HeapWellFormed` says that the chunks tile the heap, agree on
  their borders and are in the right free lists.
- **`Work`**: items (all delayable), queues and their threads, flushers and
  cancellations. A `setup` with `race` allows other contexts between the expiry of
  a delay and `work_timeout()`: SMP, or an interrupt nested in the timer interrupt.
- **`Sched`**: the kernel state is one record `k`; the functions of `sched.c` are
  operators from state to state, composed as the code composes them, and a step is
  the composition for one section. `call` holds what a thread still has to do of
  the call it is in, `isr` the kind of interrupt that is being handled.
  `Calls` is the workload, chosen once. `halted` and `promised` are history variables.
- **`NVS`**: the cells of the flash, the write positions, and `pc`, the flash
  operation the running call does next; every write and erase is a step and the
  power may fail in each. `allowed` is a history variable: what a read of each id
  may find.

## The runs

Passing runs (the numbers are distinct states found):

| Run | Instance | Shows |
|---|---|---|
| `timeout` | 3 timeouts on one CPU, 2 on two that announce; 122,467 | deadlines kept, no tick lost, refinement of `TimeoutAbs`, what is due expires |
| `sem_up` | 3 threads, limit 2; 200,860 | no lost wakeup, unit or thread; order of service; return values |
| `mutex_up` | 3 threads, 3 priorities, ceiling 2; 14,127 | hand-over, priority inheritance taken and given back; lock calls end |
| `mutex_two` | 2 threads, 2 mutexes, nested locks, SMP; 749,576 | exclusion on SMP and in any order of unlocking; priorities restored |
| `condvar` | 3 threads, 2 tokens, 1 or 2 CPUs; 528,364 | no lost signal; a wait returns with the mutex |
| `objects` | 2 threads, each of 11 objects, 1 or 2 CPUs; 234,899 | outside the cases under "Where the properties stop": nobody waits in vain, is stranded or told something untrue; nothing lost, doubled or reordered; stopped timers stay stopped; timed waits end |
| `work` | 4 setups of 1 or 2 items, queues, callers; 18,083 | notification, flush, cancel, delays, one list at a time, calls return, submitted items run |
| `sched` | 3 threads, 4 priorities, 5 workloads; 510,457 | best thread runs, cooperative threads keep the CPU, turns and slices, MetaIRQ preemption and return, exact queues under suspension, abort, join, wakeup and priority changes |
| `nvs` | 2 ids, 2 values, 2 or 3 sectors, 2 power failures; 561,831 | pairs survive, flash is not written twice, mounts and deletes succeed |

`mutex_two` and `condvar` do not check for deadlock: two threads that take two
mutexes in opposite orders block each other, and a monitor whose threads all wait
stops, which the kernel permits. So may all threads of `objects` wait for ever. A
*workload* of `Sched` is the set of kernel services an application uses; a run takes
all its workloads in turn, as `work` does with its setups.

Three runs end in a counterexample:

- `work_two_cancels`: of two threads that synchronously cancel the same running
  item, one is never released, because `finalize_cancel_locked()` leaves its loop at
  the first entry of the list, which the comment above it says may hold an item
  several times.
- `queue_append_list`: `k_queue_append_list()` takes the next waiter off the queue
  before it looks whether an item is left. That thread is on no queue, its timeout
  is aborted, and it never runs again.
- `nvs_torn_close`: data and ATEs meet in a sector, the close ATE is torn, and
  `nvs_recover_last_ate()` does not look at the slot next to the data. The last pair
  is forgotten. The `nvs` run leaves this one failure out (`TearsFull`).

### Where the properties stop

Some statements of the documentation hold only without a certain call, or only
on one CPU. The runs leave that call out (through the workloads and setups, `Habits`
and `SMP`) or the property names the exception. What the code does beyond:

- *Two CPUs announcing.* `announce_remaining` is 0 during the callback of the last
  timeouts due, so a second CPU enters the loop and runs callbacks in parallel, and
  `curr_tick` can step back (`RefinesDeadlines` with `steady` TRUE).
- *SMP wakeups.* The timeout handler can make a thread ready between
  `z_unpend_first_thread()` and `z_ready_thread()`. A unit then goes to a take that
  returns `-EAGAIN`, and a mutex to a thread that was told it timed out
  (`SuccessIffToken` and `OwnerKnows` with `SMP = TRUE`); the same is true of
  messages, queue items, stack data and blocks (`HandedIsReturned`), and a waiting
  writer's message may be copied after its call has returned. A condition variable
  ignores the error and comes back without the mutex (`WaitReturnsLocked`). The
  handler of an earlier wait can end a `K_FOREVER` take (`ForeverIsForever`).
- *Priority of a waiter.* `z_thread_prio_set()` does not reorder the wait queue
  (`LongestWaitingFirst` with `"set_prio_pended"`).
- *Suspended waiters.* `k_thread_suspend()` cancels the timeout of a wait that goes
  on after the resume. `Objects` has no suspension, so `TimedWaitEnds` is about the rest.
- *Ceiling.* When a waiter gives up, an owner whose own priority is above the
  ceiling is lowered to the ceiling (`prio_after_timeout`).
- *Delayed work during its expiry.* With `race`, a flush between the expiry and
  `work_timeout()` drops the scheduled run (the exception in `PromiseKept`), and a
  reschedule there lets a later schedule reach the assertion of `z_add_timeout()`
  that the timeout is not linked; `ScheduleDelayed` ends there.
- *Aborting a joined thread* is no reschedule point, so a better joiner waits for
  the next one (the exception in `HighestRuns`).
- *Halting and reprioritising others.* `halt_thread()` and `z_thread_prio_set()`
  refresh the cache as if the running thread had yielded. The next interrupt then
  takes the CPU from a cooperative or locked thread, or forgets the thread a MetaIRQ
  thread preempted (`CoopKept` names priority changes; the workloads with `"halt"`
  have no cooperative threads). A preempted thread raised to a MetaIRQ priority can
  go on running while it is pending (the workload with `"prio"` has none).
- *Slices.* A thread that becomes sliceable while it runs, by a priority change or
  by `k_sched_unlock()`, has no slice (the exception in `SliceRuns`).
- *Suspension in two sections.* A timed wait or sleep begun between the two sections
  of `k_thread_suspend()` undoes the suspension when it expires (the definition of `halted`).
- *Futex.* A give between the comparison and the pend of `k_futex_wait()` wakes
  nobody; that thread waits for the next give (`late` in `FutexNobodyWaitsInVain`).
- *Timer.* On SMP a stop between the look of `k_timer_status_sync()` and its pend
  leaves the thread waiting (`missed` in `TimerNobodyWaitsInVain`). A timer
  stopped while its expiry is still to be handled may be linked again (`stopped`).
- *Pipe.* Only readers are woken when bytes move. A writer whose last bytes a get
  moves into the ring waits for another get, and a writer or reader whose minimum is
  met later waits until its whole request is (`PipeNobodyWaitsInVain`).
- *Heap.* `k_heap_realloc()` that shrinks, moves or frees a block gives memory back
  and wakes nobody (`regained`, until the next free). One to no bytes that may wait
  frees the block, pends, and frees it again when woken; the model has it without
  waiting only.
- *Queue.* `k_queue_remove()` and `k_queue_unique_append()` walk the list without the
  lock of the queue. A get or an insertion that takes away the node the walk is at, or
  comes between its last look at a link and its store there, makes it lose or link items
  wrongly, and two unique appends of one item link it twice. `undercut` tells exactly
  these cases, and `QueueFifo` and `QueueNobodyWaitsInVain` except them; without any one
  clause of `Undercuts` that the run can reach `QueueFifo` fails. The run has one such call at a
  time beside all others; with two (`Walkers`) the same properties hold on 745,000
  states of the queue alone.
- *Mailbox.* On SMP the disposal may come before the sender waits for it, and the
  sender waits for ever; the model is about one CPU.
- *Torn erases.* With two sectors an open sector is told from an empty one by a
  single slot, so if an erase that is cut off clears the end of a sector before its
  start, old pairs can come back. In the model erases go upwards.
- *A sector full of deletes.* A delete in the first block of a sector takes `ate_wra`
  below the sector. `nvs_sector_close()` masks the offset and so writes the close ATE of
  the sector before, which has one, and goes on in the same sector; below sector 0 the
  address wraps and every access fails. `NVS` does the same (`WraSector`, `OutOfFlash`),
  but the file systems of `nvs` are too small to hold enough pairs to delete. With six
  sectors of five blocks, four ids and one value, and no power failure, TLC finds
  `NeverOverwrites` violated, in a trace of 36 states.

### Bounds

Three threads give a running thread, a waiter and a second waiter or waker. The
objects interact only through threads, so one semaphore and two mutexes suffice.
`mutex_two` and `objects` have two threads, enough for each race between a waker, a
waiter and the timer interrupt on another CPU, since wakers need not be one of
them (calls that do not wait come from anywhere); for semaphores and mutexes the safety
properties are proved for any number. Priorities are enough to have a tie, a
higher and a lower one around each threshold (cooperative, MetaIRQ, ceiling,
sliced); the halting workloads have two preemptible ones, and the scheduler lock stands
in for a cooperative one. `MaxReal` bounds the ticks so that several timeouts
expire at one tick, at different ticks, and after the end. `MaxHeld` and `MaxLock` bound
nesting; in `mutex_two` two levels distinguish the first lock from the others. `Limit`,
`MaxMsgs`, `MaxEntries` and `PipeSizes` of 2 have an empty, a partly full and a full
object, and a ring that wraps; what is written to a pipe (3 bytes) is more than its
ring and one read take. A heap of 7 units (4 on two CPUs, where
the interleavings are more) with blocks of 2 to 4, one of them aligned, is one in
which a reallocation shrinks, expands and moves a block and a move makes room for a
waiter; threads wait for the largest blocks only (`Awaited`). No free list has more than
`AllocLoops` chunks then. `MaxTokens` = 2 tells a broadcast from a signal. A timer
expires no more once its status is `MaxStatus`. The
sectors of `NVS` have six to eight blocks, so that closing, collection, and a full file
system come after a few writes, with a long and a short value; `MaxFailures` = 2 is
a failure and a second one in the mount that repairs the first. Threads, mutexes
and ids are symmetric; the runs with a liveness property use no symmetry.

### Fairness

- *Hardware and driver*: ticks are counted and the driver interrupts when it was
  asked to (weak fairness of `Tick` and `DriverInterrupt`); a linked timeout
  expires (strong fairness of `Expire` in `Objects`, since masked interrupts disable
  it again and again). That is what `timeout` shows of the queue.
- *Sections under a lock end, and handlers return* (weak fairness).
- *Threads*: a ready thread in the middle of a call of `Mutex` or `Work` goes on
  (strong fairness, since it may be preempted repeatedly); it stands for a schedule in
  which no higher-priority thread runs for ever. New calls carry no fairness, with one
  exception: `LockEnds` assumes that owners unlock. It is stated for waiters
  nobody outranks, since the others can starve. `LoneCallEnds` is about one caller
  at a time and no endless chain of submissions.

## What is proved

`Sem_proofs` proves, for any set of threads, semaphores, priorities and limit:

- `TypeCorrect` and `WakeupsKept`, on one CPU and on SMP. `NoLostWakeup` is not
  inductive: a give that finds no waiter increments the count, so one needs that the
  thread it took off the queue is still in its hands while it holds the lock
  (`LockInv`); `IInv` is the conjunction with the types;
- `ForeverWaits`, `WokenThreadsKept` and `TokensKept`, on one CPU (`~SMP`; on
  SMP they do not hold, see above). Here the argument is about who
  may wake a thread. `UPInv` says: a pended thread is on one queue, once
  (`Distinct`), and nothing has ended its wait (`PendedInv`); only pended threads
  have a linked timeout, and the thread whose timeout is being handled is still in the
  wait it was for (`TimerInv`); the thread in a waker's hands is not ready and has not yet got its
  return value (`WakingInv`); a thread whose wait is over has the return value
  that goes with what ended it (`ReturnInv`). The step lemmas treat one action each.

`Mutex_proofs` and `MutexUP_proofs` prove, for any threads, mutexes, priorities,
ceiling and depth of nesting:

- `MutualExclusion` (`OwnerAlone`) and `WakeupsKept` (`NoLostWakeup`), on one CPU and
  on SMP. A hand-over makes a thread the owner long before that thread knows, so
  exclusion as the threads see it needs: who waits is in a lock call on that queue,
  is not the owner and has been told nothing (`PendedInv`); a thread that will see 0
  owns the mutex it waited for, unless a late wakeup already ended its wait
  (`GrantInv`); `lock_count` covers the locks of the owner, the one under way
  included (`CountInv`); and what an unlock in progress has taken back (`LockInv`);
- `OwnersAnswered` (`OwnerKnows`), on one CPU: no thread that becomes the owner has
  already been told that it timed out (`AnswerInv`).

`MutexLock_proofs` has the invariant and the steps of `k_mutex_lock()`, `Mutex_proofs`
the other steps, `MutexPlaces_proofs` the lemmas on counting the locks of a thread.

`Pend_proofs` has the lemmas on the wait queue operators (insertion by priority,
removal, head and tail keep exactly the other elements, and keep each once) that
both use. The proofs rest on the assumptions named in the modules
(`PendAssumption`, `SemAssumption`, `MutexAssumption`): NULL is none of the threads, queues or lock
values, priorities are integers, the limit is positive.

Only model-checked: everything about `Timeout`, `CondVar`, the other objects, `Work`, `Sched`
and `NVS`; priority inheritance; the order of service (`LongestWaitingFirst`); all
liveness properties, since TLAPS 1.4.5 reasons about neither fairness nor
`ENABLED`; and facts that need induction over sequences of any length, as do the walks of
`NVS`, which are recursive operators.

## What is abstracted

Tracing, logging, statistics, user-mode verification and architecture code are
left out. `CONFIG_POLL` is off but in `Poll`, which has its own semaphore. A thread
timeout in `Pend`, `Work` and `Sched` is linked or not, and may expire at any time
after it was linked; `Timeout` is the model of when, and so for `Timer`. Tick counts do
not wrap. In `Sched` the run queue is the sorted list, slices are global, deadlines
and CPU masks are off, and expiry and handler of a thread timeout are one step. In
`Mutex` the priority of a thread that takes part in inheritance is not set by
others, which its documentation excludes. In `Work` queues are started and a
submission names its queue. Slots of a ring that hold nothing are cleared, which
no call can see. `SysHeap` counts in chunk units, as a big heap does whose header is one;
chunk 0, which holds the heap's own structure, is one unit, and contents are left out, so
the copy of a reallocation that moves is too. `Queue` makes no more calls once a walk
is undercut, since nothing is claimed then. One thread polls an object, and one synchronizes with a
timer, at a time, as their documentation asks. A unit of flash in `NVS` is an ATE
and a write block, a torn ATE keeps its fields and fails its CRC, and one thread uses
the file system.

## Not modelled

- *SMP scheduler* (`smp.c`, `ipi.c`, `cpu_mask.c`): current threads per CPU, pending
  IPIs and switch handles; the objects are checked on two CPUs without saying which thread
  runs where. Creation of threads (`thread.c`, `dynamic.c`).
- *Parts of objects*: asynchronous mailbox messages, triggered work (`k_work_poll`), polling
  without waiting, allocation and release of buffers, the lookup cache, data CRC and driver
  errors of the storage, and reads of it while another thread writes.
- *User mode, memory domains, MMU*: permission tables and page tables that depend on
  the architecture. *Start-up, fatal errors, statistics*: sequential.
- *`arch`, `drivers`, `soc`, `boards`, `dts`*: hardware. They appear in the models as
  interrupt entry and exit, the swap, the tick counter and the flash.
- *The other subsystems, libraries and modules*: Bluetooth, networking, USB, logging,
  shell, other file systems. They are systems of their own on top of the kernel, and with the
  drivers they are nearly all of the two million lines of the repository. The share of the
  repository that is modelled is therefore small; of the files of `src/kernel` that have state
  threads share, most are.

## Running

    tlc -config SemUP.cfg MCSem      # any run: its cfg and module are in PROJECT.json
    tlapm Mutex_proofs.tla
