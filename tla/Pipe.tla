-------------------------------- MODULE Pipe --------------------------------
(***************************************************************************)
(* kernel/pipes.c: a stream of bytes through a ring buffer, or directly    *)
(* from writer to reader when there is none.  A call lists the waiting     *)
(* threads it will copy to or from under the scheduler's lock, copies, and *)
(* wakes those whose request is satisfied one by one; a thread on the list *)
(* may time out meanwhile, and then waits for the lock of the pipe before  *)
(* it looks at what it got.                                                *)
(*                                                                         *)
(* The copying touches only what the lock of the pipe protects, so it is   *)
(* part of the step that makes the list.  A reader's swap_data holds the   *)
(* bytes it has got, a writer's the bytes it has left.                     *)
(***************************************************************************)
EXTENDS Obj

CONSTANTS PipeSizes,  \* the sizes of the ring buffer, 0 for none
          Writes,     \* the data the application writes
          Reads,      \* the numbers of bytes it reads
          MinXfers    \* and those it needs: with 0 a call waits for all of them

readers == wait_q
writers == CHOOSE q \in WaitQs : q # wait_q

\* `fifo' is a ghost: the bytes accepted and not read, in order.
PipeInit ==
    /\ kind = "pipe"
    /\ obj \in {[size |-> s, buffer |-> [i \in 0 .. s - 1 |-> NULL], used |-> 0,
                 read |-> 0, write |-> 0, fifo |-> <<>>] : s \in PipeSizes}

Min2(m, n) == IF m < n THEN m ELSE n

\* bytes_to_xfer of a waiting thread.
Left(t) == IF BlockedIn(t, "pipe_get") THEN call[t][2] - Len(swap_data[t])
           ELSE Len(swap_data[t])

Total(list) == FoldLeft(LAMBDA n, t : n + Left(t), 0, list)

\* pipe_waiter_list_populate(): the first waiters that have n bytes among them, or
\* all of them.
Populate(q, n) ==
    LET enough == {i \in DOMAIN waitq[q] : Total(SubSeq(waitq[q], 1, i)) >= n}
    IN  IF enough = {} THEN waitq[q]
        ELSE SubSeq(waitq[q], 1, CHOOSE i \in enough : \A j \in enough : i <= j)

\* Where the bytes of the i-th thread of the list lie in the n bytes that the list
\* takes or gives.
First(list, i) == Total(SubSeq(list, 1, i - 1)) + 1
Moved(list, i, n) == Min2(Left(list[i]), n + 1 - Min2(First(list, i), n + 1))

\* The threads of the list that have nothing left after these n bytes.
Satisfied(list, n) ==
    SelectSeq(list, LAMBDA t : \A i \in DOMAIN list :
                                   list[i] = t => Moved(list, i, n) = Left(t))

\* swap_data once the n bytes of `bytes' went to the readers of the list ...
Received(list, bytes) ==
    [t \in Threads |->
        IF t \notin ToSet(list) THEN swap_data[t]
        ELSE LET i == CHOOSE i \in DOMAIN list : list[i] = t
             IN  swap_data[t] \o SubSeq(bytes, First(list, i),
                                        First(list, i) - 1 + Moved(list, i, Len(bytes)))]

\* ... or n bytes came from its writers.
Sent(list, n) ==
    [t \in Threads |->
        IF t \notin ToSet(list) THEN swap_data[t]
        ELSE LET i == CHOOSE i \in DOMAIN list : list[i] = t
             IN  SubSeq(swap_data[t], Moved(list, i, n) + 1, Left(t))]

\* The bytes the writers of the list have left, one after the other.
Offered(list) == FoldLeft(LAMBDA s, t : s \o swap_data[t], <<>>, list)

-----------------------------------------------------------------------------
\* Bytes go into the ring buffer from write_index on, at most to its end and then
\* from its start, ...
RingWrite(o, bytes) ==
    [o EXCEPT !.used = @ + Len(bytes),
              !.write = IF bytes = <<>> THEN @ ELSE (@ + Len(bytes)) % o.size,
              !.buffer = [i \in DOMAIN @ |->
                  LET k == ((i - o.write + o.size) % o.size) + 1
                  IN  IF k <= Len(bytes) THEN bytes[k] ELSE @[i]]]

\* ... and out of it from read_index on; what stays there is never looked at.
RingBytes(o, n) == [i \in 1 .. n |-> o.buffer[(o.read + i - 1) % o.size]]
RingRead(o, n) ==
    [o EXCEPT !.used = @ - n, !.read = IF n = 0 THEN @ ELSE (@ + n) % o.size,
              !.buffer = [i \in DOMAIN @ |->
                  IF (i - o.read + o.size) % o.size < n THEN NULL ELSE @[i]]]

\* The ghost: `in' is accepted and `out' is read, which should be the oldest bytes.
Account(o, in, out) ==
    [o EXCEPT !.fifo = IF IsPrefix(out, @ \o in)
                       THEN SubSeq(@ \o in, Len(out) + 1, Len(@) + Len(in))
                       ELSE <<"disorder">>]

\* The call that holds the lock: the threads it may touch, those it will wake,
\* whether it will refill the ring, and how it will pend unless that is NULL.
Copying(list, wake, refill, then) ==
    <<"pipe", [list |-> list, wake |-> wake, refill |-> refill, then |-> then]>>

MayWait(t, wait) == wait # "no" => Runs(t) /\ call[t] = NULL

\* How thread t will pend in c when n of its bytes were moved: not at all
\* if these are all, or as many as it needs, or it does not wait.
Then(t, c, bytes, min, n, data, wait) ==
    IF n = bytes \/ wait = "no" \/ (n >= min /\ min > 0) THEN NULL
    ELSE [thread |-> t, call |-> <<c, bytes>>, data |-> data, timed |-> wait = "timed"]

-----------------------------------------------------------------------------
\* k_pipe_put() copies to the waiting readers and then to the ring.  With less
\* room than min and K_NO_WAIT it returns -EIO and changes nothing.
PipePut(t, data, min, wait) ==
    LET list == Populate(readers, Len(data))
        room == obj.size - obj.used
        out == SubSeq(data, 1, Min2(Len(data), Total(list)))
        in == SubSeq(data, 1, Min2(Len(data), Total(list) + room))
    IN  /\ Free /\ MayWait(t, wait)
        /\ wait # "no" \/ Total(list) + room >= min
        /\ obj' = Account(RingWrite(obj, SubSeq(in, Len(out) + 1, Len(in))), in, out)
        /\ swap_data' = Received(list, out)
        /\ lock' = Copying(list, Satisfied(list, Len(out)), FALSE,
                           Then(t, "pipe_put", Len(data), min, Len(in),
                                SubSeq(data, Len(in) + 1, Len(data)), wait))
        /\ UNCHANGED <<pendVars, kind, cpus, call, no_wake, cause>>

\* pipe_get_internal() copies from the ring and then from the waiting writers.
PipeGet(t, bytes, min, wait) ==
    LET list == Populate(writers, bytes)
        ring == Min2(bytes, obj.used)
        in == SubSeq(Offered(list), 1, Min2(bytes - ring, Total(list)))
        out == RingBytes(obj, ring) \o in
    IN  /\ Free /\ MayWait(t, wait)
        /\ wait # "no" \/ obj.used + Total(list) >= min
        /\ obj' = Account(RingRead(obj, ring), in, out)
        /\ swap_data' = Sent(list, Len(in))
        /\ lock' = Copying(list, Satisfied(list, Len(in)), TRUE,
                           Then(t, "pipe_get", bytes, min, Len(out), out, wait))
        /\ UNCHANGED <<pendVars, kind, cpus, call, no_wake, cause>>

\* z_unpend_thread() and z_ready_thread() for the next satisfied thread.
PipeUnpend ==
    /\ Holds("pipe") /\ lock[2].wake # <<>> /\ waking = NULL
    /\ UnpendThread(Head(lock[2].wake))
    /\ UNCHANGED <<kind, cpus, obj, lock, callVars>>

PipeReady ==
    /\ Holds("pipe") /\ waking # NULL
    /\ ReadyUnpended
    /\ lock' = <<"pipe", [lock[2] EXCEPT !.wake = Tail(@)]>>
    /\ UNCHANGED <<kind, cpus, obj, callVars>>

\* When all are awake a get refills the ring from the writers that are left.  It
\* wakes none of them: a writer whose last bytes go into the ring stays pended until
\* another get.  Then the call returns or pends.
PipeEnd ==
    /\ Holds("pipe") /\ lock[2].wake = <<>>
    /\ \E list \in {IF lock[2].refill THEN Populate(writers, obj.size - obj.used) ELSE <<>>} :
       \E in \in {SubSeq(Offered(list), 1, Min2(obj.size - obj.used, Total(list)))} :
       \E left \in {Sent(list, Len(in))} :
       LET then == lock[2].then
       IN  /\ obj' = Account(RingWrite(obj, in), in, <<>>)
           /\ IF then = NULL THEN swap_data' = left /\ UNCHANGED <<pendVars, call>>
              ELSE /\ swap_data' = [left EXCEPT ![then.thread] = then.data]
                   /\ z_pend_curr(then.thread, IF then.call[1] = "pipe_put" THEN writers
                                               ELSE readers, then.timed)
                   /\ call' = [call EXCEPT ![then.thread] = then.call]
    /\ lock' = NULL
    /\ UNCHANGED <<kind, cpus, no_wake, cause>>

\* Mutant: a thread that wakes up does not wait for the copying to end.
PipeReturnsEarly(t) ==
    /\ BlockedIn(t, "pipe_put") \/ BlockedIn(t, "pipe_get")
    /\ Returns(t)
    /\ UNCHANGED obj

\* A thread that wakes up takes the lock and releases it before it returns.
PipeReturns(t) ==
    /\ Free
    /\ BlockedIn(t, "pipe_put") \/ BlockedIn(t, "pipe_get")
    /\ Returns(t)
    /\ UNCHANGED obj

\* k_pipe_flush() reads all there is, k_pipe_buffer_flush() as much as fits in the
\* ring.
PipeFlush == PipeGet(NULL, obj.used + Len(Offered(waitq[writers])) + 1, 0, "no")
PipeBufferFlush == obj.size > 0 /\ PipeGet(NULL, obj.size, 0, "no")

\* k_pipe_cleanup() of an allocated pipe that nobody waits on frees the ring.
PipeCleanup ==
    /\ obj.size > 0
    /\ waitq[readers] = <<>> /\ waitq[writers] = <<>>
    /\ Immediate([size |-> 0, buffer |-> <<>>, used |-> 0, read |-> 0, write |-> 0,
                  fifo |-> <<>>])

PipeStep == PipeUnpend \/ PipeReady \/ PipeEnd

\* A call of thread t, or one of anybody that does not wait.
PipeCall(t, wait) ==
    \E min \in MinXfers :
        \/ \E data \in Writes : PipePut(t, data, min, wait)
        \/ \E bytes \in Reads : PipeGet(t, bytes, min, wait)

PipeNext ==
    /\ kind = "pipe"
    /\ \/ \E t \in Threads, wait \in {"timed", "forever"} : PipeCall(t, wait)
       \/ PipeCall(NULL, "no")
       \/ PipeFlush \/ PipeBufferFlush \/ PipeCleanup
       \/ PipeStep
       \/ \E t \in Threads : PipeReturns(t)
-----------------------------------------------------------------------------
\* k_pipe_read_avail() and k_pipe_write_avail().
read_avail ==
    IF obj.size = 0 THEN 0
    ELSE IF obj.read = obj.write THEN obj.used
    ELSE IF obj.read < obj.write THEN obj.write - obj.read
    ELSE obj.size - (obj.read - obj.write)

write_avail ==
    IF obj.size = 0 THEN 0
    ELSE IF obj.read = obj.write THEN obj.size - obj.used
    ELSE IF obj.write < obj.read THEN obj.read - obj.write
    ELSE obj.size - (obj.write - obj.read)

\* Bytes are read in the order they were accepted in, whether they went through
\* the ring or straight from a waiting writer to a waiting reader; the ring holds
\* exactly those that are still to be read, and tells so.
PipeFifo ==
    kind = "pipe" =>
        /\ RingBytes(obj, obj.used) = obj.fifo
        /\ read_avail = obj.used /\ write_avail = obj.size - obj.used

\* Readers wait only for an empty pipe without writers, writers for a full ring, or
\* with nothing left to write as long as the ring is not empty: only a get that finds
\* such a writer wakes it, and none is woken because its minimum is met.
PipeNobodyWaitsInVain ==
    kind = "pipe" /\ Free =>
        /\ waitq[readers] # <<>> => obj.used = 0 /\ waitq[writers] = <<>>
        /\ \A t \in ToSet(waitq[writers]) :
              IF Left(t) > 0 THEN obj.used = obj.size ELSE obj.used > 0

\* No thread returns while a call may still copy to or from its buffer, even if
\* it timed out on another CPU.
PipeAnswer ==
    kind = "pipe" /\ Holds("pipe") => \A t \in ToSet(lock[2].list) : call[t] # NULL
=============================================================================
