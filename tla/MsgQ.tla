-------------------------------- MODULE MsgQ --------------------------------
(***************************************************************************)
(* kernel/msg_q.c: a ring buffer of MaxMsgs messages.  Readers wait when   *)
(* it is empty and writers when it is full, in the same wait queue; a      *)
(* message goes straight to a waiting reader, and the reader that makes    *)
(* room copies the message of the first waiting writer into the ring.      *)
(***************************************************************************)
EXTENDS Obj

CONSTANT MaxMsgs

\* `fifo' is a ghost: the messages accepted and not delivered, in order.
MsgqInit ==
    /\ kind = "msgq"
    /\ obj = [buffer |-> [i \in 0 .. MaxMsgs - 1 |-> NULL], used |-> 0,
              read |-> 0, write |-> 0, fifo |-> <<>>]

Wrap(ptr) == (ptr + 1) % MaxMsgs

\* Mutant: write_ptr is not set back to the start of the buffer.
StoreNoWrap(o, m) ==
    [o EXCEPT !.buffer[o.write] = m, !.write = IF @ + 1 < MaxMsgs THEN @ + 1 ELSE @,
              !.used = @ + 1, !.fifo = Append(@, m)]

\* A message is copied to write_ptr.
Store(o, m) ==
    [o EXCEPT !.buffer[o.write] = m, !.write = Wrap(@), !.used = @ + 1,
              !.fifo = Append(@, m)]

\* The message at read_ptr is taken; what stays in its place is never looked at.
Fetch(o) ==
    [o EXCEPT !.buffer[o.read] = NULL, !.read = Wrap(@), !.used = @ - 1, !.fifo = Tail(@)]

\* k_msgq_put(): the queue is not full and nobody waits ...
MsgqPutStore(m) ==
    /\ obj.used < MaxMsgs
    /\ Waiters = <<>>
    /\ Immediate(Store(obj, m))

\* ... or a reader waits and gets the message ...
MsgqPutUnpend(m) ==
    /\ lock = NULL
    /\ obj.used < MaxMsgs
    /\ UnpendFirst(<<"msgq_put", m>>, <<"handed", m>>)
    /\ UNCHANGED obj

MsgqPutReady ==
    /\ Holds("msgq_put")
    /\ ReadyWithData(OK, lock[2])
    /\ lock' = NULL
    /\ UNCHANGED obj

\* ... or the queue is full and the caller waits with its message.
MsgqPutPend(t, m, timed) ==
    /\ lock = NULL /\ Runs(t) /\ call[t] = NULL
    /\ obj.used = MaxMsgs
    /\ Pend(t, <<"put", NULL>>, m, timed)

\* k_msgq_get(): the first message is taken and nobody waits to write ...
MsgqGetFetch ==
    /\ obj.used > 0
    /\ Waiters = <<>>
    /\ Immediate(Fetch(obj))

\* ... or the message of the first waiting writer takes its place ...
MsgqGetUnpend ==
    /\ lock = NULL
    /\ obj.used > 0
    /\ UnpendFirst(<<"msgq_get", NULL>>, <<"handed", swap_data[Head(Waiters)]>>)
    /\ obj' = Fetch(obj)

MsgqGetReady ==
    /\ Holds("msgq_get")
    /\ ReadyWithData(OK, swap_data[waking])
    /\ obj' = Store(obj, swap_data[waking])
    /\ lock' = NULL

\* ... or the queue is empty and the caller waits.
MsgqGetPend(t, timed) ==
    /\ lock = NULL /\ Runs(t) /\ call[t] = NULL
    /\ obj.used = 0
    /\ Pend(t, <<"get", NULL>>, NULL, timed)

\* Mutant: the waiters are all taken off before one is made ready.
MsgqPurgeUnpendAll ==
    /\ Free \/ Holds("msgq_purge")
    /\ UnpendFirst(<<"msgq_purge", NULL>>, <<"purge", NULL>>)
    /\ UNCHANGED obj

\* k_msgq_purge() wakes every waiter and then empties the ring.
MsgqPurgeUnpend ==
    /\ Free \/ Holds("msgq_purge")
    /\ waking = NULL
    /\ UnpendFirst(<<"msgq_purge", NULL>>, <<"purge", NULL>>)
    /\ UNCHANGED obj

MsgqPurgeReady ==
    /\ Holds("msgq_purge")
    /\ ReadyWithData(ENOMSG, swap_data[waking])
    /\ UNCHANGED <<lock, obj>>

MsgqPurgeEmpty ==
    /\ Free \/ Holds("msgq_purge")
    /\ waking = NULL
    /\ Waiters = <<>>
    /\ obj' = [obj EXCEPT !.buffer = [i \in DOMAIN @ |-> NULL], !.used = 0,
                          !.read = obj.write, !.fifo = <<>>]
    /\ lock' = NULL
    /\ UNCHANGED <<pendVars, kind, cpus, callVars>>

MsgqReturns(t) ==
    /\ BlockedIn(t, "put") \/ BlockedIn(t, "get")
    /\ Returns(t)
    /\ UNCHANGED obj

MsgqStep ==   \* what a call that holds the lock does next
    \/ MsgqPutReady \/ MsgqGetReady
    \/ MsgqPurgeUnpend \/ MsgqPurgeReady \/ MsgqPurgeEmpty

MsgqNext ==
    /\ kind = "msgq"
    /\ \/ \E m \in Items : MsgqPutStore(m) \/ MsgqPutUnpend(m)
       \/ MsgqGetFetch \/ MsgqGetUnpend
       \/ MsgqStep
       \/ \E t \in Threads :
            \/ \E timed \in BOOLEAN :
                 MsgqGetPend(t, timed) \/ \E m \in Items : MsgqPutPend(t, m, timed)
            \/ MsgqReturns(t)
-----------------------------------------------------------------------------
\* The ring holds exactly the messages that were accepted and not yet delivered
\* or purged, in the order they were accepted.
MsgqFifo ==
    kind = "msgq" =>
        [i \in 1 .. obj.used |-> obj.buffer[(obj.read + i - 1) % MaxMsgs]] = obj.fifo

\* Nobody waits for what is there: readers wait for an empty ring only, and
\* writers for a full one.
MsgqNobodyWaitsInVain ==
    kind = "msgq" /\ lock = NULL =>
        \A i \in DOMAIN Waiters :
            obj.used = IF BlockedIn(Waiters[i], "get") THEN 0 ELSE MaxMsgs
=============================================================================
