------------------------------ MODULE Objects ------------------------------
(***************************************************************************)
(* The kernel objects under one specification: the application uses one of *)
(* them, on one CPU or on several, and every promise that does not depend  *)
(* on the object is stated here once for all of them.                      *)
(***************************************************************************)
EXTENDS MsgQ, Queue, Stack, Events, Timer, Futex, Poll, Pipe, KHeap, Mailbox

CONSTANT Kinds  \* the objects the application may use

Init ==
    /\ ObjInit
    /\ kind \in Kinds
    /\ MsgqInit \/ QueueInit \/ StackInit \/ SlabInit \/ EventInit
       \/ TimerInit \/ FutexInit \/ PollInit \/ PipeInit \/ HeapInit \/ MboxInit

Next ==
    \/ MsgqNext \/ QueueNext \/ StackNext \/ SlabNext \/ EventNext
    \/ TimerNext \/ FutexNext \/ PollNext \/ PipeNext \/ HeapNext \/ MboxNext
    \/ \E t \in Threads : Expire(t)
    \/ TimeoutHandler

Spec == Init /\ [][Next]_vars

\* What a call that holds a lock does next.
HolderStep ==
    /\ lock # NULL
    /\ \/ MsgqStep \/ QueueStep \/ StackPushReady \/ SlabFreeReady \/ EventWake
       \/ TimerSyncPend \/ (kind = "timer" /\ TimerHandlerUnpend)
       \/ FutexWakeUnpend \/ FutexWakeReady \/ FutexWakeDone
       \/ PollSignalReady \/ PollGiveHandle \/ PipeStep \/ HeapStep \/ MboxStep

\* Sections under a lock end, and the timer interrupt is not masked for ever.
Fairness ==
    /\ WF_vars(HolderStep)
    /\ SF_vars(TimeoutHandler)
    /\ \A t \in Threads : SF_vars(Expire(t))

FairSpec == Spec /\ Fairness
-----------------------------------------------------------------------------
\* No thread waits for something that is there, except where the code does not wake
\* it: a futex waiter whose comparison was overtaken by a give, a pipe writer whose
\* last bytes are in the ring or whose minimum is met later, a thread that waits for
\* heap memory which only k_heap_realloc() gave back, a thread about to
\* wait for a timer that another CPU stops just then, and a queue whose list was changed
\* under an unlocked walk.  Each conjunct names its exception and excepts no more.
NobodyWaitsInVain ==
    /\ MsgqNobodyWaitsInVain /\ QueueNobodyWaitsInVain
    /\ StackNobodyWaitsInVain /\ EventNobodyWaitsInVain
    /\ TimerNobodyWaitsInVain /\ FutexNobodyWaitsInVain
    /\ PollNobodyWaitsInVain /\ PipeNobodyWaitsInVain
    /\ HeapNobodyWaitsInVain /\ MboxNobodyWaitsInVain

\* A thread taken off the wait queue is ready, is being made ready, or has a
\* timeout that will, or its message is taken and will be disposed of: it is never
\* left in no queue at all.
NeverStranded ==
    \A t \in Threads :
        Pended(t) \/ TimerWakes(t) \/ MboxTaken(t)
        \/ t \in ready \cup timer \cup {waking, firing}

\* What the objects hold is neither lost, duplicated nor reordered: the messages of
\* a message queue, the items of a queue unless its list was changed under an
\* unlocked walk, the blocks of a slab, the bytes of a pipe, the blocks of a heap
\* with all its chunks and free lists; and what a receiver has still to copy from a
\* mailbox stays where it is.
DataKept == MsgqFifo /\ QueueFifo /\ SlabBlocksKept /\ PipeFifo /\ HeapBlocksKept
            /\ MboxDataStays

\* On one CPU a call that has waited returns 0 exactly when something was handed
\* to it, and then with just that.
HandedIsReturned ==
    cpus = 1 /\ kind \in {"msgq", "queue", "stack", "slab"} =>
        \A t \in Threads : call[t] # NULL /\ call'[t] = NULL =>
            IF cause[t][1] = "handed"
            THEN swap_retval[t] = OK /\ swap_data[t] = cause[t][2]
            ELSE swap_retval[t] # OK \/ swap_data[t] = NULL

\* Calls that waited return what happened: data that was handed over, events that
\* were posted, a poll event that is ready, a message that was disposed of, and an
\* error otherwise; and a pipe's never while another CPU copies to or from the
\* caller's buffer.
AnswerIsTrue == [][HandedIsReturned /\ EventAnswer /\ PollAnswer /\ PipeAnswer
                   /\ MboxAnswer]_vars

\* A wait with a timeout ends, on one CPU and on several, except that a sender
\* whose message was taken in time waits for the receiver to dispose of it.
TimedWaitEnds == \A t \in Threads : t \in timer ~> (t \in ready \/ MboxTaken(t))
=============================================================================
