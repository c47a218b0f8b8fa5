------------------------------ MODULE Mailbox ------------------------------
(***************************************************************************)
(* kernel/mailbox.c: a sender waits until a receiver it accepts, and that  *)
(* accepts it, has taken and disposed of its message.  The data stays in   *)
(* the buffer of the sender meanwhile; the receiver copies it in           *)
(* k_mbox_get(), or keeps the message and gets the data later.             *)
(*                                                                         *)
(* A sender whose message is taken is on no queue.  Nothing but the        *)
(* disposal wakes it, and that takes no lock of the mailbox: the module is *)
(* about one CPU, where it cannot come before the sender waits.  Sends are *)
(* synchronous; those that pass a dummy thread (k_mbox_async_put()), and   *)
(* the exchange of `info', are left out.                                   *)
(***************************************************************************)
EXTENDS Obj

CONSTANT MsgSizes

tx_msg_queue == wait_q
rx_msg_queue == CHOOSE q \in WaitQs : q # wait_q

K_ANY == NULL
Peers == Threads \cup {K_ANY}

\* received: the message a thread has got and not disposed of, as in its receive
\* descriptor: whose it is (_syncing_thread), and the size.
MboxInit ==
    /\ kind = "mbox" /\ cpus = 1
    /\ obj = [received |-> [t \in Threads |-> NULL]]

MboxMin(m, n) == IF m < n THEN m ELSE n

\* mbox_message_match(): the descriptor tx of thread s and rx of thread r.
mbox_message_match(s, tx, r, rx) ==
    tx.target \in {K_ANY, r} /\ rx.source \in {K_ANY, s}

\* The receivers that wait for what s sends, and the senders r waits for.
ReceiversFor(s, tx) ==
    SelectSeq(waitq[rx_msg_queue], LAMBDA r : mbox_message_match(s, tx, r, swap_data[r]))

SendersFor(r, rx) ==
    SelectSeq(waitq[tx_msg_queue], LAMBDA s : mbox_message_match(s, swap_data[s], r, rx))

\* What a match leaves in the descriptor of the receiver.
Matched(s, tx, rx) == [from |-> s, size |-> MboxMin(tx.size, rx.size)]

\* mbox_message_data_check(): what is left to do of a k_mbox_get() that got `msg'.
mbox_message_data_check(msg, rx) ==
    IF rx.buffer \/ msg.size = 0 THEN <<"consume", NULL>> ELSE NULL

MayCallMbox(t) == Free /\ Runs(t) /\ call[t] = NULL

\* z_pend_curr() on a queue of the mailbox, with swap_data set to the descriptor.
MboxPend(t, q, c, descriptor, timed) ==
    /\ z_pend_curr(t, q, timed)
    /\ call' = [call EXCEPT ![t] = <<c, NULL>>]
    /\ swap_data' = [swap_data EXCEPT ![t] = descriptor]
    /\ UNCHANGED <<kind, cpus, obj, lock, no_wake, cause>>

\* mbox_message_put() takes the first matching receiver off its queue ...
MboxPutUnpend(t, tx) ==
    /\ MayCallMbox(t)
    /\ ReceiversFor(t, tx) # <<>>
    /\ LET r == Head(ReceiversFor(t, tx))
       IN  /\ UnpendThread(r)
           /\ obj' = [obj EXCEPT !.received[r] = Matched(t, tx, swap_data[r])]
           /\ cause' = [cause EXCEPT ![r] = <<"handed", t>>]
    /\ swap_data' = [swap_data EXCEPT ![t] = tx]
    /\ lock' = <<"mbox_put_ready", t>>
    /\ UNCHANGED <<kind, cpus, call, no_wake>>

\* ... makes it ready ...
MboxPutReady ==
    /\ Holds("mbox_put_ready")
    /\ timer' = timer \ {waking}
    /\ swap_retval' = [swap_retval EXCEPT ![waking] = OK]
    /\ UNCHANGED <<waitq, suspended, firing, halting, prio>>
    /\ ready_thread(waking)
    /\ waking' = NULL
    /\ lock' = <<"mbox_put_pend", lock[2]>>
    /\ UNCHANGED <<kind, cpus, obj, callVars>>

\* ... and waits on no queue for the disposal.
MboxPutPendUnqueued ==
    /\ Holds("mbox_put_pend")
    /\ ready' = ready \ {lock[2]}
    /\ swap_retval' = [swap_retval EXCEPT ![lock[2]] = EAGAIN]
    /\ call' = [call EXCEPT ![lock[2]] = <<"put", NULL>>]
    /\ lock' = NULL
    /\ UNCHANGED <<waitq, suspended, timer, firing, waking, halting, prio, kind, cpus,
                   obj, swap_data, no_wake, cause>>

\* With no receiver the sender waits for one; with K_NO_WAIT nothing happens.
MboxPutPend(t, tx, timed) ==
    /\ MayCallMbox(t)
    /\ ReceiversFor(t, tx) = <<>>
    /\ MboxPend(t, tx_msg_queue, "put", tx, timed)

MboxPutReturns(t) == BlockedIn(t, "put") /\ Returns(t) /\ UNCHANGED obj

-----------------------------------------------------------------------------
\* k_mbox_get() takes the first matching sender off its queue ...
MboxGetUnpend(t, rx) ==
    /\ MayCallMbox(t) /\ obj.received[t] = NULL
    /\ SendersFor(t, rx) # <<>>
    /\ LET s == Head(SendersFor(t, rx))
           msg == Matched(s, swap_data[s], rx)
       IN  /\ UnpendThread(s)
           /\ obj' = [obj EXCEPT !.received[t] = msg]
           /\ call' = [call EXCEPT ![t] = mbox_message_data_check(msg, rx)]
    /\ lock' = <<"mbox_get_taken", NULL>>
    /\ UNCHANGED <<kind, cpus, swap_data, no_wake, cause>>

\* ... and aborts its timeout, but does not make it ready.
MboxGetTaken ==
    /\ Holds("mbox_get_taken")
    /\ timer' = timer \ {waking}
    /\ waking' = NULL
    /\ lock' = NULL
    /\ UNCHANGED <<waitq, ready, suspended, firing, halting, swap_retval, prio, kind,
                   cpus, obj, callVars>>

MboxGetPend(t, rx, timed) ==
    /\ MayCallMbox(t) /\ obj.received[t] = NULL
    /\ SendersFor(t, rx) = <<>>
    /\ MboxPend(t, rx_msg_queue, "get", rx, timed)

\* The wait of a receiver ends; unless it got a message, the call does, too.
MboxGetReturns(t) ==
    /\ Runs(t) /\ BlockedIn(t, "get")
    /\ call' = [call EXCEPT ![t] =
                    IF swap_retval[t] = OK
                    THEN mbox_message_data_check(obj.received[t], swap_data[t]) ELSE NULL]
    /\ swap_data' = [swap_data EXCEPT ![t] = NULL]
    /\ swap_retval' = [swap_retval EXCEPT ![t] = EAGAIN]
    /\ cause' = [cause EXCEPT ![t] = NULL]
    /\ UNCHANGED <<waitq, ready, suspended, timer, firing, waking, halting, prio, kind,
                   cpus, obj, lock, no_wake>>

\* mbox_message_dispose(), when t has taken `size' of what it got: the sender is
\* told and made ready.  Nobody else knows the sender between the two.
mbox_message_dispose(t, size) ==
    LET s == obj.received[t].from
    IN  /\ obj' = [obj EXCEPT !.received[t] = NULL]
        /\ swap_data' = [swap_data EXCEPT ![s].size = size]
        /\ swap_retval' = [swap_retval EXCEPT ![s] = OK]
        /\ cause' = [cause EXCEPT ![s] = <<"disposed", size>>]
        /\ call' = [call EXCEPT ![t] = NULL]
        /\ UNCHANGED <<waitq, suspended, timer, firing, waking, halting, prio, kind, cpus,
                       lock, no_wake>>
        /\ ready_thread(s)

\* k_mbox_data_get(), called by k_mbox_get() or later by the application, which
\* may also discard the data.
k_mbox_data_get(t, discard) ==
    /\ Free /\ Runs(t)
    /\ obj.received[t] # NULL
    /\ call[t] = NULL \/ (BlockedIn(t, "consume") /\ ~discard)
    /\ mbox_message_dispose(t, IF discard THEN 0 ELSE obj.received[t].size)

MboxStep == MboxPutReady \/ MboxPutPendUnqueued \/ MboxGetTaken

MboxNext ==
    /\ kind = "mbox"
    /\ \/ MboxStep
       \/ \E t \in Threads :
            \/ \E target \in Peers, n \in MsgSizes, timed \in BOOLEAN :
                 LET tx == [target |-> target, size |-> n]
                 IN  MboxPutUnpend(t, tx) \/ MboxPutPend(t, tx, timed)
            \/ \E source \in Peers, n \in MsgSizes, buffer \in BOOLEAN, timed \in BOOLEAN :
                 LET rx == [source |-> source, size |-> n, buffer |-> buffer]
                 IN  MboxGetUnpend(t, rx) \/ MboxGetPend(t, rx, timed)
            \/ MboxPutReturns(t) \/ MboxGetReturns(t)
            \/ \E discard \in BOOLEAN : k_mbox_data_get(t, discard)
-----------------------------------------------------------------------------
\* No sender waits for a receiver that waits for it.
MboxNobodyWaitsInVain ==
    kind = "mbox" /\ Free =>
        \A s \in ToSet(waitq[tx_msg_queue]), r \in ToSet(waitq[rx_msg_queue]) :
            ~mbox_message_match(s, swap_data[s], r, swap_data[r])

\* A thread whose message was taken waits for the disposal.
MboxTaken(t) ==
    kind = "mbox" /\ \E r \in Threads : obj.received[r] # NULL /\ obj.received[r].from = t

\* The data of a message stays where it is as long as a receiver may copy it: the
\* sender is in its call until then, and no other receiver has the message.
MboxDataStays ==
    kind = "mbox" =>
        \A r \in Threads : obj.received[r] # NULL =>
            LET s == obj.received[r].from
            IN  /\ s \notin ready \/ lock = <<"mbox_put_pend", s>>
                                  \/ lock = <<"mbox_put_ready", s>>
                /\ \A u \in Threads \ {r} :
                       obj.received[u] = NULL \/ obj.received[u].from # s

\* A put returns 0 exactly when its message was disposed of, and then with the
\* size that was taken; it never returns while a receiver still has the message.
MboxAnswer ==
    kind = "mbox" =>
        \A t \in Threads : BlockedIn(t, "put") /\ call'[t] = NULL =>
            /\ ~MboxTaken(t)
            /\ IF swap_retval[t] = OK
               THEN cause[t] = <<"disposed", swap_data[t].size>>
               ELSE cause[t][1] = "timeout"
=============================================================================
