------------------------------- MODULE Queue -------------------------------
(***************************************************************************)
(* kernel/queue.c, the base of k_fifo and k_lifo: a list of data items     *)
(* that threads wait for.  The items are the nodes of the list themselves, *)
(* so an item may be linked only once; the alloc_ variants, whose nodes    *)
(* are allocated, differ from the others only when the allocation fails,   *)
(* and change nothing then.                                                *)
(*                                                                         *)
(* k_queue_remove() and k_queue_unique_append() walk the list without the  *)
(* lock of the queue, and the former unlinks the item without it.  Every   *)
(* node such a call looks at and every store it makes is a step here, and  *)
(* other calls come in between.  Many do no harm.  Some leave the walk on  *)
(* a link that is gone, and what it does next ruins the list: `undercut'   *)
(* tells so, and the application makes no more calls from then on.         *)
(***************************************************************************)
EXTENDS Obj

CONSTANTS Lists,   \* the lists k_queue_append_list() is called with
          Walkers  \* the callers of k_queue_remove() and k_queue_unique_append()

INSTANCE SFList

\* `walk' is NULL or how far a call without the lock is: [op, item, at, prev, test].
\* `fifo' and `undercut' are ghosts: the items put in and not taken out, in order,
\* and whether a change of the list took its footing from a walk.
QueueInit ==
    /\ kind = "queue"
    /\ obj = [data_q |-> [head |-> NULL, tail |-> NULL, next |-> [i \in Items |-> NULL]],
              walk |-> [w \in Walkers |-> NULL], fifo |-> <<>>, undercut |-> FALSE]

WalkAt(w, op, at) == obj.walk[w] # NULL /\ obj.walk[w].op = op /\ obj.walk[w].at = at
Appending(i) == {w \in Walkers : obj.walk[w] # NULL /\ obj.walk[w].op = "unique"
                                                  /\ obj.walk[w].item = i}

\* The items the kernel holds: linked, in the hands of a call or passed to a thread.
Held(i) ==
    \/ i \in ToSet(obj.fifo)
    \/ Holds("queue_insert") /\ lock[2] = i
    \/ Holds("queue_append_list") /\ i \in ToSet(lock[2])
    \/ \E t \in Threads : swap_data[t] = i
    \/ \E w \in Walkers : obj.walk[w] # NULL /\ obj.walk[w].item = i
                                             /\ obj.walk[w].at \in {"tail", "clear"}

\* The application inserts only items it holds, each with one call at a time.
Own(i) == ~Held(i) /\ Appending(i) = {}

\* Walk s is undercut when the items of the list become those of `fifo': the node it
\* stands on, or the link to the item, is gone, or the item it unlinks is the tail
\* of a list that changes or is linked again.
Undercuts(s, fifo) ==
    CASE s.at = "test" /\ s.test = NULL -> FALSE
      [] s.at = "test" /\ s.test # s.item -> s.test \notin ToSet(fifo)
      [] s.at = "test" /\ s.test = s.item ->
            /\ s.op = "remove"
            /\ IF s.prev = NULL THEN fifo = <<>> \/ Head(fifo) # s.item
               ELSE \A n \in 2 .. Len(fifo) : <<fifo[n - 1], fifo[n]>> # <<s.prev, s.item>>
      [] s.at = "tail" -> obj.data_q.tail = s.item \/ s.item \in ToSet(fifo)
      [] s.at = "clear" -> s.item \in ToSet(fifo)
      [] s.at = "append" -> FALSE

\* The list changes, in the call of walker `by' or in one that has the lock.
Changed(by, l, fifo) ==
    [obj EXCEPT !.data_q = l, !.fifo = fifo,
                !.undercut = @ \/ \E w \in Walkers \ {by} :
                                    obj.walk[w] # NULL /\ Undercuts(obj.walk[w], fifo)]

\* The place behind `prev'; at the end if a removal has just taken out the tail.
Behind(prev) ==
    CASE prev = NULL -> 1
      [] prev \in ToSet(obj.fifo) -> 1 + CHOOSE n \in DOMAIN obj.fifo : obj.fifo[n] = prev
      [] OTHER -> 1 + Len(obj.fifo)

\* queue_insert(): nobody waits, the item goes behind `prev' ...
QueueInsertLink(i, prev) ==
    /\ Waiters = <<>>
    /\ Immediate(Changed(NULL, sys_sflist_insert(obj.data_q, prev, i),
                         InsertAt(obj.fifo, Behind(prev), i)))

\* ... or to the first waiter.
QueueInsertUnpend(i) ==
    /\ Free
    /\ UnpendFirst(<<"queue_insert", i>>, <<"handed", i>>)
    /\ UNCHANGED obj

QueueInsertReady ==
    /\ Holds("queue_insert")
    /\ ReadyWithData(OK, lock[2])
    /\ lock' = NULL
    /\ UNCHANGED obj

\* k_queue_append_list() takes the first waiter off the queue ...
QueueAppendListUnpend(items) ==
    /\ Free
    /\ UnpendFirst(<<"queue_append_list", items>>, <<"handed", Head(items)>>)
    /\ UNCHANGED obj

\* ... hands it the head of the list ...
QueueAppendListReady ==
    /\ Holds("queue_append_list")
    /\ ReadyWithData(OK, Head(lock[2]))
    /\ lock' = <<"queue_append_list", Tail(lock[2])>>
    /\ UNCHANGED obj

\* ... and takes the next waiter, whether or not an item is left for it.
QueueAppendListNext ==
    /\ Holds("queue_append_list") /\ waking = NULL
    /\ Waiters # <<>>
    /\ IF lock[2] # <<>>
       THEN UnpendFirst(lock, <<"handed", Head(lock[2])>>)
       ELSE /\ waitq' = [waitq EXCEPT ![wait_q] = Tail(@)]
            /\ timer' = timer \ {Head(Waiters)}
            /\ lock' = NULL
            /\ UNCHANGED <<ready, suspended, firing, waking, halting, swap_retval, prio,
                           kind, cpus, callVars>>
    /\ UNCHANGED obj

\* With nobody waiting the list, or what is left of it, is linked at the end.
AppendedList(items) ==
    LET links == [i \in Items |-> IF i \notin ToSet(items) THEN obj.data_q.next[i]
                                 ELSE IF i = Last(items) THEN NULL
                                 ELSE items[1 + CHOOSE n \in DOMAIN items : items[n] = i]]
    IN  Changed(NULL, sys_sflist_append_list([obj.data_q EXCEPT !.next = links],
                                             Head(items), Last(items)),
                obj.fifo \o items)

QueueAppendListLink(items) == Waiters = <<>> /\ Immediate(AppendedList(items))

QueueAppendListEnd ==
    /\ Holds("queue_append_list") /\ waking = NULL
    /\ Waiters = <<>>
    /\ obj' = IF lock[2] = <<>> THEN obj ELSE AppendedList(lock[2])
    /\ lock' = NULL
    /\ UNCHANGED <<pendVars, kind, cpus, callVars>>

\* k_queue_get().
QueueGetUnlink ==
    /\ obj.data_q.head # NULL
    /\ Immediate(Changed(NULL, sys_sflist_get_not_empty(obj.data_q),
                         Remove(obj.fifo, obj.data_q.head)))

QueueGetPend(t, timed) ==
    /\ Free /\ Runs(t) /\ call[t] = NULL
    /\ obj.data_q.head = NULL
    /\ Pend(t, <<"get", NULL>>, NULL, timed)

QueueReturns(t) == BlockedIn(t, "get") /\ Returns(t) /\ UNCHANGED obj

\* k_queue_cancel_wait().
QueueCancelUnpend ==
    /\ Free
    /\ UnpendFirst(<<"queue_cancel", NULL>>, <<"cancel", NULL>>)
    /\ UNCHANGED obj

QueueCancelReady ==
    /\ Holds("queue_cancel")
    /\ ReadyWithData(OK, NULL)
    /\ lock' = NULL
    /\ UNCHANGED obj

-----------------------------------------------------------------------------
\* The calls without the lock.
Walk(w, step, o) ==
    /\ InterruptsOn
    /\ obj' = [o EXCEPT !.walk[w] = step]
    /\ UNCHANGED <<pendVars, kind, cpus, lock, callVars>>

\* k_queue_remove() of any item, and k_queue_unique_append() of one that is in the
\* queue or that the application holds, read the head of the list ...
QueueWalkBegin(w, op, i) ==
    /\ obj.walk[w] = NULL
    /\ op = "unique" => i \in ToSet(obj.fifo) \/ ~Held(i)
    /\ Walk(w, [op |-> op, item |-> i, at |-> "test", prev |-> NULL,
                test |-> obj.data_q.head], obj)

\* ... and go on along the links ...
QueueWalkNext(w) ==
    LET s == obj.walk[w]
    IN  /\ WalkAt(w, "remove", "test") \/ WalkAt(w, "unique", "test")
        /\ s.test \notin {NULL, s.item}
        /\ Walk(w, [s EXCEPT !.prev = IF s.op = "remove" THEN s.test ELSE NULL,
                             !.test = obj.data_q.next[s.test]], obj)

\* ... until a removal meets the end of the list or a unique append the item: both
\* return false.
QueueWalkEnd(w) ==
    /\ \/ WalkAt(w, "remove", "test") /\ obj.walk[w].test = NULL
       \/ WalkAt(w, "unique", "test") /\ obj.walk[w].test = obj.walk[w].item
    /\ Walk(w, NULL, obj)

\* A removal that meets the item unlinks it in three stores.
QueueRemoveBypass(w) ==
    LET s == obj.walk[w]
    IN  /\ WalkAt(w, "remove", "test") /\ s.test = s.item
        /\ Walk(w, [s EXCEPT !.at = "tail"],
                Changed(w, RemoveBypass(obj.data_q, s.prev, s.item), Remove(obj.fifo, s.item)))

QueueRemoveTail(w) ==
    LET s == obj.walk[w]
    IN  /\ WalkAt(w, "remove", "tail")
        /\ Walk(w, [s EXCEPT !.at = "clear"],
                Changed(w, RemoveTail(obj.data_q, s.prev, s.item), obj.fifo))

QueueRemoveClear(w) ==
    /\ WalkAt(w, "remove", "clear")
    /\ Walk(w, NULL, Changed(w, RemoveClear(obj.data_q, obj.walk[w].item), obj.fifo))

\* A unique append that meets the end calls k_queue_append(), which takes the lock.
QueueUniqueMissed(w) ==
    /\ WalkAt(w, "unique", "test") /\ obj.walk[w].test = NULL
    /\ Walk(w, [obj.walk[w] EXCEPT !.at = "append"], obj)

QueueUniqueAppend(w) ==
    LET i == obj.walk[w].item
        l == [obj.data_q EXCEPT !.next[i] = NULL]
        linked == Changed(w, sys_sflist_insert(l, l.tail, i),
                          IF i \in ToSet(obj.fifo) THEN obj.fifo ELSE Append(obj.fifo, i))
    IN  /\ Free /\ WalkAt(w, "unique", "append")
        /\ IF Waiters = <<>>
           THEN /\ obj' = [linked EXCEPT !.walk[w] = NULL, !.undercut = @ \/ Appending(i) # {w}]
                /\ UNCHANGED <<pendVars, kind, cpus, lock, callVars>>
           ELSE /\ UnpendFirst(<<"queue_insert", i>>, <<"handed", i>>)
                /\ obj' = [obj EXCEPT !.walk[w] = NULL]

QueueWalk(w) ==
    \/ \E op \in {"remove", "unique"}, i \in Items : QueueWalkBegin(w, op, i)
    \/ QueueWalkNext(w) \/ QueueWalkEnd(w)
    \/ QueueRemoveBypass(w) \/ QueueRemoveTail(w) \/ QueueRemoveClear(w)
    \/ QueueUniqueMissed(w) \/ QueueUniqueAppend(w)

QueueStep ==   \* what a call that holds the lock does next
    \/ QueueInsertReady \/ QueueCancelReady
    \/ QueueAppendListReady \/ QueueAppendListNext \/ QueueAppendListEnd

QueueCall ==
    \/ \E i \in Items : Own(i) /\ (QueueInsertUnpend(i)
                       \/ \E prev \in ToSet(obj.fifo) \cup {NULL, obj.data_q.tail} :
                                QueueInsertLink(i, prev))
    \/ \E l \in Lists : (\A i \in ToSet(l) : Own(i))
                       /\ (QueueAppendListUnpend(l) \/ QueueAppendListLink(l))
    \/ QueueGetUnlink \/ QueueCancelUnpend
    \/ \E t \in Threads, timed \in BOOLEAN : QueueGetPend(t, timed)
    \/ \E w \in Walkers : QueueWalk(w)

QueueNext ==
    /\ kind = "queue"
    /\ \/ ~obj.undercut /\ QueueCall
       \/ QueueStep
       \/ \E t \in Threads : QueueReturns(t)
-----------------------------------------------------------------------------
\* The list holds the items that were put in and not taken out, in order and each
\* once, and its tail is the last of them, whatever was put in or taken out while
\* k_queue_remove() or k_queue_unique_append() walked it without the lock; unless
\* that took away the node the walk was at, came between its last look at a link
\* and its store there, or appended the same item.
QueueFifo ==
    kind = "queue" /\ ~obj.undercut =>
        /\ Nodes(obj.data_q, Cardinality(Items) + 1) = obj.fifo
        /\ (\A w \in Walkers : ~WalkAt(w, "remove", "tail")) =>
              obj.data_q.tail = IF obj.fifo = <<>> THEN NULL ELSE Last(obj.fifo)

\* Nobody waits while an item is there, with the same exception.
QueueNobodyWaitsInVain ==
    kind = "queue" /\ Free /\ ~obj.undercut => obj.data_q.head = NULL \/ Waiters = <<>>
=============================================================================
