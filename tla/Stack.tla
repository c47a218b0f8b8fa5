------------------------------- MODULE Stack -------------------------------
(***************************************************************************)
(* kernel/stack.c and kernel/mem_slab.c.  A stack holds up to MaxEntries   *)
(* values, the last pushed comes out first; a value pushed while a thread  *)
(* waits goes to that thread.  A memory slab keeps its free blocks in a    *)
(* list used the same way; a block freed while a thread waits goes to the  *)
(* thread and stays counted as used.                                       *)
(***************************************************************************)
EXTENDS Obj

CONSTANT MaxEntries

StackInit ==
    /\ kind = "stack"
    /\ obj = [entries |-> <<>>]

\* k_stack_push() refuses when the stack is full, else hands over or stores.
StackPush(d) ==
    /\ Len(obj.entries) < MaxEntries
    /\ Waiters = <<>>
    /\ Immediate([obj EXCEPT !.entries = <<d>> \o @])

StackPushUnpend(d) ==
    /\ Free
    /\ Len(obj.entries) < MaxEntries
    /\ UnpendFirst(<<"stack_push", d>>, <<"handed", d>>)
    /\ UNCHANGED obj

StackPushReady ==
    /\ Holds("stack_push")
    /\ ReadyWithData(OK, lock[2])
    /\ lock' = NULL
    /\ UNCHANGED obj

\* k_stack_pop().
StackPop ==
    /\ obj.entries # <<>>
    /\ Immediate([obj EXCEPT !.entries = Tail(@)])

StackPopPend(t, timed) ==
    /\ Free /\ Runs(t) /\ call[t] = NULL
    /\ obj.entries = <<>>
    /\ Pend(t, <<"pop", NULL>>, NULL, timed)

StackReturns(t) == BlockedIn(t, "pop") /\ Returns(t) /\ UNCHANGED obj

StackNext ==
    /\ kind = "stack"
    /\ \/ \E d \in Items : StackPush(d) \/ StackPushUnpend(d)
       \/ StackPushReady
       \/ StackPop
       \/ \E t \in Threads :
            (\E timed \in BOOLEAN : StackPopPend(t, timed)) \/ StackReturns(t)

-----------------------------------------------------------------------------
\* The blocks of the slab are Items; `owned' is a ghost: the blocks the
\* application has been given and has not freed.
SlabInit ==
    /\ kind = "slab"
    /\ obj = [free_list |-> SetToSeq(Items), num_used |-> 0, owned |-> {}]

\* k_mem_slab_alloc().
SlabAlloc ==
    /\ obj.free_list # <<>>
    /\ Immediate([obj EXCEPT !.free_list = Tail(@), !.num_used = @ + 1,
                             !.owned = @ \cup {Head(obj.free_list)}])

SlabAllocPend(t, timed) ==
    /\ Free /\ Runs(t) /\ call[t] = NULL
    /\ obj.free_list = <<>>
    /\ Pend(t, <<"alloc", NULL>>, NULL, timed)

\* The block a thread was handed is the application's when the call returns 0.
SlabReturns(t) ==
    /\ BlockedIn(t, "alloc")
    /\ Returns(t)
    /\ obj' = IF swap_retval[t] = OK
              THEN [obj EXCEPT !.owned = @ \cup {swap_data[t]}] ELSE obj

\* k_mem_slab_free(): the block goes to the list, or to a waiter if the list is
\* empty.
SlabFreeLink(b) ==
    /\ b \in obj.owned
    /\ obj.free_list # <<>> \/ Waiters = <<>>
    /\ Immediate([obj EXCEPT !.free_list = <<b>> \o @, !.num_used = @ - 1,
                             !.owned = @ \ {b}])

SlabFreeUnpend(b) ==
    /\ Free
    /\ b \in obj.owned
    /\ obj.free_list = <<>>
    /\ UnpendFirst(<<"slab_free", b>>, <<"handed", b>>)
    /\ obj' = [obj EXCEPT !.owned = @ \ {b}]

SlabFreeReady ==
    /\ Holds("slab_free")
    /\ ReadyWithData(OK, lock[2])
    /\ lock' = NULL
    /\ UNCHANGED obj

SlabNext ==
    /\ kind = "slab"
    /\ \/ SlabAlloc
       \/ \E b \in Items : SlabFreeLink(b) \/ SlabFreeUnpend(b)
       \/ SlabFreeReady
       \/ \E t \in Threads :
            (\E timed \in BOOLEAN : SlabAllocPend(t, timed)) \/ SlabReturns(t)
-----------------------------------------------------------------------------
\* Nobody waits while a value is on the stack or a block is free.
StackNobodyWaitsInVain ==
    /\ kind = "stack" /\ Free => obj.entries = <<>> \/ Waiters = <<>>
    /\ kind = "slab" /\ Free => obj.free_list = <<>> \/ Waiters = <<>>

\* The places a block may be in.
Linked(b) == b \in ToSet(obj.free_list)
InHand(b) == Holds("slab_free") /\ lock[2] = b
Passed(b) == \E t \in Threads : swap_data[t] = b

\* No block is given to two owners, or to one while it is still in the free list;
\* on one CPU none is lost either, and num_used counts the blocks not in the list.
SlabBlocksKept ==
    kind = "slab" =>
        /\ IsInjective(obj.free_list)
        /\ obj.num_used = Cardinality(Items) - Len(obj.free_list)
        /\ \A b \in Items :
            /\ ~(Linked(b) /\ (b \in obj.owned \/ InHand(b) \/ Passed(b)))
            /\ ~(b \in obj.owned /\ (InHand(b) \/ Passed(b)))
            /\ cpus = 1 => Linked(b) \/ b \in obj.owned \/ InHand(b) \/ Passed(b)
=============================================================================
