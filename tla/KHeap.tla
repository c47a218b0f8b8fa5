------------------------------- MODULE KHeap -------------------------------
(***************************************************************************)
(* kernel/kheap.c: a heap whose allocations may wait.  A free wakes every  *)
(* waiter, and each tries again and pends again if it fails.  How much     *)
(* time a woken thread has left is open here.  A block is named by its     *)
(* chunk; the allocator is SysHeap.                                        *)
(***************************************************************************)
EXTENDS Obj

CONSTANTS HeapSizes,   \* by the number of CPUs, in chunk units as all sizes here
          Allocs,      \* the allocations the application makes: [align, sz]
          Reallocs,    \* the sizes it changes blocks to
          Awaited,     \* the sizes threads wait for
          AllocLoops

INSTANCE SysHeap

\* `blocks' and `regained' are ghosts: the size of the blocks the application has,
\* and whether a k_heap_realloc() has given memory back since the last free.
HeapInit ==
    /\ kind = "heap"
    /\ obj = [heap |-> sys_heap_init(HeapSizes[cpus]), blocks |-> <<>>, regained |-> FALSE]

\* An allocation is the request with ptr = 0.  The application resizes and frees
\* only blocks it has, each in one call at a time.
HasBlock(c) ==
    /\ c \in DOMAIN obj.blocks
    /\ \A t \in Threads : BlockedIn(t, "alloc") => call[t][2].ptr # c

Requests ==
    {[ptr |-> 0, align |-> a.align, sz |-> a.sz] : a \in Allocs}
    \cup {r \in [ptr : DOMAIN obj.blocks, align : {1}, sz : Reallocs] :
             HasBlock(r.ptr) /\ r.sz # obj.blocks[r.ptr]}

\* One pass of the loop of k_heap_aligned_alloc() or of k_heap_realloc().
Attempt(r) ==
    IF r.ptr = 0 THEN sys_heap_aligned_alloc(obj.heap, r.align, r.sz)
    ELSE sys_heap_aligned_realloc(obj.heap, r.ptr, r.sz)

\* The attempt a at r gave a block, or at most turned the list of a bucket.
After(r, a) ==
    IF a.c = 0 THEN [obj EXCEPT !.heap = a.heap]
    ELSE [heap |-> a.heap,
          blocks |-> (a.c :> r.sz) @@ Restrict(obj.blocks, DOMAIN obj.blocks \ {r.ptr}),
          regained |-> obj.regained
                       \/ (r.ptr # 0 /\ (a.c # r.ptr \/ r.sz < obj.blocks[r.ptr]))]

-----------------------------------------------------------------------------
\* The block is there, or the caller does not wait ...
HeapAlloc(r, a) == Immediate(After(r, a))

\* ... or it does.
HeapAllocPend(t, r, a, timed) ==
    /\ Free /\ Runs(t) /\ call[t] = NULL
    /\ r.sz \in Awaited /\ a.c = 0
    /\ z_pend_curr(t, wait_q, timed)
    /\ call' = [call EXCEPT ![t] = <<"alloc", r, timed>>]
    /\ obj' = After(r, a)
    /\ UNCHANGED <<kind, cpus, lock, swap_data, no_wake, cause>>

\* A thread that wakes up tries again: it gets a block, or gives up if it has no
\* time left ...
HeapRetryReturns(t, a) ==
    /\ Free
    /\ a.c # 0 \/ call[t][3]
    /\ Returns(t)
    /\ obj' = After(call[t][2], a)

\* ... or pends again.
HeapRetryPends(t, a) ==
    /\ Free /\ Runs(t) /\ a.c = 0
    /\ z_pend_curr(t, wait_q, call[t][3])
    /\ obj' = After(call[t][2], a)
    /\ cause' = [cause EXCEPT ![t] = NULL]
    /\ UNCHANGED <<kind, cpus, lock, call, swap_data, no_wake>>

HeapRetry(t) ==
    /\ BlockedIn(t, "alloc") /\ Runs(t)
    /\ \E a \in {Attempt(call[t][2])} : HeapRetryReturns(t, a) \/ HeapRetryPends(t, a)

\* k_heap_realloc() to no bytes frees the block and returns NULL; a caller that
\* would wait after that is not modelled.
HeapReallocZero(c) ==
    /\ HasBlock(c)
    /\ Immediate([heap |-> sys_heap_aligned_realloc(obj.heap, c, 0).heap,
                  blocks |-> Restrict(obj.blocks, DOMAIN obj.blocks \ {c}),
                  regained |-> TRUE])

\* k_heap_free() returns the block and calls z_unpend_all() ...
HeapFree(c) ==
    /\ Free /\ HasBlock(c)
    /\ obj' = [heap |-> sys_heap_free(obj.heap, c),
               blocks |-> Restrict(obj.blocks, DOMAIN obj.blocks \ {c}),
               regained |-> FALSE]
    /\ lock' = <<"heap_free", NULL>>
    /\ UNCHANGED <<pendVars, kind, cpus, callVars>>

HeapFreeUnpend ==
    /\ Holds("heap_free") /\ waking = NULL /\ Waiters # <<>>
    /\ UnpendThread(Head(Waiters))
    /\ UNCHANGED <<kind, cpus, obj, lock, callVars>>

HeapFreeReady ==
    /\ Holds("heap_free") /\ waking # NULL
    /\ ReadyUnpended
    /\ UNCHANGED <<kind, cpus, obj, lock, callVars>>

\* ... which ends when nobody waits.
HeapFreeDone ==
    /\ Holds("heap_free") /\ waking = NULL /\ Waiters = <<>>
    /\ lock' = NULL
    /\ UNCHANGED <<pendVars, kind, cpus, obj, callVars>>

HeapStep == HeapFreeUnpend \/ HeapFreeReady \/ HeapFreeDone

HeapNext ==
    /\ kind = "heap"
    /\ \/ /\ Free
          /\ \E r \in Requests : \E a \in {Attempt(r)} :
                \/ HeapAlloc(r, a)
                \/ \E t \in Threads, timed \in BOOLEAN : HeapAllocPend(t, r, a, timed)
       \/ \E c \in DOMAIN obj.blocks : HeapFree(c) \/ HeapReallocZero(c)
       \/ HeapStep
       \/ \E t \in Threads : HeapRetry(t)
-----------------------------------------------------------------------------
\* Nobody waits for memory that is there, unless it was a k_heap_realloc() that
\* gave it back, by making a block smaller or moving it, which wakes nobody; then
\* the next free wakes all.
HeapNobodyWaitsInVain ==
    kind = "heap" /\ Free /\ ~obj.regained =>
        \A i \in DOMAIN Waiters : Attempt(call[Waiters[i]][2]).c = 0

\* The heap stays well formed, and the chunks in use are exactly the blocks the
\* application has, each of the size it asked for.
HeapBlocksKept ==
    kind = "heap" =>
        /\ HeapWellFormed(obj.heap)
        /\ obj.heap.used \ {0, obj.heap.end} = DOMAIN obj.blocks
        /\ \A c \in DOMAIN obj.blocks : obj.heap.size[c] = obj.blocks[c]
=============================================================================
