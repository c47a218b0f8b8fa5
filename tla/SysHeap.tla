------------------------------ MODULE SysHeap ------------------------------
(***************************************************************************)
(* lib/heap/heap.c: the allocator below k_heap.  The memory is cut into    *)
(* chunks, each with the size of its left neighbour in its header; free    *)
(* chunks are in circular lists, one for each power of two.                *)
(*                                                                         *)
(* A heap is [size, left, used, next, end]: the header fields of the       *)
(* chunks, by chunk id, and the free list of each bucket from the bucket's *)
(* `next' on.  Sizes are in chunk units and include the header; the heap   *)
(* is a big one, whose header is a whole unit.  Chunk 0 holds the heap's   *)
(* own structure and is one unit here, chunk `end' is the end marker.      *)
(***************************************************************************)
EXTENDS Integers, SequencesExt

CONSTANT AllocLoops  \* CONFIG_SYS_HEAP_ALLOC_LOOPS

min_chunk_size == 2

right_chunk(h, c) == c + h.size[c]
left_chunk(h, c) == c - h.left[c]
chunk_used(h, c) == c \in h.used
set_chunk_used(h, c) == [h EXCEPT !.used = @ \cup {c}]
clear_chunk_used(h, c) == [h EXCEPT !.used = @ \ {c}]

\* A free chunk of one unit has no room for the links of a free list.
solo_free_header(h, c) == h.size[c] = 1

bucket_idx(sz) ==
    CHOOSE b \in 0 .. sz : 2^b <= sz - min_chunk_size + 1 /\ sz - min_chunk_size + 1 < 2^(b + 1)

\* The list starts behind the chunk that was removed ...
free_list_remove_bidx(h, c, b) ==
    LET i == CHOOSE i \in DOMAIN h.next[b] : h.next[b][i] = c
    IN  [h EXCEPT !.next[b] = SubSeq(@, i + 1, Len(@)) \o SubSeq(@, 1, i - 1)]

free_list_remove(h, c) ==
    IF solo_free_header(h, c) THEN h ELSE free_list_remove_bidx(h, c, bucket_idx(h.size[c]))

\* ... and a chunk is added before its start, which is the end of a circle.
free_list_add(h, c) ==
    IF solo_free_header(h, c) THEN h
    ELSE [h EXCEPT !.next[bucket_idx(h.size[c])] = Append(@, c)]

\* Setting the size of a chunk marks it free.
split_chunks(h, lc, rc) ==
    LET rsz == h.size[lc] - (rc - lc)
    IN  [h EXCEPT !.size = (rc :> rsz) @@ [@ EXCEPT ![lc] = rc - lc],
                  !.left = (rc :> rc - lc) @@ [@ EXCEPT ![right_chunk(h, lc)] = rsz],
                  !.used = @ \ {lc, rc}]

merge_chunks(h, lc, rc) ==
    LET newsz == h.size[lc] + h.size[rc]
    IN  [h EXCEPT !.size = Restrict([@ EXCEPT ![lc] = newsz], DOMAIN @ \ {rc}),
                  !.left = Restrict([@ EXCEPT ![right_chunk(h, rc)] = newsz], DOMAIN @ \ {rc}),
                  !.used = @ \ {lc, rc}]

\* free_chunk() merges a chunk with its free neighbours, first the right one.
MergeRight(h, c, rc) ==
    IF chunk_used(h, rc) THEN h ELSE merge_chunks(free_list_remove(h, rc), c, rc)

MergeLeft(h, c, lc) ==
    IF chunk_used(h, lc) THEN free_list_add(h, c)
    ELSE free_list_add(merge_chunks(free_list_remove(h, lc), lc, c), lc)

free_chunk(h, c) == MergeLeft(MergeRight(h, c, right_chunk(h, c)), c, left_chunk(h, c))

sys_heap_free(h, c) == free_chunk(clear_chunk_used(h, c), c)

-----------------------------------------------------------------------------
\* What the functions below return: the heap, and a chunk or 0 for none.
Result(h, c) == [heap |-> h, c |-> c]
Take(h, b, c) == Result(free_list_remove_bidx(h, c, b), c)

\* Of the bucket of sz the first few chunks are tried, and the list is left behind
\* those that did not fit; any chunk of a larger bucket fits.
Turned(h, b, n) == [h EXCEPT !.next[b] = SubSeq(@, n + 1, Len(@)) \o SubSeq(@, 1, n)]
Fitting(h, b, sz) == {i \in DOMAIN h.next[b] : i <= AllocLoops /\ h.size[h.next[b][i]] >= sz}
Larger(h, b) == {d \in DOMAIN h.next : d > b /\ h.next[d] # <<>>}
TakeLarger(h, b) ==
    IF Larger(h, b) = {} THEN Result(h, 0)
    ELSE LET d == Min(Larger(h, b)) IN Take(h, d, Head(h.next[d]))

alloc_chunk(h, sz) ==
    LET bi == bucket_idx(sz)
    IN  IF Fitting(h, bi, sz) # {} THEN Take(h, bi, h.next[bi][Min(Fitting(h, bi, sz))])
        ELSE TakeLarger(Turned(h, bi, Min({Len(h.next[bi]), AllocLoops})), bi)

\* What is not needed of chunk c0 before and behind the new one is given back.
Prefix(h, c0, c) == IF c = c0 THEN h ELSE free_list_add(split_chunks(h, c0, c), c0)
Suffix(h, c, end) ==
    IF right_chunk(h, c) = end THEN h ELSE free_list_add(split_chunks(h, c, end), end)

Carve(found, c, sz) ==
    IF found.c = 0 THEN found
    ELSE Result(set_chunk_used(Suffix(Prefix(found.heap, found.c, c), c, c + sz), c), c)

\* The memory of a chunk is aligned if the unit behind its header is.
Aligned(c0, align) == CHOOSE c \in c0 .. c0 + align - 1 : (c + 1) % align = 0

\* sys_heap_aligned_alloc(), and with an alignment of one unit sys_heap_alloc().
AlignIn(found, align, sz) == Carve(found, Aligned(found.c, align), sz)
sys_heap_aligned_alloc(h, align, sz) ==
    IF sz > h.end THEN Result(h, 0)
    ELSE AlignIn(alloc_chunk(h, sz + align - 1), align, sz)

\* sys_heap_aligned_realloc() of chunk c, whose memory is always aligned well
\* enough, makes it smaller or appends a part of the free right neighbour ...
Shrink(h, c, sz) == free_chunk(set_chunk_used(split_chunks(h, c, c + sz), c), c + sz)
Expand(h, c, rc, sz) ==
    set_chunk_used(merge_chunks(Suffix(free_list_remove(h, rc), rc, c + sz), c, rc), c)

\* ... or moves it, if there is room elsewhere.
Move(found, c) ==
    IF found.c = 0 THEN found ELSE Result(sys_heap_free(found.heap, c), found.c)

sys_heap_aligned_realloc(h, c, sz) ==
    LET rc == right_chunk(h, c)
    IN  IF sz = 0 THEN Result(sys_heap_free(h, c), 0)
        ELSE IF sz > h.end THEN Result(h, 0)
        ELSE IF h.size[c] = sz THEN Result(h, c)
        ELSE IF h.size[c] > sz THEN Result(Shrink(h, c, sz), c)
        ELSE IF ~chunk_used(h, rc) /\ h.size[c] + h.size[rc] >= sz
        THEN Result(Expand(h, c, rc, sz), c)
        ELSE Move(sys_heap_aligned_alloc(h, 1, sz), c)

\* One free chunk between chunk 0 and the end marker.
sys_heap_init(units) ==
    LET end == units + 1
    IN  free_list_add([size |-> (0 :> 1) @@ (1 :> units) @@ (end :> 0),
                       left |-> (0 :> 0) @@ (1 :> 1) @@ (end :> units),
                       used |-> {0, end},
                       next |-> [b \in 0 .. bucket_idx(end) |-> <<>>],
                       end |-> end], 1)

-----------------------------------------------------------------------------
\* The chunks tile the memory and agree on their borders, no two free ones are
\* neighbours, and the free lists hold just the free chunks that have room for
\* links, each once and in its bucket.
HeapWellFormed(h) ==
    LET free == DOMAIN h.size \ h.used
        listed == {c \in free : ~solo_free_header(h, c)}
    IN  /\ \A c \in DOMAIN h.size \ {h.end} :
              /\ right_chunk(h, c) \in DOMAIN h.size
              /\ left_chunk(h, right_chunk(h, c)) = c
              /\ \A d \in DOMAIN h.size : d <= c \/ right_chunk(h, c) <= d
        /\ \A c \in free : chunk_used(h, right_chunk(h, c))
        /\ \A b \in DOMAIN h.next :
              /\ IsInjective(h.next[b])
              /\ ToSet(h.next[b]) = {c \in listed : bucket_idx(h.size[c]) = b}
=============================================================================
