------------------------------- MODULE SFList -------------------------------
(***************************************************************************)
(* include/zephyr/sys/list_gen.h as sflist.h instantiates it: singly       *)
(* linked lists.  A list is [head, tail, next]; the links of all nodes are *)
(* kept with it, those of nodes that are not on the list too.              *)
(***************************************************************************)
EXTENDS Integers, SequencesExt

CONSTANT NULL

sys_sflist_prepend(l, node) ==
    [head |-> node,
     tail |-> IF l.tail = NULL THEN node ELSE l.tail,
     next |-> [l.next EXCEPT ![node] = l.head]]

\* The links of the nodes from head to tail are the caller's.
sys_sflist_append_list(l, head, tail) ==
    IF l.tail = NULL THEN [l EXCEPT !.head = head, !.tail = tail]
    ELSE [l EXCEPT !.next[l.tail] = head, !.tail = tail]

sys_sflist_append(l, node) ==
    sys_sflist_append_list([l EXCEPT !.next[node] = NULL], node, node)

sys_sflist_insert(l, prev, node) ==
    IF prev = NULL THEN sys_sflist_prepend(l, node)
    ELSE IF l.next[prev] = NULL THEN sys_sflist_append(l, node)
    ELSE [l EXCEPT !.next = [@ EXCEPT ![node] = l.next[prev], ![prev] = node]]

\* The node keeps its link.
sys_sflist_get_not_empty(l) ==
    LET rest == l.next[l.head]
    IN  [l EXCEPT !.head = rest, !.tail = IF @ = l.head THEN rest ELSE @]

\* sys_sflist_remove() in the three stores it makes: the node is bypassed, ...
RemoveBypass(l, prev, node) ==
    IF prev = NULL THEN [l EXCEPT !.head = l.next[node]]
    ELSE [l EXCEPT !.next[prev] = l.next[node]]

\* ... is no longer the tail, ...
RemoveTail(l, prev, node) ==
    IF l.tail # node THEN l
    ELSE [l EXCEPT !.tail = IF prev = NULL THEN l.head ELSE prev]

\* ... and loses its link.
RemoveClear(l, node) == [l EXCEPT !.next[node] = NULL]

\* The nodes that a walk from the head meets, up to n of them.
Nodes(l, n) ==
    LET walk[k \in 0 .. n] ==
            IF k = 0 THEN <<>>
            ELSE LET w == walk[k - 1]
                     node == IF w = <<>> THEN l.head ELSE l.next[Last(w)]
                 IN  IF Len(w) < k - 1 \/ node = NULL THEN w ELSE Append(w, node)
    IN  walk[n]
=============================================================================
