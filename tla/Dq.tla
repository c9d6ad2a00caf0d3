--------------------------------- MODULE Dq ---------------------------------
(* The intrusive double queue of lib/dsa/dq.h at the level of its links, for  *)
(* the users that push a node which may be linked already.  A heap is a       *)
(* record of the links of all nodes and the ends of all queues; what a push   *)
(* or a dequeue writes through a link is what the code writes.                *)

EXTENDS Integers
CONSTANTS NULL

Heap(Q, N) == [next : [N -> N \cup {NULL}], prev : [N -> N \cup {NULL}],
               front : [Q -> N \cup {NULL}], rear : [Q -> N \cup {NULL}]]
EmptyHeap(Q, N) == [next |-> [n \in N |-> NULL], prev |-> [n \in N |-> NULL],
                    front |-> [q \in Q |-> NULL], rear |-> [q \in Q |-> NULL]]

PushBack(h, q, n) ==
    LET last == h.rear[q] IN
    IF last = NULL
    THEN [h EXCEPT !.next[n] = NULL, !.prev[n] = NULL, !.rear[q] = n, !.front[q] = n]
    ELSE [h EXCEPT !.prev[n] = last, !.rear[q] = n,
                   !.next = [@ EXCEPT ![n] = NULL, ![last] = n]]

\* The two halves of dq_dequeue, then the node's own links.
CutNext(h, q, n) == IF h.next[n] # NULL
                    THEN [h EXCEPT !.prev[h.next[n]] = h.prev[n]]
                    ELSE [h EXCEPT !.rear[q] = h.prev[n]]
CutPrev(h, q, n) == IF h.prev[n] # NULL
                    THEN [h EXCEPT !.next[h.prev[n]] = h.next[n]]
                    ELSE [h EXCEPT !.front[q] = h.next[n]]
Dequeue(h, q, n) ==
    [CutPrev(CutNext(h, q, n), q, n) EXCEPT !.next[n] = NULL, !.prev[n] = NULL]

\* dq_popfront, on a queue that is not empty.
PopFront(h, q) ==
    LET n == h.front[q]
        after == h.next[n]
    IN [h EXCEPT !.front[q] = after,
                 !.rear[q] = IF after = NULL THEN NULL ELSE @,
                 !.prev = [m \in DOMAIN @ |-> IF m = n \/ m = after THEN NULL ELSE @[m]],
                 !.next[n] = NULL]

IsQueued(h, q, n) == h.prev[n] # NULL \/ h.next[n] # NULL \/ h.front[q] = n

\* The nodes of a queue in order, at most k of them.
Walk(h, q, k) ==
    LET at[i \in 1..k] == IF i = 1 THEN h.front[q]
                          ELSE IF at[i - 1] = NULL THEN NULL ELSE h.next[at[i - 1]]
    IN at
=============================================================================
