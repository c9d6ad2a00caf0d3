------------------------------- MODULE FlatPq -------------------------------
(* The queue of waiting tasks (lib/dsa: flat_priorityq, avl_tree, listq): an  *)
(* AVL tree with a node for every priority; nodes of an equal priority hang   *)
(* on it as a list.  A tree node's key and height share one word, and         *)
(* avl_update_height (avl_tree.h:41) writes it without the key.               *)
EXTENDS Integers, Sequences, FiniteSetsExt, TLC

CONSTANTS Node, Priority, NULL,
          Limits    \* the values of max_path: 14 from the initializers, and 0
                    \* from waitq_init, which clears the queue

VARIABLES
    t,        \* the tree and list fields of all nodes, the root and max_path
    q,        \* history: the queued nodes in order of insertion
    prio,     \* history: the priority a node was inserted with
    mixed,    \* history: since it was last empty, the queue has held nodes of
              \* different priorities
    missed    \* history: avl_remove did not find a node

vars == <<t, q, prio, mixed, missed>>

Field == {"left", "right", "parent", "prev", "next", "rear", "front"}
\* The memory that flat_priorityq_insert takes for a node when avl_insert gives
\* it neither a place nor a duplicate (flat_priorityq.h:48); it reads as zero.
Low == "low"
Memory == Node \cup {Low}
Empty(max) ==
    [root |-> NULL, max |-> max, key |-> [n \in Memory |-> 0], height |-> [n \in Memory |-> 0]]
        @@ [f \in Field |-> [n \in Memory |-> NULL]]

\* INITIALIZE_WAITQ and waitq_init.
Init ==
    /\ \E max \in Limits : t = Empty(max)
    /\ q = <<>> /\ prio = [n \in Node |-> NULL]
    /\ mixed = FALSE /\ missed = FALSE

-----------------------------------------------------------------------------
(* Trees.                                                                     *)
HeightOf(x, n) == IF n = NULL THEN 0 ELSE x.height[n]
Balance(x, n) == HeightOf(x, x.left[n]) - HeightOf(x, x.right[n])

\* avl_update_height.
UpdateHeight(x, n) ==
    [x EXCEPT !.height[n] = Max({HeightOf(x, x.left[n]), HeightOf(x, x.right[n])}) + 1,
              !.key[n] = 0]

\* avl_rotate_right (up = "left", down = "right") and avl_rotate_left: the
\* child at "up" of n takes its place.
SetParent(x, n, p) == IF n = NULL THEN x ELSE [x EXCEPT !.parent[n] = p]
Rotate(x, n, up, down) ==
    LET c == x[up][n]
        g == x[down][c]
        moved == [x EXCEPT ![down][c] = n, ![up][n] = g, !.parent[c] = x.parent[n],
                           !.parent[n] = c]
    IN  UpdateHeight(UpdateHeight(SetParent(moved, g, n), n), c)

\* Whether the child c of a node is rotated first: avl_insert goes by the
\* inserted key, avl_remove (key = NULL) by the child's balance.
LeftFirst(x, c, key) == IF key = NULL THEN Balance(x, c) < 0 ELSE key > x.key[c]
RightFirst(x, c, key) == IF key = NULL THEN Balance(x, c) > 0 ELSE key < x.key[c]

\* A step of the way up in avl_insert and avl_remove: n is rebalanced, and the
\* node in its place hung under the one before it on the path.
Child(x, p, side, c) == [x EXCEPT ![side][p] = c]
Hung(x, n, above) ==
    LET new == x.parent[n]
        y == [x EXCEPT !.parent[new] = above]
    IN  IF above = NULL THEN [y EXCEPT !.root = new]
        ELSE Child(y, above, IF x.left[above] = n THEN "left" ELSE "right", new)
\* avl_rotate_left and avl_rotate_right of a child return the node that n gets.
Turned(x, n, up, down, both) ==
    LET c == x[up][n] IN
    Rotate(IF both THEN Child(Rotate(x, c, down, up), n, up, x[down][c]) ELSE x, n, up, down)
Balanced(x, n, above, key) ==
    CASE Balance(x, n) > 1 ->
            Hung(Turned(x, n, "left", "right", LeftFirst(x, x.left[n], key)), n, above)
      [] Balance(x, n) < -1 ->
            Hung(Turned(x, n, "right", "left", RightFirst(x, x.right[n], key)), n, above)
      [] OTHER -> x
Rebalance(x, n, above, key) == Balanced(UpdateHeight(x, n), n, above, key)

RECURSIVE Climb(_, _, _)
Climb(x, path, key) ==
    IF path = <<>> THEN x
    ELSE LET i == Len(path) IN
         Climb(Rebalance(x, path[i], IF i > 1 THEN path[i - 1] ELSE NULL, key),
               SubSeq(path, 1, i - 1), key)

\* The path from n to the node with the key, or to where it would be.
RECURSIVE Path(_, _, _)
Path(x, n, key) ==
    IF n = NULL THEN <<>>
    ELSE IF x.key[n] = key THEN <<n>>
    ELSE <<n>> \o Path(x, IF x.key[n] > key THEN x.left[n] ELSE x.right[n], key)

\* listq_pushback.
ListPush(x, h, n) ==
    LET last == IF x.rear[h] = NULL THEN h ELSE x.rear[h]
        y == [x EXCEPT !.next[last] = n, !.front[last] = NULL]
    IN  [y EXCEPT !.prev[n] = last, !.next[n] = NULL, !.rear[n] = NULL, !.front[n] = h,
                  !.rear[h] = n]

\* avl_insert and flat_priorityq_insert.
Leaf(x, n, key) ==
    [x EXCEPT !.key[n] = key, !.height[n] = 1, !.left[n] = NULL, !.right[n] = NULL,
              !.parent[n] = NULL]
Attached(x, n, p, key) ==
    [Child(x, p, IF key < x.key[p] THEN "left" ELSE "right", n) EXCEPT !.parent[n] = p]
InsertedAt(x, n, path, key) ==
    LET p == path[Len(path)] IN
    IF path = <<>> THEN [x EXCEPT !.root = n]
    ELSE IF Len(path) > x.max THEN ListPush(x, Low, n)
    ELSE IF x.key[p] = key THEN ListPush(x, p, n)
    ELSE Climb(Attached(x, n, p, key), path, key)
Inserted(x, n, key) == InsertedAt(Leaf(x, n, key), n, Path(x, x.root, key), key)

\* The tree with c at the place of n under n's parent.
Relinked(x, n, c) ==
    LET p == x.parent[n] IN
    IF p = NULL THEN [x EXCEPT !.root = c]
    ELSE IF x.left[p] = n THEN [x EXCEPT !.left[p] = c] ELSE [x EXCEPT !.right[p] = c]
Cleared(x, n) ==
    [x EXCEPT !.key[n] = 0, !.height[n] = 0, !.left[n] = NULL, !.right[n] = NULL, !.parent[n] = NULL]

\* avl_remove: the path is the one to the first node with n's key.  It is kept
\* in an array of max_path entries; what a write past its end destroys when
\* max_path is 0 is not modelled.
RECURSIVE Leftmost(_, _)
Leftmost(x, n) == IF x.left[n] = NULL THEN <<>> ELSE <<n>> \o Leftmost(x, x.left[n])
Found(x, n) == LET path == Path(x, x.root, x.key[n]) IN path # <<>> /\ x.key[path[Len(path)]] = x.key[n]
\* A node with at most one child ...
RemovedOne(x, n, path) ==
    LET child == IF x.left[n] # NULL THEN x.left[n] ELSE x.right[n]
    IN  Climb(Cleared(SetParent(Relinked(x, n, child), child, x.parent[n]), n),
              SubSeq(path, 1, Len(path) - 1), NULL)
\* ... and one with two, whose successor s, found at the end of the way down,
\* takes its place.
Detached(x, s, sp, n) ==
    SetParent([SetParent([x EXCEPT !.left[sp] = x.right[s]], x.right[s], sp)
                 EXCEPT !.right[s] = x.right[n]], x.right[n], s)
Succeeded(x, n, s) ==
    Cleared(SetParent(Relinked(SetParent([x EXCEPT !.left[s] = x.left[n]], x.left[n], s), n, s),
                      s, x.parent[n]), n)
RemovedTwo(x, n, path, down) ==
    LET sp == down[Len(down)]
        way(s) == [path EXCEPT ![Len(path)] = s]
    IN  IF down = <<>> THEN Climb(Succeeded(x, n, x.right[n]), way(x.right[n]), NULL)
        ELSE Climb(Succeeded(Detached(x, x.left[sp], sp, n), n, x.left[sp]),
                   way(x.left[sp]) \o SubSeq(down, 1, Len(down) - 1), NULL)
Removed(x, n) ==
    LET path == Path(x, x.root, x.key[n]) IN
    IF x.left[n] = NULL \/ x.right[n] = NULL THEN RemovedOne(x, n, path)
    ELSE RemovedTwo(x, n, path, Leftmost(x, x.right[n]))

\* avl_replace.
Replaced(x, n, s) ==
    LET y == [x EXCEPT !.key[s] = x.key[n], !.height[s] = x.height[n], !.left[s] = x.left[n],
                       !.right[s] = x.right[n], !.parent[s] = x.parent[n]]
    IN  Cleared(Relinked(SetParent(SetParent(y, x.left[n], s), x.right[n], s), n, s), n)

\* listq_disconnect.
Unlisted(x, n) ==
    [x EXCEPT !.prev[n] = NULL, !.next[n] = NULL, !.rear[n] = NULL, !.front[n] = NULL]
ListCut(x, n) ==
    LET p == x.prev[n]
        m == x.next[n]
        r == x.rear[n]
        f == x.front[n]
    IN  Unlisted(
          CASE f # NULL -> [IF p # f THEN [x EXCEPT !.front[p] = f, !.rear[f] = p]
                            ELSE [x EXCEPT !.rear[f] = NULL] EXCEPT !.next[p] = NULL]
            [] f = NULL /\ r # NULL -> [IF m # r THEN [x EXCEPT !.rear[m] = r, !.front[r] = m]
                                        ELSE [x EXCEPT !.front[r] = NULL] EXCEPT !.prev[m] = NULL]
            [] f = NULL /\ r = NULL /\ m # NULL /\ p # NULL -> [x EXCEPT !.prev[m] = p, !.next[p] = m]
            [] f = NULL /\ r = NULL /\ m # NULL /\ p = NULL -> [x EXCEPT !.prev[m] = NULL]
            [] f = NULL /\ r = NULL /\ m = NULL /\ p # NULL -> [x EXCEPT !.next[p] = NULL]
            [] OTHER -> x, n)

\* avl_is_queued, flat_priorityq_is_queued.
InTree(x, n) == x.parent[n] # NULL \/ x.root = n
IsQueued(x, n) == InTree(x, n) \/ x.prev[n] # NULL

\* flat_priorityq_dequeue; a mutant forgets the list behind a node of the tree.
UnlinkedAlone(x, n, m) == IF InTree(x, n) /\ Found(x, n) THEN Removed(x, n) ELSE x
Unlinked(x, n, m) ==
    IF ~InTree(x, n) THEN x
    ELSE IF m # NULL THEN Replaced(x, n, m)
    ELSE IF Found(x, n) THEN Removed(x, n) ELSE x
Dequeued(x, n) == Unlinked(ListCut(x, n), n, x.next[n])

\* avl_find_highest.
RECURSIVE Rightmost(_, _)
Rightmost(x, n) == IF x.right[n] = NULL THEN n ELSE Rightmost(x, x.right[n])

\* The nodes in the order of flat_priorityq_dequeue_all: from the right of the
\* tree to its left (avl_remove_all), with their lists (listq_disconnect_all).
RECURSIVE Chain(_, _)
Chain(x, n) == IF n = NULL THEN <<>> ELSE <<n>> \o Chain(x, x.next[n])
RECURSIVE Walk(_, _)
Walk(x, n) == IF n = NULL THEN <<>> ELSE Walk(x, x.right[n]) \o Chain(x, n) \o Walk(x, x.left[n])

-----------------------------------------------------------------------------
(* The operations of a wait queue.                                            *)
InQueue == {q[i] : i \in DOMAIN q}
Without(n) ==
    /\ q' = SelectSeq(q, LAMBDA m : m # n)
    /\ mixed' = (mixed /\ q' # <<>>)

Insert(n, p) ==
    /\ n \notin InQueue /\ ~missed
    /\ t' = Inserted(t, n, p)
    /\ q' = Append(q, n)
    /\ prio' = [prio EXCEPT ![n] = p]
    /\ mixed' = (mixed \/ \E m \in InQueue : prio[m] # p)
    /\ UNCHANGED missed

PopFront ==
    /\ t.root # NULL /\ ~missed
    /\ LET n == Rightmost(t, t.root) IN
       /\ t' = Dequeued(t, n)
       /\ missed' = IsQueued(t', n)
       /\ Without(n)
       /\ prio' = [prio EXCEPT ![n] = NULL]

Dequeue(n) ==
    /\ n \in InQueue /\ ~missed
    /\ t' = Dequeued(t, n)
    /\ missed' = IsQueued(t', n)
    /\ Without(n)
    /\ prio' = [prio EXCEPT ![n] = NULL]

DequeueAll ==
    /\ ~missed
    /\ LET w == Walk(t, t.root)
           out == {w[i] : i \in DOMAIN w}
       IN  /\ t' = [f \in DOMAIN t |->
                      CASE f = "root" -> NULL
                        [] f = "max" -> t.max
                        [] OTHER -> [n \in Memory |->
                             CASE n \in out /\ f \in Field -> NULL
                               [] n \in out /\ f \notin Field /\ InTree(t, n) -> 0
                               [] OTHER -> t[f][n]]]
           /\ q' = SelectSeq(q, LAMBDA n : n \notin out)
           /\ prio' = [n \in Node |-> IF n \in out THEN NULL ELSE prio[n]]
    /\ mixed' = (mixed /\ q' # <<>>)
    /\ UNCHANGED missed

Next == PopFront \/ DequeueAll \/ \E n \in Node : Dequeue(n) \/ \E p \in Priority : Insert(n, p)

Spec == Init /\ [][Next]_vars

-----------------------------------------------------------------------------
\* Nothing is lost: the nodes that the tree and its lists lead to are the
\* nodes in the queue, each of them once.  Excepted are a node that avl_remove
\* did not find, because the keys above it were overwritten, and in a queue
\* that waitq_init made the nodes that avl_insert had no path for: they hang on
\* memory that is no node, and only flat_priorityq_dequeue finds them.
NothingIsLost ==
    LET w == Walk(t, t.root)
        low == Chain(t, t.next[Low])
    IN  ~missed => /\ Len(w) + Len(low) = Len(q)
                   /\ {w[i] : i \in DOMAIN w} \cup {low[i] : i \in DOMAIN low} = InQueue
                   /\ t.max > 0 => low = <<>>

\* While all nodes have one priority a queue of an initializer is a fifo, and
\* every node of a queue can be taken out.
FifoOfEquals == ~mixed /\ ~missed /\ t.max > 0 => Walk(t, t.root) = q
FoundIfEqual == missed => mixed

\* What the documentation of the mutex says of its wait queue: the node that is
\* next is, of those with the highest priority, the one that waits the longest.
HighestIsNext ==
    q # <<>> =>
        LET highest == Max({prio[n] : n \in InQueue})
        IN  Rightmost(t, t.root) = SelectSeq(q, LAMBDA n : prio[n] = highest)[1]
=============================================================================
