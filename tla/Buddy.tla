------------------------------- MODULE Buddy --------------------------------
(* The physical page allocator (subsys/mem/pma, pma_buddy, lib/buddy_alloc):  *)
(* arenas of 2^n pages, each with a bitmap of free blocks, a tree in which    *)
(* the blocks of every order follow those of the next larger one, and a bitmap*)
(* of the orders that have a free block.  A step is what happens under the    *)
(* lock of one arena.                                                         *)
EXTENDS Integers, Sequences, FiniteSetsExt

CONSTANTS Task, NULL,
          Arenas,       \* PMA_NUM_ARENAS
          MaxOrder,     \* BUDDY_NUM_ORDERS - 1
          PageSize,     \* BUDDY_MIN_ARENA_SIZE, in the units of Memory
          Sizes,        \* numbers of pages asked for
          Memory        \* the ranges of physical memory given to the allocator

Order == 0..MaxOrder

VARIABLES
    arena,      \* arenas[]: base, block_bitmap, order_bitmap; the initialized
    live,       \* blocks allocated and not freed: arena, address, pages asked for
    ranges,     \* ranges still to be given
    req         \* a task in pma_buddy_alloc_pages: pages, the arena it is at

vars == <<arena, live, ranges, req>>

Init == arena = <<>> /\ live = {} /\ ranges = Memory /\ req = [t \in Task |-> NULL]

AlignUp(x) == ((x + PageSize - 1) \div PageSize) * PageSize

\* __buddy_block_bitmap_bit, buddy_order_num_blocks, __buddy_get_order.
Bit(o, i) == 2^(MaxOrder - o) - 1 + i
NumBlocks(o) == 2^(MaxOrder - o)
GetOrder(pages) == Min({o \in 0..(MaxOrder + 1) : 2^o >= pages})

\* buddy_get_idx and buddy_get_parent_idx, n orders up; a mutant takes the next.
NextOf(i) == i + 1
BuddyOf(i) == IF i % 2 = 0 THEN i + 1 ELSE i - 1
Parent(i, n) == i \div 2^n

\* __buddy_is_block_free for every block of an order, __buddy_update_order_bitmap.
FreeAt(bits, o) == {i \in 0..(NumBlocks(o) - 1) : Bit(o, i) \in bits}
Updated(orders, bits, S) == (orders \ S) \cup {o \in S : FreeAt(bits, o) # {}}

-----------------------------------------------------------------------------
\* pma_init_range, buddy_arena_init: the whole pages, at most the largest
\* arena, and of them the largest power of two.
InitRange(r) ==
    LET base == AlignUp(r.phys)
        pages == (r.size - (base - r.phys)) \div PageSize
        order == Max({o \in Order : 2^o <= Min({pages, 2^MaxOrder})})
    IN  /\ r \in ranges /\ ranges' = ranges \ {r}
        /\ arena' = IF \/ Len(arena) = Arenas \/ r.phys = 0
                       \/ base - r.phys > r.size \/ pages < 1
                    THEN arena
                    ELSE Append(arena, [base |-> base, bits |-> {Bit(order, 0)},
                                        orders |-> {order}, top |-> order])
        /\ UNCHANGED <<live, req>>

\* pma_alloc_pages.
Ask(t, n) ==
    /\ req[t] = NULL
    /\ req' = [req EXCEPT ![t] = [pages |-> n, at |-> 1, num |-> Len(arena)]]
    /\ UNCHANGED <<arena, live, ranges>>

\* __buddy_alloc: the smallest order with a free block, its first block, split
\* down to the order asked for; flags of orders found empty are cleared.
BuddyAlloc(a, o) ==
    LET found == {q \in Order : q >= o /\ q \in a.orders /\ FreeAt(a.bits, q) # {}}
        k == Min(found)
        i == Min(FreeAt(a.bits, k))
        passed == {q \in a.orders : q >= o /\ (found # {} => q < k)}
        right(q) == Bit(q, i * 2^(k - q) + 1)
        left(q) == Bit(q, i * 2^(k - q))
        bits == (a.bits \ ({Bit(k, i)} \cup {left(q) : q \in o..(k - 1)}))
                   \cup {right(q) : q \in o..(k - 1)}
    IN  IF found = {} THEN [a |-> [a EXCEPT !.orders = @ \ passed], addr |-> NULL]
        ELSE [a |-> [a EXCEPT !.bits = bits,
                              !.orders = Updated(@ \ passed, bits, {k}) \cup o..(k - 1)],
              addr |-> a.base + i * 2^k * PageSize]

\* pma_buddy_alloc_pages at an arena: the next one, the end, or a block.
TryArena(t) ==
    LET n == req[t].at
        o == GetOrder(req[t].pages)
        can == o <= MaxOrder /\ \E q \in arena[n].orders : q >= o
        got == BuddyAlloc(arena[n], o)
    IN  /\ req[t] # NULL
        /\ IF n > req[t].num THEN req' = [req EXCEPT ![t] = NULL] /\ UNCHANGED <<arena, live>>
           ELSE IF ~can THEN req' = [req EXCEPT ![t].at = @ + 1] /\ UNCHANGED <<arena, live>>
           ELSE /\ arena' = [arena EXCEPT ![n] = got.a]
                /\ req' = [req EXCEPT ![t] = IF got.addr = NULL THEN [@ EXCEPT !.at = @ + 1] ELSE NULL]
                /\ live' = IF got.addr = NULL THEN live
                           ELSE live \cup {[id |-> n, addr |-> got.addr, pages |-> req[t].pages]}
        /\ UNCHANGED ranges

\* pma_free_pages, __buddy_free: merge with the buddy while it is free.
Free(m) ==
    LET a == arena[m.id]
        o == GetOrder(m.pages)
        idx == ((m.addr - a.base) \div PageSize) \div 2^o
        at(q) == Parent(idx, q - o)
        merges(q) == /\ q < MaxOrder /\ BuddyOf(at(q)) < NumBlocks(q)
                     /\ Bit(q, BuddyOf(at(q))) \in a.bits
        top == Max({q \in o..MaxOrder : \A p \in o..(q - 1) : merges(p)})
        bits == (a.bits \ UNION {{Bit(q, at(q)), Bit(q, BuddyOf(at(q)))} : q \in o..(top - 1)})
                   \cup {Bit(top, at(top))}
    IN  /\ m \in live /\ live' = live \ {m}
        /\ arena' = [arena EXCEPT ![m.id].bits = bits,
                                  ![m.id].orders = Updated(@, bits, o..(top - 1)) \cup {top}]
        /\ UNCHANGED <<ranges, req>>

Next ==
    \/ \E r \in Memory : InitRange(r)
    \/ \E t \in Task : TryArena(t) \/ \E n \in Sizes : Ask(t, n)
    \/ \E m \in live : Free(m)

Spec == Init /\ [][Next]_vars

-----------------------------------------------------------------------------
\* The pages of an arena's free blocks and of its allocated ones.
FreeBlocks(n) ==
    {(i * 2^o)..((i + 1) * 2^o - 1) :
        <<o, i>> \in {x \in Order \X (0..(2^MaxOrder - 1)) : x[2] \in FreeAt(arena[n].bits, x[1])}}
Pages(m) ==
    LET first == (m.addr - arena[m.id].base) \div PageSize
    IN  first..(first + 2^GetOrder(m.pages) - 1)
LiveAt(n) == {m \in live : m.id = n}

\* The blocks of an arena, free and allocated, are disjoint and together are
\* all of its pages: no page is given twice and none is lost.
PagesAreConserved ==
    \A n \in DOMAIN arena :
        /\ UNION (FreeBlocks(n) \cup {Pages(m) : m \in LiveAt(n)}) = 0..(2^arena[n].top - 1)
        /\ MapThenSumSet(LAMBDA b : Cardinality(b), FreeBlocks(n))
             + MapThenSumSet(LAMBDA m : Cardinality(Pages(m)), LiveAt(n)) = 2^arena[n].top

\* What is free can be allocated: two free buddies are always merged, and an
\* order that has a free block says so.
FreeIsFound ==
    \A n \in DOMAIN arena, o \in Order :
        LET f == FreeAt(arena[n].bits, o) IN
        /\ f # {} => o \in arena[n].orders
        /\ \A i \in f : BuddyOf(i) \notin f
=============================================================================
