-------------------------------- MODULE Tlsf --------------------------------
(* The heap (subsys/mem/rtalloc, rtalloc_tlsf, lib/tlsf_alloc): blocks with a *)
(* header, each with a link to the block before it and flags that say if it   *)
(* and the block before it are free; free blocks are in bins by size.  Every  *)
(* call runs under the lock of the heap.  Sizes are in units of TLSF_ALIGNMENT*)
EXTENDS Integers, Sequences, FiniteSetsExt, SequencesExt

CONSTANTS NULL,
          HeapEnd,    \* the heap is 0..HeapEnd
          Header,     \* sizeof(struct tlsf_block)
          BlockMin,   \* TLSF_BLOCK_MIN
          SlShift,    \* TLSF_SL_SHIFT
          FlShift,    \* TLSF_FL_SHIFT
          Sizes,      \* the sizes asked for
          Alignments, \* the alignments asked for
          AlignedHeader \* sizeof(struct aligned_block)

VARIABLES
    blk,        \* the headers by address: size, free, pfree, prev_phys
    bins,       \* blocks[fli][sli]: the lists of free blocks
    live,       \* the pointers given out: the pointer, the block's pointer and
                \* the size asked for
    grown,      \* history: the blocks in use that grew over all of the free
                \* block after them
    broken      \* history: a block was merged with a block before it that is in
                \* use, or is not there; the heap does not go on from there

vars == <<blk, bins, live, grown, broken>>

-----------------------------------------------------------------------------
(* Bins.                                                                      *)
\* __tlsf_map.
Fls(n) == CHOOSE k \in 0..30 : 2^k <= n /\ n < 2^(k + 1)
Map(size) ==
    IF size < 2^SlShift THEN <<0, size>>
    ELSE LET f == Fls(size)
             step == 2^(f - SlShift)
             s == ((size \div step) % 2^SlShift) + (IF size % step = 0 THEN 0 ELSE 1)
             up == s >= 2^SlShift
         IN  <<Min({IF up THEN f + 1 ELSE f, FlShift}), IF up THEN 0 ELSE s>>
Bin == (0..FlShift) \X (0..(2^SlShift - 1))

\* __tlsf_insert_free_block, __tlsf_remove_free_block.
InsertFree(b, a, size) == [b EXCEPT ![Map(size)] = <<a>> \o @]
RemoveFree(b, a, size) == [b EXCEPT ![Map(size)] = Remove(@, a)]

\* __tlsf_search_suitable_block: a bin of the same first level, or the first
\* one of a larger first level.
Before(p, q) == p[1] < q[1] \/ (p[1] = q[1] /\ p[2] < q[2])
Suitable(b, size) ==
    LET m == Map(size)
        ok == {p \in Bin : ~Before(p, m) /\ b[p] # <<>>}
    IN  IF ok = {} THEN NULL ELSE b[CHOOSE p \in ok : \A q \in ok : ~Before(q, p)][1]

-----------------------------------------------------------------------------
(* Blocks: h is [blk, bins, grown, broken].                                   *)
NextOf(h, a) == a + Header + h.blk[a].size
Keep(h, S) == [h EXCEPT !.blk = [a \in (DOMAIN @) \ S |-> @[a]]]
Set(h, a, r) == [h EXCEPT !.blk = [x \in (DOMAIN @) \cup {a} |-> IF x = a THEN r ELSE @[x]]]
\* A change of the block at a, if it is below heap_end.
SetPrev(h, a, p) == IF a < HeapEnd THEN [h EXCEPT !.blk[a].prev = p] ELSE h
SetPfree(h, a, v) == IF a < HeapEnd THEN [h EXCEPT !.blk[a].pfree = v] ELSE h

\* The block at a takes over the one at n after it.
Relinked(h, a) == SetPrev(h, NextOf(h, a), a)
Absorb(h, a, n) ==
    Relinked(Keep([h EXCEPT !.blk[a].size = @ + Header + h.blk[n].size], {n}), a)
\* The block at a ends where a new one begins, at n.
Split(h, a, n, free) ==
    SetPrev(Set([h EXCEPT !.blk[a].size = n - a - Header], n,
                [size |-> NextOf(h, a) - n - Header, free |-> free, pfree |-> FALSE,
                 prev |-> a]),
            NextOf(h, a), n)

\* __tlsf_merge_next, __tlsf_merge_prev: into the first of the two.  The second
\* goes by the flag of the block alone.
MergeNext(h, a) ==
    LET n == NextOf(h, a) IN
    IF n >= HeapEnd \/ ~h.blk[n].free THEN h
    ELSE Absorb([h EXCEPT !.bins = RemoveFree(@, n, h.blk[n].size)], a, n)
MergePrev(h, a) ==
    LET p == h.blk[a].prev IN
    IF ~h.blk[a].pfree THEN <<h, a>>
    ELSE IF p = NULL \/ ~h.blk[p].free THEN <<[h EXCEPT !.broken = TRUE], a>>
    ELSE <<Absorb([h EXCEPT !.bins = RemoveFree(@, p, h.blk[p].size)], p, a), p>>

\* __tlsf_insert_free_block of the block at a.
AddFree(h, a) == [h EXCEPT !.bins = InsertFree(@, a, h.blk[a].size)]

\* The rest of the block at a beyond size becomes a free block of its own: in
\* __tlsf_alloc and in __tlsf_try_carve.
Cut(h, a, size) ==
    LET c == a + Header + size IN
    IF h.blk[a].size < size + Header + BlockMin THEN h
    ELSE AddFree(Split(h, a, c, TRUE), c)

\* The size a call works with.
Rounded(size) == Max({size, BlockMin})

\* __tlsf_alloc: the heap, the pointer or NULL, and the block's pointer.  The cut
\* is made before the block is marked as used: the block behind it gets its flag
\* from that mark.
Used(h, a) ==
    <<SetPfree([h EXCEPT !.blk[a].free = FALSE], NextOf(h, a), FALSE), a + Header, a + Header>>
AllocAt(h, a, size) ==
    IF a = NULL \/ h.blk[a].size < size THEN <<h, NULL, NULL>>
    ELSE Used(Cut([h EXCEPT !.bins = RemoveFree(@, a, h.blk[a].size)], a, size), a)
AllocIn(h, size) ==
    IF size = 0 \/ size > 2^FlShift THEN <<h, NULL, NULL>>
    ELSE AllocAt(h, Suitable(h.bins, Rounded(size)), Rounded(size))

\* __tlsf_free.
Reinserted(m) == AddFree(m[1], m[2])
FreeIn(h, ptr) ==
    LET a == ptr - Header
        marked == SetPfree([h EXCEPT !.blk[a].free = TRUE, !.grown = @ \ {a}],
                           NextOf(h, a), TRUE)
    IN  Reinserted(MergePrev(MergeNext(marked, a), a))

\* __tlsf_alloc_p2aligned: what is before the aligned header becomes a block and
\* is freed.
AlignAt(h, p, q) ==
    IF q - AlignedHeader - p < Header + BlockMin THEN <<h, q, p>>
    ELSE <<FreeIn(Split(h, p - Header, q - AlignedHeader - Header, FALSE), p), q,
           q - AlignedHeader>>
Align(r, al) ==
    IF r[2] = NULL THEN r
    ELSE AlignAt(r[1], r[2], ((r[2] + AlignedHeader + al - 1) \div al) * al)
AllocAlignedIn(h, size, al) == Align(AllocIn(h, size + al + AlignedHeader), al)

-----------------------------------------------------------------------------
(* The calls.                                                                 *)
Heap == [blk |-> blk, bins |-> bins, grown |-> grown, broken |-> broken]
Become(h) ==
    /\ ~broken
    /\ blk' = h.blk /\ bins' = h.bins /\ grown' = h.grown /\ broken' = h.broken

\* __tlsf_init: the size is written around the flags that the memory holds, and
\* only the first of them is set.
Init ==
    LET size == HeapEnd - Header IN
    /\ \E stale \in BOOLEAN :
          blk = [a \in {0} |-> [size |-> size, free |-> TRUE, pfree |-> stale, prev |-> NULL]]
    /\ bins = [p \in Bin |-> IF p = Map(size) THEN <<0>> ELSE <<>>]
    /\ live = {} /\ grown = {} /\ broken = FALSE

\* What a call is left with: the pointers others hold, and its own if it got one.
Give(r, others, size) ==
    /\ Become(r[1])
    /\ live' = others \cup (IF r[2] = NULL THEN {}
                            ELSE {[ptr |-> r[2], of |-> r[3], size |-> size]})

\* rtalloc, rtalloc_p2aligned.
Alloc(size) == Give(AllocIn(Heap, size), live, size)
AllocAligned(size, al) == Give(AllocAlignedIn(Heap, size, al), live, size)

\* rtfree, rtfree_p2aligned.
Free(m) ==
    /\ m \in live
    /\ Become(FreeIn(Heap, m.of))
    /\ live' = live \ {m}

\* The new block of a rtrealloc: without one the old block stays.
Move(m, r, size) ==
    IF r[2] = NULL THEN UNCHANGED vars
    ELSE Give(<<FreeIn(r[1], m.of), r[2], r[3]>>, live \ {m}, size)

\* rtrealloc to a size that is not 0 (a size of 0 is rtfree, no pointer is
\* rtalloc): the same block, a smaller one, the block grown over the free one
\* after it, or a new block.
Realloc(m, size) ==
    LET a == m.of - Header
        s == Rounded(size)
        n == NextOf(Heap, a)
        had == blk[a].size
        fits == n < HeapEnd /\ blk[n].free /\ blk[n].size + had >= s
        same == (live \ {m}) \cup {[m EXCEPT !.size = size]}
        whole == blk[n].size + had < s + BlockMin
    IN  /\ m \in live /\ m.ptr = m.of
        /\ \/ had >= s /\ Become(Cut(Heap, a, s)) /\ live' = same
           \/ /\ had < s /\ fits /\ live' = same
              /\ Become(Cut(MergeNext([Heap EXCEPT !.grown = IF whole THEN @ \cup {a} ELSE @], a),
                            a, s))
           \/ had < s /\ ~fits /\ Move(m, AllocIn(Heap, s), size)

\* rtrealloc_p2aligned: always a new block.
ReallocAligned(m, size, al) ==
    /\ m \in live /\ m.ptr # m.of
    /\ Move(m, AllocAlignedIn(Heap, size, al), size)

Next ==
    \/ \E s \in Sizes : Alloc(s) \/ \E al \in Alignments : AllocAligned(s, al)
    \/ \E m \in live : \/ Free(m)
                       \/ \E s \in Sizes : Realloc(m, s)
                       \/ \E s \in Sizes, al \in Alignments : ReallocAligned(m, s, al)

Spec == Init /\ [][Next]_vars

-----------------------------------------------------------------------------
\* The headers form a chain over the whole heap, with the links back.
\* A block that says the block before it is free is right about it: otherwise
\* freeing it would merge it with memory that is in use.  Excepted are the block
\* behind one that grew over all of a free block (tlsf_alloc.c:408), and the
\* first block (tlsf_alloc.c:239); to free one of them is the only way to a
\* wrong merge, after which nothing is claimed.
BlocksTile ==
    ~broken =>
    /\ \A a \in DOMAIN blk :
        /\ NextOf(Heap, a) \in DOMAIN blk \cup {HeapEnd}
        /\ a # 0 => blk[a].prev \in DOMAIN blk /\ NextOf(Heap, blk[a].prev) = a
        /\ a # 0 /\ blk[a].pfree => blk[blk[a].prev].free \/ blk[a].prev \in grown
    /\ MapThenSumSet(LAMBDA a : Header + blk[a].size, DOMAIN blk) = HeapEnd

\* Until such a merge the pointers given out are in different blocks, the blocks are in use, and
\* have the size asked for behind the pointer; all other blocks are free and in
\* the bin of their size, once.
LiveIsKept ==
    ~broken =>
    /\ \A m \in live : /\ m.of - Header \in DOMAIN blk /\ ~blk[m.of - Header].free
                       /\ m.ptr >= m.of /\ m.ptr + m.size <= m.of + blk[m.of - Header].size
    /\ Cardinality({m.of : m \in live}) = Cardinality(live)
    /\ {a \in DOMAIN blk : ~blk[a].free} = {m.of - Header : m \in live}
    /\ \A p \in Bin : /\ ToSet(bins[p]) = {a \in DOMAIN blk : blk[a].free /\ Map(blk[a].size) = p}
                      /\ IsInjective(bins[p])
=============================================================================
