----------------------------- MODULE DeltaChain -----------------------------
(* lib/dsa/delta_chain.h, over the deque of lib/dsa/dq.h: a chain of nodes,   *)
(* each with the ticks that lie between its predecessor's expiry and its own. *)
(* A chain is a sequence of [node, delta].                                    *)
EXTENDS Integers, Sequences

Item(n, d) == [node |-> n, delta |-> d]

\* The ticks until the expiry of each node, counted from the front's base.
Expiry(chain) ==
    LET due[i \in 0..Len(chain)] == IF i = 0 THEN 0 ELSE due[i - 1] + chain[i].delta
    IN  due

Nodes(chain) == {chain[i].node : i \in DOMAIN chain}
PosOf(chain, n) == CHOOSE i \in DOMAIN chain : chain[i].node = n

\* delta_chain_insert: behind every node that expires no later.
Insert(chain, n, ticks) ==
    LET due == Expiry(chain)
        k == CHOOSE i \in 0..Len(chain) :
                /\ due[i] <= ticks
                /\ i < Len(chain) => ticks < due[i + 1]
        rest == ticks - due[k]
        head == Append(SubSeq(chain, 1, k), Item(n, rest))
    IN  head \o [i \in 1..(Len(chain) - k) |->
                   IF i = 1 THEN Item(chain[k + 1].node, chain[k + 1].delta - rest)
                   ELSE chain[k + i]]

\* delta_chain_dequeue_no_callback: the successor inherits the delta.
DequeueNoCallback(chain, n) ==
    LET i == PosOf(chain, n)
        grown == IF i < Len(chain)
                 THEN [chain EXCEPT ![i + 1].delta = @ + chain[i].delta]
                 ELSE chain
    IN  SubSeq(grown, 1, i - 1) \o SubSeq(grown, i + 1, Len(grown))

\* How many nodes delta_chain_advance pops: those with no ticks left.
Expired(chain) ==
    CHOOSE k \in 0..Len(chain) :
        /\ \A i \in 1..k : chain[i].delta = 0
        /\ k < Len(chain) => chain[k + 1].delta # 0

\* delta_chain_tick: <<the nodes it pops, in order, the chain it leaves>>.
Tick(chain) ==
    IF chain = <<>> THEN <<<<>>, chain>>
    ELSE LET down == [chain EXCEPT ![1].delta = IF @ = 0 THEN 0 ELSE @ - 1]
             k == Expired(down)
         IN  <<SubSeq(down, 1, k), SubSeq(down, k + 1, Len(down))>>
=============================================================================
