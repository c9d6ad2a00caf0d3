---------------------------- MODULE McsLockProofs ----------------------------
(* Theorems about McsLock, for any sets of contexts, vcpus and locks: types, *)
(* mutual exclusion, the life of the nodes, the FIFO lock, the saved flags;  *)
(* and, where a vcpu runs one context, that no kick is lost.  First what each*)
(* kind of step does to the linked list of nodes: a context moves on without *)
(* touching it, joins it, links itself into it, or leaves it.                *)
EXTENDS McsLock, TLAPS

-----------------------------------------------------------------------------
(* The inductive invariant.  The history variable queue orders the contexts  *)
(* that are in the linked list, and the fields of the nodes agree with it.   *)

\* Only the users of a lock are in its queue, each at one place, and a context
\* is in the queue from its xchg to its release.
QueueMembers ==
    /\ \A l \in Lock : \A i \in 1..Len(queue[l]) : LockOf[queue[l][i]] = l
    /\ \A l \in Lock : \A i, j \in 1..Len(queue[l]) :
          queue[l][i] = queue[l][j] => i = j
    /\ \A c \in Ctx : Queued(c) <=>
          \E i \in 1..Len(queue[LockOf[c]]) : queue[LockOf[c]][i] = c

\* lock->tail is the last context of the queue.
TailIsLast ==
    \A l \in Lock : tail[l] = IF queue[l] = <<>> THEN NULL
                              ELSE queue[l][Len(queue[l])]

\* The head has the lock or has been handed it; the others wait for it, each
\* behind the one before it in the queue.
OnlyHeadGranted ==
    \A l \in Lock : \A i \in 1..Len(queue[l]) :
        LET c == queue[l][i] IN
        IF i = 1
        THEN Holding(c) \/ (Waiting(c) /\ pc[c] # "link" /\ state[c] = "UNLOCKED")
        ELSE Waiting(c) /\ state[c] # "UNLOCKED" /\ prev[c] = queue[l][i - 1]

\* node->next leads to the next context of the queue, once that has linked.
NextIsSuccessor ==
    \A l \in Lock : \A i \in 1..Len(queue[l]) :
        next[queue[l][i]] =
            IF i < Len(queue[l]) /\ pc[queue[l][i + 1]] # "link"
            THEN queue[l][i + 1] ELSE NULL

\* The local pointer that unlock follows is the node's next pointer.
SuccIsNext ==
    \A c \in Ctx :
        /\ pc[c] \in {"grant", "handoff"} => succ[c] = next[c] /\ next[c] # NULL
        /\ pc[c] = "kick" => succ[c] # NULL

QueueInv == /\ TypeOK /\ QueueMembers /\ TailIsLast /\ OnlyHeadGranted
            /\ NextIsSuccessor /\ SuccIsNext

-----------------------------------------------------------------------------
\* Append adds one element at the end and keeps the others where they were.
LEMMA AppendFacts ==
    ASSUME NEW S, NEW s \in Seq(S), NEW e \in S
    PROVE  /\ Append(s, e) \in Seq(S)
           /\ Len(Append(s, e)) = Len(s) + 1
           /\ Append(s, e) # <<>>
           /\ \A i \in 1..Len(s) : Append(s, e)[i] = s[i]
           /\ Append(s, e)[Len(s) + 1] = e
OBVIOUS

\* A sequence is empty exactly when its length is zero.
LEMMA EmptyFacts ==
    ASSUME NEW S, NEW s \in Seq(S)
    PROVE  /\ Len(s) \in Nat
           /\ s = <<>> <=> Len(s) = 0
           /\ \A i \in 1..Len(s) : s[i] \in S
OBVIOUS

\* Tail drops the first element and moves the others one place forward.
LEMMA TailFacts ==
    ASSUME NEW S, NEW s \in Seq(S), s # <<>>
    PROVE  /\ Tail(s) \in Seq(S)
           /\ Len(s) \in Nat \ {0}
           /\ Len(Tail(s)) = Len(s) - 1
           /\ \A i \in 1..(Len(s) - 1) : Tail(s)[i] = s[i + 1]
           /\ Tail(s) = <<>> <=> Len(s) = 1
           /\ Head(s) = s[1]
<1>1. Len(s) \in Nat \ {0}
  BY EmptyFacts, Zenon
<1>2. Tail(s) \in Seq(S) /\ Len(Tail(s)) = Len(s) - 1
  BY <1>1
<1>3. \A i \in 1..(Len(s) - 1) : Tail(s)[i] = s[i + 1]
  BY <1>1
<1>4. Tail(s) = <<>> <=> Len(s) = 1
  BY <1>1, <1>2, EmptyFacts
<1>5. Head(s) = s[1]
  BY <1>1
<1> QED
  BY <1>1, <1>2, <1>3, <1>4, <1>5, Zenon

\* The context that holds a lock is the head of its queue.
LEMMA HolderIsHead ==
    ASSUME QueueInv, NEW c \in Ctx, Holding(c)
    PROVE  queue[LockOf[c]] # <<>> /\ queue[LockOf[c]][1] = c
<1> DEFINE q == queue[LockOf[c]]
<1>1. LockOf[c] \in Lock /\ q \in Seq(Ctx)
  BY ConstantsAssumption, Zenon DEF QueueInv, TypeOK
<1>2. PICK i \in 1..Len(q) : q[i] = c
  BY Zenon DEF QueueInv, QueueMembers, Queued
<1>3. i = 1
  BY <1>1, <1>2, Zenon DEF QueueInv, OnlyHeadGranted, Holding, Waiting, HoldPcs, WaitPcs
<1> QED
  BY <1>1, <1>2, <1>3, EmptyFacts

\* Initially the queues are empty and the locks free.
LEMMA QueueInvInit == Init => QueueInv
<1> SUFFICES ASSUME Init PROVE QueueInv
  BY Zenon
<1>1. TypeOK
  BY ConstantsAssumption DEF Init, TypeOK, WaitPcs, HoldPcs, FreePcs
<1>2. \A l \in Lock : queue[l] = <<>> /\ Len(queue[l]) = 0 /\ tail[l] = NULL
  BY Zenon DEF Init
<1>3. \A c \in Ctx : pc[c] = "idle"
  BY DEF Init
<1>4. QueueMembers
  BY <1>2, <1>3, ConstantsAssumption
     DEF QueueMembers, Queued, Waiting, Holding, WaitPcs, HoldPcs
<1> QED
  BY <1>1, <1>2, <1>3, <1>4
     DEF QueueInv, TailIsLast, OnlyHeadGranted, NextIsSuccessor, SuccIsNext

\* The part of the invariant about the queue and the fields of its nodes.
ListInv == QueueMembers /\ TailIsLast /\ OnlyHeadGranted /\ NextIsSuccessor

\* A queued context that moves on without touching the list: it goes on
\* waiting or holding, or enters when the lock has been handed to it.
LEMMA StayQueued ==
    ASSUME QueueInv, NEW c \in Ctx, NEW p \in (WaitPcs \ {"link"}) \cup HoldPcs,
           pc' = [pc EXCEPT ![c] = p],
           UNCHANGED <<tail, next, prev, queue>>,
           \A d \in Ctx : d # c => state'[d] = state[d],
           pc[c] # "link",
           Queued(c),
           Holding(c) => p \in HoldPcs,
           Waiting(c) => \/ p \in WaitPcs
                            /\ (state'[c] = "UNLOCKED" <=> state[c] = "UNLOCKED")
                         \/ p \in HoldPcs /\ state[c] = "UNLOCKED"
    PROVE  ListInv'
<1>1. \A l \in Lock : queue[l] \in Seq(Ctx)
  BY Zenon DEF QueueInv, TypeOK
<1>2. \A l \in Lock : \A i \in 1..Len(queue[l]) : queue[l][i] \in Ctx
  BY <1>1, EmptyFacts, Zenon
<1>3. pc \in [Ctx -> WaitPcs \cup HoldPcs \cup FreePcs]
  BY Zenon DEF QueueInv, TypeOK
<1>4. QueueMembers'
  BY SMTT(90), <1>3, ConstantsAssumption
     DEF QueueInv, QueueMembers, Queued, Waiting, Holding
<1>5. TailIsLast'
  BY Zenon DEF QueueInv, TailIsLast
<1>6. NextIsSuccessor'
  <2> SUFFICES ASSUME NEW l \in Lock, NEW i \in 1..Len(queue[l])
               PROVE  next[queue[l][i]] =
                        IF i < Len(queue[l]) /\ pc'[queue[l][i + 1]] # "link"
                        THEN queue[l][i + 1] ELSE NULL
    BY DEF NextIsSuccessor
  <2>1. CASE i < Len(queue[l])
    <3>1. i + 1 \in 1..Len(queue[l])
      BY <1>1, <2>1, EmptyFacts
    <3>2. queue[l][i + 1] \in Ctx
      BY <3>1, <1>2, Zenon
    <3>3. pc'[queue[l][i + 1]] = "link" <=> pc[queue[l][i + 1]] = "link"
      BY <1>3, <3>2, Zenon DEF WaitPcs, HoldPcs
    <3> QED
      BY <3>3, Zenon DEF QueueInv, NextIsSuccessor
  <2>2. CASE ~(i < Len(queue[l]))
    BY <2>2, Zenon DEF QueueInv, NextIsSuccessor
  <2> QED
    BY <2>1, <2>2, Zenon
<1>7. OnlyHeadGranted'
  BY <1>2, <1>3 DEF QueueInv, OnlyHeadGranted, Waiting, Holding, Queued,
                    WaitPcs, HoldPcs
<1> QED
  BY <1>4, <1>5, <1>6, <1>7, Zenon DEF ListInv

\* A context outside the queue that stays outside it.
LEMMA StayOutside ==
    ASSUME QueueInv, NEW c \in Ctx, NEW p \in FreePcs,
           pc' = [pc EXCEPT ![c] = p],
           UNCHANGED <<tail, queue>>,
           \A d \in Ctx : d # c => /\ state'[d] = state[d]
                                   /\ next'[d] = next[d]
                                   /\ prev'[d] = prev[d],
           pc[c] \in FreePcs
    PROVE  ListInv'
<1>1. \A l \in Lock : queue[l] \in Seq(Ctx)
  BY Zenon DEF QueueInv, TypeOK
<1>2. \A l \in Lock : \A i \in 1..Len(queue[l]) : queue[l][i] \in Ctx
  BY <1>1, EmptyFacts, Zenon
<1>3. pc \in [Ctx -> WaitPcs \cup HoldPcs \cup FreePcs]
  BY Zenon DEF QueueInv, TypeOK
<1>4. ~Queued(c)
  BY Zenon DEF Queued, Waiting, Holding, WaitPcs, HoldPcs, FreePcs
<1>5. \A l \in Lock : \A i \in 1..Len(queue[l]) : queue[l][i] # c
  BY <1>4 DEF QueueInv, QueueMembers
<1>6. QueueMembers'
  BY <1>3, ConstantsAssumption
     DEF QueueInv, QueueMembers, Queued, Waiting, Holding, WaitPcs, HoldPcs, FreePcs
<1>7. TailIsLast'
  BY Zenon DEF QueueInv, TailIsLast
<1>8. NextIsSuccessor'
  <2> SUFFICES ASSUME NEW l \in Lock, NEW i \in 1..Len(queue[l])
               PROVE  next'[queue[l][i]] =
                        IF i < Len(queue[l]) /\ pc'[queue[l][i + 1]] # "link"
                        THEN queue[l][i + 1] ELSE NULL
    BY DEF NextIsSuccessor
  <2>1. next'[queue[l][i]] = next[queue[l][i]]
    BY <1>2, <1>5, Zenon
  <2>2. i < Len(queue[l]) => pc'[queue[l][i + 1]] = pc[queue[l][i + 1]]
    BY <1>1, <1>2, <1>3, <1>5, EmptyFacts
  <2> QED
    BY <2>1, <2>2 DEF QueueInv, NextIsSuccessor
<1>9. OnlyHeadGranted'
  BY <1>2, <1>3, <1>5 DEF QueueInv, OnlyHeadGranted, Waiting, Holding
<1> QED
  BY <1>6, <1>7, <1>8, <1>9, Zenon DEF ListInv

\* The next pointer of the head, when set, is the second context of the queue,
\* which waits, has linked and has not been handed the lock yet.
LEMMA NextOfHolder ==
    ASSUME QueueInv, NEW c \in Ctx, Holding(c), next[c] # NULL
    PROVE  LET q == queue[LockOf[c]] IN
           /\ Len(q) > 1 /\ next[c] = q[2] /\ next[c] \in Ctx /\ next[c] # c
           /\ Waiting(next[c]) /\ pc[next[c]] # "link"
           /\ state[next[c]] # "UNLOCKED"
<1> DEFINE q == queue[LockOf[c]]
<1>1. LockOf[c] \in Lock /\ q \in Seq(Ctx)
  BY ConstantsAssumption, Zenon DEF QueueInv, TypeOK
<1>2. q # <<>> /\ q[1] = c
  BY HolderIsHead, Zenon
<1>3. Len(q) \in Nat \ {0}
  BY <1>1, <1>2, EmptyFacts, Zenon
<1>4. next[c] = IF 1 < Len(q) /\ pc[q[2]] # "link" THEN q[2] ELSE NULL
  BY <1>1, <1>2, <1>3 DEF QueueInv, NextIsSuccessor
<1>5. Len(q) > 1 /\ next[c] = q[2] /\ pc[q[2]] # "link"
  BY <1>3, <1>4, Zenon
<1>6. 2 \in 1..Len(q)
  BY <1>3, <1>5
<1>7. q[2] \in Ctx
  BY <1>1, <1>6, EmptyFacts, Zenon
<1>8. q[2] # c
  BY <1>1, <1>2, <1>3, <1>6 DEF QueueInv, QueueMembers
<1>9. Waiting(q[2]) /\ state[q[2]] # "UNLOCKED"
  BY <1>1, <1>6 DEF QueueInv, OnlyHeadGranted
<1> QED
  BY <1>5, <1>7, <1>8, <1>9, Zenon

\* A context that gives the lock away leaves the head of the queue, and the
\* queue is then empty or its new head has been handed the lock.
LEMMA LeaveQueue ==
    ASSUME QueueInv, NEW c \in Ctx, Holding(c), NEW p \in FreePcs,
           pc' = [pc EXCEPT ![c] = p],
           Dequeue(c),
           UNCHANGED <<next, prev>>,
           \/ /\ tail[LockOf[c]] = c
              /\ tail' = [tail EXCEPT ![LockOf[c]] = NULL]
              /\ UNCHANGED state
           \/ /\ next[c] # NULL
              /\ state' = [state EXCEPT ![next[c]] = "UNLOCKED"]
              /\ UNCHANGED tail
    PROVE  ListInv' /\ queue' \in [Lock -> Seq(Ctx)]
<1> DEFINE l == LockOf[c] q == queue[l]
<1>1. l \in Lock /\ \A m \in Lock : queue[m] \in Seq(Ctx)
  BY Zenon, ConstantsAssumption DEF QueueInv, TypeOK
<1>2. \A m \in Lock : \A i \in 1..Len(queue[m]) : queue[m][i] \in Ctx
  BY <1>1, EmptyFacts, Zenon
<1>3. q # <<>> /\ q[1] = c
  BY HolderIsHead, Zenon
<1>4. /\ queue' \in [Lock -> Seq(Ctx)]
      /\ queue'[l] = Tail(q)
      /\ \A m \in Lock : m # l => queue'[m] = queue[m]
  BY <1>1, <1>3, TailFacts, Zenon DEF Dequeue, QueueInv, TypeOK
<1>5. /\ Len(q) \in Nat \ {0}
      /\ Len(queue'[l]) = Len(q) - 1
      /\ \A i \in 1..(Len(q) - 1) : queue'[l][i] = q[i + 1]
      /\ queue'[l] = <<>> <=> Len(q) = 1
  <2>1. q \in Seq(Ctx) /\ q # <<>>
    BY <1>1, <1>3, Zenon
  <2>2. /\ Len(q) \in Nat \ {0}
        /\ Len(Tail(q)) = Len(q) - 1
        /\ \A i \in 1..(Len(q) - 1) : Tail(q)[i] = q[i + 1]
        /\ Tail(q) = <<>> <=> Len(q) = 1
    BY <2>1, TailFacts, Zenon
  <2> QED
    BY <2>2, <1>4, Zenon
<1>6. /\ pc \in [Ctx -> WaitPcs \cup HoldPcs \cup FreePcs]
      /\ state \in [Ctx -> {"LOCKED", "UNLOCKED", "PAUSED"}]
      /\ tail \in [Lock -> Ctx \cup {NULL}]
  BY Zenon DEF QueueInv, TypeOK
<1>7. \A i \in 1..(Len(q) - 1) : i + 1 \in 1..Len(q) /\ q[i + 1] # c
  <2>1. \A i, j \in 1..Len(q) : q[i] = q[j] => i = j
    BY <1>1, Zenon DEF QueueInv, QueueMembers
  <2>2. Len(q) \in Nat \ {0}
    BY <1>5, Zenon
  <2>3. 1 \in 1..Len(q) /\ \A i \in 1..(Len(q) - 1) : i + 1 \in 1..Len(q) /\ i + 1 # 1
    BY <2>2
  <2> QED
    BY <2>1, <2>3, <1>3, Zenon
<1>8. \A m \in Lock : m # l => \A i \in 1..Len(queue[m]) : queue[m][i] # c
  BY DEF QueueInv, QueueMembers
<1>9. \A m \in Lock : \A i \in 1..Len(queue'[m]) :
         queue'[m][i] \in Ctx \ {c}
  <2>1. ASSUME NEW i \in 1..Len(queue'[l]) PROVE queue'[l][i] \in Ctx \ {c}
    BY <1>1, <1>2, <1>5, <1>7, Zenon
  <2>2. ASSUME NEW m \in Lock, m # l, NEW i \in 1..Len(queue'[m])
        PROVE  queue'[m][i] \in Ctx \ {c}
    BY <2>2, <1>2, <1>4, <1>8, Zenon
  <2> QED
    BY <2>1, <2>2, Zenon
<1>10. \A d \in Ctx \ {c} : pc'[d] = pc[d]
  BY <1>6, Zenon
<1>11. ~Queued(c)'
  BY <1>6, Zenon DEF Queued, Waiting, Holding, WaitPcs, HoldPcs, FreePcs
<1>12. QueueMembers'
  <2>1. \A m \in Lock : \A i \in 1..Len(queue'[m]) : LockOf[queue'[m][i]] = m
    <3>1. ASSUME NEW i \in 1..Len(queue'[l]) PROVE LockOf[queue'[l][i]] = l
      BY <1>1, <1>5, <1>7 DEF QueueInv, QueueMembers
    <3>2. ASSUME NEW m \in Lock, m # l, NEW i \in 1..Len(queue'[m])
          PROVE  LockOf[queue'[m][i]] = m
      BY <3>2, <1>4 DEF QueueInv, QueueMembers
    <3> QED
      BY <3>1, <3>2, Zenon
  <2>2. \A m \in Lock : \A i, j \in 1..Len(queue'[m]) :
           queue'[m][i] = queue'[m][j] => i = j
    <3>1. ASSUME NEW i \in 1..Len(queue'[l]), NEW j \in 1..Len(queue'[l]),
                 queue'[l][i] = queue'[l][j]
          PROVE  i = j
      <4>1. /\ q[i + 1] = q[j + 1]
            /\ i + 1 \in 1..Len(q) /\ j + 1 \in 1..Len(q)
        BY <3>1, <1>5, <1>7, Zenon
      <4>2. i + 1 = j + 1
        BY <4>1, <1>1, Zenon DEF QueueInv, QueueMembers
      <4> QED
        BY <4>2, <1>5
    <3>2. ASSUME NEW m \in Lock, m # l,
                 NEW i \in 1..Len(queue'[m]), NEW j \in 1..Len(queue'[m]),
                 queue'[m][i] = queue'[m][j]
          PROVE  i = j
      BY <3>2, <1>4 DEF QueueInv, QueueMembers
    <3> QED
      BY <3>1, <3>2, Zenon
  <2>3. ASSUME NEW d \in Ctx
        PROVE  Queued(d)' <=>
                 \E i \in 1..Len(queue'[LockOf[d]]) : queue'[LockOf[d]][i] = d
    <3>1. CASE d = c
      BY <3>1, <1>9, <1>11, ConstantsAssumption, Zenon
    <3>2. CASE d # c
      <4>1. Queued(d)' <=> Queued(d)
        BY <3>2, <1>10, Zenon DEF Queued, Waiting, Holding
      <4>2. Queued(d) <=> \E i \in 1..Len(queue[LockOf[d]]) : queue[LockOf[d]][i] = d
        BY Zenon DEF QueueInv, QueueMembers
      <4>3. CASE LockOf[d] # l
        BY Zenon, <4>1, <4>2, <4>3, <1>4, ConstantsAssumption
      <4>4. CASE LockOf[d] = l
        <5>1. ASSUME NEW i \in 1..Len(q), q[i] = d
              PROVE  \E j \in 1..Len(queue'[l]) : queue'[l][j] = d
          <6>1. i - 1 \in 1..(Len(q) - 1) /\ (i - 1) + 1 = i
            BY <5>1, <3>2, <1>3, <1>5
          <6> QED
            BY Zenon, <6>1, <5>1, <1>5
        <5>2. ASSUME NEW j \in 1..Len(queue'[l]), queue'[l][j] = d
              PROVE  \E i \in 1..Len(q) : q[i] = d
          BY <5>2, <1>5, <1>7, Zenon
        <5> QED
          BY <4>1, <4>2, <4>4, <5>1, <5>2, Zenon
      <4> QED
        BY <4>3, <4>4, Zenon
    <3> QED
      BY <3>1, <3>2, Zenon
  <2> QED
    BY Zenon, <2>1, <2>2, <2>3 DEF QueueMembers
<1>13. CASE /\ tail[l] = c
            /\ tail' = [tail EXCEPT ![l] = NULL]
            /\ UNCHANGED state
  <2>1. Len(q) = 1
    <3>1. q[Len(q)] = q[1]
      BY <1>1, <1>3, <1>13, Zenon DEF QueueInv, TailIsLast
    <3> QED
      BY <3>1, <1>1, <1>5 DEF QueueInv, QueueMembers
  <2>2. queue'[l] = <<>> /\ Len(queue'[l]) = 0
    BY <2>1, <1>5, Zenon
  <2>3. TailIsLast'
    BY <2>2, <1>1, <1>4, <1>6, <1>13, Zenon DEF QueueInv, TailIsLast
  <2>4. OnlyHeadGranted'
    <3>1. ASSUME NEW m \in Lock, NEW i \in 1..Len(queue'[m])
          PROVE  /\ m # l /\ queue'[m] = queue[m] /\ i \in 1..Len(queue[m])
                 /\ queue[m][i] \in Ctx /\ pc'[queue[m][i]] = pc[queue[m][i]]
      BY <2>2, <1>2, <1>4, <1>8, <1>10
    <3> QED
      BY SMTT(30), <3>1, <1>13 DEF QueueInv, OnlyHeadGranted, Waiting, Holding
  <2>5. NextIsSuccessor'
    <3> SUFFICES ASSUME NEW m \in Lock, NEW i \in 1..Len(queue'[m])
                 PROVE  next[queue'[m][i]] =
                          IF i < Len(queue'[m]) /\ pc'[queue'[m][i + 1]] # "link"
                          THEN queue'[m][i + 1] ELSE NULL
      BY Zenon DEF NextIsSuccessor
    <3>1. m # l /\ queue'[m] = queue[m]
      BY <2>2, <1>4
    <3>2. i < Len(queue[m]) => pc'[queue[m][i + 1]] = pc[queue[m][i + 1]]
      BY <3>1, <1>1, <1>2, <1>8, <1>10, EmptyFacts
    <3> QED
      BY <3>1, <3>2 DEF QueueInv, NextIsSuccessor
  <2> QED
    BY <1>4, <1>12, <2>3, <2>4, <2>5, Zenon DEF ListInv
<1>14. CASE /\ next[c] # NULL
            /\ state' = [state EXCEPT ![next[c]] = "UNLOCKED"]
            /\ UNCHANGED tail
  <2>1. /\ Len(q) > 1 /\ next[c] = q[2] /\ next[c] \in Ctx
        /\ Waiting(next[c]) /\ pc[next[c]] # "link" /\ next[c] # c
    BY <1>14, NextOfHolder, Zenon
  <2>2. 1 \in 1..(Len(q) - 1) /\ queue'[l][1] = q[2] /\ Len(q) \in 1..Len(q)
    BY SMTT(30), <2>1, <1>5
  <2>3. TailIsLast'
    <3>1. queue'[l] # <<>> /\ queue'[l][Len(queue'[l])] = q[Len(q)]
      BY SMTT(30), <2>1, <1>5
    <3> QED
      BY Zenon, <3>1, <1>1, <1>3, <1>4, <1>14 DEF QueueInv, TailIsLast
  <2>4. ASSUME NEW m \in Lock, NEW i \in 1..Len(queue'[m])
        PROVE  LET d == queue'[m][i] IN
               IF i = 1
               THEN \/ pc'[d] \in HoldPcs
                    \/ /\ pc'[d] \in WaitPcs /\ pc'[d] # "link"
                       /\ state'[d] = "UNLOCKED"
               ELSE /\ pc'[d] \in WaitPcs /\ state'[d] # "UNLOCKED"
                    /\ prev'[d] = queue'[m][i - 1]
    <3>1. CASE m # l
      <4>1. queue'[m] = queue[m] /\ queue[m][i] # c /\ queue[m][i] \in Ctx
        BY <3>1, <1>2, <1>4, <1>8, Zenon
      <4>2. queue[m][i] # next[c]
        <5>1. LockOf[queue[m][i]] = m
          BY <4>1, Zenon DEF QueueInv, QueueMembers
        <5>2. 2 \in 1..Len(q)
          BY SMTT(30), <2>1, <1>5
        <5>3. LockOf[q[2]] = l
          BY <5>2, <1>1, Zenon DEF QueueInv, QueueMembers
        <5> QED
          BY <5>1, <5>3, <3>1, <2>1, Zenon
      <4> QED
        <5>1. /\ pc'[queue[m][i]] = pc[queue[m][i]]
              /\ state'[queue[m][i]] = state[queue[m][i]]
          BY <4>1, <4>2, <2>1, <1>6, <1>10, <1>14, Zenon
        <5> QED
          BY SMTT(90), <4>1, <5>1 DEF QueueInv, OnlyHeadGranted, Waiting, Holding
    <3>2. CASE m = l /\ i = 1
      <4>1. queue'[m][i] = next[c] /\ pc'[next[c]] = pc[next[c]]
        BY <3>2, <2>1, <2>2, <1>10, Zenon
      <4>2. state'[next[c]] = "UNLOCKED"
        BY <2>1, <1>6, <1>14, Zenon
      <4> QED
        BY <4>1, <4>2, <3>2, <2>1, Zenon DEF Waiting
    <3>3. CASE m = l /\ i # 1
      <4>1. /\ i \in 1..(Len(q) - 1) /\ i + 1 \in 1..Len(q) /\ i + 1 # 1
            /\ (i + 1) - 1 = i /\ i - 1 \in 1..(Len(q) - 1) /\ (i - 1) + 1 = i
            /\ 2 \in 1..Len(q) /\ i + 1 # 2
        BY <3>3, <1>5
      <4>2. /\ queue'[l][i] = q[i + 1] /\ queue'[l][i - 1] = q[i]
            /\ q[i + 1] # q[2] /\ q[i + 1] # c /\ q[i + 1] \in Ctx
        BY SMTT(90), <4>1, <1>1, <1>2, <1>5, <1>7 DEF QueueInv, QueueMembers
      <4>3. Waiting(q[i + 1]) /\ state[q[i + 1]] # "UNLOCKED" /\ prev[q[i + 1]] = q[i]
        BY SMTT(30), <4>1, <1>1 DEF QueueInv, OnlyHeadGranted
      <4>4. pc'[q[i + 1]] = pc[q[i + 1]] /\ state'[q[i + 1]] = state[q[i + 1]]
        BY <4>2, <2>1, <1>6, <1>10, <1>14, Zenon
      <4> QED
        BY <4>2, <4>3, <4>4, <3>3, Zenon DEF Waiting
    <3> QED
      BY <3>1, <3>2, <3>3, Zenon
  <2>5. OnlyHeadGranted'
    BY <2>4, Zenon DEF OnlyHeadGranted, Waiting, Holding
  <2>6. NextIsSuccessor'
    <3> SUFFICES ASSUME NEW m \in Lock, NEW i \in 1..Len(queue'[m])
                 PROVE  next[queue'[m][i]] =
                          IF i < Len(queue'[m]) /\ pc'[queue'[m][i + 1]] # "link"
                          THEN queue'[m][i + 1] ELSE NULL
      BY DEF NextIsSuccessor
    <3>1. CASE m # l
      <4>1. queue'[m] = queue[m]
        BY <3>1, <1>4, Zenon
      <4>2. i < Len(queue[m]) => pc'[queue[m][i + 1]] = pc[queue[m][i + 1]]
        BY <3>1, <4>1, <1>1, <1>2, <1>8, <1>10, EmptyFacts
      <4> QED
        BY <4>1, <4>2 DEF QueueInv, NextIsSuccessor
    <3>2. CASE m = l
      <4>1. /\ i \in 1..(Len(q) - 1) /\ i + 1 \in 1..Len(q)
            /\ i < Len(queue'[l]) <=> i + 1 < Len(q)
        BY <3>2, <1>5
      <4>2. queue'[l][i] = q[i + 1]
        BY <4>1, <1>5, Zenon
      <4>3. i < Len(queue'[l]) =>
              /\ queue'[l][i + 1] = q[(i + 1) + 1]
              /\ pc'[q[(i + 1) + 1]] = pc[q[(i + 1) + 1]]
        <5>1. i < Len(queue'[l]) =>
                i + 1 \in 1..(Len(q) - 1) /\ (i + 1) + 1 \in 1..Len(q)
          BY SMTT(90), <4>1, <1>5
        <5> QED
          BY <5>1, <1>1, <1>2, <1>5, <1>7, <1>10, Zenon
      <4>4. next[q[i + 1]] = IF i + 1 < Len(q) /\ pc[q[(i + 1) + 1]] # "link"
                             THEN q[(i + 1) + 1] ELSE NULL
        BY <4>1, <1>1, Zenon DEF QueueInv, NextIsSuccessor
      <4> QED
        BY <4>1, <4>2, <4>3, <4>4, <3>2, Zenon
    <3> QED
      BY <3>1, <3>2, Zenon
  <2> QED
    BY <1>4, <1>12, <2>3, <2>5, <2>6 DEF ListInv
<1> QED
  BY <1>13, <1>14, Zenon

\* The xchg of the tail puts a context at the end of the queue: at its head if
\* the lock was free, else behind the context that was last.
LEMMA JoinQueue ==
    ASSUME QueueInv, NEW c \in Ctx, Xchg(c)
    PROVE  ListInv' /\ TypeOK'
<1> DEFINE l == LockOf[c] q == queue[l] p == pc'[c]
<1>1. l \in Lock /\ \A m \in Lock : queue[m] \in Seq(Ctx)
  BY ConstantsAssumption, Zenon DEF QueueInv, TypeOK
<1>2. \A m \in Lock : \A i \in 1..Len(queue[m]) : queue[m][i] \in Ctx
  BY <1>1, EmptyFacts, Zenon
<1>3. /\ pc \in [Ctx -> WaitPcs \cup HoldPcs \cup FreePcs]
      /\ state \in [Ctx -> {"LOCKED", "UNLOCKED", "PAUSED"}]
      /\ tail \in [Lock -> Ctx \cup {NULL}]
      /\ next \in [Ctx -> Ctx \cup {NULL}]
      /\ prev \in [Ctx -> Ctx \cup {NULL}]
  BY Zenon DEF QueueInv, TypeOK
<1>4. TypeOK'
  <2>1. queue' \in [Lock -> Seq(Ctx)]
    BY <1>1, AppendFacts, Zenon DEF Xchg, QueueInv, TypeOK
  <2> QED
    BY Zenon, <2>1, ConstantsAssumption
       DEF Xchg, QueueInv, TypeOK, Goto, Entered, WaitPcs, HoldPcs, FreePcs
<1>5. /\ queue'[l] = Append(q, c)
      /\ \A m \in Lock : m # l => queue'[m] = queue[m]
  BY <1>1, Zenon DEF Xchg, QueueInv, TypeOK
<1>6. /\ Len(q) \in Nat
      /\ Len(queue'[l]) = Len(q) + 1
      /\ queue'[l] # <<>>
      /\ \A i \in 1..Len(q) : queue'[l][i] = q[i]
      /\ queue'[l][Len(q) + 1] = c
  BY SMTT(90), <1>1, <1>5, AppendFacts, EmptyFacts
<1>7. pc[c] = "idle" /\ ~Queued(c)
  BY Zenon DEF Xchg, Queued, Waiting, Holding, WaitPcs, HoldPcs
<1>8. \A m \in Lock : \A i \in 1..Len(queue[m]) : queue[m][i] # c
  BY SMTT(90), <1>7 DEF QueueInv, QueueMembers
<1>9. \A d \in Ctx \ {c} : /\ pc'[d] = pc[d] /\ state'[d] = state[d]
                           /\ next'[d] = next[d] /\ prev'[d] = prev[d]
  BY <1>3, Zenon DEF Xchg, Goto
<1>10. /\ next'[c] = NULL /\ state'[c] = "LOCKED" /\ prev'[c] = tail[l]
       /\ tail'[l] = c /\ \A m \in Lock : m # l => tail'[m] = tail[m]
       /\ p = IF tail[l] = NULL THEN Entered(c) ELSE "link"
  BY <1>1, <1>3, Zenon DEF Xchg, Goto
<1>11. q = <<>> <=> tail[l] = NULL
  BY <1>1, <1>2, ConstantsAssumption, EmptyFacts DEF QueueInv, TailIsLast
<1>12. q = <<>> <=> Len(q) = 0
  BY <1>1, EmptyFacts, Zenon
<1>13. Queued(c)' /\ p \in WaitPcs \cup HoldPcs
  BY <1>10, Zenon DEF Queued, Waiting, Holding, Entered, WaitPcs, HoldPcs
<1>14. QueueMembers'
  <2>1. ASSUME NEW m \in Lock, NEW i \in 1..Len(queue'[m])
        PROVE  LockOf[queue'[m][i]] = m
    <3>1. CASE m # l
      BY <3>1, <1>5 DEF QueueInv, QueueMembers
    <3>2. CASE m = l /\ i \in 1..Len(q)
      BY SMTT(90), <3>2, <1>1, <1>6 DEF QueueInv, QueueMembers
    <3>3. CASE m = l /\ i = Len(q) + 1
      BY <3>3, <1>6, Zenon
    <3> QED
      BY <3>1, <3>2, <3>3, <1>6
  <2>2. ASSUME NEW m \in Lock, NEW i \in 1..Len(queue'[m]),
               NEW j \in 1..Len(queue'[m]), queue'[m][i] = queue'[m][j]
        PROVE  i = j
    <3>1. CASE m # l
      BY <3>1, <2>2, <1>5 DEF QueueInv, QueueMembers
    <3>2. CASE m = l /\ i \in 1..Len(q) /\ j \in 1..Len(q)
      <4>1. q[i] = q[j]
        BY <3>2, <2>2, <1>6, Zenon
      <4> QED
        BY <4>1, <3>2, <1>1, Zenon DEF QueueInv, QueueMembers
    <3>3. CASE m = l /\ (i = Len(q) + 1 \/ j = Len(q) + 1)
      <4>1. queue'[l][i] = c /\ queue'[l][j] = c
        BY <3>3, <2>2, <1>6, Zenon
      <4>2. ASSUME NEW k \in 1..Len(queue'[l]), queue'[l][k] = c
            PROVE  k = Len(q) + 1
        <5>1. k \in 1..Len(q) \/ k = Len(q) + 1
          BY <1>6
        <5> QED
          BY <5>1, <4>2, <1>1, <1>6, <1>8, Zenon
      <4> QED
        BY <4>1, <4>2, <3>3, Zenon
    <3> QED
      BY SMTT(90), <3>1, <3>2, <3>3, <1>6
  <2>3. ASSUME NEW d \in Ctx
        PROVE  Queued(d)' <=>
                 \E i \in 1..Len(queue'[LockOf[d]]) : queue'[LockOf[d]][i] = d
    <3>1. CASE d = c
      BY <3>1, <1>6, <1>13
    <3>2. CASE d # c
      <4>1. Queued(d)' <=> Queued(d)
        BY <3>2, <1>9, Zenon DEF Queued, Waiting, Holding
      <4>2. Queued(d) <=> \E i \in 1..Len(queue[LockOf[d]]) : queue[LockOf[d]][i] = d
        BY Zenon DEF QueueInv, QueueMembers
      <4>3. CASE LockOf[d] # l
        BY <4>1, <4>2, <4>3, <1>5, ConstantsAssumption, Zenon
      <4>4. CASE LockOf[d] = l
        <5>1. ASSUME NEW i \in 1..Len(q), q[i] = d
              PROVE  \E j \in 1..Len(queue'[l]) : queue'[l][j] = d
          <6>1. i \in 1..Len(queue'[l]) /\ queue'[l][i] = d
            BY SMTT(90), <5>1, <1>6
          <6> QED
            BY <6>1, Zenon
        <5>2. ASSUME NEW j \in 1..Len(queue'[l]), queue'[l][j] = d
              PROVE  \E i \in 1..Len(q) : q[i] = d
          <6>1. j \in 1..Len(q)
            BY <5>2, <3>2, <1>6
          <6> QED
            BY <6>1, <5>2, <1>6, Zenon
        <5> QED
          BY <4>1, <4>2, <4>4, <5>1, <5>2, Zenon
      <4> QED
        BY <4>3, <4>4, Zenon
    <3> QED
      BY <3>1, <3>2, Zenon
  <2> QED
    BY <2>1, <2>2, <2>3, Zenon DEF QueueMembers
<1>15. TailIsLast'
  BY SMTT(30), <1>5, <1>6, <1>10 DEF QueueInv, TailIsLast
<1>16. OnlyHeadGranted'
  <2> SUFFICES ASSUME NEW m \in Lock, NEW i \in 1..Len(queue'[m])
               PROVE  LET d == queue'[m][i] IN
                      IF i = 1
                      THEN \/ pc'[d] \in HoldPcs
                           \/ /\ pc'[d] \in WaitPcs /\ pc'[d] # "link"
                              /\ state'[d] = "UNLOCKED"
                      ELSE /\ pc'[d] \in WaitPcs /\ state'[d] # "UNLOCKED"
                           /\ prev'[d] = queue'[m][i - 1]
    BY Zenon DEF OnlyHeadGranted, Waiting, Holding
  <2>1. CASE m # l
    <3>1. queue'[m] = queue[m] /\ queue[m][i] \in Ctx \ {c}
      BY <2>1, <1>2, <1>5, <1>8, Zenon
    <3> QED
      BY SMTT(30), <3>1, <1>9 DEF QueueInv, OnlyHeadGranted, Waiting, Holding
  <2>2. CASE m = l /\ i \in 1..Len(q)
    <3>1. queue'[l][i] = q[i] /\ q[i] \in Ctx \ {c}
      BY <2>2, <1>1, <1>2, <1>6, <1>8, Zenon
    <3>2. i # 1 => queue'[l][i - 1] = q[i - 1]
      BY <2>2, <1>6
    <3> QED
      BY SMTT(90), <2>2, <3>1, <3>2, <1>1, <1>9
         DEF QueueInv, OnlyHeadGranted, Waiting, Holding
  <2>3. CASE m = l /\ i = Len(q) + 1
    <3>1. CASE Len(q) = 0
      BY SMTT(90), <3>1, <2>3, <1>6, <1>10, <1>11, <1>12 DEF Entered, HoldPcs
    <3>2. CASE Len(q) # 0
      <4>1. tail[l] = q[Len(q)] /\ queue'[l][i - 1] = q[Len(q)] /\ i # 1
        BY SMTT(90), <3>2, <2>3, <1>1, <1>6, <1>12 DEF QueueInv, TailIsLast
      <4> QED
        BY <4>1, <3>2, <2>3, <1>6, <1>10, <1>11, <1>12 DEF WaitPcs
    <3> QED
      BY <3>1, <3>2, Zenon
  <2> QED
    BY SMTT(90), <2>1, <2>2, <2>3, <1>6
<1>17. NextIsSuccessor'
  <2> SUFFICES ASSUME NEW m \in Lock, NEW i \in 1..Len(queue'[m])
               PROVE  next'[queue'[m][i]] =
                        IF i < Len(queue'[m]) /\ pc'[queue'[m][i + 1]] # "link"
                        THEN queue'[m][i + 1] ELSE NULL
    BY Zenon DEF NextIsSuccessor
  <2>1. CASE m # l
    <3>1. queue'[m] = queue[m] /\ queue[m][i] \in Ctx \ {c}
      BY <2>1, <1>2, <1>5, <1>8
    <3>2. i < Len(queue[m]) => pc'[queue[m][i + 1]] = pc[queue[m][i + 1]]
      BY <3>1, <1>1, <1>2, <1>8, <1>9, EmptyFacts
    <3> QED
      BY <3>1, <3>2, <1>9 DEF QueueInv, NextIsSuccessor
  <2>2. CASE m = l /\ i = Len(q) + 1
    BY SMTT(30), <2>2, <1>6, <1>10
  <2>3. CASE m = l /\ i \in 1..Len(q) /\ i < Len(q)
    <3>0. Len(q) \in Nat /\ Len(queue'[l]) = Len(q) + 1
      BY <1>6, Zenon
    <3>1. i + 1 \in 1..Len(q) /\ i < Len(queue'[l])
      BY <2>3, <3>0
    <3>4. queue'[l][i] = q[i] /\ queue'[l][i + 1] = q[i + 1]
      BY <2>3, <3>1, <1>6, Zenon
    <3>2. q[i] \in Ctx \ {c} /\ q[i + 1] \in Ctx \ {c}
      BY <2>3, <3>1, <1>1, <1>2, <1>8, Zenon
    <3>3. next'[q[i]] = next[q[i]] /\ pc'[q[i + 1]] = pc[q[i + 1]]
      BY <3>2, <1>9, Zenon
    <3> QED
      BY SMTT(30), <2>3, <3>1, <3>3, <3>4, <1>1 DEF QueueInv, NextIsSuccessor
  <2>4. CASE m = l /\ i \in 1..Len(q) /\ i = Len(q)
    <3>1. /\ queue'[l][i] = q[i] /\ queue'[l][i + 1] = c
          /\ q[i] \in Ctx \ {c}
      BY <2>4, <1>1, <1>2, <1>6, <1>8, Zenon
    <3>2. next'[q[i]] = NULL
      BY SMTT(90), <2>4, <3>1, <1>1, <1>9 DEF QueueInv, NextIsSuccessor
    <3>3. pc'[c] = "link"
      BY SMTT(90), <2>4, <1>6, <1>10, <1>11, <1>12
    <3> QED
      BY <2>4, <3>1, <3>2, <3>3, Zenon
  <2> QED
    BY SMTT(90), <2>1, <2>2, <2>3, <2>4, <1>6
<1> QED
  BY <1>4, <1>14, <1>15, <1>16, <1>17, Zenon DEF ListInv

\* prev->next = node links a context that has joined the queue.
LEMMA LinkInQueue ==
    ASSUME QueueInv, NEW c \in Ctx, Link(c)
    PROVE  /\ ListInv' /\ TypeOK'
           /\ prev[c] \in Ctx /\ Queued(prev[c]) /\ next[prev[c]] = NULL
<1> DEFINE l == LockOf[c] q == queue[l] b == prev[c]
<1>1. l \in Lock /\ \A m \in Lock : queue[m] \in Seq(Ctx)
  BY ConstantsAssumption DEF QueueInv, TypeOK
<1>2. \A m \in Lock : \A i \in 1..Len(queue[m]) : queue[m][i] \in Ctx
  BY <1>1, EmptyFacts
<1>3. /\ pc \in [Ctx -> WaitPcs \cup HoldPcs \cup FreePcs]
      /\ next \in [Ctx -> Ctx \cup {NULL}]
      /\ prev \in [Ctx -> Ctx \cup {NULL}]
  BY Zenon DEF QueueInv, TypeOK
<1>4. pc[c] = "link" /\ Waiting(c) /\ Queued(c) /\ ~Holding(c)
  BY Zenon DEF Link, Queued, Waiting, Holding, WaitPcs, HoldPcs
<1>5. PICK k \in 1..Len(q) : q[k] = c
  BY <1>4, Zenon DEF QueueInv, QueueMembers
<1>6. k # 1 /\ b = q[k - 1]
  BY SMTT(30), <1>1, <1>4, <1>5 DEF QueueInv, OnlyHeadGranted
<1>7. Len(q) \in Nat /\ k - 1 \in 1..Len(q) /\ (k - 1) + 1 = k /\ k - 1 < Len(q)
  BY <1>1, <1>5, <1>6, EmptyFacts
<1>8. b \in Ctx /\ b # c
  <2>1. \A i, j \in 1..Len(q) : q[i] = q[j] => i = j
    BY <1>1, Zenon DEF QueueInv, QueueMembers
  <2>2. b \in Ctx
    BY <1>1, <1>2, <1>6, <1>7, Zenon
  <2>3. k - 1 # k
    BY <1>7
  <2> QED
    BY <2>1, <2>2, <2>3, <1>5, <1>6, <1>7, Zenon
<1>9. next[b] = NULL
  BY <1>1, <1>4, <1>5, <1>6, <1>7 DEF QueueInv, NextIsSuccessor
<1>10. LockOf[b] = l /\ Queued(b)
  BY SMTT(90), <1>1, <1>6, <1>7, <1>8 DEF QueueInv, QueueMembers
<1>11. /\ next' = [next EXCEPT ![b] = c]
       /\ pc' = [pc EXCEPT ![c] = "spin"]
       /\ UNCHANGED <<tail, state, prev, queue>>
  BY Zenon DEF Link, Goto
<1>12. TypeOK'
  BY <1>8, ConstantsAssumption, Zenon
     DEF Link, QueueInv, TypeOK, Goto, WaitPcs, HoldPcs, FreePcs, vcpuVars, flagVars
<1>13. QueueMembers'
  BY SMTT(90), <1>3, <1>11, <1>4, ConstantsAssumption
     DEF QueueInv, QueueMembers, Queued, Waiting, Holding, WaitPcs, HoldPcs
<1>14. TailIsLast'
  BY <1>11, Zenon DEF QueueInv, TailIsLast
<1>15. OnlyHeadGranted'
  <2> SUFFICES ASSUME NEW m \in Lock, NEW i \in 1..Len(queue[m])
               PROVE  LET d == queue[m][i] IN
                      IF i = 1
                      THEN \/ pc'[d] \in HoldPcs
                           \/ /\ pc'[d] \in WaitPcs /\ pc'[d] # "link"
                              /\ state[d] = "UNLOCKED"
                      ELSE /\ pc'[d] \in WaitPcs /\ state[d] # "UNLOCKED"
                           /\ prev[d] = queue[m][i - 1]
    BY SMTT(30), <1>11 DEF OnlyHeadGranted, Waiting, Holding
  <2>1. CASE queue[m][i] = c
    <3>1. i # 1
      BY <2>1, <1>4, Zenon DEF QueueInv, OnlyHeadGranted
    <3> QED
      BY <2>1, <3>1, <1>3, <1>11, Zenon DEF QueueInv, OnlyHeadGranted, WaitPcs
  <2>2. CASE queue[m][i] # c
    BY <2>2, <1>2, <1>3, <1>11, Zenon DEF QueueInv, OnlyHeadGranted, Waiting, Holding
  <2> QED
    BY <2>1, <2>2, Zenon
<1>16. NextIsSuccessor'
  <2> SUFFICES ASSUME NEW m \in Lock, NEW i \in 1..Len(queue[m])
               PROVE  next'[queue[m][i]] =
                        IF i < Len(queue[m]) /\ pc'[queue[m][i + 1]] # "link"
                        THEN queue[m][i + 1] ELSE NULL
    BY SMTT(30), <1>11 DEF NextIsSuccessor
  <2>0. queue[m][i] \in Ctx
    BY <1>2, Zenon
  <2>1. CASE queue[m][i] = b
    <3>1. m = l /\ i = k - 1
      <4>1. m = l
        <5>1. LockOf[queue[m][i]] = m
          BY Zenon DEF QueueInv, QueueMembers
        <5> QED
          BY <5>1, <2>1, <1>10, Zenon
      <4>2. \A x, y \in 1..Len(q) : q[x] = q[y] => x = y
        BY <1>1, Zenon DEF QueueInv, QueueMembers
      <4>3. q[i] = q[k - 1] /\ i \in 1..Len(q)
        BY <4>1, <2>1, <1>6, Zenon
      <4>4. k - 1 \in 1..Len(q)
        BY <1>7, Zenon
      <4>5. i = k - 1
        BY <4>2, <4>3, <4>4, Zenon
      <4> QED
        BY <4>1, <4>5, Zenon
    <3>2. i + 1 = k /\ i < Len(queue[m])
      BY <3>1, <1>7, Zenon
    <3> QED
      BY <2>1, <3>1, <3>2, <1>3, <1>5, <1>8, <1>11, Zenon
  <2>2. CASE queue[m][i] # b
    <3>1. next'[queue[m][i]] = next[queue[m][i]]
      BY <2>0, <2>2, <1>3, <1>11, Zenon
    <3>2. CASE i < Len(queue[m])
      <4>1. i + 1 \in 1..Len(queue[m]) /\ queue[m][i + 1] \in Ctx
        BY <3>2, <1>1, <1>2, EmptyFacts
      <4>2. queue[m][i + 1] # c
        <5>1. SUFFICES ASSUME queue[m][i + 1] = c PROVE FALSE
          BY Zenon
        <5>2. m = l
          BY <4>1, <5>1, Zenon DEF QueueInv, QueueMembers
        <5>3. i + 1 = k
          BY <4>1, <5>1, <5>2, <1>1, <1>5 DEF QueueInv, QueueMembers
        <5> QED
          BY SMTT(90), <5>2, <5>3, <2>2, <1>6, <1>7
      <4>3. pc'[queue[m][i + 1]] = pc[queue[m][i + 1]]
        BY <4>1, <4>2, <1>3, <1>11, Zenon
      <4> QED
        BY <3>1, <4>3, Zenon DEF QueueInv, NextIsSuccessor
    <3>3. CASE ~(i < Len(queue[m]))
      BY <3>1, <3>3, Zenon DEF QueueInv, NextIsSuccessor
    <3> QED
      BY <3>2, <3>3, Zenon
  <2> QED
    BY <2>1, <2>2, Zenon
<1> QED
  BY <1>8, <1>9, <1>10, <1>12, <1>13, <1>14, <1>15, <1>16, Zenon DEF ListInv

-----------------------------------------------------------------------------
\* Every step of every context, and of the hypervisor, keeps the invariant.
LEMMA QueueInvStep == QueueInv /\ [Next]_vars => QueueInv'
<1> SUFFICES ASSUME QueueInv, [Next]_vars PROVE QueueInv'
  BY Zenon
<1> USE DEF Goto, nodeVars, vcpuVars, flagVars
<1>0. TypeOK /\ ListInv /\ SuccIsNext
  BY Zenon DEF QueueInv, ListInv
<1>q. ASSUME TypeOK', ListInv', SuccIsNext' PROVE QueueInv'
  BY <1>q, Zenon DEF QueueInv, ListInv
<1>1. ASSUME NEW c \in Ctx, Xchg(c) PROVE QueueInv'
  <2>1. SuccIsNext'
    BY <1>0, <1>1, Zenon DEF Xchg, SuccIsNext, TypeOK, Entered
  <2> QED
    BY <2>1, <1>1, <1>q, JoinQueue, Zenon
<1>2. ASSUME NEW c \in Ctx, Link(c) PROVE QueueInv'
  <2>1. prev[c] \in Ctx /\ next[prev[c]] = NULL /\ ListInv' /\ TypeOK'
    BY <1>2, LinkInQueue, Zenon
  <2>2. SuccIsNext'
    BY <2>1, <1>0, <1>2 DEF Link, SuccIsNext, TypeOK
  <2> QED
    BY <2>1, <2>2, <1>q, Zenon
<1>3. ASSUME NEW c \in Ctx, Spin(c) PROVE QueueInv'
  <2>1. TypeOK'
    BY <1>0, <1>3, Zenon DEF Spin, TypeOK, Entered, WaitPcs, HoldPcs, FreePcs
  <2>2. SuccIsNext'
    BY <1>0, <1>3 DEF Spin, SuccIsNext, TypeOK, Entered
  <2>3. Waiting(c) /\ ~Holding(c) /\ Queued(c)
    BY <1>3, Zenon DEF Spin, Queued, Waiting, Holding, WaitPcs, HoldPcs
  <2>4. CASE state[c] = "UNLOCKED"
    <3>1. Entered(c) \in HoldPcs
      BY Zenon DEF Entered, HoldPcs
    <3> QED
      BY <3>1, <2>1, <2>2, <2>3, <2>4, <1>3, <1>q, StayQueued, Zenon DEF Spin
  <2>5. CASE state[c] # "UNLOCKED"
    <3>1. "query" \in WaitPcs \ {"link"}
      BY Zenon DEF WaitPcs
    <3> QED
      BY <3>1, <2>1, <2>2, <2>3, <2>5, <1>3, <1>q, StayQueued, Zenon DEF Spin
  <2> QED
    BY <2>4, <2>5, Zenon
<1>4. ASSUME NEW c \in Ctx, Query(c) PROVE QueueInv'
  <2>1. TypeOK'
    BY <1>0, <1>4, Zenon DEF Query, TypeOK, WaitPcs, HoldPcs, FreePcs
  <2>2. SuccIsNext'
    BY <1>0, <1>4, Zenon DEF Query, SuccIsNext, TypeOK
  <2>3. Waiting(c) /\ ~Holding(c) /\ Queued(c)
    BY <1>4, Zenon DEF Query, Queued, Waiting, Holding, WaitPcs, HoldPcs
  <2>4. {"spin", "trypause"} \subseteq WaitPcs \ {"link"}
    BY Zenon DEF WaitPcs
  <2>5. PICK p \in {"spin", "trypause"} : pc' = [pc EXCEPT ![c] = p]
    BY Zenon, <1>4 DEF Query
  <2> QED
    BY Zenon, <2>1, <2>2, <2>3, <2>4, <2>5, <1>4, <1>q, StayQueued DEF Query
<1>5. ASSUME NEW c \in Ctx, TryPause(c) PROVE QueueInv'
  <2>1. TypeOK'
    BY Zenon, <1>0, <1>5 DEF TryPause, TypeOK, WaitPcs, HoldPcs, FreePcs
  <2>2. SuccIsNext'
    BY <1>0, <1>5 DEF TryPause, SuccIsNext, TypeOK
  <2>3. Waiting(c) /\ ~Holding(c) /\ Queued(c)
    BY <1>5, Zenon DEF TryPause, Queued, Waiting, Holding, WaitPcs, HoldPcs
  <2>4. {"spin", "pause"} \subseteq WaitPcs \ {"link"}
    BY Zenon DEF WaitPcs
  <2>5. PICK p \in {"spin", "pause"} : pc' = [pc EXCEPT ![c] = p]
    BY <1>5, Zenon DEF TryPause
  <2>6. /\ \A d \in Ctx : d # c => state'[d] = state[d]
        /\ state'[c] = "UNLOCKED" <=> state[c] = "UNLOCKED"
    BY <1>0, <1>5, Zenon DEF TryPause, TypeOK
  <2> QED
    BY Zenon, <2>1, <2>2, <2>3, <2>4, <2>5, <2>6, <1>5, <1>q, StayQueued DEF TryPause
<1>6. ASSUME NEW c \in Ctx, Pause(c) PROVE QueueInv'
  <2>1. TypeOK'
    BY Zenon, <1>0, <1>6 DEF Pause, PauseVcpu, TypeOK, WaitPcs, HoldPcs, FreePcs
  <2>2. SuccIsNext'
    BY <1>0, <1>6, Zenon DEF Pause, SuccIsNext, TypeOK
  <2>3. Waiting(c) /\ ~Holding(c) /\ Queued(c)
    BY <1>6, Zenon DEF Pause, Queued, Waiting, Holding, WaitPcs, HoldPcs
  <2>4. "spin" \in WaitPcs \ {"link"}
    BY Zenon DEF WaitPcs
  <2> QED
    BY Zenon, <2>1, <2>2, <2>3, <2>4, <1>6, <1>q, StayQueued DEF Pause
<1>7. ASSUME NEW c \in Ctx, SaveFlags(c) PROVE QueueInv'
  <2>1. TypeOK'
    BY Zenon, <1>0, <1>7, ConstantsAssumption
       DEF SaveFlags, TypeOK, WaitPcs, HoldPcs, FreePcs
  <2>2. SuccIsNext'
    BY <1>0, <1>7, Zenon DEF SaveFlags, SuccIsNext, TypeOK
  <2>3. Holding(c) /\ ~Waiting(c) /\ Queued(c)
    BY <1>7, Zenon DEF SaveFlags, Queued, Waiting, Holding, WaitPcs, HoldPcs
  <2>4. "cs" \in HoldPcs
    BY Zenon DEF HoldPcs
  <2> QED
    BY Zenon, <2>1, <2>2, <2>3, <2>4, <1>7, <1>q, StayQueued DEF SaveFlags
<1>8. ASSUME NEW c \in Ctx, ReadNext(c) PROVE QueueInv'
  <2>1. TypeOK'
    BY <1>0, <1>8, ConstantsAssumption, Zenon
       DEF ReadNext, TypeOK, WaitPcs, HoldPcs, FreePcs
  <2>2. SuccIsNext'
    BY <1>0, <1>8, Zenon DEF ReadNext, SuccIsNext, TypeOK
  <2>3. Holding(c) /\ ~Waiting(c) /\ Queued(c)
    BY <1>8, Zenon DEF ReadNext, Queued, Waiting, Holding, WaitPcs, HoldPcs
  <2>4. {"cas", "grant"} \subseteq HoldPcs
    BY Zenon DEF HoldPcs
  <2>5. PICK p \in {"cas", "grant"} : pc' = [pc EXCEPT ![c] = p]
    BY Zenon, <1>8 DEF ReadNext
  <2> QED
    BY Zenon, <2>1, <2>2, <2>3, <2>4, <2>5, <1>8, <1>q, StayQueued DEF ReadNext
<1>9. ASSUME NEW c \in Ctx, CasTail(c) PROVE QueueInv'
  <2>1. SuccIsNext'
    BY <1>0, <1>9 DEF CasTail, SuccIsNext, TypeOK
  <2>2. Holding(c) /\ ~Waiting(c) /\ Queued(c) /\ pc[c] = "cas"
    BY <1>9, Zenon DEF CasTail, Queued, Waiting, Holding, WaitPcs, HoldPcs
  <2>3. CASE tail[LockOf[c]] = c
    <3>1. "restore" \in FreePcs
      BY Zenon DEF FreePcs
    <3>2. ListInv' /\ queue' \in [Lock -> Seq(Ctx)]
      BY <3>1, <2>2, <2>3, <1>9, LeaveQueue, Zenon DEF CasTail
    <3>3. TypeOK'
      BY Zenon, <3>2, <2>3, <1>0, <1>9, ConstantsAssumption
         DEF CasTail, TypeOK, WaitPcs, HoldPcs, FreePcs
    <3> QED
      BY <2>1, <3>2, <3>3, <1>q, Zenon
  <2>4. CASE tail[LockOf[c]] # c
    <3>1. "waitnext" \in HoldPcs
      BY Zenon DEF HoldPcs
    <3>2. TypeOK'
      BY SMTT(60), <2>4, <1>0, <1>9 DEF CasTail, TypeOK, WaitPcs, HoldPcs, FreePcs
    <3> QED
      BY Zenon, <2>1, <2>2, <2>4, <3>1, <3>2, <1>9, <1>q, StayQueued DEF CasTail
  <2> QED
    BY <2>3, <2>4, Zenon
<1>10. ASSUME NEW c \in Ctx, WaitNext(c) PROVE QueueInv'
  <2>1. TypeOK'
    BY <1>0, <1>10, Zenon DEF WaitNext, TypeOK, WaitPcs, HoldPcs, FreePcs
  <2>2. SuccIsNext'
    BY <1>0, <1>10, Zenon DEF WaitNext, SuccIsNext, TypeOK
  <2>3. Holding(c) /\ ~Waiting(c) /\ Queued(c)
    BY <1>10, Zenon DEF WaitNext, Queued, Waiting, Holding, WaitPcs, HoldPcs
  <2>4. "grant" \in HoldPcs
    BY Zenon DEF HoldPcs
  <2> QED
    BY Zenon, <2>1, <2>2, <2>3, <2>4, <1>10, <1>q, StayQueued DEF WaitNext
<1>11. ASSUME NEW c \in Ctx, Grant(c) PROVE QueueInv'
  <2>1. Holding(c) /\ ~Waiting(c) /\ Queued(c) /\ pc[c] = "grant"
    BY Zenon, <1>11 DEF Grant, Queued, Waiting, Holding, WaitPcs, HoldPcs
  <2>2. succ[c] = next[c] /\ next[c] # NULL /\ next[c] \in Ctx
    BY <2>1, <1>0, Zenon DEF SuccIsNext, TypeOK
  <2>3. SuccIsNext'
    BY <2>2, <1>0, <1>11 DEF Grant, SuccIsNext, TypeOK
  <2>4. CASE /\ state' = [state EXCEPT ![succ[c]] = "UNLOCKED"]
             /\ Dequeue(c)
             /\ pc' = [pc EXCEPT ![c] = "restore"]
    <3>1. "restore" \in FreePcs
      BY DEF FreePcs
    <3>2. ListInv' /\ queue' \in [Lock -> Seq(Ctx)]
      BY Zenon, <3>1, <2>1, <2>2, <2>4, <1>11, LeaveQueue DEF Grant
    <3>3. TypeOK'
      BY Zenon, <3>2, <2>4, <1>0, <1>11 DEF Grant, TypeOK, WaitPcs, HoldPcs, FreePcs
    <3> QED
      BY <2>3, <3>2, <3>3, <1>q
  <2>5. CASE pc' = [pc EXCEPT ![c] = "handoff"] /\ UNCHANGED <<state, queue>>
    <3>1. "handoff" \in HoldPcs
      BY Zenon DEF HoldPcs
    <3>2. TypeOK'
      BY <2>5, <1>0, <1>11, Zenon DEF Grant, TypeOK, WaitPcs, HoldPcs, FreePcs
    <3> QED
      BY Zenon, <2>1, <2>3, <2>5, <3>1, <3>2, <1>11, <1>q, StayQueued DEF Grant
  <2> QED
    BY <2>4, <2>5, <1>11, Zenon DEF Grant
<1>12. ASSUME NEW c \in Ctx, Handoff(c) PROVE QueueInv'
  <2>1. Holding(c) /\ ~Waiting(c) /\ Queued(c) /\ pc[c] = "handoff"
    BY <1>12, Zenon DEF Handoff, Queued, Waiting, Holding, WaitPcs, HoldPcs
  <2>2. succ[c] = next[c] /\ next[c] # NULL /\ next[c] \in Ctx
    BY <2>1, <1>0, Zenon DEF SuccIsNext, TypeOK
  <2>3. SuccIsNext'
    BY <2>2, <1>0, <1>12, Zenon DEF Handoff, SuccIsNext, TypeOK
  <2>4. "kick" \in FreePcs
    BY Zenon DEF FreePcs
  <2>5. ListInv' /\ queue' \in [Lock -> Seq(Ctx)]
    BY Zenon, <2>1, <2>2, <2>4, <1>12, LeaveQueue DEF Handoff
  <2>6. TypeOK'
    BY Zenon, <2>5, <1>0, <1>12 DEF Handoff, TypeOK, WaitPcs, HoldPcs, FreePcs
  <2> QED
    BY <2>3, <2>5, <2>6, <1>q
<1>13. ASSUME NEW c \in Ctx, Kick(c) PROVE QueueInv'
  <2>1. TypeOK'
    BY <1>0, <1>13 DEF Kick, KickVcpu, TypeOK, WaitPcs, HoldPcs, FreePcs
  <2>2. SuccIsNext'
    BY <1>0, <1>13, Zenon DEF Kick, SuccIsNext, TypeOK
  <2>3. pc[c] \in FreePcs /\ "restore" \in FreePcs
    BY Zenon, <1>13 DEF Kick, FreePcs
  <2> QED
    BY Zenon, <2>1, <2>2, <2>3, <1>13, <1>q, StayOutside DEF Kick
<1>14. ASSUME NEW c \in Ctx, Restore(c) PROVE QueueInv'
  <2>1. TypeOK'
    BY ZenonT(60), <1>0, <1>14, ConstantsAssumption
       DEF Restore, TypeOK, WaitPcs, HoldPcs, FreePcs
  <2>2. SuccIsNext'
    BY <1>0, <1>14, Zenon DEF Restore, SuccIsNext, TypeOK
  <2>3. pc[c] \in FreePcs /\ "idle" \in FreePcs
    BY <1>14, Zenon DEF Restore, FreePcs
  <2>4. \A d \in Ctx : d # c => /\ state'[d] = state[d] /\ next'[d] = next[d]
                                /\ prev'[d] = prev[d]
    BY <1>0, <1>14, Zenon DEF Restore, TypeOK
  <2> QED
    BY Zenon, <2>1, <2>2, <2>3, <2>4, <1>14, <1>q, StayOutside DEF Restore
<1>15. ASSUME UNCHANGED <<tail, next, state, prev, succ, pc, queue>>, TypeOK'
       PROVE  QueueInv'
  <2>1. QueueMembers'
    BY <1>15, <1>0, ZenonT(60) DEF ListInv, QueueMembers, Queued, Waiting, Holding
  <2>2. TailIsLast'
    BY <1>15, <1>0, Zenon DEF ListInv, TailIsLast
  <2>3. OnlyHeadGranted'
    BY <1>15, <1>0, Zenon DEF ListInv, OnlyHeadGranted, Waiting, Holding
  <2>4. NextIsSuccessor'
    BY <1>15, <1>0, Zenon DEF ListInv, NextIsSuccessor
  <2>5. SuccIsNext'
    BY <1>15, <1>0, Zenon DEF SuccIsNext
  <2> QED
    BY <1>15, <1>q, <2>1, <2>2, <2>3, <2>4, <2>5, Zenon DEF ListInv
<1>16. ASSUME NEW v \in Vcpu, Preempt(v) \/ Dispatch(v) \/ CallerSetsIntr(v)
       PROVE  QueueInv'
  BY ZenonT(60), <1>15, <1>16, <1>0 DEF Preempt, Dispatch, CallerSetsIntr, TypeOK
<1>17. CASE UNCHANGED vars
  BY <1>15, <1>17, <1>0, Zenon DEF vars, TypeOK
<1> QED
  BY <1>1, <1>2, <1>3, <1>4, <1>5, <1>6, <1>7, <1>8, <1>9, <1>10, <1>11, <1>12,
     <1>13, <1>14, <1>16, <1>17, Zenon DEF Next, Continue

\* The queue invariant holds in every reachable state.
THEOREM QueueInvariant == Spec => []QueueInv
BY QueueInvInit, QueueInvStep, PTL DEF Spec

\* Every variable keeps the type of the field or local it stands for.
THEOREM TypeCorrect == Spec => []TypeOK
<1>1. QueueInv => TypeOK
  BY Zenon DEF QueueInv
<1> QED
  BY <1>1, QueueInvariant, PTL

\* No two contexts are between mcs_lock and mcs_unlock of one lock, whether it
\* is plain or paravirtualised and whatever handlers interrupt its users.
THEOREM MutualExclusionHolds == Spec => []MutualExclusion
<1>1. QueueInv => MutualExclusion
  BY HolderIsHead, Zenon DEF MutualExclusion
<1> QED
  BY <1>1, QueueInvariant, PTL

\* A context that is about to link has a predecessor, which is still queued.
LEMMA LinkingHasPredecessor ==
    ASSUME QueueInv, NEW c \in Ctx, pc[c] = "link"
    PROVE  prev[c] \in Ctx /\ Queued(prev[c])
<1> DEFINE l == LockOf[c] q == queue[l]
<1>1. l \in Lock /\ q \in Seq(Ctx)
  BY ConstantsAssumption, Zenon DEF QueueInv, TypeOK
<1>2. PICK k \in 1..Len(q) : q[k] = c
  BY Zenon DEF QueueInv, QueueMembers, Queued, Waiting, WaitPcs
<1>3. k # 1 /\ prev[c] = q[k - 1]
  BY <1>1, <1>2 DEF QueueInv, OnlyHeadGranted, Holding, HoldPcs
<1>4. k - 1 \in 1..Len(q) /\ q[k - 1] \in Ctx
  BY <1>1, <1>2, <1>3, EmptyFacts
<1> QED
  BY <1>1, <1>3, <1>4 DEF QueueInv, QueueMembers

\* Nodes live on their callers' stacks; no context follows a pointer to the
\* node of a context that is not queued.
THEOREM NodesAliveHolds == Spec => []NodesAlive
<1>1. QueueInv => NodesAlive
  <2> SUFFICES ASSUME QueueInv, NEW c \in Ctx
               PROVE  /\ pc[c] = "link" => Queued(prev[c])
                      /\ pc[c] \in {"grant", "handoff"} =>
                            succ[c] # NULL /\ Waiting(succ[c])
    BY DEF NodesAlive
  <2>1. ASSUME pc[c] \in {"grant", "handoff"}
        PROVE  succ[c] # NULL /\ Waiting(succ[c])
    BY <2>1, NextOfHolder, Zenon DEF QueueInv, SuccIsNext, Holding, HoldPcs
  <2> QED
    BY <2>1, LinkingHasPredecessor, Zenon
<1> QED
  BY <1>1, QueueInvariant, PTL

-----------------------------------------------------------------------------
(* The MCS lock implements the FIFO lock. *)

\* A waiting context whose node says UNLOCKED is the head of the queue.
LEMMA HandedIsHead ==
    ASSUME QueueInv, NEW c \in Ctx, Waiting(c), state[c] = "UNLOCKED"
    PROVE  queue[LockOf[c]] # <<>> /\ queue[LockOf[c]][1] = c
<1> DEFINE q == queue[LockOf[c]]
<1>1. LockOf[c] \in Lock /\ q \in Seq(Ctx)
  BY ConstantsAssumption, Zenon DEF QueueInv, TypeOK
<1>2. PICK i \in 1..Len(q) : q[i] = c
  BY Zenon DEF QueueInv, QueueMembers, Queued
<1>3. i = 1
  BY SMTT(90), <1>1, <1>2 DEF QueueInv, OnlyHeadGranted
<1> QED
  BY <1>1, <1>2, <1>3, EmptyFacts

\* The abstract status of a context, as the refinement mapping gives it.
StatusOf(c) == IF Waiting(c) THEN "waiting" ELSE IF Holding(c) THEN "in" ELSE "out"

\* A step of one context from p to another place changes no other's status.
LEMMA StatusStep ==
    ASSUME TypeOK, NEW c \in Ctx, NEW p, pc' = [pc EXCEPT ![c] = p]
    PROVE  /\ pc'[c] = p
           /\ \A d \in Ctx : d # c => StatusOf(d)' = StatusOf(d)
BY Zenon DEF TypeOK, StatusOf, Waiting, Holding

\* Every step is a step of the FIFO lock or leaves its variables unchanged.
LEMMA FifoStep == QueueInv /\ [Next]_vars => [Fifo!Next]_(Fifo!vars)
<1> SUFFICES ASSUME QueueInv, [Next]_vars PROVE [Fifo!Next]_(Fifo!vars)
  BY Zenon
<1> DEFINE st == [c \in Ctx |-> StatusOf(c)]
<1> USE DEF Goto, nodeVars, vcpuVars, flagVars
<1>t. TypeOK
  BY Zenon DEF QueueInv
<1>v. Fifo!vars = <<queue, st>>
  BY Zenon DEF Fifo!vars, StatusOf
<1>s. ASSUME UNCHANGED queue, \A c \in Ctx : StatusOf(c)' = StatusOf(c)
      PROVE  UNCHANGED Fifo!vars
  BY <1>s, Zenon DEF Fifo!vars, StatusOf
<1>1. ASSUME NEW c \in Ctx, Xchg(c) PROVE Fifo!Next
  <2>1. queue[LockOf[c]] = <<>> <=> tail[LockOf[c]] = NULL
    <3>1. LockOf[c] \in Lock /\ queue[LockOf[c]] \in Seq(Ctx)
      BY <1>t, ConstantsAssumption, Zenon DEF TypeOK
    <3>2. queue[LockOf[c]] # <<>> =>
             queue[LockOf[c]][Len(queue[LockOf[c]])] \in Ctx
      BY <3>1, EmptyFacts
    <3> QED
      BY <3>1, <3>2, ConstantsAssumption, Zenon DEF QueueInv, TailIsLast
  <2>2. StatusOf(c) = "out"
    BY <1>1, Zenon DEF Xchg, StatusOf, Waiting, Holding, WaitPcs, HoldPcs
  <2>3. PICK p : p = (IF tail[LockOf[c]] = NULL THEN Entered(c) ELSE "link")
                 /\ pc' = [pc EXCEPT ![c] = p]
    BY Zenon, <1>1 DEF Xchg
  <2>4. StatusOf(c)' = IF queue[LockOf[c]] = <<>> THEN "in" ELSE "waiting"
    <3>1. pc'[c] = p
      BY Zenon, <1>t, <2>3, StatusStep
    <3>2. CASE queue[LockOf[c]] = <<>>
      BY <3>1, <3>2, <2>1, <2>3, Zenon
         DEF StatusOf, Waiting, Holding, Entered, WaitPcs, HoldPcs
    <3>3. CASE queue[LockOf[c]] # <<>>
      BY <3>1, <3>3, <2>1, <2>3, Zenon DEF StatusOf, Waiting, WaitPcs
    <3> QED
      BY <3>2, <3>3, Zenon
  <2>5. st' = [st EXCEPT ![c] = IF queue[LockOf[c]] = <<>> THEN "in" ELSE "waiting"]
    BY Zenon, <1>t, <2>3, <2>4, StatusStep
  <2>6. st[c] = "out" /\ queue' = [queue EXCEPT ![LockOf[c]] = Append(@, c)]
    BY <1>1, <2>2, Zenon DEF Xchg
  <2>7. Fifo!Request(c)
    BY <2>5, <2>6, Zenon DEF Fifo!Request, StatusOf
  <2> QED
    BY <2>7, Zenon DEF Fifo!Next
<1>2. ASSUME NEW c \in Ctx, Spin(c), state[c] = "UNLOCKED" PROVE Fifo!Next
  <2>1. Waiting(c) /\ StatusOf(c) = "waiting"
    BY <1>2, Zenon DEF Spin, StatusOf, Waiting, WaitPcs
  <2>2. queue[LockOf[c]] # <<>> /\ queue[LockOf[c]][1] = c
    BY <1>2, <2>1, HandedIsHead, Zenon
  <2>3. Head(queue[LockOf[c]]) = c
    BY <2>2, <1>t, ConstantsAssumption, TailFacts, Zenon DEF TypeOK
  <2>4. PICK p : p = Entered(c) /\ pc' = [pc EXCEPT ![c] = p]
    BY <1>2, Zenon DEF Spin
  <2>5. StatusOf(c)' = "in"
    BY ZenonT(30), <1>t, <2>4, StatusStep
       DEF StatusOf, Waiting, Holding, Entered, WaitPcs, HoldPcs
  <2>6. st' = [st EXCEPT ![c] = "in"] /\ UNCHANGED queue
    BY Zenon, <1>2, <1>t, <2>4, <2>5, StatusStep DEF Spin
  <2>7. Fifo!Enter(c)
    BY <2>1, <2>2, <2>3, <2>6, Zenon DEF Fifo!Enter, StatusOf
  <2> QED
    BY <2>7, Zenon DEF Fifo!Next
<1>3. ASSUME NEW c \in Ctx, NEW p \in FreePcs, Holding(c), Dequeue(c),
             pc' = [pc EXCEPT ![c] = p]
      PROVE  Fifo!Next
  <2>1. queue[LockOf[c]] # <<>> /\ queue[LockOf[c]][1] = c
    BY <1>3, HolderIsHead, Zenon
  <2>2. Head(queue[LockOf[c]]) = c
    BY <2>1, <1>t, ConstantsAssumption, TailFacts, Zenon DEF TypeOK
  <2>3. StatusOf(c) = "in"
    BY <1>3, Zenon DEF StatusOf, Waiting, Holding, WaitPcs, HoldPcs
  <2>4. StatusOf(c)' = "out"
    BY Zenon, <1>3, <1>t, StatusStep DEF StatusOf, Waiting, Holding, WaitPcs, HoldPcs, FreePcs
  <2>5. st' = [st EXCEPT ![c] = "out"]
    BY Zenon, <1>3, <1>t, <2>4, StatusStep
  <2>6. Fifo!Release(c)
    BY <1>3, <2>1, <2>2, <2>3, <2>5, Zenon DEF Fifo!Release, Dequeue, StatusOf
  <2> QED
    BY <2>6, Zenon DEF Fifo!Next
<1>4. ASSUME NEW c \in Ctx, NEW p, pc' = [pc EXCEPT ![c] = p], UNCHANGED queue,
             \/ pc[c] \in WaitPcs /\ p \in WaitPcs
             \/ pc[c] \in HoldPcs /\ p \in HoldPcs
             \/ pc[c] \in FreePcs /\ p \in FreePcs
      PROVE  UNCHANGED Fifo!vars
  <2>1. StatusOf(c)' = StatusOf(c)
    BY <1>4, <1>t, StatusStep, Zenon
       DEF StatusOf, Waiting, Holding, WaitPcs, HoldPcs, FreePcs
  <2> QED
    BY Zenon, <2>1, <1>4, <1>t, <1>s, StatusStep
<1>5. ASSUME NEW c \in Ctx, Continue(c) PROVE [Fifo!Next]_(Fifo!vars)
  <2>1. CASE Link(c)
    BY Zenon, <2>1, <1>4 DEF Link, WaitPcs
  <2>2. CASE Spin(c)
    BY <2>2, <1>2, <1>4, Zenon DEF Spin, WaitPcs
  <2>3. CASE Query(c)
    BY Zenon, <2>3, <1>4 DEF Query, WaitPcs
  <2>4. CASE TryPause(c)
    BY <2>4, <1>4, Zenon DEF TryPause, WaitPcs
  <2>5. CASE Pause(c)
    BY Zenon, <2>5, <1>4 DEF Pause, WaitPcs
  <2>6. CASE SaveFlags(c)
    BY Zenon, <2>6, <1>4 DEF SaveFlags, HoldPcs
  <2>7. CASE ReadNext(c)
    BY Zenon, <2>7, <1>4 DEF ReadNext, HoldPcs
  <2>8. CASE CasTail(c)
    BY <2>8, <1>3, <1>4, Zenon DEF CasTail, Holding, HoldPcs, FreePcs
  <2>9. CASE WaitNext(c)
    BY Zenon, <2>9, <1>4 DEF WaitNext, HoldPcs
  <2>10. CASE Grant(c)
    BY <2>10, <1>3, <1>4, Zenon DEF Grant, Holding, HoldPcs, FreePcs
  <2>11. CASE Handoff(c)
    BY Zenon, <2>11, <1>3 DEF Handoff, Holding, HoldPcs, FreePcs
  <2>12. CASE Kick(c)
    BY Zenon, <2>12, <1>4 DEF Kick, FreePcs
  <2>13. CASE Restore(c)
    BY Zenon, <2>13, <1>4 DEF Restore, FreePcs
  <2> QED
    BY <1>5, <2>1, <2>2, <2>3, <2>4, <2>5, <2>6, <2>7, <2>8, <2>9, <2>10, <2>11,
       <2>12, <2>13, Zenon DEF Continue
<1>6. ASSUME UNCHANGED <<pc, queue>> PROVE UNCHANGED Fifo!vars
  BY <1>6, <1>s, Zenon DEF StatusOf, Waiting, Holding
<1> QED
  BY <1>1, <1>5, <1>6, Zenon DEF Next, Preempt, Dispatch, CallerSetsIntr, vars

\* The MCS lock, plain or paravirtualised, is a FIFO lock: contexts enter in
\* the order of their xchg of the tail.
THEOREM ImplementsFifoLock == Spec => ImplementsFifo
<1>1. Init => Fifo!Init
  BY DEF Init, Fifo!Init, Waiting, Holding, WaitPcs, HoldPcs
<1> QED
  BY <1>1, FifoStep, QueueInvariant, PTL DEF Spec, ImplementsFifo, Fifo!Spec

-----------------------------------------------------------------------------
(* The interrupt flag. *)

\* The flag in the lock is the one its holder saved, and so is the one that
\* the holder passes to unlock.
FlagsInv ==
    \A c \in Ctx : LockOf[c] \in IsrLocks =>
        /\ pc[c] \in HoldPcs \ {"save"} => flags[LockOf[c]] = saved[c]
        /\ pc[c] \in {"cas", "waitnext", "grant", "handoff", "kick", "restore"} =>
              param[c] = saved[c]

\* Only the holder writes the flag in the lock, so no step breaks FlagsInv.
LEMMA FlagsStep == QueueInv /\ FlagsInv /\ [Next]_vars => FlagsInv'
<1> SUFFICES ASSUME QueueInv, FlagsInv, [Next]_vars PROVE FlagsInv'
  BY Zenon
<1> USE DEF Goto, nodeVars, vcpuVars, flagVars
<1>t. TypeOK
  BY Zenon DEF QueueInv
<1>1. ASSUME NEW c \in Ctx, Xchg(c) PROVE FlagsInv'
  BY <1>1, <1>t, Zenon DEF Xchg, FlagsInv, TypeOK, Entered, HoldPcs
<1>2. ASSUME NEW c \in Ctx, SaveFlags(c) PROVE FlagsInv'
  <2>1. ASSUME NEW d \in Ctx, d # c, pc[d] \in HoldPcs PROVE LockOf[d] # LockOf[c]
    <3>1. Holding(c) /\ Holding(d)
      BY <1>2, <2>1, Zenon DEF SaveFlags, Holding, HoldPcs
    <3> QED
      BY <2>1, <3>1, HolderIsHead, Zenon
  <2>2. LockOf[c] \in Lock
    BY ConstantsAssumption, Zenon
  <2> QED
    BY <1>2, <1>t, <2>1, <2>2 DEF SaveFlags, FlagsInv, TypeOK, HoldPcs
<1>3. ASSUME NEW c \in Ctx, ReadNext(c) PROVE FlagsInv'
  BY <1>3, <1>t DEF ReadNext, FlagsInv, TypeOK, HoldPcs
<1>4. ASSUME NEW c \in Ctx, Restore(c) PROVE FlagsInv'
  BY <1>4, <1>t, Zenon DEF Restore, FlagsInv, TypeOK, HoldPcs
<1>5. ASSUME NEW c \in Ctx, Spin(c) PROVE FlagsInv'
  BY <1>5, <1>t DEF Spin, FlagsInv, TypeOK, Entered, HoldPcs
<1>6. ASSUME NEW c \in Ctx,
             Link(c) \/ Query(c) \/ TryPause(c) \/ Pause(c)
      PROVE  FlagsInv'
  BY SMTT(90), <1>6, <1>t DEF Link, Query, TryPause, Pause, FlagsInv, TypeOK, HoldPcs
<1>7. ASSUME NEW c \in Ctx,
             CasTail(c) \/ WaitNext(c) \/ Grant(c) \/ Handoff(c) \/ Kick(c)
      PROVE  FlagsInv'
  BY SMTT(90), <1>7, <1>t DEF CasTail, WaitNext, Grant, Handoff, Kick, FlagsInv, TypeOK, HoldPcs
<1>8. ASSUME NEW v \in Vcpu, Preempt(v) \/ Dispatch(v) \/ CallerSetsIntr(v)
      PROVE  FlagsInv'
  BY <1>8, Zenon DEF Preempt, Dispatch, CallerSetsIntr, FlagsInv
<1>9. CASE UNCHANGED vars
  BY <1>9, Zenon DEF vars, FlagsInv
<1> QED
  BY <1>1, <1>2, <1>3, <1>4, <1>5, <1>6, <1>7, <1>8, <1>9, Zenon DEF Next, Continue

\* mcs_unlock_isr_restore puts the interrupt flag back to what it was before
\* mcs_lock_isr_save.
THEOREM InterruptsAreRestored == Spec => InterruptsRestored
<1> DEFINE A == \A c \in Ctx \ Isr :
                   /\ pc[c] = "restore" /\ pc'[c] = "idle"
                   /\ LockOf[c] \in IsrLocks
                   => intr'[VcpuOf[c]] = saved[c]
<1>1. Init => FlagsInv
  BY Zenon DEF Init, FlagsInv, HoldPcs
<1>2. QueueInv /\ FlagsInv /\ [Next]_vars => [A]_vars
  <2> SUFFICES ASSUME QueueInv, FlagsInv, Next, NEW c \in Ctx \ Isr,
                      pc[c] = "restore", pc'[c] = "idle", LockOf[c] \in IsrLocks
               PROVE  intr'[VcpuOf[c]] = saved[c]
    BY Zenon
  <2>0. TypeOK
    BY ZenonT(60) DEF QueueInv
  <2>1. Restore(c)
    <3>1. PICK d \in Ctx : Xchg(d) \/ Continue(d)
      BY DEF Next, Preempt, Dispatch, CallerSetsIntr, nodeVars
    <3>2. \E p : pc' = [pc EXCEPT ![d] = p]
      BY Zenon, <3>1 DEF Continue, Xchg, Link, Spin, Query, TryPause, Pause, SaveFlags,
             ReadNext, CasTail, WaitNext, Grant, Handoff, Kick, Restore, Goto
    <3>3. d = c
      BY <2>0, <3>2, Zenon DEF TypeOK
    <3> QED
      BY ZenonT(60), <3>1, <3>3 DEF Continue, Xchg, Link, Spin, Query, TryPause, Pause,
             SaveFlags, ReadNext, CasTail, WaitNext, Grant, Handoff, Kick
  <2> QED
    BY Zenon, <2>0, <2>1, ConstantsAssumption DEF Restore, TypeOK, FlagsInv
<1> QED
  BY <1>1, <1>2, FlagsStep, QueueInvariant, PTL DEF Spec, InterruptsRestored, RestoreStep

-----------------------------------------------------------------------------
(* Pauses and kicks, where no handler waits on top of a waiting context.     *)

\* Each vcpu runs one context.
OneContextPerVcpu == \A c, d \in Ctx : VcpuOf[c] = VcpuOf[d] => c = d

\* c is at its pause, or blocked in it.
Committed(c) == \/ pc[c] = "pause"
                \/ pc[c] = "spin" /\ pvSpin[VcpuOf[c]] = "PAUSED"

\* d has handed its lock to c and has not kicked it yet.
Kicks(d, c) == pc[d] = "kick" /\ succ[d] = c

\* The places of a context that agree with its vcpu's pv_spin_state and with
\* its node's state.
PauseAgrees(c) ==
    /\ pvSpin[VcpuOf[c]] = "PAUSED" => pc[c] = "spin"
    /\ pvSpin[VcpuOf[c]] = "KICKED" => pc[c] = "pause" /\ state[c] = "UNLOCKED"
    /\ state[c] = "PAUSED" => Committed(c)
    /\ Committed(c) => state[c] # "LOCKED"
    /\ pc[c] \in {"link", "idle"} => state[c] = "LOCKED"
    /\ pc[c] = "handoff" => state[succ[c]] = "PAUSED"
    /\ LockOf[c] \notin PvLocks =>
          ~Committed(c) /\ pc[c] \notin {"query", "trypause"}

\* A context that was handed the lock while committed to a pause has exactly
\* one kick coming, until that kick has left its mark.
Handed(c) == Committed(c) /\ state[c] = "UNLOCKED"

OneKickEach ==
    /\ \A c \in Ctx : Handed(c) /\ pvSpin[VcpuOf[c]] # "KICKED"
                      => \E d \in Ctx : Kicks(d, c)
    /\ \A c, d \in Ctx : Kicks(d, c) => Handed(c) /\ pvSpin[VcpuOf[c]] # "KICKED"
    /\ \A c, d, e \in Ctx : Kicks(d, c) /\ Kicks(e, c) => d = e

\* Pauses and kicks pair off.
KickInv ==
    /\ \A v \in Vcpu : pvSpin[v] = "PAUSED" <=> vstate[v] = "spinning"
    /\ \A c \in Ctx : PauseAgrees(c)
    /\ OneKickEach

\* The successor of a holder uses the holder's lock.
LEMMA LockOfNext ==
    ASSUME QueueInv, NEW c \in Ctx, Holding(c), next[c] # NULL
    PROVE  LockOf[next[c]] = LockOf[c]
<1>1. LET q == queue[LockOf[c]] IN Len(q) > 1 /\ next[c] = q[2]
  BY NextOfHolder, Zenon
<1>2. LockOf[c] \in Lock /\ queue[LockOf[c]] \in Seq(Ctx)
  BY ConstantsAssumption, Zenon DEF QueueInv, TypeOK
<1>3. 2 \in 1..Len(queue[LockOf[c]])
  BY <1>1, <1>2, EmptyFacts
<1> QED
  BY <1>1, <1>2, <1>3 DEF QueueInv, QueueMembers

\* Different holders hand over to different contexts.
LEMMA SuccessorsDiffer ==
    ASSUME QueueInv, NEW c \in Ctx, NEW d \in Ctx, Holding(c), Holding(d),
           next[c] # NULL, next[c] = next[d]
    PROVE  c = d
BY LockOfNext, HolderIsHead

\* A step that hands no committed context the lock, and neither pauses nor
\* kicks, keeps OneKickEach.
LEMMA OneKickFrame ==
    ASSUME OneKickEach, UNCHANGED pvSpin,
           \A d \in Ctx : Handed(d)' <=> Handed(d),
           \A d, e \in Ctx : Kicks(d, e)' <=> Kicks(d, e)
    PROVE  OneKickEach'
BY Zenon DEF OneKickEach

\* A step that leaves a context's place, node and pv_spin_state alone, and the
\* node it is about to hand over to, keeps what they agree on.
LEMMA AgreesFrame ==
    ASSUME NEW d \in Ctx, PauseAgrees(d), pc'[d] = pc[d], state'[d] = state[d],
           pvSpin'[VcpuOf[d]] = pvSpin[VcpuOf[d]],
           pc[d] = "handoff" => state'[succ'[d]] = state[succ[d]]
    PROVE  PauseAgrees(d)'
BY ZenonT(60) DEF PauseAgrees, Committed

\* A step that leaves the contexts and the pv_spin_state alone keeps KickInv.
LEMMA KickFrame ==
    ASSUME KickInv, UNCHANGED <<pc, state, succ, pvSpin>>,
           \A v \in Vcpu : pvSpin'[v] = "PAUSED" <=> vstate'[v] = "spinning"
    PROVE  KickInv'
<1>1. ASSUME NEW d \in Ctx PROVE PauseAgrees(d)'
  <2>1. PauseAgrees(d)
    BY Zenon DEF KickInv
  <2> QED
    BY ZenonT(30), <2>1 DEF PauseAgrees, Committed
<1>2. /\ \A d \in Ctx : Handed(d)' <=> Handed(d)
      /\ \A d, e \in Ctx : Kicks(d, e)' <=> Kicks(d, e)
  BY ZenonT(30) DEF Handed, Kicks, Committed
<1>3. OneKickEach'
  BY ZenonT(30), <1>2, OneKickFrame DEF KickInv
<1> QED
  BY ZenonT(30), <1>1, <1>3 DEF KickInv

\* Every step keeps the pairing of pauses and kicks.
LEMMA KickInvStep ==
    ASSUME OneContextPerVcpu, QueueInv, KickInv, [Next]_vars
    PROVE  KickInv'
<1> USE DEF Goto, nodeVars, vcpuVars, flagVars, Committed, Kicks, Handed
<1>t. TypeOK /\ SuccIsNext
  BY Zenon DEF QueueInv
<1>k. (\A d \in Ctx : PauseAgrees(d)) /\ OneKickEach
  BY Zenon DEF KickInv
<1>m. \A v \in Vcpu : pvSpin[v] = "PAUSED" <=> vstate[v] = "spinning"
  BY Zenon DEF KickInv
<1>r. \A d \in Ctx : Runs(d) => pvSpin[VcpuOf[d]] # "PAUSED"
  BY <1>m, ConstantsAssumption, Zenon DEF Runs
<1>1. ASSUME NEW c \in Ctx, Xchg(c) PROVE KickInv'
  <2>1. \A v \in Vcpu : pvSpin'[v] = "PAUSED" <=> vstate'[v] = "spinning"
    BY <1>1, <1>m, Zenon DEF Xchg
  <2>2. (\A d \in Ctx : PauseAgrees(d))'
    BY <1>1, <1>t, <1>k, <1>r, ConstantsAssumption
       DEF Xchg, Entered, TypeOK, SuccIsNext, PauseAgrees
  <2>3. /\ \A d \in Ctx : Handed(d)' <=> Handed(d)
        /\ \A d, e \in Ctx : Kicks(d, e)' <=> Kicks(d, e)
    <3>1. \A d \in Ctx : Handed(d)' <=> Handed(d)
      BY SMTT(60), <1>1, <1>t, <1>k, <1>r DEF Xchg, Entered, TypeOK, PauseAgrees
    <3>2. \A d, e \in Ctx : Kicks(d, e)' <=> Kicks(d, e)
      BY <1>1, <1>t, <1>k, <1>r DEF Xchg, Entered, TypeOK, PauseAgrees
    <3> QED BY <3>1, <3>2, ZenonT(60)
  <2>4. OneKickEach'
    BY Zenon, <2>3, <1>1, <1>k, OneKickFrame DEF Xchg
  <2> QED
    BY <2>1, <2>2, <2>4, Zenon DEF KickInv
<1>2. ASSUME NEW c \in Ctx, Link(c) PROVE KickInv'
  <2>1. \A v \in Vcpu : pvSpin'[v] = "PAUSED" <=> vstate'[v] = "spinning"
    BY <1>2, <1>m DEF Link
  <2>2. (\A d \in Ctx : PauseAgrees(d))'
    BY SMTT(60), <1>2, <1>t, <1>k, <1>r, ConstantsAssumption
       DEF Link, TypeOK, SuccIsNext, PauseAgrees
  <2>3. /\ \A d \in Ctx : Handed(d)' <=> Handed(d)
        /\ \A d, e \in Ctx : Kicks(d, e)' <=> Kicks(d, e)
    <3>1. \A d \in Ctx : Handed(d)' <=> Handed(d)
      BY SMTT(60), <1>2, <1>t, <1>k, <1>r DEF Link, TypeOK, PauseAgrees
    <3>2. \A d, e \in Ctx : Kicks(d, e)' <=> Kicks(d, e)
      BY <1>2, <1>t, <1>k, <1>r DEF Link, TypeOK, PauseAgrees
    <3> QED BY <3>1, <3>2, Zenon
  <2>4. OneKickEach'
    BY Zenon, <2>3, <1>2, <1>k, OneKickFrame DEF Link
  <2> QED
    BY <2>1, <2>2, <2>4 DEF KickInv
<1>3. ASSUME NEW c \in Ctx, Spin(c) PROVE KickInv'
  <2>1. \A v \in Vcpu : pvSpin'[v] = "PAUSED" <=> vstate'[v] = "spinning"
    BY <1>3, <1>m, Zenon DEF Spin
  <2>2. (\A d \in Ctx : PauseAgrees(d))'
    BY SMTT(60), <1>3, <1>t, <1>k, <1>r, ConstantsAssumption
       DEF Spin, Entered, TypeOK, SuccIsNext, PauseAgrees
  <2>3. /\ \A d \in Ctx : Handed(d)' <=> Handed(d)
        /\ \A d, e \in Ctx : Kicks(d, e)' <=> Kicks(d, e)
    <3>1. \A d \in Ctx : Handed(d)' <=> Handed(d)
      BY SMTT(60), <1>3, <1>t, <1>k, <1>r DEF Spin, Entered, TypeOK, PauseAgrees
    <3>2. \A d, e \in Ctx : Kicks(d, e)' <=> Kicks(d, e)
      BY <1>3, <1>t, <1>k, <1>r DEF Spin, Entered, TypeOK, PauseAgrees
    <3> QED BY <3>1, <3>2, Zenon
  <2>4. OneKickEach'
    BY <2>3, <1>3, <1>k, OneKickFrame, Zenon DEF Spin
  <2> QED
    BY <2>1, <2>2, <2>4 DEF KickInv
<1>4. ASSUME NEW c \in Ctx, Query(c) PROVE KickInv'
  <2>1. \A v \in Vcpu : pvSpin'[v] = "PAUSED" <=> vstate'[v] = "spinning"
    BY <1>4, <1>m, Zenon DEF Query
  <2>2. (\A d \in Ctx : PauseAgrees(d))'
    BY SMTT(60), <1>4, <1>t, <1>k, <1>r, ConstantsAssumption
       DEF Query, TypeOK, SuccIsNext, PauseAgrees
  <2>3. /\ \A d \in Ctx : Handed(d)' <=> Handed(d)
        /\ \A d, e \in Ctx : Kicks(d, e)' <=> Kicks(d, e)
    <3>1. \A d \in Ctx : Handed(d)' <=> Handed(d)
      BY SMTT(60), <1>4, <1>t, <1>k, <1>r DEF Query, TypeOK, PauseAgrees
    <3>2. \A d, e \in Ctx : Kicks(d, e)' <=> Kicks(d, e)
      BY <1>4, <1>t, <1>k, <1>r DEF Query, TypeOK, PauseAgrees
    <3> QED BY <3>1, <3>2, Zenon
  <2>4. OneKickEach'
    BY <2>3, <1>4, <1>k, OneKickFrame, Zenon DEF Query
  <2> QED
    BY <2>1, <2>2, <2>4 DEF KickInv
<1>5. ASSUME NEW c \in Ctx, TryPause(c) PROVE KickInv'
  <2>1. \A v \in Vcpu : pvSpin'[v] = "PAUSED" <=> vstate'[v] = "spinning"
    BY <1>5, <1>m, Zenon DEF TryPause
  <2>2. (\A d \in Ctx : PauseAgrees(d))'
    BY SMTT(60), <1>5, <1>t, <1>k, <1>r, ConstantsAssumption
       DEF TryPause, TypeOK, SuccIsNext, PauseAgrees
  <2>3. /\ \A d \in Ctx : Handed(d)' <=> Handed(d)
        /\ \A d, e \in Ctx : Kicks(d, e)' <=> Kicks(d, e)
    <3>1. \A d \in Ctx : Handed(d)' <=> Handed(d)
      BY SMTT(60), <1>5, <1>t, <1>k, <1>r DEF TryPause, TypeOK, PauseAgrees
    <3>2. \A d, e \in Ctx : Kicks(d, e)' <=> Kicks(d, e)
      BY <1>5, <1>t, <1>k, <1>r DEF TryPause, TypeOK, PauseAgrees
    <3> QED BY <3>1, <3>2, Zenon
  <2>4. OneKickEach'
    BY <2>3, <1>5, <1>k, OneKickFrame, Zenon DEF TryPause
  <2> QED
    BY <2>1, <2>2, <2>4 DEF KickInv
<1>6. ASSUME NEW c \in Ctx, SaveFlags(c) PROVE KickInv'
  <2>1. \A v \in Vcpu : pvSpin'[v] = "PAUSED" <=> vstate'[v] = "spinning"
    BY <1>6, <1>m, Zenon DEF SaveFlags
  <2>2. (\A d \in Ctx : PauseAgrees(d))'
    BY SMTT(60), <1>6, <1>t, <1>k, <1>r, ConstantsAssumption
       DEF SaveFlags, TypeOK, SuccIsNext, PauseAgrees
  <2>3. /\ \A d \in Ctx : Handed(d)' <=> Handed(d)
        /\ \A d, e \in Ctx : Kicks(d, e)' <=> Kicks(d, e)
    <3>1. \A d \in Ctx : Handed(d)' <=> Handed(d)
      BY SMTT(60), <1>6, <1>t, <1>k, <1>r DEF SaveFlags, TypeOK, PauseAgrees
    <3>2. \A d, e \in Ctx : Kicks(d, e)' <=> Kicks(d, e)
      BY <1>6, <1>t, <1>k, <1>r DEF SaveFlags, TypeOK, PauseAgrees
    <3> QED BY <3>1, <3>2, Zenon
  <2>4. OneKickEach'
    BY <2>3, <1>6, <1>k, OneKickFrame, Zenon DEF SaveFlags
  <2> QED
    BY <2>1, <2>2, <2>4 DEF KickInv
<1>7. ASSUME NEW c \in Ctx, ReadNext(c) PROVE KickInv'
  <2>1. \A v \in Vcpu : pvSpin'[v] = "PAUSED" <=> vstate'[v] = "spinning"
    BY Zenon, <1>7, <1>m DEF ReadNext
  <2>2. (\A d \in Ctx : PauseAgrees(d))'
    BY SMTT(60), <1>7, <1>t, <1>k, <1>r, ConstantsAssumption
       DEF ReadNext, TypeOK, SuccIsNext, PauseAgrees
  <2>3. /\ \A d \in Ctx : Handed(d)' <=> Handed(d)
        /\ \A d, e \in Ctx : Kicks(d, e)' <=> Kicks(d, e)
    <3>1. \A d \in Ctx : Handed(d)' <=> Handed(d)
      BY SMTT(60), <1>7, <1>t, <1>k, <1>r DEF ReadNext, TypeOK, PauseAgrees
    <3>2. \A d, e \in Ctx : Kicks(d, e)' <=> Kicks(d, e)
      BY <1>7, <1>t, <1>k, <1>r DEF ReadNext, TypeOK, PauseAgrees
    <3> QED BY <3>1, <3>2, Zenon
  <2>4. OneKickEach'
    BY <2>3, <1>7, <1>k, OneKickFrame, Zenon DEF ReadNext
  <2> QED
    BY <2>1, <2>2, <2>4 DEF KickInv
<1>8. ASSUME NEW c \in Ctx, CasTail(c) PROVE KickInv'
  <2>1. \A v \in Vcpu : pvSpin'[v] = "PAUSED" <=> vstate'[v] = "spinning"
    BY <1>8, <1>m, Zenon DEF CasTail
  <2>2. (\A d \in Ctx : PauseAgrees(d))'
    BY SMTT(60), <1>8, <1>t, <1>k, <1>r, ConstantsAssumption
       DEF CasTail, TypeOK, SuccIsNext, PauseAgrees
  <2>3. /\ \A d \in Ctx : Handed(d)' <=> Handed(d)
        /\ \A d, e \in Ctx : Kicks(d, e)' <=> Kicks(d, e)
    <3>1. \A d \in Ctx : Handed(d)' <=> Handed(d)
      BY SMTT(60), <1>8, <1>t, <1>k, <1>r DEF CasTail, TypeOK, PauseAgrees
    <3>2. \A d, e \in Ctx : Kicks(d, e)' <=> Kicks(d, e)
      BY <1>8, <1>t, <1>k, <1>r DEF CasTail, TypeOK, PauseAgrees
    <3> QED BY <3>1, <3>2, Zenon
  <2>4. OneKickEach'
    BY Zenon, <2>3, <1>8, <1>k, OneKickFrame DEF CasTail
  <2> QED
    BY <2>1, <2>2, <2>4 DEF KickInv
<1>9. ASSUME NEW c \in Ctx, WaitNext(c) PROVE KickInv'
  <2>1. \A v \in Vcpu : pvSpin'[v] = "PAUSED" <=> vstate'[v] = "spinning"
    BY Zenon, <1>9, <1>m DEF WaitNext
  <2>2. (\A d \in Ctx : PauseAgrees(d))'
    BY SMTT(60), <1>9, <1>t, <1>k, <1>r, ConstantsAssumption
       DEF WaitNext, TypeOK, SuccIsNext, PauseAgrees
  <2>3. /\ \A d \in Ctx : Handed(d)' <=> Handed(d)
        /\ \A d, e \in Ctx : Kicks(d, e)' <=> Kicks(d, e)
    <3>1. \A d \in Ctx : Handed(d)' <=> Handed(d)
      BY SMTT(60), <1>9, <1>t, <1>k, <1>r DEF WaitNext, TypeOK, PauseAgrees
    <3>2. \A d, e \in Ctx : Kicks(d, e)' <=> Kicks(d, e)
      BY <1>9, <1>t, <1>k, <1>r DEF WaitNext, TypeOK, PauseAgrees
    <3> QED BY <3>1, <3>2, Zenon
  <2>4. OneKickEach'
    BY <2>3, <1>9, <1>k, OneKickFrame, Zenon DEF WaitNext
  <2> QED
    BY <2>1, <2>2, <2>4 DEF KickInv
<1>10. ASSUME NEW c \in Ctx, Restore(c) PROVE KickInv'
  <2>1. \A v \in Vcpu : pvSpin'[v] = "PAUSED" <=> vstate'[v] = "spinning"
    BY Zenon, <1>10, <1>m DEF Restore
  <2>2. (\A d \in Ctx : PauseAgrees(d))'
    BY SMTT(60), <1>10, <1>t, <1>k, <1>r, ConstantsAssumption
       DEF Restore, TypeOK, SuccIsNext, PauseAgrees
  <2>3. /\ \A d \in Ctx : Handed(d)' <=> Handed(d)
        /\ \A d, e \in Ctx : Kicks(d, e)' <=> Kicks(d, e)
    <3>1. \A d \in Ctx : Handed(d)' <=> Handed(d)
      BY SMTT(60), <1>10, <1>t, <1>k, <1>r DEF Restore, TypeOK, PauseAgrees
    <3>2. \A d, e \in Ctx : Kicks(d, e)' <=> Kicks(d, e)
      BY <1>10, <1>t, <1>k, <1>r DEF Restore, TypeOK, PauseAgrees
    <3> QED BY <3>1, <3>2, Zenon
  <2>4. OneKickEach'
    BY Zenon, <2>3, <1>10, <1>k, OneKickFrame DEF Restore
  <2> QED
    BY <2>1, <2>2, <2>4 DEF KickInv
<1>11. ASSUME NEW c \in Ctx, Pause(c) PROVE KickInv'
  <2>1. \A v \in Vcpu : pvSpin'[v] = "PAUSED" <=> vstate'[v] = "spinning"
    <3>1. VcpuOf[c] \in Vcpu /\ vstate[VcpuOf[c]] = "active"
      BY <1>11, ConstantsAssumption, Zenon DEF Pause, Runs
    <3>2. PauseVcpu(VcpuOf[c])
      BY <1>11, Zenon DEF Pause
    <3> QED
      BY <3>1, <3>2, <1>t, <1>m DEF PauseVcpu, TypeOK
  <2>2. (\A d \in Ctx : PauseAgrees(d))'
    BY SMTT(60), <1>11, <1>t, <1>k, <1>r, ConstantsAssumption
       DEF Pause, PauseVcpu, TypeOK, SuccIsNext, PauseAgrees, OneContextPerVcpu
  <2>3. OneKickEach'
    BY <1>11, <1>t, <1>k, <1>r, ConstantsAssumption
       DEF Pause, PauseVcpu, TypeOK, PauseAgrees, OneKickEach, OneContextPerVcpu
  <2> QED
    BY <2>1, <2>2, <2>3 DEF KickInv
<1>12. ASSUME NEW c \in Ctx, Grant(c) PROVE KickInv'
  <2>1. Holding(c) /\ succ[c] = next[c] /\ next[c] # NULL
    BY ZenonT(60), <1>12, <1>t DEF Grant, SuccIsNext, Holding, HoldPcs
  <2>2. /\ next[c] \in Ctx /\ next[c] # c /\ Waiting(next[c])
        /\ pc[next[c]] # "link" /\ state[next[c]] # "UNLOCKED"
        /\ LockOf[next[c]] = LockOf[c]
    BY <2>1, NextOfHolder, LockOfNext, Zenon
  <2>3. \A v \in Vcpu : pvSpin'[v] = "PAUSED" <=> vstate'[v] = "spinning"
    BY <1>12, <1>m, Zenon DEF Grant
  <2>4. \A d \in Ctx : pc[d] = "handoff" /\ succ[d] = next[c] => d = c
    BY <2>1, <1>t, SuccessorsDiffer, Zenon DEF SuccIsNext, Holding, HoldPcs
  <2>5. CASE state' = [state EXCEPT ![next[c]] = "UNLOCKED"]
             /\ state[next[c]] # "PAUSED" /\ pc' = [pc EXCEPT ![c] = "restore"]
    <3>1. state[next[c]] = "LOCKED" /\ ~Committed(next[c])
      BY <2>2, <2>5, <1>t, <1>k DEF TypeOK, PauseAgrees
    <3>3. succ' = succ /\ vstate' = vstate /\ pvSpin' = pvSpin /\ pc[c] = "grant"
      BY <1>12, Zenon DEF Grant
    <3>2. ASSUME NEW d \in Ctx PROVE PauseAgrees(d)'
      <4>1. PauseAgrees(d)
        BY <1>k, Zenon
      <4>2. /\ pc'[c] = "restore" /\ (d # c => pc'[d] = pc[d])
            /\ state'[next[c]] = "UNLOCKED" /\ (d # next[c] => state'[d] = state[d])
        BY <2>2, <2>5, <1>t, Zenon DEF TypeOK
      <4>3. CASE d = next[c]
        <5>1. /\ pvSpin[VcpuOf[d]] \notin {"PAUSED", "KICKED"} /\ pc[d] \notin {"link", "idle", "handoff"}
              /\ LockOf[d] \notin PvLocks => pc[d] \notin {"query", "trypause"}
          BY <4>1, <4>3, <2>2, <3>1, Zenon DEF PauseAgrees, Waiting, WaitPcs
        <5>2. pc'[d] = pc[d] /\ state'[d] = "UNLOCKED" /\ ~Committed(d)
          BY <4>2, <4>3, <2>2, <3>1, Zenon
        <5> QED
          BY <5>1, <5>2, <3>3, Zenon DEF PauseAgrees
      <4>4. CASE d = c
        <5>1. pc'[d] = "restore" /\ pc[d] = "grant" /\ state'[d] = state[d]
          BY <4>2, <4>4, <2>2, <3>3, Zenon
        <5>2. pvSpin'[VcpuOf[d]] = pvSpin[VcpuOf[d]]
          BY <3>3, Zenon
        <5>3. pvSpin[VcpuOf[d]] \notin {"PAUSED", "KICKED"} /\ state[d] # "PAUSED"
          BY <4>1, <5>1, Zenon DEF PauseAgrees
        <5> QED
          BY <5>1, <5>2, <5>3, Zenon DEF PauseAgrees
      <4>5. CASE d # c /\ d # next[c]
        <5>1. pc[d] = "handoff" => succ[d] \in Ctx /\ succ[d] # next[c]
          BY <4>5, <2>4, <1>t DEF SuccIsNext, TypeOK
        <5>2. pc[d] = "handoff" => state'[succ'[d]] = state[succ[d]]
          BY <5>1, <2>2, <2>5, <3>3, <1>t, Zenon DEF TypeOK
        <5>3. pc'[d] = pc[d] /\ state'[d] = state[d] /\ pvSpin'[VcpuOf[d]] = pvSpin[VcpuOf[d]]
          BY <4>2, <4>5, <3>3, Zenon
        <5> QED
          BY <4>1, <5>2, <5>3, AgreesFrame, Zenon
      <4> QED
        BY <4>3, <4>4, <4>5, Zenon
    <3>4. \A d \in Ctx : Handed(d)' <=> Handed(d)
      BY <2>2, <2>5, <3>1, <3>3, <1>t DEF TypeOK
    <3>5. \A d, e \in Ctx : Kicks(d, e)' <=> Kicks(d, e)
      BY <2>5, <3>3, <1>t, Zenon DEF TypeOK
    <3> QED
      BY <2>3, <3>2, <3>4, <3>5, <1>12, <1>k, OneKickFrame, Zenon DEF Grant, KickInv
  <2>6. CASE UNCHANGED state /\ pc' = [pc EXCEPT ![c] = "handoff"]
             /\ state[succ[c]] # "LOCKED"
    <3>1. state[succ[c]] = "PAUSED"
      BY <2>1, <2>2, <2>6, <1>t, Zenon DEF TypeOK
    <3>2. ASSUME NEW d \in Ctx PROVE PauseAgrees(d)'
      <4>1. /\ PauseAgrees(d) /\ pc[c] = "grant"
            /\ state' = state /\ succ' = succ /\ pvSpin' = pvSpin
        BY <1>12, <2>6, <1>k, Zenon DEF Grant
      <4>2. pc'[c] = "handoff" /\ (d # c => pc'[d] = pc[d])
        BY <2>6, <1>t, Zenon DEF TypeOK
      <4>3. CASE d # c
        BY <4>1, <4>2, <4>3, AgreesFrame, Zenon
      <4>4. CASE d = c
        <5>1. /\ pvSpin[VcpuOf[d]] \notin {"PAUSED", "KICKED"}
              /\ state[d] # "PAUSED" /\ pc'[d] = "handoff" /\ state[succ[d]] = "PAUSED"
          BY <4>1, <4>2, <4>4, <3>1, Zenon DEF PauseAgrees
        <5> QED
          BY <4>1, <5>1, Zenon DEF PauseAgrees
      <4> QED
        BY <4>3, <4>4, Zenon
    <3>3. /\ \A d \in Ctx : Handed(d)' <=> Handed(d)
          /\ \A d, e \in Ctx : Kicks(d, e)' <=> Kicks(d, e)
      BY Zenon, <1>12, <2>6, <1>t DEF Grant, TypeOK
    <3> QED
      BY <2>3, <3>2, <3>3, <1>12, <1>k, OneKickFrame, Zenon DEF Grant, KickInv
  <2>7. LockOf[c] \notin PvLocks => state[next[c]] # "PAUSED"
    BY <2>2, <1>k, Zenon DEF PauseAgrees
  <2> QED
    BY ZenonT(60), <2>1, <2>5, <2>6, <2>7, <1>12 DEF Grant
<1>13. ASSUME NEW c \in Ctx, Handoff(c) PROVE KickInv'
  <2>1. Holding(c) /\ succ[c] = next[c] /\ next[c] # NULL /\ pc[c] = "handoff"
    BY <1>13, <1>t, Zenon DEF Handoff, SuccIsNext, Holding, HoldPcs
  <2>2. next[c] \in Ctx /\ next[c] # c
    BY Zenon, <2>1, NextOfHolder
  <2>3. /\ state[next[c]] = "PAUSED" /\ Committed(next[c])
        /\ pvSpin[VcpuOf[next[c]]] # "KICKED"
    BY <2>1, <2>2, <1>k, Zenon DEF PauseAgrees
  <2>4. \A d \in Ctx : pc[d] = "handoff" /\ succ[d] = next[c] => d = c
    BY <2>1, <1>t, SuccessorsDiffer, Zenon DEF SuccIsNext, Holding, HoldPcs
  <2>5. /\ state' = [state EXCEPT ![next[c]] = "UNLOCKED"]
        /\ pc' = [pc EXCEPT ![c] = "kick"]
        /\ UNCHANGED <<succ, pvSpin, vstate>>
    BY Zenon, <2>1, <1>13 DEF Handoff
  <2>6. \A v \in Vcpu : pvSpin'[v] = "PAUSED" <=> vstate'[v] = "spinning"
    BY <2>5, <1>m, Zenon
  <2>7. ASSUME NEW d \in Ctx PROVE PauseAgrees(d)'
    <3>1. CASE d = next[c]
      BY <3>1, <2>2, <2>3, <2>5, <1>t, <1>k DEF TypeOK, PauseAgrees
    <3>2. CASE d # next[c]
      <4>1. pc[d] = "handoff" /\ d # c =>
               succ[d] \in Ctx /\ succ[d] # next[c] /\ state'[succ[d]] = state[succ[d]]
        BY <2>4, <2>5, <1>t DEF TypeOK, SuccIsNext
      <4>2. state'[d] = state[d] /\ (d # c => pc'[d] = pc[d]) /\ pc'[c] = "kick"
        BY <3>2, <2>2, <2>5, <1>t, Zenon DEF TypeOK
      <4>3. CASE d = c
        BY <4>2, <4>3, <2>1, <2>5, <1>k DEF PauseAgrees
      <4>4. CASE d # c
        <5>1. pc[d] = "handoff" => state'[succ'[d]] = state[succ[d]]
          BY <4>1, <4>4, <2>5, ZenonT(60)
        <5> QED
          BY <5>1, <4>2, <4>4, <2>5, <1>k, AgreesFrame, Zenon
      <4> QED
        BY <4>3, <4>4, Zenon
    <3> QED
      BY <3>1, <3>2, Zenon
  <2>8. OneKickEach'
    <3>1. \A d \in Ctx : Handed(d)' <=> Handed(d) \/ d = next[c]
      BY <2>1, <2>2, <2>3, <2>5, <1>t, ZenonT(60) DEF TypeOK
    <3>2. \A d, e \in Ctx : Kicks(d, e)' <=> Kicks(d, e) \/ (d = c /\ e = next[c])
      BY <2>1, <2>2, <2>5, <1>t, Zenon DEF TypeOK
    <3>3. \A d \in Ctx : ~Kicks(d, next[c])
      BY <2>2, <2>3, <1>k DEF OneKickEach
    <3> QED
      BY <2>2, <2>3, <2>5, <3>1, <3>2, <3>3, <1>k DEF OneKickEach
  <2> QED
    BY <2>6, <2>7, <2>8, Zenon DEF KickInv
<1>14. ASSUME NEW c \in Ctx, Kick(c) PROVE KickInv'
  <2> DEFINE s == succ[c]
  <2>1. s \in Ctx /\ Kicks(c, s) /\ s # c
    <3>1. s \in Ctx /\ Kicks(c, s)
      BY <1>14, <1>t, Zenon DEF Kick, SuccIsNext, TypeOK
    <3>2. pc[s] \in {"pause", "spin"}
      BY <3>1, <1>k, Zenon DEF OneKickEach
    <3> QED
      BY <3>1, <3>2, <1>14, Zenon DEF Kick
  <2>2. Handed(s) /\ pvSpin[VcpuOf[s]] # "KICKED"
    <3> HIDE DEF Committed, Kicks, Handed, s
    <3>1. \A x, d \in Ctx : Kicks(d, x) => Handed(x) /\ pvSpin[VcpuOf[x]] # "KICKED"
      BY <1>k, Zenon DEF OneKickEach
    <3> QED
      BY <2>1, <3>1, Zenon
  <2>3. \A d \in Ctx : Kicks(d, s) => d = c
    <3> HIDE DEF Committed, Kicks, Handed, s
    <3>1. \A x, d, e \in Ctx : Kicks(d, x) /\ Kicks(e, x) => d = e
      BY <1>k, Zenon DEF OneKickEach
    <3> QED
      BY <2>1, <3>1, Zenon
  <2>4. pc' = [pc EXCEPT ![c] = "restore"] /\ UNCHANGED <<state, succ>>
    BY ZenonT(60), <1>14 DEF Kick
  <2>5. /\ \A d \in Ctx : d # s => pvSpin'[VcpuOf[d]] = pvSpin[VcpuOf[d]]
        /\ pvSpin'[VcpuOf[s]] = IF pvSpin[VcpuOf[s]] = "PAUSED" THEN "NONE" ELSE "KICKED"
        /\ \A v \in Vcpu : pvSpin'[v] = "PAUSED" <=> vstate'[v] = "spinning"
    <3>1. VcpuOf[s] \in Vcpu /\ KickVcpu(VcpuOf[s])
      BY <2>1, <1>14, ConstantsAssumption, Zenon DEF Kick
    <3>2. \A d \in Ctx : d # s => VcpuOf[d] \in Vcpu /\ VcpuOf[d] # VcpuOf[s]
      BY <2>1, ConstantsAssumption, Zenon DEF OneContextPerVcpu
    <3>3. \A d \in Ctx : d # s => pvSpin'[VcpuOf[d]] = pvSpin[VcpuOf[d]]
      BY <3>1, <3>2, <1>t, Zenon DEF KickVcpu, TypeOK
    <3>4. pvSpin'[VcpuOf[s]] = IF pvSpin[VcpuOf[s]] = "PAUSED" THEN "NONE" ELSE "KICKED"
      BY <3>1, <1>t DEF KickVcpu, TypeOK
    <3>5. \A v \in Vcpu : pvSpin'[v] = "PAUSED" <=> vstate'[v] = "spinning"
      BY <3>1, <1>t, <1>m DEF KickVcpu, TypeOK
    <3> QED
      BY <3>3, <3>4, <3>5, Zenon
  <2>6. (\A d \in Ctx : PauseAgrees(d))'
    <3>1. pc'[c] = "restore" /\ \A d \in Ctx \ {c} : pc'[d] = pc[d]
      BY <2>4, <1>t, Zenon DEF TypeOK
    <3>2. ASSUME NEW d \in Ctx PROVE PauseAgrees(d)'
      <4>1. PauseAgrees(d)
        BY <1>k, Zenon
      <4>2. CASE d = s
        <5>1. pc'[d] = pc[d] /\ state'[d] = "UNLOCKED" /\ pc[d] \in {"pause", "spin"}
          BY <4>2, <2>1, <2>2, <2>4, <3>1, Zenon
        <5>2. /\ pc[d] = "spin" => pvSpin'[VcpuOf[d]] = "NONE"
              /\ pc[d] = "pause" => pvSpin'[VcpuOf[d]] = "KICKED"
          BY <4>1, <4>2, <2>2, <2>5, <5>1, Zenon DEF PauseAgrees
        <5>3. LockOf[d] \in PvLocks
          BY <4>1, <4>2, <2>2, Zenon DEF PauseAgrees
        <5> QED
          BY <5>1, <5>2, <5>3, Zenon DEF PauseAgrees
      <4>3. CASE d # s /\ d # c
        BY <4>1, <4>3, <2>4, <2>5, <3>1, AgreesFrame, Zenon
      <4>4. CASE d = c
        <5>1. /\ pc[d] = "kick" /\ pc'[d] = "restore" /\ state'[d] = state[d]
              /\ pvSpin'[VcpuOf[d]] = pvSpin[VcpuOf[d]]
          BY <4>4, <2>1, <2>4, <2>5, <3>1, Zenon
        <5>2. pvSpin[VcpuOf[d]] \notin {"PAUSED", "KICKED"} /\ state[d] # "PAUSED"
          BY <4>1, <5>1, Zenon DEF PauseAgrees
        <5> QED
          BY <5>1, <5>2, Zenon DEF PauseAgrees
      <4> QED
        BY <4>2, <4>3, <4>4, Zenon
    <3> QED
      BY <3>2, Zenon
  <2>7. OneKickEach'
    <3>1. \A d, e \in Ctx : Kicks(d, e)' <=> Kicks(d, e) /\ e # s
      BY <2>1, <2>3, <2>4, <1>t, Zenon DEF TypeOK
    <3>2. \A d \in Ctx : d # s => (Handed(d)' <=> Handed(d))
      BY <2>1, <2>4, <2>5, <1>t DEF TypeOK
    <3>3. \A d \in Ctx : d = s /\ Handed(d)' => pvSpin'[VcpuOf[d]] = "KICKED"
      BY <2>1, <2>2, <2>4, <2>5, <1>t, <1>k DEF TypeOK, PauseAgrees
    <3> HIDE DEF Committed, Kicks, Handed
    <3>4. ASSUME NEW d \in Ctx, Handed(d)', pvSpin'[VcpuOf[d]] # "KICKED"
          PROVE  \E e \in Ctx : Kicks(e, d)'
      <4>1. d # s
        BY <3>3, <3>4, Zenon
      <4>2. Handed(d)
        BY <4>1, <3>2, <3>4, Zenon
      <4>3. pvSpin[VcpuOf[d]] # "KICKED"
        BY <4>1, <3>4, <2>5, Zenon
      <4>4. PICK e \in Ctx : Kicks(e, d)
        BY Zenon, <4>2, <4>3, <1>k DEF OneKickEach
      <4> QED
        BY <4>1, <4>4, <3>1, Zenon
    <3>5. \A d, e \in Ctx : Kicks(e, d)' =>
             Handed(d)' /\ pvSpin'[VcpuOf[d]] # "KICKED"
      BY <2>1, <2>5, <3>1, <3>2, <1>k, Zenon DEF OneKickEach
    <3>6. \A d, e, f \in Ctx : Kicks(e, d)' /\ Kicks(f, d)' => e = f
      BY <3>1, <1>k, Zenon DEF OneKickEach
    <3> QED
      BY <3>4, <3>5, <3>6, Zenon DEF OneKickEach
  <2> QED
    BY <2>5, <2>6, <2>7, Zenon DEF KickInv
<1>15. ASSUME NEW v \in Vcpu, Preempt(v) \/ Dispatch(v) \/ CallerSetsIntr(v)
       PROVE  KickInv'
  <2>1. UNCHANGED <<pc, state, succ, pvSpin>>
    <3>1. CASE Preempt(v)
      BY <3>1, Zenon DEF Preempt
    <3>2. CASE Dispatch(v)
      BY <3>2, Zenon DEF Dispatch
    <3>3. CASE CallerSetsIntr(v)
      BY Zenon, <3>3 DEF CallerSetsIntr
    <3> QED
      BY <3>1, <3>2, <3>3, <1>15, Zenon
  <2>2. \A w \in Vcpu : pvSpin'[w] = "PAUSED" <=> vstate'[w] = "spinning"
    <3>1. CASE Preempt(v)
      BY <3>1, <1>t, <1>m, Zenon DEF Preempt, TypeOK
    <3>2. CASE Dispatch(v)
      BY <3>2, <1>t, <1>m, Zenon DEF Dispatch, TypeOK
    <3>3. CASE CallerSetsIntr(v)
      BY <3>3, <1>m, Zenon DEF CallerSetsIntr, vcpuVars
    <3> QED
      BY <3>1, <3>2, <3>3, <1>15, Zenon
  <2> QED
    BY ZenonT(30), <2>1, <2>2, KickFrame
<1>16. CASE UNCHANGED vars
  <2>1. UNCHANGED <<pc, state, succ, pvSpin, vstate>>
    BY <1>16, Zenon DEF vars
  <2> QED
    BY ZenonT(30), <2>1, <1>m, KickFrame
<1> QED
  BY <1>1, <1>2, <1>3, <1>4, <1>5, <1>6, <1>7, <1>8, <1>9, <1>10, <1>11, <1>12,
     <1>13, <1>14, <1>15, <1>16, Zenon DEF Next, Continue

\* Initially no vcpu is blocked or kicked.
LEMMA KickInvInit == Init => KickInv
BY ConstantsAssumption, Zenon
   DEF Init, KickInv, PauseAgrees, OneKickEach, Handed, Kicks, Committed

\* Where each vcpu runs one context, a vcpu blocked in the hypervisor is kicked
\* once the lock has been handed to it: no kick of the pv lock is lost.
THEOREM NoKickIsLost ==
    ASSUME OneContextPerVcpu
    PROVE  Spec => []HandedOverIsUnblocked
<1>1. KickInv => HandedOverIsUnblocked
  <2> SUFFICES ASSUME KickInv, NEW c \in Ctx, Blocked(c), state[c] = "UNLOCKED"
               PROVE  KickComing(VcpuOf[c])
    BY Zenon DEF HandedOverIsUnblocked
  <2>1. pvSpin[VcpuOf[c]] = "PAUSED" /\ pc[c] = "spin"
    BY ConstantsAssumption, Zenon DEF KickInv, Blocked
  <2>2. PICK d \in Ctx : Kicks(d, c)
    BY <2>1, Zenon DEF KickInv, OneKickEach, Handed, Committed
  <2> QED
    BY <2>2, Zenon DEF Kicks, KickComing
<1>2. QueueInv /\ KickInv /\ [Next]_vars => KickInv'
  BY KickInvStep, Zenon
<1> QED
  BY <1>1, <1>2, KickInvInit, QueueInvariant, PTL DEF Spec

\* Under the same assumption the assertions of the hypervisor's pause and kick
\* paths hold.
THEOREM SpinStateAgreesHolds ==
    ASSUME OneContextPerVcpu
    PROVE  Spec => []SpinStateAgrees
<1>1. KickInv => SpinStateAgrees
  BY Zenon DEF KickInv, SpinStateAgrees, PauseAgrees
<1>2. QueueInv /\ KickInv /\ [Next]_vars => KickInv'
  BY KickInvStep
<1> QED
  BY <1>1, <1>2, KickInvInit, QueueInvariant, PTL DEF Spec
==============================================================================
