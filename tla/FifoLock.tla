------------------------------ MODULE FifoLock ------------------------------
(* What a queue lock promises, with no word on how: contexts enter the       *)
(* critical section one at a time, in the order in which they asked for it.  *)
(* McsLock (src/src/subsys/sync/mcslock.c) is shown to implement it.         *)
EXTENDS Naturals, Sequences

CONSTANTS Ctx,      \* execution contexts that use the locks
          Lock,     \* the locks
          LockOf    \* the lock each context uses

VARIABLES queue,    \* per lock: the contexts that asked for it, oldest first
          status    \* per context: "out", "waiting" or "in"

vars == <<queue, status>>

Init == /\ queue = [l \in Lock |-> <<>>]
        /\ status = [c \in Ctx |-> "out"]

\* Ask for the lock; a free lock is taken at once.
Request(c) ==
    /\ status[c] = "out"
    /\ queue' = [queue EXCEPT ![LockOf[c]] = Append(@, c)]
    /\ status' = [status EXCEPT ![c] =
                     IF queue[LockOf[c]] = <<>> THEN "in" ELSE "waiting"]

\* The oldest waiting context enters.
Enter(c) ==
    /\ status[c] = "waiting"
    /\ queue[LockOf[c]] # <<>>
    /\ Head(queue[LockOf[c]]) = c
    /\ status' = [status EXCEPT ![c] = "in"]
    /\ UNCHANGED queue

Release(c) ==
    /\ status[c] = "in"
    /\ queue[LockOf[c]] # <<>>
    /\ Head(queue[LockOf[c]]) = c
    /\ queue' = [queue EXCEPT ![LockOf[c]] = Tail(@)]
    /\ status' = [status EXCEPT ![c] = "out"]

Next == \E c \in Ctx : Request(c) \/ Enter(c) \/ Release(c)

Spec == Init /\ [][Next]_vars
=============================================================================
