------------------------------- MODULE KSync -------------------------------
(* A semaphore and a priority-ceiling mutex over wait queues with timeouts    *)
(* (subsys/sync, kernel/sched/waitq).  A step is what happens under the locks *)
(* of the wait queue and of the timeout chain, which are taken in this order: *)
(* timeout chain, wait queue.  Tasks are on different cpus.  All tasks have   *)
(* one real priority, by which the queues are ordered, and the objects are    *)
(* statically initialised: the queues are fifo (see FlatPq).                  *)
EXTENDS DeltaChain, FiniteSets

CONSTANTS Task, NULL,
          Object,       \* the objects in use: "sem", "mutex"
          MaxCount,     \* bound on the count of the semaphore
          MaxDepth      \* bound on the recursion of the mutex

VARIABLES
    sem,        \* semaphore count
    holder, depth, last,  \* the mutex: holder, count, last_priority
    wq,         \* the wait queue of every object
    chain,      \* the timeout chain
    timedOut,   \* flags.timed_out
    prio,       \* metadata.priority: "base" or "ceil"
    call,       \* the call a task is in: where it is, on which object, with a
                \* timeout or not, in the second round or not, and the priority
                \* it keeps on its stack
    leaked,     \* the lock of the timeout chain was unlocked with a wrong node
    nested      \* history: the tasks that took the mutex again by mutex_ipcp_lock

vars == <<sem, holder, depth, last, wq, chain, timedOut, prio, call, leaked, nested>>
mutex == <<holder, depth, last, nested>>

Idle == [pc |-> "idle", on |-> NULL, timed |-> FALSE, again |-> FALSE, saved |-> "base"]

Init ==
    /\ sem = 0
    /\ holder = NULL /\ depth = 0 /\ last = "base" /\ nested = {}
    /\ wq = [q \in Object |-> <<>>] /\ chain = <<>>
    /\ timedOut = [t \in Task |-> FALSE] /\ leaked = FALSE
    /\ prio = [t \in Task |-> "base"] /\ call = [t \in Task |-> Idle]

At(t, l) == call[t].pc = l
Goto(t, l) == call' = [call EXCEPT ![t].pc = l]
Return(t) == call' = [call EXCEPT ![t] = Idle]

\* timeout_lock: once the lock is leaked nobody gets it.
TimeoutLock == ~leaked

-----------------------------------------------------------------------------
(* The calls.                                                                 *)
\* semaphore_down, semaphore_down_timeout.
Down(t, d) ==
    /\ "sem" \in Object /\ At(t, "idle")
    /\ call' = [call EXCEPT ![t] = [Idle EXCEPT !.pc = "try", !.on = "sem", !.timed = d]]
    /\ UNCHANGED <<sem, wq, chain, timedOut, prio, leaked, mutex>>

\* mutex_ipcp_lock, mutex_ipcp_lock_timeout: the priority goes up first.
Lock(t, d) ==
    /\ "mutex" \in Object /\ At(t, "idle")
    /\ holder = t => depth < MaxDepth
    /\ call' = [call EXCEPT ![t] = [pc |-> "try", on |-> "mutex", timed |-> d, again |-> FALSE,
                                    saved |-> prio[t]]]
    /\ prio' = [prio EXCEPT ![t] = "ceil"]
    /\ UNCHANGED <<sem, wq, chain, timedOut, leaked, mutex>>

\* semaphore_try_down.
TryDown(t) ==
    /\ At(t, "idle") /\ sem > 0
    /\ sem' = sem - 1
    /\ UNCHANGED <<wq, chain, timedOut, prio, call, leaked, mutex>>

\* mutex_ipcp_trylock: the task's priority is kept in the mutex.
TryLock(t) ==
    /\ "mutex" \in Object /\ At(t, "idle")
    /\ \/ /\ holder = NULL
          /\ holder' = t /\ depth' = 1 /\ last' = prio[t]
          /\ prio' = [prio EXCEPT ![t] = "ceil"]
       \/ /\ holder = t /\ depth < MaxDepth
          /\ depth' = depth + 1
          /\ UNCHANGED <<holder, last, prio>>
    /\ UNCHANGED <<sem, wq, chain, timedOut, call, leaked, nested>>

\* The condition of the wait: semaphore_try_down or mutex_ipcp_trylock.
Holds(t) == IF call[t].on = "sem" THEN sem > 0 ELSE holder \in {NULL, t}

\* The return of a call that failed: a mutex gives back the priority, a mutant
\* keeps it.
FailKeeps(t) == Return(t) /\ UNCHANGED prio
Fail(t) ==
    /\ Return(t)
    /\ prio' = IF call[t].on = "mutex" THEN [prio EXCEPT ![t] = call[t].saved] ELSE prio

\* A round of wait_until and wait_until_timeout: the condition is met, ...
Take(t) ==
    /\ At(t, "try") /\ Holds(t)
    /\ call[t].timed => TimeoutLock
    /\ Return(t)
    /\ IF call[t].on = "sem"
       THEN sem' = sem - 1 /\ UNCHANGED mutex
       ELSE /\ holder' = t /\ depth' = depth + 1 /\ last' = call[t].saved
            /\ nested' = IF depth > 0 THEN nested \cup {t} ELSE nested
            /\ UNCHANGED sem
    /\ UNCHANGED <<wq, chain, timedOut, prio, leaked>>

\* ... or the task is put to sleep (sched_yield_wait_and_unlock), ...  A mutant
\* looks at the condition before it takes the lock of the queue.
BlockLate(t, n) ==
    /\ At(t, "try") /\ ~(call[t].timed /\ call[t].again)
    /\ call[t].timed => TimeoutLock
    /\ Goto(t, "blocked")
    /\ wq' = [wq EXCEPT ![call[t].on] = Append(@, t)]
    /\ chain' = IF call[t].timed THEN Insert(chain, t, n) ELSE chain
    /\ UNCHANGED <<sem, timedOut, prio, leaked, mutex>>
Block(t, n) ==
    /\ At(t, "try") /\ ~Holds(t) /\ ~(call[t].timed /\ call[t].again)
    /\ call[t].timed => TimeoutLock
    /\ Goto(t, "blocked")
    /\ wq' = [wq EXCEPT ![call[t].on] = Append(@, t)]
    /\ chain' = IF call[t].timed THEN Insert(chain, t, n) ELSE chain
    /\ UNCHANGED <<sem, timedOut, prio, leaked, mutex>>

\* ... or, in the second round of a wait with a timeout, it gives up and
\* unlocks the timeout chain with the node of the wait queue (waitq.h:81):
\* nobody gets that lock again, and the task goes on only if the node still
\* has a successor.
GiveUp(t) ==
    /\ At(t, "try") /\ ~Holds(t) /\ call[t].timed /\ call[t].again
    /\ TimeoutLock
    /\ leaked' = TRUE
    /\ (Goto(t, "stuck") /\ UNCHANGED prio) \/ Fail(t)
    /\ UNCHANGED <<sem, wq, chain, timedOut, mutex>>

\* The task runs again: a timeout ends the wait, a wakeup starts a new round.
Resume(t) ==
    /\ At(t, "woken")
    /\ IF call[t].timed /\ timedOut[t]
       THEN timedOut' = [timedOut EXCEPT ![t] = FALSE] /\ Fail(t)
       ELSE /\ call' = [call EXCEPT ![t].again = TRUE, ![t].pc = "try"]
            /\ UNCHANGED <<timedOut, prio>>
    /\ UNCHANGED <<sem, wq, chain, leaked, mutex>>

-----------------------------------------------------------------------------
(* Waking up.                                                                 *)
\* waitq_wakeup_front, called by t: the first task of the queue is taken off
\* it and off the timeout chain, and is ready.
Woken(q) == IF wq[q] = <<>> THEN NULL ELSE wq[q][1]
WakeupFront(t, q, after) ==
    LET w == Woken(q)
        queued == w \in Nodes(chain)
    IN  /\ TimeoutLock
        /\ wq' = [wq EXCEPT ![q] = IF w = NULL THEN @ ELSE Tail(@)]
        /\ chain' = IF queued THEN DequeueNoCallback(chain, w) ELSE chain
        /\ timedOut' = IF queued THEN [timedOut EXCEPT ![w] = FALSE] ELSE timedOut
        /\ call' = [u \in Task |-> IF u = t THEN after
                                   ELSE IF u = w THEN [call[u] EXCEPT !.pc = "woken"] ELSE call[u]]

\* semaphore_up: the count, then the wakeup.
Up(t) ==
    /\ "sem" \in Object /\ At(t, "idle") /\ sem < MaxCount
    /\ sem' = sem + 1
    /\ Goto(t, "wakeup")
    /\ UNCHANGED <<wq, chain, timedOut, prio, leaked, mutex>>
UpWakeup(t) ==
    /\ At(t, "wakeup")
    /\ WakeupFront(t, "sem", Idle)
    /\ UNCHANGED <<sem, prio, leaked, mutex>>

\* mutex_ipcp_unlock: the count; the mutex is handed to the task woken; the
\* priority the mutex kept is restored.
Unlock(t) ==
    /\ At(t, "idle") /\ holder = t
    /\ depth' = depth - 1
    /\ IF depth > 1 THEN UNCHANGED call
       ELSE call' = [call EXCEPT ![t] = [Idle EXCEPT !.pc = "handover", !.saved = last]]
    /\ UNCHANGED <<sem, holder, last, nested, wq, chain, timedOut, prio, leaked>>
Handover(t) ==
    /\ At(t, "handover")
    /\ WakeupFront(t, "mutex", [call[t] EXCEPT !.pc = "lower"])
    /\ holder' = Woken("mutex")
    /\ UNCHANGED <<sem, depth, last, nested, prio, leaked>>
Lower(t) ==
    /\ At(t, "lower")
    /\ prio' = [prio EXCEPT ![t] = call[t].saved]
    /\ Return(t)
    /\ UNCHANGED <<sem, wq, chain, timedOut, leaked, mutex>>

\* A tick of the timeout chain: timeout_task_dequeue_from_waitq for every task
\* that expires.
TimeoutTick ==
    LET done == {Tick(chain)[1][i].node : i \in DOMAIN Tick(chain)[1]} IN
    /\ TimeoutLock /\ chain # <<>>
    /\ chain' = Tick(chain)[2]
    /\ wq' = [q \in Object |-> SelectSeq(wq[q], LAMBDA t : t \notin done)]
    /\ timedOut' = [t \in Task |-> t \in done \/ timedOut[t]]
    /\ call' = [t \in Task |-> IF t \in done THEN [call[t] EXCEPT !.pc = "woken"] ELSE call[t]]
    /\ UNCHANGED <<sem, prio, leaked, mutex>>

Next ==
    \/ TimeoutTick
    \/ \E t \in Task :
         \/ \E d \in BOOLEAN : Down(t, d) \/ Lock(t, d)
         \/ TryDown(t) \/ TryLock(t) \/ Take(t) \/ GiveUp(t) \/ Resume(t)
         \/ \E n \in 1..2 : (call[t].timed \/ n = 1) /\ Block(t, n)
         \/ Up(t) \/ UpWakeup(t) \/ Unlock(t) \/ Handover(t) \/ Lower(t)

Spec == Init /\ [][Next]_vars

-----------------------------------------------------------------------------
\* The state is of the right shape.
TypeOK ==
    /\ sem \in 0..MaxCount /\ depth \in 0..MaxDepth /\ holder \in Task \cup {NULL}
    /\ wq \in [Object -> Seq(Task)] /\ prio \in [Task -> {"base", "ceil"}]
    /\ timedOut \in [Task -> BOOLEAN]

Retries(t, q) == call[t].on = q /\ call[t].pc \in {"woken", "try"} /\ ~timedOut[t]

\* No wakeup is lost: while a task waits for the semaphore, every unit of the
\* count has a semaphore_up that is still to wake a task or a task that was
\* woken and is still to look at the count.  Excepted is what follows a wait with
\* a timeout that finds nothing in its second round: it leaks the lock of the
\* timeout chain (waitq.h:81), which every later semaphore_up waits for, with its
\* unit in the count and nobody woken.
NoLostWakeup ==
    "sem" \in Object /\ ~leaked =>
        \/ wq["sem"] = <<>>
        \/ sem <= Cardinality({t \in Task : At(t, "wakeup") \/ Retries(t, "sem")})

\* The mutex is handed to a task that takes it: a holder that does not have it
\* yet was woken for it and did not time out, or is about to hand it over.
HolderTakesIt ==
    holder # NULL /\ depth = 0 => At(holder, "handover") \/ Retries(holder, "mutex")

\* A task is on the timeout chain exactly while it waits with a timeout, and on
\* a wait queue exactly while it waits for that object: a timeout and a wakeup
\* that race remove it from both, once.
WaitsAgree ==
    /\ Nodes(chain) = {t \in Task : At(t, "blocked") /\ call[t].timed}
    /\ Len(chain) = Cardinality(Nodes(chain))
    /\ \A t \in Task, q \in Object :
         Len(SelectSeq(wq[q], LAMBDA u : u = t)) = IF At(t, "blocked") /\ call[t].on = q THEN 1 ELSE 0

\* What mutex.md says of mutex_ipcp_unlock: a task that has left the mutex has the
\* priority it had before it acquired it, also when its acquisitions were nested.
PriorityRestored == \A t \in Task : At(t, "idle") /\ holder # t => prio[t] = "base"

\* The same of the tasks that have never taken the mutex again by mutex_ipcp_lock,
\* where mutex.c:76 overwrites what the mutex keeps with the ceiling: however
\* timeouts, wakeups and handovers come, a task that failed to get the mutex or
\* gave it up has its priority back.
PriorityRestoredUnnested ==
    \A t \in Task \ nested : At(t, "idle") /\ holder # t => prio[t] = "base"
=============================================================================
