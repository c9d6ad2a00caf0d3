------------------------------- MODULE KSched -------------------------------
(* The scheduler of one cpu of the kernel (kernel/sched, without aging):      *)
(* a ready queue with a bin for every criticality, ticks of the scheduling    *)
(* timer, yields, sleeping and waiting, disabling of preemption with requests *)
(* to yield that are answered when it is enabled again, and the flag          *)
(* preempted_early that makes a task ignore a tick pending before it started. *)
EXTENDS DeltaChain, SequencesExt, FiniteSetsExt

CONSTANTS Task, Worker,             \* Worker: the cpu's idle task, never blocks
          MaxPrio, MaxCrit, MaxTicks, MaxNest   \* bounds

VARIABLES
    state,     \* "none", "ready", "running", "sleeping", "waiting"
    prio, crit,
    bins,      \* per criticality: the tasks of the bin in the order of their push
    level,     \* criticality_level
    current,
    count,     \* preemption_count
    req,       \* flags.yield_request
    early,     \* flags.preempted_early
    irq,       \* interrupt flag of the task's context
    pc,        \* where current_task_enable_preemption is
    pending,   \* a tick of the scheduling timer is pending
    chain,     \* the sleep chain
    late       \* history: the request came too late to be answered

vars == <<state, prio, crit, bins, level, current, count, req, early, irq, pc, pending,
          chain, late>>
flags == <<count, irq, pc>>

Crit == 0..MaxCrit
Tasks == Task \cup {Worker}

\* sched_trampoline_ipi: the worker is pushed, popped and run.
Init ==
    /\ state = [t \in Tasks |-> IF t = Worker THEN "running" ELSE "none"]
    /\ prio = [t \in Tasks |-> 0] /\ crit = [t \in Tasks |-> 0]
    /\ bins = [c \in Crit |-> <<>>] /\ level = 0 /\ current = Worker
    /\ count = [t \in Tasks |-> 0] /\ irq = [t \in Tasks |-> TRUE]
    /\ req = [t \in Tasks |-> FALSE] /\ early = [t \in Tasks |-> FALSE]
    /\ late = [t \in Tasks |-> FALSE] /\ pc = [t \in Tasks |-> "run"]
    /\ pending = FALSE /\ chain = <<>>

-----------------------------------------------------------------------------
(* sched_dsa.c and sched_queue.c                                              *)
Push(b, t) == [c \in Crit |-> IF c <= crit[t] THEN Append(b[c], t) ELSE b[c]]
PushAll(b, ts) == FoldLeft(Push, b, ts)
DequeueTask(b, t) ==
    [c \in Crit |-> IF c <= crit[t] THEN SelectSeq(b[c], LAMBDA u : u # t) ELSE b[c]]

\* The bin that __sched_priorityq_get_bin returns, -1 if none.
GetBin(b) == IF b[level] # <<>> THEN level ELSE IF b[0] # <<>> THEN 0 ELSE -1
HighestPrio(b, c) == Max({prio[b[c][i]] : i \in DOMAIN b[c]})
FrontOf(b, c) == b[c][1]          \* a mutant
FirstOf(b, c) == SelectSeq(b[c], LAMBDA t : prio[t] = HighestPrio(b, c))[1]

\* What sched_pop and sched_should_request_yield decide: whether t gives way.
GivesWay(t) ==
    LET c == GetBin(bins) IN
    /\ c # -1
    /\ IF crit[t] >= level
       THEN c >= level /\ HighestPrio(bins, c) >= prio[t]
       ELSE c >= level \/ HighestPrio(bins, c) >= prio[t]
Popped(b) == FirstOf(b, GetBin(b))

\* sched_switch_ctx to the task popped from b, the old task pushed if asked; a
\* pending tick is one the new task ignores.
Switch(t, b, st, push) ==
    LET n == Popped(b)
        left == DequeueTask(b, n)
    IN  /\ bins' = IF push THEN Push(left, t) ELSE left
        /\ state' = [state EXCEPT ![n] = "running", ![t] = st]
        /\ current' = n
        /\ early' = [u \in Tasks |-> IF u = n THEN pending ELSE IF u = t THEN FALSE ELSE early[u]]
Cleared(t) == req' = [req EXCEPT ![t] = FALSE] /\ late' = [late EXCEPT ![t] = FALSE]

-----------------------------------------------------------------------------
(* The interrupts.                                                            *)
TimerFires ==
    /\ pending' = TRUE
    /\ UNCHANGED <<state, prio, crit, bins, level, current, req, early, chain, late, flags>>

\* sched_timer_isr: sched_preempt.
SchedTick ==
    LET t == current IN
    /\ pending /\ irq[t]
    /\ pending' = FALSE
    /\ IF early[t]
       THEN early' = [early EXCEPT ![t] = FALSE] /\ UNCHANGED <<state, bins, current, req, late>>
       ELSE IF count[t] > 0
       THEN /\ req' = [req EXCEPT ![t] = @ \/ GivesWay(t)]
            /\ late' = [late EXCEPT ![t] = @ \/ (pc[t] = "fin" /\ GivesWay(t))]
            /\ UNCHANGED <<state, bins, current, early>>
       ELSE /\ Cleared(t)
            /\ IF GivesWay(t)
               THEN /\ LET n == Popped(bins) IN
                       /\ bins' = Push(DequeueTask(bins, n), t)
                       /\ state' = [state EXCEPT ![n] = "running", ![t] = "ready"]
                       /\ current' = n
                    /\ UNCHANGED early
               ELSE UNCHANGED <<state, bins, current, early>>
    /\ UNCHANGED <<prio, crit, level, chain, flags>>

\* gp_isr and hpet_isr: the tick of the sleep chain, on this cpu or another.
SleepTick ==
    /\ chain # <<>>
    /\ LET woken == [i \in DOMAIN Tick(chain)[1] |-> Tick(chain)[1][i].node] IN
       /\ bins' = PushAll(bins, woken)
       /\ state' = [t \in Tasks |-> IF t \in ToSet(woken) THEN "ready" ELSE state[t]]
    /\ chain' = Tick(chain)[2]
    /\ UNCHANGED <<prio, crit, level, current, req, early, pending, late, flags>>

\* A waiting task is woken (waitq_wakeup_front), from this cpu or another.
Wakeup(t) ==
    /\ state[t] = "waiting"
    /\ bins' = Push(bins, t)
    /\ state' = [state EXCEPT ![t] = "ready"]
    /\ UNCHANGED <<prio, crit, level, current, req, early, pending, chain, late, flags>>

-----------------------------------------------------------------------------
(* The calls of the running task.                                             *)
Running(t) == current = t /\ pc[t] = "run"

\* __task_create, task_init, by this cpu or another.
Create(n, p, c) ==
    /\ state[n] = "none"
    /\ prio' = [prio EXCEPT ![n] = p] /\ crit' = [crit EXCEPT ![n] = c]
    /\ bins' = [d \in Crit |-> IF d <= c THEN Append(bins[d], n) ELSE bins[d]]
    /\ state' = [state EXCEPT ![n] = "ready"]
    /\ UNCHANGED <<level, current, req, early, pending, chain, late, flags>>

\* current_task_destroy: sched_pop_clean_spin ends since the worker is ready.
\* The freed task is shown as task_init makes the next one in its place.
Destroy(t) ==
    /\ Running(t)
    /\ Switch(t, bins, "none", FALSE)
    /\ prio' = [prio EXCEPT ![t] = 0] /\ crit' = [crit EXCEPT ![t] = 0]
    /\ count' = [count EXCEPT ![t] = 0] /\ irq' = [irq EXCEPT ![t] = TRUE]
    /\ Cleared(t)
    /\ UNCHANGED <<level, pc, pending, chain>>

\* sched_yield.
Yield(t) ==
    /\ Cleared(t)
    /\ IF GivesWay(t)
       THEN Switch(t, bins, "ready", TRUE)
       ELSE early' = [early EXCEPT ![t] = FALSE] /\ UNCHANGED <<state, bins, current>>
    /\ UNCHANGED <<prio, crit, level, pending, chain>>
YieldCall(t) == Running(t) /\ Yield(t) /\ UNCHANGED flags

\* sleep_ticks (gp_sleep_ticks_ipi, hpet_sleep_ticks_ipi).
Sleep(t, n) ==
    /\ Running(t)
    /\ Cleared(t)
    /\ Switch(t, bins, "sleeping", FALSE)
    /\ chain' = Insert(chain, t, n)
    /\ UNCHANGED <<prio, crit, level, pending, flags>>

\* sched_yield_wait_ipi.
Wait(t) ==
    /\ Running(t)
    /\ Cleared(t)
    /\ Switch(t, bins, "waiting", FALSE)
    /\ UNCHANGED <<prio, crit, level, pending, chain, flags>>

DisablePreemption(t) ==
    /\ Running(t) /\ count[t] < MaxNest
    /\ count' = [count EXCEPT ![t] = @ + 1]
    /\ UNCHANGED <<state, prio, crit, bins, level, current, req, early, irq, pc, pending, chain, late>>

\* current_task_enable_preemption, then sched_try_answer_yield_request: it
\* disables preemption again, looks for a request, enables preemption.
EnablePreemption(t) ==
    /\ Running(t) /\ count[t] > 0
    /\ count' = [count EXCEPT ![t] = @ - 1] /\ pc' = [pc EXCEPT ![t] = "dec"]
    /\ UNCHANGED <<state, prio, crit, bins, level, current, req, early, irq, pending, chain, late>>
TryAnswer(t) ==
    /\ current = t /\ pc[t] = "dec"
    /\ count' = [count EXCEPT ![t] = @ + 1] /\ pc' = [pc EXCEPT ![t] = "ask"]
    /\ UNCHANGED <<state, prio, crit, bins, level, current, req, early, irq, pending, chain, late>>
\* The nesting as it is inside; a mutant looks for the caller's.
MayAnswerOutside(t) == irq[t] /\ count[t] = 0 /\ req[t]
MayAnswer(t) == irq[t] /\ count[t] = 1 /\ req[t]
Answer(t) ==
    /\ current = t /\ pc[t] = "ask"
    /\ pc' = [pc EXCEPT ![t] = "fin"]
    /\ IF MayAnswer(t)
       THEN Yield(t)
       ELSE /\ late' = [late EXCEPT ![t] = @ \/ (req[t] /\ ~irq[t])]
            /\ UNCHANGED <<state, prio, crit, bins, level, current, req, early, pending, chain>>
    /\ UNCHANGED <<count, irq>>
Answered(t) ==
    /\ current = t /\ pc[t] = "fin"
    /\ count' = [count EXCEPT ![t] = @ - 1] /\ pc' = [pc EXCEPT ![t] = "run"]
    /\ UNCHANGED <<state, prio, crit, bins, level, current, req, early, irq, pending, chain, late>>

\* read_flags_and_disable_interrupts, write_flags.
SetInterrupts(t) ==
    /\ Running(t)
    /\ irq' = [irq EXCEPT ![t] = ~@]
    /\ UNCHANGED <<state, prio, crit, bins, level, current, count, req, early, pc, pending, chain, late>>

\* current_task_write, as the mutexes use it.
Write(t, p, c) ==
    /\ Running(t)
    /\ prio' = [prio EXCEPT ![t] = p] /\ crit' = [crit EXCEPT ![t] = c]
    /\ UNCHANGED <<state, bins, level, current, req, early, pending, chain, late, flags>>

\* sched_mcs_inc_, _dec_ and _write_criticality_level.
SetLevel(t, l) ==
    /\ Running(t) /\ level' = l
    /\ UNCHANGED <<state, prio, crit, bins, current, req, early, pending, chain, late, flags>>

Calls(t) ==
    \/ Destroy(t) \/ YieldCall(t) \/ Wait(t)
    \/ \E n \in 1..MaxTicks : Sleep(t, n)
    \/ DisablePreemption(t) \/ EnablePreemption(t) \/ TryAnswer(t) \/ Answer(t) \/ Answered(t)
    \/ SetInterrupts(t)
    \/ \E p \in 0..MaxPrio, c \in Crit : Write(t, p, c)
    \/ \E l \in Crit : SetLevel(t, l)

Next ==
    \/ TimerFires \/ SchedTick \/ SleepTick
    \/ \E t \in Task, p \in 0..MaxPrio, c \in Crit : Create(t, p, c)
    \/ \E t \in Task : Wakeup(t) \/ Calls(t)

Spec == Init /\ [][Next]_vars

-----------------------------------------------------------------------------
TypeOK ==
    /\ state \in [Tasks -> {"none", "ready", "running", "sleeping", "waiting"}]
    /\ bins \in [Crit -> Seq(Tasks)] /\ level \in Crit /\ current \in Tasks
    /\ count \in [Tasks -> 0..(MaxNest + 1)] /\ pending \in BOOLEAN
    /\ req \in [Tasks -> BOOLEAN] /\ early \in [Tasks -> BOOLEAN]

\* A task is in every bin up to its criticality, once, exactly while it is
\* ready, and in no other: __sched_priorityq_dequeue finds it there although
\* the priority and criticality of tasks change (current_task_write), tasks
\* are woken by other cpus and the level changes under the queue.
ReadyIsQueued ==
    /\ state[current] = "running"
    /\ \A t \in Tasks, c \in Crit :
         Len(SelectSeq(bins[c], LAMBDA u : u = t)) =
             IF state[t] = "ready" /\ c <= crit[t] THEN 1 ELSE 0

\* A request to yield made while preemption was disabled is answered when it is
\* enabled.  Excepted are the requests of a tick inside the last instructions
\* of sched_try_answer_yield_request, and enabling with interrupts disabled:
\* they wait for the next tick.
RequestsAnswered ==
    \A t \in Tasks : req[t] /\ count[t] = 0 => pc[t] = "dec" \/ late[t]

\* preempted_early makes a task skip the tick that was pending when it got the
\* cpu, never a later one: the flag is set only while that tick is pending.
EarlySkipsOneTick == \A t \in Tasks : early[t] => current = t /\ pending

\* A tick that finds preemption enabled leaves the cpu to a task no ready task
\* should displace: with the criticality level at l, tasks of criticality l or
\* more come first, then the higher priority.
Before(u, t) ==
    IF crit[t] >= level THEN crit[u] >= level /\ prio[u] > prio[t]
    ELSE crit[u] >= level \/ prio[u] > prio[t]
TickStep ==
    pending /\ ~pending' /\ count[current] = 0 /\ ~early[current] =>
        \A u \in Tasks : state'[u] = "ready" => ~Before(u, current')
=============================================================================
