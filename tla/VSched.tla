------------------------------- MODULE VSched -------------------------------
(* The scheduler of one physical cpu: its queues (MCQS) or frames (MCFS), the *)
(* idle vcpu and its kick, the time slice and the criticality level.  The     *)
(* current vcpu runs in the guest or in the host; other cpus unpause, alter   *)
(* and tear down vcpus of this cpu, each under the scheduler's lock.  Virtual *)
(* interrupts, tlb flushes and the partition's teardown are modelled          *)
(* elsewhere (VInterrupts, VTlb, VLifecycle).                                 *)
EXTENDS Dq, FiniteSets

CONSTANTS Vcpu,     \* the vcpus whose vqueue is this cpu
          MaxCrit,  \* VSCHED_MAX_CRITICALITY
          Policy,   \* "MCQS" or "MCFS"
          Frames,   \* CONFIG_TWANVISOR_VSCHED_NUM_FRAMES
          Slices,   \* time slices in ticks, a subset of 0..1
          MaxStrays, \* bound: pops above the lowest queue that are followed
          IDLE

Crit == 0..MaxCrit
Min0 == 0
Paused == -1
Node == Vcpu \X Crit
Queue == Crit \cup {Paused}
Frame == 0..Frames-1

VARIABLES
    state,    \* vsched_metadata.state
    crit,     \* vsched_metadata.criticality
    slice,    \* time_slice_ticks, 0 for none
    left,     \* current_time_slice_ticks
    rearm,    \* vsched_metadata.rearm
    term,     \* vsched_metadata.terminate
    yield,    \* flags.yield_request
    heap,     \* the queues (MCQS)
    frames,   \* vscheduler.frames, clock (MCFS)
    clock,
    level,    \* vcriticality_level
    kick,     \* vscheduler.kick
    current,  \* vcurrent_vcpu
    pc,       \* what the current vcpu does: "guest", "host", or "pinned": in
              \* the host with preemption disabled
    armed,    \* sched_timer_armed
    strays,   \* history: how often __vsched_pop has served a queue above the lowest
    missed,   \* history: vcpus given a slice inside an exit handler
    silent    \* history: vcpus made ready in a frame without a kick, and not yet run

vars == <<state, crit, slice, left, rearm, term, yield, heap, frames, clock,
          level, kick, current, pc, armed, strays, missed, silent>>
meta == <<crit, slice, level>>

Init ==
    /\ state = [v \in Vcpu |-> "INITIALIZING"]
    /\ crit \in [Vcpu -> Crit] /\ slice \in [Vcpu -> Slices]
    /\ left = [v \in Vcpu |-> 0]
    /\ rearm = [v \in Vcpu |-> FALSE] /\ term = rearm /\ yield = rearm
    /\ heap = EmptyHeap(Queue, Node)
    /\ frames = [f \in Frame |-> NULL] /\ clock = 0
    /\ level = Min0 /\ kick = FALSE /\ current = IDLE /\ pc = "host"
    /\ armed = FALSE /\ strays = 0 /\ missed = {} /\ silent = {}

-----------------------------------------------------------------------------
(* vsched_dsa.c.                                                              *)
\* __vsched_push and __vsched_dequeue go over the queues 0 .. criticality.
Push(h, v, k) ==
    LET done[i \in Crit] == PushBack(IF i = 0 THEN h ELSE done[i - 1], i, <<v, i>>)
    IN done[k]
Cut(h, q, n) == IF IsQueued(h, q, n) THEN Dequeue(h, q, n) ELSE h
UnqueueTop(h, v, k) == Cut(h, k, <<v, k>>)          \* a mutant
Unqueue(h, v, k) ==
    LET done[i \in Crit] == Cut(IF i = 0 THEN h ELSE done[i - 1], i, <<v, i>>)
    IN done[k]
Unframed(v) == [f \in Frame |-> IF frames[f] = v THEN NULL ELSE frames[f]]

\* __vsched_get_bucket: the queue to pop, -2 for none.
None == -2
Bucket(h) == IF h.front[level] # NULL THEN level
             ELSE IF h.front[Min0] # NULL THEN Min0 ELSE None

\* The frames in the order in which both loops of MCFS visit them.
Turn(i) == (clock + i) % Frames
ReadyAt(st, f) == frames[f] # NULL /\ st[frames[f]] = "READY"
Outranks(v, k) == crit[v] < level \/ k >= level

\* __vsched_is_current_preemptible; MCFS looks at all frames but the last.
Preemptible(v) ==
    IF Policy = "MCQS"
    THEN Bucket(heap) # None /\ Outranks(v, Bucket(heap))
    ELSE \E i \in 0..Frames-2 : /\ ReadyAt(state, Turn(i))
                                /\ Outranks(v, crit[frames[Turn(i)]])

\* __vsched_pop from the given links and states: the vcpu, links and clock.
FirstOf(st, least) ==
    LET S == {i \in 0..Frames-1 : ReadyAt(st, Turn(i)) /\ crit[frames[Turn(i)]] >= least}
    IN IF S = {} THEN None ELSE CHOOSE i \in S : \A j \in S : i <= j
PopFrame(st) ==
    LET high == FirstOf(st, level)
        i == IF high # None THEN high ELSE FirstOf(st, 0)
    IN IF i = None THEN [vcpu |-> NULL, heap |-> heap, clock |-> clock]
       ELSE [vcpu |-> frames[Turn(i)], heap |-> heap, clock |-> Turn(i) + 1]
PopQueue(h) ==
    LET q == Bucket(h) IN
    IF q = None THEN [vcpu |-> NULL, heap |-> h, clock |-> clock]
    ELSE [vcpu |-> h.front[q][1], heap |-> PopFront(h, q), clock |-> clock]
Pop(h, st) == IF Policy = "MCQS" THEN PopQueue(h) ELSE PopFrame(st)

\* The links after __vsched_push / __vsched_push_paused, in MCQS only.
Pushed(v) == IF Policy = "MCQS" THEN Push(heap, v, crit[v]) ELSE heap
PushedPaused(v) == IF Policy = "MCQS" THEN PushBack(heap, Paused, <<v, 0>>) ELSE heap

-----------------------------------------------------------------------------
(* vsched.c, vsched_ctx.c, vsched_timer.c: from links h and states st, switch *)
(* to the vcpu popped, or to the idle vcpu, which takes the kick back.        *)
Switch(h, st, keepKick) ==
    LET p == Pop(h, st) IN
    /\ heap' = p.heap /\ clock' = p.clock
    /\ strays' = IF Policy = "MCQS" /\ Bucket(h) > Min0 THEN strays + 1 ELSE strays
    /\ silent' = silent \ {p.vcpu}
    /\ pc' = "host"
    /\ IF p.vcpu = NULL
       THEN /\ current' = IDLE /\ kick' = FALSE /\ armed' = FALSE
            /\ state' = st /\ UNCHANGED left
       ELSE /\ current' = p.vcpu /\ kick' = keepKick
            /\ state' = [st EXCEPT ![p.vcpu] = "TRANSITIONING"]
            /\ left' = [left EXCEPT ![p.vcpu] = slice[p.vcpu]]
            /\ armed' = (slice[p.vcpu] # 0)

\* vdo_transitioning_recover, then vsched_get_or_idle.
Recover(v) ==
    /\ Switch(heap, [state EXCEPT ![v] = "TERMINATED"], kick)
    /\ yield' = [yield EXCEPT ![v] = FALSE]
    /\ missed' = missed \ {v}
    /\ UNCHANGED <<meta, rearm, term, frames>>

\* vthis_vsched_reschedule, with the yield request taken back first.
Reschedule(v) ==
    \/ term[v] /\ Recover(v)
    \/ /\ ~term[v]
       /\ IF Preemptible(v)
          THEN /\ Switch(Pushed(v), [state EXCEPT ![v] = "READY"],
                         kick \/ Policy = "MCQS")
               /\ rearm' = [rearm EXCEPT ![v] = FALSE]
          ELSE /\ left' = [left EXCEPT ![v] = slice[v]]
               /\ armed' = (slice[v] # 0)
               /\ pc' = "host"
               /\ UNCHANGED <<state, heap, clock, kick, current, rearm, strays, silent>>
       /\ yield' = [yield EXCEPT ![v] = FALSE]
       /\ missed' = missed \ {v}
       /\ UNCHANGED <<meta, term, frames>>

-----------------------------------------------------------------------------
(* Steps of this cpu.                                                         *)
Running(v, where) == current = v /\ pc = where
Same == UNCHANGED <<meta, heap, frames, clock, kick, current, strays, silent>>

\* __venter: the slice granted while the vcpu ran or by itself is armed here; a
\* mutant leaves the timer as it is.
ArmedBefore(v) == armed
ArmedAtEntry(v) == IF rearm[v] THEN left[v] # 0 ELSE armed
Enter(v) ==
    /\ Running(v, "host")
    /\ \/ term[v] /\ Recover(v)
       \/ /\ ~term[v]
          /\ state' = [state EXCEPT ![v] = "RUNNING"]
          /\ pc' = "guest"
          /\ rearm' = [rearm EXCEPT ![v] = FALSE]
          /\ armed' = ArmedAtEntry(v)
          /\ Same /\ UNCHANGED <<left, term, yield, missed>>

\* vexit_dispatcher; an exit for the slice's timer asks for a yield
\* (vexit_ext_dispatcher), which enabling preemption then answers.
Exit(v, timer) ==
    /\ Running(v, "guest")
    /\ timer => armed
    /\ armed' = (armed /\ ~timer)
    /\ yield' = [yield EXCEPT ![v] = @ \/ timer]
    /\ state' = [state EXCEPT ![v] = "TRANSITIONING"]
    /\ pc' = "pinned"
    /\ Same /\ UNCHANGED <<left, rearm, term, missed>>

\* vcurrent_vcpu_enable_preemption; a handler that was told to go recovers.
Unpin(v) ==
    /\ Running(v, "pinned")
    /\ \/ yield[v] /\ Reschedule(v)
       \/ term[v] /\ ~yield[v] /\ Recover(v)
       \/ /\ ~yield[v] /\ ~term[v]
          /\ pc' = "host"
          /\ Same /\ UNCHANGED <<state, left, rearm, term, yield, armed, missed>>

\* vsched_preempt_isr, the timer's interrupt in the host.
Timer(v) ==
    /\ armed
    /\ \/ Running(v, "host") /\ Reschedule(v)
       \/ /\ Running(v, "pinned")
          /\ IF Preemptible(v)
             THEN yield' = [yield EXCEPT ![v] = TRUE] /\ armed' = FALSE
             ELSE armed' = (left[v] # 0) /\ UNCHANGED yield
          /\ Same /\ UNCHANGED <<state, left, rearm, term, pc, missed>>

\* vcurrent_vcpu_disable_preemption by a handler.
Pin(v) ==
    /\ Running(v, "host")
    /\ pc' = "pinned"
    /\ Same /\ UNCHANGED <<state, left, rearm, term, yield, armed, missed>>

\* VYIELD and VPAUSE.
Yield(v) == Running(v, "host") /\ Reschedule(v)
Pause(v) ==
    /\ Running(v, "host")
    /\ \/ term[v] /\ Recover(v)
       \/ /\ ~term[v]
          /\ Switch(PushedPaused(v), [state EXCEPT ![v] = "PAUSED"], kick)
          /\ rearm' = [rearm EXCEPT ![v] = FALSE]
          /\ yield' = [yield EXCEPT ![v] = FALSE]
          /\ missed' = missed \ {v}
          /\ UNCHANGED <<meta, term, frames>>

\* vidle_vcpu_loop and vsched_idle_yield.
IdleLoop ==
    /\ current = IDLE /\ kick
    /\ Switch(heap, state, kick)
    /\ UNCHANGED <<meta, rearm, term, yield, frames, missed>>

-----------------------------------------------------------------------------
(* Steps of any cpu, under the scheduler's lock.                              *)
Here == UNCHANGED <<slice, left, rearm, term, yield, level, current, pc, armed,
                    strays, missed>>

\* vpartition_push: a vcpu starts ready or paused, unless it was told to go while
\* it was in the table and not yet pushed (vdo_transitioning_recover).
Create(v, paused) ==
    /\ state[v] = "INITIALIZING"
    /\ IF term[v]
       THEN /\ state' = [state EXCEPT ![v] = "TERMINATED"]
            /\ UNCHANGED <<heap, kick, silent>>
       ELSE /\ state' = [state EXCEPT ![v] = IF paused THEN "PAUSED" ELSE "READY"]
            /\ heap' = IF paused THEN PushedPaused(v) ELSE Pushed(v)
            /\ kick' = (kick \/ (~paused /\ Policy = "MCQS"))
            /\ silent' = IF Policy = "MCFS" /\ ~paused THEN silent \cup {v} ELSE silent
    /\ Here /\ UNCHANGED <<crit, frames, clock>>

\* __vsched_unpause, for an unpause and for a kick of a paravirtual spinner.
Unpause(v) ==
    /\ state[v] = "PAUSED"
    /\ state' = [state EXCEPT ![v] = "READY"]
    /\ heap' = IF Policy = "MCQS" THEN Push(Cut(heap, Paused, <<v, 0>>), v, crit[v])
               ELSE heap
    /\ kick' = TRUE
    /\ Here /\ UNCHANGED <<crit, frames, clock, silent>>

\* vteardown's loop over the vcpus.
Teardown(v) ==
    /\ ~term[v]
    /\ term' = [term EXCEPT ![v] = TRUE]
    /\ IF state[v] \in {"READY", "PAUSED"}
       THEN /\ state' = [state EXCEPT ![v] = "TERMINATED"]
            /\ heap' = IF Policy = "MCFS" THEN heap
                       ELSE IF state[v] = "READY" THEN Unqueue(heap, v, crit[v])
                       ELSE Cut(heap, Paused, <<v, 0>>)
            /\ frames' = Unframed(v)
       ELSE UNCHANGED <<state, heap, frames>>
    /\ UNCHANGED <<meta, left, rearm, yield, clock, kick, current, pc, armed, strays,
                   missed, silent>>

\* vemu_alter_vcpu, of the criticality (__vsched_update_criticality) ...
AlterCrit(v, k) ==
    /\ crit[v] # k
    /\ crit' = [crit EXCEPT ![v] = k]
    /\ IF Policy = "MCQS" /\ state[v] = "READY"
       THEN heap' = Push(Unqueue(heap, v, crit[v]), v, k) /\ kick' = TRUE
       ELSE UNCHANGED <<heap, kick>>
    /\ Here /\ UNCHANGED <<state, frames, clock, silent>>

\* ... and of the time slice, by the vcpu itself or by one of another cpu; a call
\* that changes nothing is left out, here and in SetLevel.
AlterSlice(v, ticks, self) ==
    LET wake == left[v] = 0 /\ ticks # 0 IN
    /\ wake \/ ticks # slice[v]
    /\ self => current = v /\ pc # "guest"
    /\ slice' = [slice EXCEPT ![v] = ticks]
    /\ left' = [left EXCEPT ![v] = IF wake THEN ticks ELSE @]
    /\ rearm' = [rearm EXCEPT ![v] = @ \/ (wake /\ (state[v] = "RUNNING" \/ self))]
    /\ missed' = IF wake /\ state[v] = "TRANSITIONING" /\ ~self
                 THEN missed \cup {v} ELSE missed
    /\ UNCHANGED <<state, crit, term, yield, heap, frames, clock, level, kick,
                   current, pc, armed, strays, silent>>

\* vsched_mcs_write_criticality_level.
SetLevel(k) ==
    /\ level # k /\ level' = k
    /\ UNCHANGED <<state, crit, slice, left, rearm, term, yield, heap, frames,
                   clock, kick, current, pc, armed, strays, missed, silent>>

\* vemu_vframe_set and vemu_vframe_unset.
FrameSet(v, f) ==
    /\ Policy = "MCFS" /\ frames[f] = NULL
    /\ state[v] # "TERMINATED"
    /\ frames' = [frames EXCEPT ![f] = v]
    /\ kick' = (kick \/ state[v] = "READY")
    /\ silent' = IF state[v] = "READY" THEN silent \ {v} ELSE silent
    /\ Here /\ UNCHANGED <<state, crit, heap, clock>>
FrameUnset(f) ==
    /\ Policy = "MCFS" /\ frames[f] # NULL
    /\ frames' = [frames EXCEPT ![f] = NULL]
    /\ Here /\ UNCHANGED <<state, crit, heap, clock, kick, silent>>

Next ==
    /\ strays < MaxStrays
    /\ \/ IdleLoop
       \/ \E v \in Vcpu :
            \/ Enter(v) \/ Unpin(v) \/ Timer(v) \/ Pin(v) \/ Yield(v) \/ Pause(v)
            \/ Unpause(v) \/ Teardown(v)
            \/ \E x \in BOOLEAN : Exit(v, x) \/ Create(v, x)
            \/ \E k \in Crit : AlterCrit(v, k)
            \/ \E ticks \in Slices, self \in BOOLEAN : AlterSlice(v, ticks, self)
            \/ \E f \in Frame : FrameSet(v, f)
       \/ \E k \in Crit : SetLevel(k)
       \/ \E f \in Frame : FrameUnset(f)

Spec == Init /\ [][Next]_vars

-----------------------------------------------------------------------------
TypeOK ==
    /\ state \in [Vcpu -> {"INITIALIZING", "READY", "RUNNING", "TRANSITIONING",
                           "PAUSED", "TERMINATED"}]
    /\ crit \in [Vcpu -> Crit] /\ slice \in [Vcpu -> Slices]
    /\ left \in [Vcpu -> Slices \cup {0}]
    /\ rearm \in [Vcpu -> BOOLEAN] /\ term \in [Vcpu -> BOOLEAN]
    /\ yield \in [Vcpu -> BOOLEAN]
    /\ heap \in Heap(Queue, Node)
    /\ frames \in [Frame -> Vcpu \cup {NULL}] /\ clock \in 0..Frames
    /\ level \in Crit /\ kick \in BOOLEAN /\ armed \in BOOLEAN
    /\ current \in Vcpu \cup {IDLE} /\ pc \in {"guest", "host", "pinned"}

\* The vcpus of a queue, walked far enough to notice a node met twice.
Queued(q) == LET w == Walk(heap, q, Cardinality(Vcpu) + 1)
             IN [i \in {j \in DOMAIN w : w[j] # NULL} |-> w[i][1]]
Holds(q, S) == LET w == Queued(q) IN
               /\ {w[i] : i \in DOMAIN w} = S
               /\ Cardinality(DOMAIN w) = Cardinality(S)

\* The current vcpu is the one that is running or transitioning.  And until
\* __vsched_pop serves a queue above the lowest, that queue holds each ready vcpu
\* once and nothing else, and the paused queue each paused one, whatever pushes,
\* pops, criticality and level changes leave behind in the higher queues.  (A pop
\* of a higher queue leaves the vcpu linked in the others: from there on links to
\* vcpus that run, pause or are gone are served, and queues lose vcpus.)
QueuesHoldTheReady ==
    Policy = "MCQS" =>
        /\ \A v \in Vcpu : current = v <=> state[v] \in {"RUNNING", "TRANSITIONING"}
        /\ strays = 0 => /\ Holds(Min0, {v \in Vcpu : state[v] = "READY"})
                       /\ Holds(Paused, {v \in Vcpu : state[v] = "PAUSED"})

\* The idle vcpu never sleeps through work: when a vcpu that could be popped is
\* ready, the kick that vidle_vcpu_loop spins on is set.  Exceptions are the queues
\* of MCQS once a higher one was served, and a vcpu that is in a frame when
\* vpartition_push makes it ready, which under MCFS sets no kick.
IdleIsKicked ==
    /\ current = IDLE
    /\ \/ \E v \in Vcpu : Policy = "MCQS" /\ strays = 0 /\ state[v] = "READY"
       \/ \E f \in Frame : ReadyAt(state, f) /\ frames[f] \notin silent
    => kick

\* A current vcpu with a time slice always has its end in sight: the timer is
\* armed, a yield is requested, or the next entry arms the timer.  The
\* exception is a slice given by another cpu while the vcpu is inside an exit
\* handler, for which vemulate_utils.c:391-397 sets no rearm.
SliceEnds ==
    \A v \in Vcpu \ missed :
        current = v /\ left[v] # 0 => armed \/ yield[v] \/ rearm[v]
=============================================================================
