------------------------------ MODULE VLifecycle ------------------------------
(* The life of a guest partition in Twanvisor: its vcpus are pushed onto the  *)
(* schedulers (vcreate.c), run, pause and are preempted (venter.c, vexit.c,   *)
(* vsched.c), and are taken down by a root vcpu (vteardown) or by a vcpu of   *)
(* the partition that failed (vfailure_recover).  Whoever terminates a vcpu   *)
(* adds it to num_terminated; whoever makes that number complete finalizes:   *)
(* takes the partition out of the table and notifies root (vrecovery.c).      *)
(*                                                                            *)
(* A step is what happens between taking and dropping a scheduler's lock, the *)
(* table's writer lock, or one atomic access.  There is one partition and its *)
(* vid is used once.                                                          *)
(*                                                                            *)
(* Under MCQS the criticality level of every cpu is at its minimum here, so   *)
(* that __vsched_pop serves the queue of the lowest criticality only.  Once a *)
(* level is raised it also serves links that an earlier pop left in another   *)
(* queue, also those of a terminated vcpu: VSched has these links, and this   *)
(* module says nothing of what follows.                                       *)
EXTENDS Integers, FiniteSets

CONSTANTS N,           \* vpartition->vcpu_count
          CpuOf,       \* the physical cpu of each vcpu (vqueue_id)
          Destroyers,  \* root vcpus that call VDESTROY_PARTITION
          Creator,     \* the root vcpu that creates the partition
          PvSpin,      \* guests use the paravirtual spin hypercalls
          PanicOnBug,  \* CONFIG_VDBG_PANIC_ON_BUG: a failed assertion halts
          Policy,      \* "MCQS" or "MCFS": CONFIG_TWANVISOR_VSCHED_...
          NULL

Vcpus == 1..N
Actors == Vcpus \cup Destroyers \cup {Creator}

ASSUME ActorsAssumption ==
    /\ N \in Nat \ {0}
    /\ DOMAIN CpuOf = Vcpus
    /\ PvSpin \in BOOLEAN /\ PanicOnBug \in BOOLEAN /\ Policy \in {"MCQS", "MCFS"}
    /\ Vcpus \cap (Destroyers \cup {Creator, NULL}) = {}
    /\ Creator \notin Destroyers \cup {NULL} /\ NULL \notin Destroyers

VARIABLES
    state,      \* vcpu->vsched_metadata.state
    terminate,  \* vcpu->vsched_metadata.terminate
    spin,       \* vcpu->vsched_metadata.pv_spin_state
    queued,     \* the vcpus in the lowest of their scheduler's queues (MCQS) or in
                \* one of its frames (MCFS)
    kicked,     \* an ipi is on its way to the cpu that runs the vcpu
    valid,      \* vpartition_table[vid].valid
    holder,     \* the actor between vpartition_get and vpartition_put
    total,      \* vpartition->num_terminated
    pc,         \* where each actor is; "off" for a vcpu that has no cpu
    idx,        \* the loop variable of the walk over the vcpus
    cnt,        \* terminated_count
    sum,        \* num_terminated, the local variable
    notified,   \* root was sent the terminate notification
    claims,     \* history: the vcpus an actor terminated and has yet to count
    counted     \* history: the vcpus in num_terminated

tableVars == <<valid, holder, total, notified>>
localVars == <<idx, cnt, sum>>
histVars == <<claims, counted>>
vars == <<state, terminate, spin, queued, kicked, valid, holder, total, pc,
          idx, cnt, sum, notified, claims, counted>>

States == {"initializing", "ready", "transitioning", "running", "paused",
           "spinning", "terminated"}

\* After "recover" and "visit" everyone goes through the same steps.
EndPcs == {"count", "compare", "final", "notify", "panic"}
VcpuPcs == {"off", "host", "guest", "exit", "bug", "recover", "get", "visit"}
           \cup EndPcs
RootPcs == {"idle", "bug", "get", "visit"} \cup EndPcs
CreatorPcs == {"place", "push", "recover"} \cup EndPcs
Pcs == VcpuPcs \cup RootPcs \cup CreatorPcs

-----------------------------------------------------------------------------
\* vcpu_setup and vpartition_setup have run; vpartition_push is to come.
Init ==
    /\ state = [v \in Vcpus |-> "initializing"]
    /\ terminate = [v \in Vcpus |-> FALSE]
    /\ spin = [v \in Vcpus |-> "NONE"]
    /\ queued = {} /\ kicked = {}
    /\ valid = FALSE /\ holder = NULL /\ total = 0 /\ notified = FALSE
    /\ pc = [x \in Actors |-> IF x = Creator THEN "place"
                              ELSE IF x \in Destroyers THEN "idle" ELSE "off"]
    /\ idx = [x \in Actors |-> 1]
    /\ cnt = [x \in Actors |-> 0]
    /\ sum = [x \in Actors |-> 0]
    /\ claims = [x \in Actors |-> {}] /\ counted = {}

Goto(x, label) == pc' = [pc EXCEPT ![x] = label]
SetState(v, s) == state' = [state EXCEPT ![v] = s]

\* vsched_put and __vsched_unpause: under MCQS the vcpu joins its run queue.
PutReady(v) ==
    /\ SetState(v, "ready")
    /\ queued' = IF Policy = "MCQS" THEN queued \cup {v} ELSE queued

\* vsched_put_paused: it leaves the cpu, under MCQS for the paused queue.
PutPaused(v) == SetState(v, "paused") /\ UNCHANGED queued

-----------------------------------------------------------------------------
(* Creation: vpartition_push *)

Place ==
    /\ pc[Creator] = "place" /\ holder = NULL
    /\ valid' = TRUE
    /\ Goto(Creator, "push")
    /\ UNCHANGED <<state, terminate, spin, queued, kicked, holder, total,
                   localVars, notified, histVars>>

\* vsched_put or vsched_put_paused of the next vcpu, by its vboot_state; a vcpu
\* that was told to terminate meanwhile is recovered here.
Push ==
    LET v == idx[Creator] IN
    /\ pc[Creator] = "push" /\ v <= N
    /\ \/ /\ terminate[v]
          /\ Goto(Creator, "recover")
          /\ UNCHANGED <<state, queued, idx>>
       \/ /\ ~terminate[v]
          /\ PutReady(v) \/ PutPaused(v)
          /\ idx' = [idx EXCEPT ![Creator] = v + 1]
          /\ UNCHANGED pc
    /\ UNCHANGED <<terminate, spin, kicked, tableVars, cnt, sum, histVars>>

-----------------------------------------------------------------------------
(* The vcpus *)

\* __vsched_pop may take the vcpu: MCQS takes what is in its queue, MCFS looks at
\* the state; a mutant of it does not.
PoppableAny(v) == v \in queued
Poppable(v) == v \in queued /\ (Policy = "MCFS" => state[v] = "ready")

\* __vsched_get on the vcpu's cpu: no other vcpu has the cpu.  MCQS unlinks the
\* vcpu from the queue, MCFS leaves it in its frame.
Dispatch(v) ==
    /\ Poppable(v)
    /\ \A u \in Vcpus : CpuOf[u] = CpuOf[v] => pc[u] = "off"
    /\ queued' = IF Policy = "MCQS" THEN queued \ {v} ELSE queued
    /\ SetState(v, "transitioning")
    /\ Goto(v, "host")
    /\ UNCHANGED <<terminate, spin, kicked, tableVars, localVars, histVars>>

\* An entry that looks for terminate before it takes the scheduler's lock.
EnterEarly(v) ==
    \/ /\ pc[v] = "host"
       /\ Goto(v, IF terminate[v] THEN "recover" ELSE "enter")
       /\ UNCHANGED <<state, terminate, spin, queued, kicked, tableVars,
                      localVars, histVars>>
    \/ /\ pc[v] = "enter"
       /\ SetState(v, "running") /\ Goto(v, "guest")
       /\ UNCHANGED <<terminate, spin, queued, kicked, tableVars, localVars,
                      histVars>>

\* __venter
Enter(v) ==
    /\ pc[v] = "host"
    /\ \/ terminate[v] /\ Goto(v, "recover") /\ UNCHANGED state
       \/ ~terminate[v] /\ Goto(v, "guest") /\ SetState(v, "running")
    /\ UNCHANGED <<terminate, spin, queued, kicked, tableVars, localVars,
                   histVars>>

\* vexit_dispatcher, down to the unlock: any vm exit, an ipi's included.
Exit(v) ==
    /\ pc[v] = "guest"
    /\ SetState(v, "transitioning")
    /\ kicked' = kicked \ {v}
    /\ Goto(v, "exit")
    /\ UNCHANGED <<terminate, spin, queued, tableVars, localVars, histVars>>

\* vexit_dispatcher reads terminate without the lock, then runs the handler.
ExitCheck(v) ==
    /\ pc[v] = "exit"
    /\ Goto(v, IF terminate[v] THEN "recover" ELSE "host")
    /\ UNCHANGED <<state, terminate, spin, queued, kicked, tableVars,
                   localVars, histVars>>

\* vthis_vsched_reschedule, from the preemption timer or a yield.
Reschedule(v) ==
    /\ pc[v] = "host"
    /\ \/ terminate[v] /\ Goto(v, "recover") /\ UNCHANGED <<state, queued>>
       \/ ~terminate[v] /\ Goto(v, "off") /\ PutReady(v)
    /\ UNCHANGED <<terminate, spin, kicked, tableVars, localVars, histVars>>

\* vsched_pause_ipi
Pause(v) ==
    /\ pc[v] = "host"
    /\ \/ terminate[v] /\ Goto(v, "recover") /\ UNCHANGED <<state, queued>>
       \/ ~terminate[v] /\ Goto(v, "off") /\ PutPaused(v)
    /\ UNCHANGED <<terminate, spin, kicked, tableVars, localVars, histVars>>

\* VPV_SPIN_PAUSE: vsched_put_paused with pv_spin.
SpinPause(v) ==
    /\ PvSpin /\ pc[v] = "host"
    /\ \/ terminate[v] /\ Goto(v, "recover") /\ UNCHANGED <<state, spin>>
       \/ /\ ~terminate[v] /\ spin[v] = "NONE"
          /\ SetState(v, "spinning")
          /\ spin' = [spin EXCEPT ![v] = "PAUSED"]
          /\ Goto(v, "off")
       \/ /\ ~terminate[v] /\ spin[v] = "KICKED"
          /\ spin' = [spin EXCEPT ![v] = "NONE"]
          /\ UNCHANGED <<state, pc>>
    /\ UNCHANGED <<terminate, queued, kicked, tableVars, localVars, histVars>>

\* VPV_SPIN_KICK of a sibling's handler or VPV_SPIN_KICK_FAR of a root's: the
\* assertion that a vcpu marked VSPIN_PAUSED is in VPV_SPINNING halts the
\* machine or is only logged.
Kick(x, v) ==
    /\ PvSpin /\ pc[x] \in {"host", "idle"}
    /\ valid /\ holder = NULL
    /\ \/ /\ spin[v] # "PAUSED"
          /\ spin' = [spin EXCEPT ![v] = "KICKED"]
          /\ UNCHANGED <<state, queued, pc>>
       \/ /\ spin[v] = "PAUSED"
          /\ state[v] = "spinning" \/ ~PanicOnBug
          /\ spin' = [spin EXCEPT ![v] = "NONE"]
          /\ PutReady(v)
          /\ UNCHANGED pc
       \/ /\ spin[v] = "PAUSED"
          /\ state[v] # "spinning" /\ PanicOnBug
          /\ Goto(x, "bug")
          /\ UNCHANGED <<spin, state, queued>>
    /\ UNCHANGED <<terminate, kicked, tableVars, localVars, histVars>>

\* __vemu_unpause_vcpu, between the vpartition_get and the vpartition_put of a
\* sibling or of another partition's vcpu.
Unpause(v) ==
    /\ valid /\ holder = NULL
    /\ state[v] = "paused"
    /\ PutReady(v)
    /\ UNCHANGED <<terminate, spin, kicked, tableVars, pc, localVars,
                   histVars>>

\* vemu_vframe_set and vemu_vframe_unset, by root: the vcpu gets its first frame,
\* or loses its last one.
FrameSet(v) ==
    /\ Policy = "MCFS" /\ valid /\ holder = NULL
    /\ state[v] # "terminated"
    /\ queued' = queued \cup {v}
    /\ UNCHANGED <<state, terminate, spin, kicked, tableVars, pc, localVars,
                   histVars>>
FrameUnset(v) ==
    /\ Policy = "MCFS" /\ v \in queued
    /\ queued' = queued \ {v}
    /\ UNCHANGED <<state, terminate, spin, kicked, tableVars, pc, localVars,
                   histVars>>

\* vfailure_recover is called: in the host, or on a failed vm entry, which
\* leaves the state at VRUNNING.
Fail(v) ==
    /\ pc[v] \in {"host", "guest"}
    /\ kicked' = kicked \ {v}
    /\ Goto(v, "get")
    /\ UNCHANGED <<state, terminate, spin, queued, tableVars, localVars,
                   histVars>>

-----------------------------------------------------------------------------
(* Teardown: vteardown of a root vcpu and vfailure_recover of a guest's *)

\* VDESTROY_PARTITION
Destroy(r) ==
    /\ pc[r] = "idle"
    /\ Goto(r, "get")
    /\ UNCHANGED <<state, terminate, spin, queued, kicked, tableVars,
                   localVars, histVars>>

\* vpartition_get(vid)
Get(x) ==
    /\ pc[x] = "get" /\ holder = NULL
    /\ \/ /\ valid
          /\ holder' = x
          /\ idx' = [idx EXCEPT ![x] = 1]
          /\ Goto(x, "visit")
       \/ /\ ~valid
          /\ Goto(x, IF x \in Vcpus THEN "panic" ELSE "idle")
          /\ UNCHANGED <<holder, idx>>
    /\ UNCHANGED <<state, terminate, spin, queued, kicked, valid, total, cnt,
                   sum, notified, histVars>>

\* A walk that also counts the vcpus that are about to recover themselves.
TerminatesAll(x, v) == state[v] \notin {"initializing", "running", "terminated"}

\* The actor finds vcpu v off its cpu and terminates it, or is v itself.
Terminates(x, v) == x = v \/ state[v] \in {"ready", "paused", "spinning"}

\* A walk that leaves the vcpu it terminates in the run queue.
VisitNoDequeue(x) ==
    LET v == idx[x] IN
    /\ pc[x] = "visit" /\ v <= N
    /\ terminate' = [terminate EXCEPT ![v] = TRUE]
    /\ \/ /\ Terminates(x, v)
          /\ SetState(v, "terminated")
          /\ cnt' = [cnt EXCEPT ![x] = @ + 1]
          /\ claims' = [claims EXCEPT ![x] = @ \cup {v}]
          /\ UNCHANGED kicked
       \/ /\ ~Terminates(x, v)
          /\ kicked' = IF state[v] = "running" THEN kicked \cup {v} ELSE kicked
          /\ UNCHANGED <<state, cnt, claims>>
    /\ idx' = [idx EXCEPT ![x] = v + 1]
    /\ UNCHANGED <<spin, queued, tableVars, pc, sum, counted>>

\* One iteration of the walk, under the scheduler lock of the vcpu: a vcpu that is
\* not the walker's own is taken out of its queue or frames.
Visit(x) ==
    LET v == idx[x] IN
    /\ pc[x] = "visit" /\ v <= N
    /\ terminate' = [terminate EXCEPT ![v] = TRUE]
    /\ \/ /\ Terminates(x, v)
          /\ SetState(v, "terminated")
          /\ queued' = IF x = v THEN queued ELSE queued \ {v}
          /\ cnt' = [cnt EXCEPT ![x] = @ + 1]
          /\ claims' = [claims EXCEPT ![x] = @ \cup {v}]
          /\ UNCHANGED kicked
       \/ /\ ~Terminates(x, v)
          /\ kicked' = IF state[v] = "running" THEN kicked \cup {v} ELSE kicked
          /\ UNCHANGED <<state, queued, cnt, claims>>
    /\ idx' = [idx EXCEPT ![x] = v + 1]
    /\ UNCHANGED <<spin, tableVars, pc, sum, counted>>

\* vpartition_put(vid)
Put(x) ==
    /\ pc[x] = "visit" /\ idx[x] > N
    /\ holder' = NULL
    /\ Goto(x, "count")
    /\ UNCHANGED <<state, terminate, spin, queued, kicked, valid, total,
                   localVars, notified, histVars>>

\* vdo_transitioning_recover of the vcpu itself, or of the one being pushed: what
\* links or frames it has stay.
Recover(x) ==
    LET v == IF x = Creator THEN idx[x] ELSE x IN
    /\ pc[x] = "recover"
    /\ SetState(v, "terminated")
    /\ cnt' = [cnt EXCEPT ![x] = 1]
    /\ claims' = [claims EXCEPT ![x] = {v}]
    /\ Goto(x, "count")
    /\ UNCHANGED <<terminate, spin, queued, kicked, tableVars, idx, sum,
                   counted>>

\* atomic32_fetch_and_add(&vpartition->num_terminated, terminated_count)
Count(x) ==
    /\ pc[x] = "count"
    /\ total' = total + cnt[x]
    /\ sum' = [sum EXCEPT ![x] = total + cnt[x]]
    /\ cnt' = [cnt EXCEPT ![x] = 0]
    /\ counted' = counted \cup claims[x]
    /\ claims' = [claims EXCEPT ![x] = {}]
    /\ Goto(x, "compare")
    /\ UNCHANGED <<state, terminate, spin, queued, kicked, valid, holder, idx,
                   notified>>

\* Where an actor goes when it is done with the partition: the cpu of a vcpu
\* takes another one (vsched_get_spin), root goes on.
Done(x) ==
    /\ Goto(x, IF x = Creator THEN "push" ELSE IF x \in Vcpus THEN "off" ELSE "idle")
    /\ idx' = [idx EXCEPT ![x] = IF x = Creator THEN @ + 1 ELSE @]
    /\ sum' = [sum EXCEPT ![x] = 0]

\* A comparison that is off by one.
CompareEarly(x) ==
    /\ pc[x] = "compare"
    /\ \/ sum[x] >= N - 1 /\ Goto(x, "final") /\ UNCHANGED <<idx, sum>>
       \/ sum[x] < N - 1 /\ Done(x)
    /\ UNCHANGED <<state, terminate, spin, queued, kicked, tableVars, cnt,
                   histVars>>

\* num_terminated == vpartition_num_cpus, a field of the vcpu.
Compare(x) ==
    /\ pc[x] = "compare"
    /\ \/ sum[x] = N /\ Goto(x, "final") /\ UNCHANGED <<idx, sum>>
       \/ sum[x] # N /\ Done(x)
    /\ UNCHANGED <<state, terminate, spin, queued, kicked, tableVars, cnt,
                   histVars>>

\* vdo_finalize_teardown with the table locked exclusively: the partition must
\* still be in the table.
Finalize(x) ==
    /\ pc[x] = "final" /\ holder = NULL
    /\ valid' = FALSE
    /\ Goto(x, IF valid THEN "notify" ELSE "panic")
    /\ UNCHANGED <<state, terminate, spin, queued, kicked, holder, total,
                   localVars, notified, histVars>>

\* __vemu_inject_external_interrupt(root_vcpu, ...)
Notify(x) ==
    /\ pc[x] = "notify"
    /\ notified' = TRUE
    /\ Done(x)
    /\ UNCHANGED <<state, terminate, spin, queued, kicked, valid, holder,
                   total, cnt, histVars>>

-----------------------------------------------------------------------------
\* The steps of a teardown once it has begun.
TeardownStep(x) == Get(x) \/ Visit(x) \/ Put(x) \/ Recover(x) \/ Count(x)
                   \/ Compare(x) \/ Finalize(x) \/ Notify(x)

Next ==
    \/ Place \/ Push
    \/ \E v \in Vcpus : \/ Dispatch(v) \/ Enter(v) \/ Exit(v) \/ ExitCheck(v)
                        \/ Reschedule(v) \/ Pause(v) \/ SpinPause(v)
                        \/ Unpause(v) \/ Fail(v) \/ FrameSet(v) \/ FrameUnset(v)
                        \/ \E x \in Actors : Kick(x, v)
    \/ \E r \in Destroyers : Destroy(r)
    \/ \E x \in Actors : TeardownStep(x)

Spec == Init /\ [][Next]_vars

\* What the hypervisor does next for a vcpu it is not taking down; a guest that
\* an ipi interrupts exits.
Proceed(v) == ExitCheck(v) \/ Enter(v) \/ (v \in kicked /\ Exit(v))

\* The hypervisor's code goes on when it can.  No guest need exit by itself,
\* pause, fail or be dispatched.  The locks of a teardown are first come, first
\* served (McsLock, RwLock).
Fairness ==
    /\ WF_vars(Place \/ Push)
    /\ \A v \in Vcpus : WF_vars(Proceed(v))
    /\ \A x \in Actors : SF_vars(TeardownStep(x))

FairSpec == Spec /\ Fairness

-----------------------------------------------------------------------------
(* Properties *)

\* Code runs on the vcpu's own stack (vexit_stack) or reads its fields.
InUse(v) == pc[v] \notin {"off", "bug", "final", "notify", "panic"}

\* An assertion failed and the machine stopped, or went on with a null pointer.
Halted == \E x \in Actors : pc[x] \in {"panic", "bug"}

\* Every variable has its type: the count, a u32 of its own, never exceeds the
\* number of vcpus.
TypeOK ==
    /\ state \in [Vcpus -> States]
    /\ terminate \in [Vcpus -> BOOLEAN]
    /\ spin \in [Vcpus -> {"NONE", "KICKED", "PAUSED"}]
    /\ queued \subseteq Vcpus /\ kicked \subseteq Vcpus
    /\ valid \in BOOLEAN /\ notified \in BOOLEAN
    /\ holder \in Actors \cup {NULL}
    /\ total \in 0..N
    /\ pc \in [Actors -> Pcs]
    /\ idx \in [Actors -> 1..(N + 1)]
    /\ cnt \in [Actors -> 0..N] /\ sum \in [Actors -> 0..N]
    /\ claims \in [Actors -> SUBSET Vcpus] /\ counted \subseteq Vcpus

\* Every vcpu is counted once, by whoever terminated it, whichever of its own
\* exit, its failure, a preemption, a sibling's failure and a destroying root
\* gets there first.
CountedOnce ==
    /\ \A v \in Vcpus : state[v] = "terminated"
                         <=> v \in counted \/ \E x \in Actors : v \in claims[x]
    /\ \A x \in Actors : claims[x] \cap counted = {}
    /\ \A x, y \in Actors : x # y => claims[x] \cap claims[y] = {}
    /\ total = Cardinality(counted)
    /\ \A x \in Actors : cnt[x] = Cardinality(claims[x])

\* The partition is finalized, and leaves the table, when all of its vcpus are
\* terminated and __vsched_pop can take none of them, by a link or by a frame that
\* vdo_transitioning_recover left (MCFS, or MCQS at the lowest level).
FinalizedWhenAllTerminated ==
    (\E x \in Actors : pc[x] \in {"final", "notify"}) \/ notified
        => \A v \in Vcpus : state[v] = "terminated" /\ ~Poppable(v)

\* vfailure_recover finds its partition in the table, as it asserts: the
\* partition is not finalized while one of its vcpus can still fail.
FailureFindsPartition == \A v \in Vcpus : pc[v] = "get" => valid

\* A terminated vcpu stays so: no unpause or kick revives it, nor does the
\* scheduler through a frame (MCFS) or a link in the queue it serves (MCQS at the
\* lowest level; at a higher one it serves links that a pop left behind, and does).
TerminatedStays ==
    [][\A v \in Vcpus : state[v] = "terminated" => state'[v] = "terminated"]_vars

\* Once a vcpu is told to terminate, root is notified: no vcpu of the partition
\* pauses, waits or runs on unseen.  (A failed assertion halts the machine.)
TeardownCompletes == (\E v \in Vcpus : terminate[v]) ~> (notified \/ Halted)

\* vdo_finalize_teardown finds the partition in the table, as it asserts: it
\* runs once.
FinalizedOnce == \A x \in Actors : pc[x] = "final" => valid

\* When root is notified the teardown has finished: no cpu uses a vcpu of the
\* partition any more, so that root may reuse its memory.
NotifiedMeansUnused == notified => \A v \in Vcpus : ~InUse(v)

\* The assertion of __vemu_pv_spin_kick: a kick that finds a vcpu marked
\* VSPIN_PAUSED finds it in VPV_SPINNING.
KickedIsSpinning ==
    [][\A v \in Vcpus : spin[v] = "PAUSED" /\ spin'[v] = "NONE"
                          => state[v] = "spinning"]_vars
=============================================================================
