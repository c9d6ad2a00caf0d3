------------------------------- MODULE McsLock -------------------------------
(* The MCS queue locks of src/src/subsys/sync/mcslock.c, plain and           *)
(* paravirtualised, with the hypercalls the paravirtualised ones make:       *)
(* the vcpu blocks itself (vsched_put_paused) and is kicked by the context   *)
(* that hands it the lock (__vemu_pv_spin_kick).                             *)
(*                                                                           *)
(* A context is one flow of control that takes one lock: the task a vcpu     *)
(* runs, or an interrupt handler on top of it.  Its queue node (struct       *)
(* mcsnode, on its stack) has the context's own name, so a node is in use    *)
(* exactly while its context is between its xchg and its release.            *)
EXTENDS Naturals, Sequences

CONSTANTS Ctx,        \* contexts, and the names of their nodes
          Vcpu,       \* virtual cpus of the guest
          Lock,       \* locks
          VcpuOf,     \* the vcpu a context runs on (this_processor_id)
          LockOf,     \* the lock a context takes
          Isr,        \* the contexts that are interrupt handlers
          PvLocks,    \* locks taken by __pv_mcs_lock with twanvisor_on set
          IsrLocks,   \* locks of type mcslock_isr
          NULL        \* the null pointer

ASSUME ConstantsAssumption ==
    /\ VcpuOf \in [Ctx -> Vcpu]
    /\ LockOf \in [Ctx -> Lock]
    /\ Isr \subseteq Ctx
    /\ PvLocks \subseteq Lock
    /\ IsrLocks \subseteq Lock
    /\ NULL \notin Ctx

\* A context never interrupts one that uses the same lock on the same vcpu:
\* a lock that handlers take is an mcslock_isr, so its users disable interrupts.
ASSUME LockDiscipline ==
    \A c, d \in Ctx : c # d /\ VcpuOf[c] = VcpuOf[d] => LockOf[c] # LockOf[d]

VARIABLES
    tail,         \* lock->tail
    next, state,  \* node->next, node->state
    prev, succ,   \* the local pointers prev (of lock) and next (of unlock)
    pc,           \* where each context is
    vstate,       \* vcpu->state, VRUNNING and VTRANSITIONING as "active"
    pvSpin,       \* vcpu->pv_spin_state
    intr,         \* the vcpu's interrupt flag
    saved,        \* __flags, saved by mcs_lock_isr_save
    flags,        \* lock->flags
    param,        \* the flags argument of mcs_unlock_isr_restore
    queue         \* history variable: the contexts in the order of their xchg

nodeVars == <<tail, next, state, prev, succ>>
vcpuVars == <<vstate, pvSpin>>
flagVars == <<intr, saved, flags, param>>
vars == <<tail, next, state, prev, succ, pc, vstate, pvSpin, intr, saved,
          flags, param, queue>>

WaitPcs == {"link", "spin", "query", "trypause", "pause"}
HoldPcs == {"save", "cs", "cas", "waitnext", "grant", "handoff"}
FreePcs == {"idle", "kick", "restore"}

-----------------------------------------------------------------------------
Init ==
    /\ tail = [l \in Lock |-> NULL]
    /\ next = [c \in Ctx |-> NULL]
    /\ state = [c \in Ctx |-> "LOCKED"]
    /\ prev = [c \in Ctx |-> NULL]
    /\ succ = [c \in Ctx |-> NULL]
    /\ pc = [c \in Ctx |-> "idle"]
    /\ vstate = [v \in Vcpu |-> "ready"]
    /\ pvSpin = [v \in Vcpu |-> "NONE"]
    /\ intr = [v \in Vcpu |-> TRUE]
    /\ saved = [c \in Ctx |-> FALSE]
    /\ flags = [l \in Lock |-> FALSE]
    /\ param = [c \in Ctx |-> FALSE]
    /\ queue = [l \in Lock |-> <<>>]

\* A context executes when its vcpu does and no handler runs on top of it.
Runs(c) ==
    /\ vstate[VcpuOf[c]] = "active"
    /\ c \notin Isr => \A d \in Isr : VcpuOf[d] = VcpuOf[c] => pc[d] = "idle"

Goto(c, label) == pc' = [pc EXCEPT ![c] = label]

\* An mcs_lock_isr_save that does not publish the flags it saved.
EnteredNoSave(c) == "cs"

\* Where a context that got the lock goes: *flags = __flags, or straight on.
Entered(c) == IF LockOf[c] \in IsrLocks THEN "save" ELSE "cs"

-----------------------------------------------------------------------------
(* Lock *)

\* INITIALIZE_MCSNODE, read_flags_and_disable_interrupts and the xchg of the
\* tail.  A handler starts only with interrupts enabled, and starts with them
\* disabled by the interrupt gate.
Xchg(c) ==
    LET l == LockOf[c] v == VcpuOf[c] IN
    /\ pc[c] = "idle" /\ Runs(c)
    /\ c \in Isr => intr[v]
    /\ next' = [next EXCEPT ![c] = NULL]
    /\ state' = [state EXCEPT ![c] = "LOCKED"]
    /\ prev' = [prev EXCEPT ![c] = tail[l]]
    /\ tail' = [tail EXCEPT ![l] = c]
    /\ queue' = [queue EXCEPT ![l] = Append(@, c)]
    /\ saved' = [saved EXCEPT ![c] = intr[v] /\ c \notin Isr /\ l \in IsrLocks]
    /\ intr' = [intr EXCEPT ![v] = @ /\ c \notin Isr /\ l \notin IsrLocks]
    /\ Goto(c, IF tail[l] = NULL THEN Entered(c) ELSE "link")
    /\ UNCHANGED <<succ, vstate, pvSpin, flags, param>>

\* prev->processor_id is read and prev->next set.
Link(c) ==
    /\ pc[c] = "link" /\ Runs(c)
    /\ next' = [next EXCEPT ![prev[c]] = c]
    /\ Goto(c, "spin")
    /\ UNCHANGED <<tail, state, prev, succ, vcpuVars, flagVars, queue>>

\* while (node->state != MCS_UNLOCKED): leave the loop, or (in the pv lock,
\* after the threshold of iterations) go and ask about the predecessor.
Spin(c) ==
    /\ pc[c] = "spin" /\ Runs(c)
    /\ \/ state[c] = "UNLOCKED" /\ Goto(c, Entered(c))
       \/ /\ state[c] # "UNLOCKED" /\ LockOf[c] \in PvLocks
          /\ Goto(c, "query")
    /\ UNCHANGED <<nodeVars, vcpuVars, flagVars, queue>>

\* A waiter that takes a predecessor that is not active for one that has left.
QueryGone(c) ==
    /\ pc[c] = "query" /\ Runs(c)
    /\ Goto(c, IF vstate[VcpuOf[prev[c]]] = "active" THEN "spin" ELSE Entered(c))
    /\ UNCHANGED <<nodeVars, vcpuVars, flagVars, queue>>

\* tv_vis_vcpu_active(processor_id of the predecessor)
Query(c) ==
    /\ pc[c] = "query" /\ Runs(c)
    /\ Goto(c, IF vstate[VcpuOf[prev[c]]] = "active" THEN "spin" ELSE "trypause")
    /\ UNCHANGED <<nodeVars, vcpuVars, flagVars, queue>>

\* cmpxchg(&node->state, MCS_LOCKED, MCS_PAUSED)
TryPause(c) ==
    /\ pc[c] = "trypause" /\ Runs(c)
    /\ \/ /\ state[c] = "LOCKED"
          /\ state' = [state EXCEPT ![c] = "PAUSED"]
          /\ Goto(c, "pause")
       \/ state[c] # "LOCKED" /\ Goto(c, "spin") /\ UNCHANGED state
    /\ UNCHANGED <<tail, next, prev, succ, vcpuVars, flagVars, queue>>

\* A hypervisor that blocks the vcpu whether or not a kick came first.
PauseVcpuDeaf(v) ==
    /\ pvSpin' = [pvSpin EXCEPT ![v] = "PAUSED"]
    /\ vstate' = [vstate EXCEPT ![v] = "spinning"]

\* A pause hypercall that forgets pv_spin: the vcpu is paused for good.
PauseVcpuNoSpin(v) ==
    /\ vstate' = [vstate EXCEPT ![v] = "paused"]
    /\ UNCHANGED pvSpin

\* vsched_put_paused with pv_spin: block the vcpu, unless a kick came first.
PauseVcpu(v) ==
    \/ /\ pvSpin[v] = "NONE"
       /\ pvSpin' = [pvSpin EXCEPT ![v] = "PAUSED"]
       /\ vstate' = [vstate EXCEPT ![v] = "spinning"]
    \/ /\ pvSpin[v] = "KICKED"
       /\ pvSpin' = [pvSpin EXCEPT ![v] = "NONE"]
       /\ UNCHANGED vstate

\* tv_vpv_spin_pause
Pause(c) ==
    /\ pc[c] = "pause" /\ Runs(c)
    /\ PauseVcpu(VcpuOf[c])
    /\ Goto(c, "spin")
    /\ UNCHANGED <<nodeVars, flagVars, queue>>

\* *flags = __flags, written by the context that now holds the lock.
SaveFlags(c) ==
    /\ pc[c] = "save" /\ Runs(c)
    /\ flags' = [flags EXCEPT ![LockOf[c]] = saved[c]]
    /\ Goto(c, "cs")
    /\ UNCHANGED <<nodeVars, vcpuVars, intr, saved, param, queue>>

-----------------------------------------------------------------------------
(* Unlock *)

\* The caller passes lock->flags; node->next is read.
ReadNext(c) ==
    /\ pc[c] = "cs" /\ Runs(c)
    /\ param' = [param EXCEPT ![c] = LockOf[c] \in IsrLocks /\ flags[LockOf[c]]]
    /\ succ' = [succ EXCEPT ![c] = next[c]]
    /\ Goto(c, IF next[c] = NULL THEN "cas" ELSE "grant")
    /\ UNCHANGED <<tail, next, state, prev, vcpuVars, intr, saved, flags, queue>>

\* The context gives up its place at the head of the queue.
Dequeue(c) == queue' = [queue EXCEPT ![LockOf[c]] = Tail(@)]

\* An unlock that stores NULL in the tail whoever is queued behind.
CasTailBlind(c) ==
    /\ pc[c] = "cas" /\ Runs(c)
    /\ tail' = [tail EXCEPT ![LockOf[c]] = NULL]
    /\ Dequeue(c)
    /\ Goto(c, "restore")
    /\ UNCHANGED <<next, state, prev, succ, vcpuVars, flagVars>>

\* An unlock that returns when the cmpxchg fails.
CasTailReturns(c) ==
    /\ pc[c] = "cas" /\ Runs(c)
    /\ tail' = [tail EXCEPT ![LockOf[c]] = IF @ = c THEN NULL ELSE @]
    /\ Dequeue(c)
    /\ Goto(c, "restore")
    /\ UNCHANGED <<next, state, prev, succ, vcpuVars, flagVars>>

\* cmpxchg(&lock->tail, node, NULL)
CasTail(c) ==
    /\ pc[c] = "cas" /\ Runs(c)
    /\ \/ /\ tail[LockOf[c]] = c
          /\ tail' = [tail EXCEPT ![LockOf[c]] = NULL]
          /\ Dequeue(c)
          /\ Goto(c, "restore")
       \/ tail[LockOf[c]] # c /\ Goto(c, "waitnext") /\ UNCHANGED <<tail, queue>>
    /\ UNCHANGED <<next, state, prev, succ, vcpuVars, flagVars>>

\* spin_until(next = node->next)
WaitNext(c) ==
    /\ pc[c] = "waitnext" /\ Runs(c)
    /\ next[c] # NULL
    /\ succ' = [succ EXCEPT ![c] = next[c]]
    /\ Goto(c, "grant")
    /\ UNCHANGED <<tail, next, state, prev, vcpuVars, flagVars, queue>>

\* Plain: next->state = MCS_UNLOCKED.  Pv: cmpxchg from MCS_LOCKED, which
\* fails if the successor has decided to block.
Grant(c) ==
    /\ pc[c] = "grant" /\ Runs(c)
    /\ \/ /\ LockOf[c] \in PvLocks => state[succ[c]] = "LOCKED"
          /\ state' = [state EXCEPT ![succ[c]] = "UNLOCKED"]
          /\ Dequeue(c)
          /\ Goto(c, "restore")
       \/ /\ LockOf[c] \in PvLocks /\ state[succ[c]] # "LOCKED"
          /\ Goto(c, "handoff")
          /\ UNCHANGED <<state, queue>>
    /\ UNCHANGED <<tail, next, prev, succ, vcpuVars, flagVars>>

\* next->processor_id is read, then next->state = MCS_UNLOCKED.
Handoff(c) ==
    /\ pc[c] = "handoff" /\ Runs(c)
    /\ state' = [state EXCEPT ![succ[c]] = "UNLOCKED"]
    /\ Dequeue(c)
    /\ Goto(c, "kick")
    /\ UNCHANGED <<tail, next, prev, succ, vcpuVars, flagVars>>

\* A kick that leaves no mark on a vcpu that has not blocked yet.
KickVcpuUnmarked(v) ==
    \/ /\ pvSpin[v] = "PAUSED"
       /\ pvSpin' = [pvSpin EXCEPT ![v] = "NONE"]
       /\ vstate' = [vstate EXCEPT ![v] = "ready"]
    \/ pvSpin[v] # "PAUSED" /\ UNCHANGED <<pvSpin, vstate>>

\* A kick that makes the vcpu ready but does not reset pv_spin_state.
KickVcpuNoReset(v) ==
    \/ /\ pvSpin[v] = "PAUSED"
       /\ vstate' = [vstate EXCEPT ![v] = "ready"]
       /\ UNCHANGED pvSpin
    \/ /\ pvSpin[v] # "PAUSED"
       /\ pvSpin' = [pvSpin EXCEPT ![v] = "KICKED"]
       /\ UNCHANGED vstate

\* __vemu_pv_spin_kick: make a blocked vcpu ready, else leave a mark for its
\* next pause.
KickVcpu(v) ==
    \/ /\ pvSpin[v] = "PAUSED"
       /\ pvSpin' = [pvSpin EXCEPT ![v] = "NONE"]
       /\ vstate' = [vstate EXCEPT ![v] = "ready"]
    \/ /\ pvSpin[v] # "PAUSED"
       /\ pvSpin' = [pvSpin EXCEPT ![v] = "KICKED"]
       /\ UNCHANGED vstate

\* tv_vpv_spin_kick(processor_id of the successor)
Kick(c) ==
    /\ pc[c] = "kick" /\ Runs(c)
    /\ KickVcpu(VcpuOf[succ[c]])
    /\ Goto(c, "restore")
    /\ UNCHANGED <<nodeVars, flagVars, queue>>

\* write_flags(flags), the handler's return from interrupt, and the end of the
\* scope of the node and of the locals.
Restore(c) ==
    LET v == VcpuOf[c] IN
    /\ pc[c] = "restore" /\ Runs(c)
    /\ intr' = [intr EXCEPT ![v] =
                   IF c \in Isr THEN TRUE
                   ELSE IF LockOf[c] \in IsrLocks THEN param[c] ELSE @]
    /\ next' = [next EXCEPT ![c] = NULL]
    /\ state' = [state EXCEPT ![c] = "LOCKED"]
    /\ prev' = [prev EXCEPT ![c] = NULL]
    /\ succ' = [succ EXCEPT ![c] = NULL]
    /\ saved' = [saved EXCEPT ![c] = FALSE]
    /\ param' = [param EXCEPT ![c] = FALSE]
    /\ Goto(c, "idle")
    /\ UNCHANGED <<tail, vcpuVars, flags, queue>>

-----------------------------------------------------------------------------
(* The rest of the system *)

\* The hypervisor takes the physical cpu from a vcpu and gives it back.
Preempt(v) ==
    /\ vstate[v] = "active"
    /\ vstate' = [vstate EXCEPT ![v] = "ready"]
    /\ UNCHANGED <<nodeVars, pc, pvSpin, flagVars, queue>>

Dispatch(v) ==
    /\ vstate[v] = "ready"
    /\ vstate' = [vstate EXCEPT ![v] = "active"]
    /\ UNCHANGED <<nodeVars, pc, pvSpin, flagVars, queue>>

\* A caller of the locks enables or disables interrupts outside them
\* (it matters only where some lock saves the flag).
CallerSetsIntr(v) ==
    /\ vstate[v] = "active"
    /\ IsrLocks # {}
    /\ \A c \in Ctx : VcpuOf[c] = v => pc[c] = "idle"
    /\ intr' = [intr EXCEPT ![v] = ~@]
    /\ UNCHANGED <<nodeVars, vcpuVars, pc, saved, flags, param, queue>>

\* What a context does once it has started.
Continue(c) ==
    \/ Link(c) \/ Spin(c) \/ Query(c) \/ TryPause(c) \/ Pause(c) \/ SaveFlags(c)
    \/ ReadNext(c) \/ CasTail(c) \/ WaitNext(c) \/ Grant(c) \/ Handoff(c)
    \/ Kick(c) \/ Restore(c)

Next == \/ \E c \in Ctx : Xchg(c) \/ Continue(c)
        \/ \E v \in Vcpu : Preempt(v) \/ Dispatch(v) \/ CallerSetsIntr(v)

Spec == Init /\ [][Next]_vars

\* A vcpu is dispatched again and again and runs long enough to take a step
\* (strong fairness: preemption may interrupt a context any number of times).
Fairness == /\ \A c \in Ctx : SF_vars(Continue(c))
            /\ \A v \in Vcpu : WF_vars(Dispatch(v))

FairSpec == Spec /\ Fairness

-----------------------------------------------------------------------------
(* Properties *)

Waiting(c) == pc[c] \in WaitPcs
Holding(c) == pc[c] \in HoldPcs
Queued(c) == Waiting(c) \/ Holding(c)

\* A kick of the vcpu is on its way: its sender is past the handover.
KickComing(v) == \E d \in Ctx : pc[d] = "kick" /\ VcpuOf[succ[d]] = v

\* The vcpu is blocked in the hypervisor and c is the context it runs.
Blocked(c) ==
    /\ vstate[VcpuOf[c]] = "spinning"
    /\ pc[c] = "spin"
    /\ c \notin Isr => \A d \in Isr : VcpuOf[d] = VcpuOf[c] => pc[d] = "idle"

\* Every variable has the type of the field or local it stands for.
TypeOK ==
    /\ tail \in [Lock -> Ctx \cup {NULL}]
    /\ next \in [Ctx -> Ctx \cup {NULL}]
    /\ state \in [Ctx -> {"LOCKED", "UNLOCKED", "PAUSED"}]
    /\ prev \in [Ctx -> Ctx \cup {NULL}]
    /\ succ \in [Ctx -> Ctx \cup {NULL}]
    /\ pc \in [Ctx -> WaitPcs \cup HoldPcs \cup FreePcs]
    /\ vstate \in [Vcpu -> {"active", "ready", "spinning"}]
    /\ pvSpin \in [Vcpu -> {"NONE", "KICKED", "PAUSED"}]
    /\ intr \in [Vcpu -> BOOLEAN]
    /\ saved \in [Ctx -> BOOLEAN]
    /\ flags \in [Lock -> BOOLEAN]
    /\ param \in [Ctx -> BOOLEAN]
    /\ queue \in [Lock -> Seq(Ctx)]

\* At most one context is between the return of mcs_lock and the store or
\* cmpxchg of mcs_unlock that gives the lock away.
MutualExclusion ==
    \A c, d \in Ctx :
        Holding(c) /\ Holding(d) /\ LockOf[c] = LockOf[d] => c = d

\* A context only touches another's node while that node is in use: nodes are
\* on the stack of mcs_lock's caller and gone once mcs_unlock has returned.
NodesAlive ==
    \A c \in Ctx :
        /\ pc[c] = "link" => Queued(prev[c])
        /\ pc[c] \in {"grant", "handoff"} => succ[c] # NULL /\ Waiting(succ[c])

\* A vcpu that is blocked although the lock was handed to it is about to be
\* kicked: pause and kick meet in either order and no kick is lost.
HandedOverIsUnblocked ==
    \A c \in Ctx :
        Blocked(c) /\ state[c] = "UNLOCKED" => KickComing(VcpuOf[c])

\* The hypervisor's own assertions: vsched_put_paused never finds the vcpu
\* marked as paused, and a vcpu marked so is blocked when a kick finds it.
SpinStateAgrees ==
    /\ \A v \in Vcpu : pvSpin[v] = "PAUSED" <=> vstate[v] = "spinning"
    /\ \A c \in Ctx : pc[c] = "pause" /\ Runs(c) => pvSpin[VcpuOf[c]] # "PAUSED"

\* mcs_unlock_isr_restore leaves the interrupt flag as mcs_lock_isr_save found
\* it, although the flag travels through a field that every user of the lock
\* writes.
RestoreStep ==
    \A c \in Ctx \ Isr :
        /\ pc[c] = "restore" /\ pc'[c] = "idle"
        /\ LockOf[c] \in IsrLocks
        => intr'[VcpuOf[c]] = saved[c]
InterruptsRestored == [][RestoreStep]_vars

\* Every context that queues for the lock gets it.
EveryWaiterGetsTheLock ==
    \A c \in Ctx : Waiting(c) ~> Holding(c)

\* The lock is a FIFO lock: the place in the queue is taken by the xchg of the
\* tail, and the critical section is entered in that order.
Fifo == INSTANCE FifoLock WITH
            status <- [c \in Ctx |-> IF Waiting(c) THEN "waiting"
                                     ELSE IF Holding(c) THEN "in" ELSE "out"]

\* The MCS lock implements the FIFO lock.
ImplementsFifo == Fifo!Spec
=============================================================================
