-------------------------------- MODULE VTlb --------------------------------
(* TLB shootdown between vcpus (vemu_tlb_invalidate): the requester marks     *)
(* every vcpu of the target partition, queues itself for an ack of each cpu   *)
(* that runs one, and waits.  An exit acknowledges whatever is queued at its  *)
(* cpu; the entry after it invalidates.  A step is what is done under one     *)
(* scheduler or ack lock.                                                     *)
EXTENDS Naturals, FiniteSets

CONSTANTS N,        \* vcpus 1..N: the partition's, requesters among them
          Cpu, CpuOf, NULL,
          Tagged    \* the vcpus whose vpid is enabled

Vcpu == 1..N

VARIABLES
    state,     \* vsched_metadata.state
    pc,        \* where the vcpu's flow of control is
    current,   \* per cpu: the vcpu on it
    flush,     \* vsched_metadata.tlb_flush_pending
    invvpid,   \* __venter's local of that name
    lock,      \* the holder of the partition's lock, see vpartition_get
    next,      \* i of the first pass
    map,       \* wait_for_map: cpus to wait for
    acks,      \* per cpu: vcpu_sender_dq
    ipi,       \* per cpu: a vipi has been sent and not taken
    asked,     \* history: requests since the vcpu last executed its invalidation
    cached,    \* history: requests since its cpu lost what the vcpu had cached
    returned   \* history: the requester's last shootdown is complete

vars == <<state, pc, current, flush, invvpid, lock, next, map, acks, ipi, asked,
          cached, returned>>

Init ==
    /\ state = [v \in Vcpu |-> "READY"]
    /\ pc = [v \in Vcpu |-> "hv"]
    /\ current = [c \in Cpu |-> NULL]
    /\ flush = [v \in Vcpu |-> FALSE]
    /\ invvpid = [v \in Vcpu |-> FALSE]
    /\ lock = NULL
    /\ next = [v \in Vcpu |-> 1]
    /\ map = [v \in Vcpu |-> {}]
    /\ acks = [c \in Cpu |-> {}]
    /\ ipi = [c \in Cpu |-> FALSE]
    /\ asked = [v \in Vcpu |-> {}] /\ cached = [v \in Vcpu |-> {}]
    /\ returned = [v \in Vcpu |-> TRUE]

OnCpu(v) == current[CpuOf[v]] = v
Goto(v, from, to) ==
    /\ OnCpu(v) /\ pc[v] = from
    /\ pc' = [pc EXCEPT ![v] = to]

-----------------------------------------------------------------------------
(* The course of a vcpu.                                                      *)
Dispatch(v) ==
    /\ state[v] = "READY" /\ current[CpuOf[v]] = NULL
    /\ state' = [state EXCEPT ![v] = "TRANSITIONING"]
    /\ current' = [current EXCEPT ![CpuOf[v]] = v]
    /\ UNCHANGED <<pc, flush, invvpid, lock, next, map, acks, ipi, asked, cached,
                   returned>>

\* Preemption is enabled in the handlers, also while one waits for acks.
Preempt(v) ==
    /\ OnCpu(v) /\ pc[v] \in {"hv", "wait"}
    /\ state' = [state EXCEPT ![v] = "READY"]
    /\ current' = [current EXCEPT ![CpuOf[v]] = NULL]
    /\ UNCHANGED <<pc, flush, invvpid, lock, next, map, acks, ipi, asked, cached,
                   returned>>

\* __venter, under the scheduler's lock; a mutant leaves the flag of the flush.
EnterKeepsFlush(v) ==
    /\ Goto(v, "hv", "entering")
    /\ state' = [state EXCEPT ![v] = "RUNNING"]
    /\ invvpid' = [invvpid EXCEPT ![v] = flush[v] /\ v \in Tagged]
    /\ UNCHANGED <<current, flush, lock, next, map, acks, ipi, asked, cached,
                   returned>>
Enter(v) ==
    /\ Goto(v, "hv", "entering")
    /\ state' = [state EXCEPT ![v] = "RUNNING"]
    /\ invvpid' = [invvpid EXCEPT ![v] = flush[v] /\ v \in Tagged]
    /\ flush' = [flush EXCEPT ![v] = FALSE]
    /\ UNCHANGED <<current, lock, next, map, acks, ipi, asked, cached,
                   returned>>

\* ... and after it: invvpid_single, then the entry, which by itself empties the
\* TLB of a vcpu without a vpid.  invvpid_single names vpid.fields.vpid; the VMCS
\* holds vpid.val, where vcpu_entry has set the enabled bit above the field.
VpidField(v) == v
VpidVal(v) == VpidField(v) + (IF v \in Tagged THEN 2^15 ELSE 0)
Resume(v) ==
    /\ Goto(v, "entering", "guest")
    /\ asked' = [asked EXCEPT ![v] = IF invvpid[v] \/ v \notin Tagged THEN {} ELSE @]
    /\ cached' = [cached EXCEPT ![v] =
          IF v \notin Tagged \/ (invvpid[v] /\ VpidField(v) = VpidVal(v)) THEN {} ELSE @]
    /\ invvpid' = [invvpid EXCEPT ![v] = FALSE]
    /\ UNCHANGED <<state, current, flush, lock, next, map, acks, ipi, returned>>

Exit(v) ==
    /\ Goto(v, "guest", "exited")
    /\ UNCHANGED <<state, current, flush, invvpid, lock, next, map, acks, ipi,
                   asked, cached,
                   returned>>

\* vexit_dispatcher: first the state, under the scheduler's lock ...
Leave(v) ==
    /\ Goto(v, "exited", "acking")
    /\ state' = [state EXCEPT ![v] = "TRANSITIONING"]
    /\ UNCHANGED <<current, flush, invvpid, lock, next, map, acks, ipi, asked, cached,
                   returned>>

\* ... then vipi_ack; a build with VIPI_DRAIN_STRICT also drains the ipi.
Ack(v) ==
    /\ Goto(v, "acking", "hv")
    /\ acks' = [acks EXCEPT ![CpuOf[v]] = {}]
    /\ ipi' \in {ipi, [ipi EXCEPT ![CpuOf[v]] = FALSE]}
    /\ UNCHANGED <<state, current, flush, invvpid, lock, next, map, asked, cached,
                   returned>>

\* A vipi that finds the hypervisor is taken and does nothing.
HostIpi(c) ==
    /\ ipi[c]
    /\ \A v \in Vcpu : current[c] = v => pc[v] \in {"hv", "wait"}
    /\ ipi' = [ipi EXCEPT ![c] = FALSE]
    /\ UNCHANGED <<state, pc, current, flush, invvpid, lock, next, map, acks,
                   asked, cached,
                   returned>>

-----------------------------------------------------------------------------
(* vemu_tlb_invalidate.                                                       *)
Request(r) ==
    /\ Goto(r, "hv", "pass")
    /\ lock = NULL
    /\ lock' = r
    /\ returned' = [returned EXCEPT ![r] = FALSE]
    /\ UNCHANGED <<state, current, flush, invvpid, next, map, acks, ipi, asked,
                   cached>>

\* vipi_queue_ack, which refuses the caller's own cpu; a mutant has room for one
\* caller per cpu.
QueueOneAck(c, r) == IF c = CpuOf[r] \/ acks[c] # {} THEN acks[c] ELSE {r}
QueueAck(c, r) == IF c = CpuOf[r] THEN acks[c] ELSE acks[c] \cup {r}

\* One round of the first pass, under the scheduler's lock of vcpu next[r].
Mark(r) ==
    LET v == next[r]
        c == CpuOf[v]
        running == state[v] = "RUNNING"
    IN
    /\ pc[r] = "pass"
    /\ flush' = [flush EXCEPT ![v] = TRUE]
    /\ asked' = [asked EXCEPT ![v] = @ \cup {r}]
    /\ cached' = [cached EXCEPT ![v] = @ \cup {r}]
    /\ acks' = [acks EXCEPT ![c] = IF running THEN QueueAck(c, r) ELSE @]
    /\ ipi' = [ipi EXCEPT ![c] = @ \/ (running /\ ~flush[v])]
    /\ map' = [map EXCEPT ![r] = IF running THEN @ \cup {c} ELSE @]
    /\ next' = [next EXCEPT ![r] = @ + 1]
    /\ IF v = N
       THEN pc' = [pc EXCEPT ![r] = "wait"] /\ lock' = NULL
       ELSE UNCHANGED <<pc, lock>>
    /\ UNCHANGED <<state, current, invvpid, returned>>

\* The second pass: vipi_check_ack is 1 for every cpu of the map.
Acked(r) == \A c \in map[r] : c # CpuOf[r] /\ r \notin acks[c]
Done(r) ==
    /\ Goto(r, "wait", "hv")
    /\ Acked(r)
    /\ map' = [map EXCEPT ![r] = {}] /\ next' = [next EXCEPT ![r] = 1]
    /\ returned' = [returned EXCEPT ![r] = TRUE]
    /\ UNCHANGED <<state, current, flush, invvpid, lock, acks, ipi, asked,
                   cached>>

Next ==
    \/ \E v \in Vcpu : \/ Dispatch(v) \/ Preempt(v) \/ Enter(v) \/ Resume(v)
                       \/ Exit(v) \/ Leave(v) \/ Ack(v)
                       \/ Request(v) \/ Mark(v) \/ Done(v)
    \/ \E c \in Cpu : HostIpi(c)

Spec == Init /\ [][Next]_vars

\* The hypervisor's own code goes on, a guest with a vipi pending exits, and the
\* time slice ends where another vcpu is ready.
Competes(v) == \E w \in Vcpu : CpuOf[w] = CpuOf[v] /\ state[w] = "READY"
Forced(v) == ipi[CpuOf[v]] \/ Competes(v)
Proceed(v) == Resume(v) \/ Leave(v) \/ Ack(v) \/ Mark(v) \/ (Forced(v) /\ Exit(v))
Fairness ==
    \A v \in Vcpu : /\ WF_vars(Proceed(v))
                    /\ SF_vars(Dispatch(v)) /\ SF_vars(Done(v))
                    /\ SF_vars(Competes(v) /\ Preempt(v))

-----------------------------------------------------------------------------
TypeOK ==
    /\ state \in [Vcpu -> {"READY", "TRANSITIONING", "RUNNING"}]
    /\ pc \in [Vcpu -> {"hv", "entering", "guest", "exited", "acking", "pass",
                        "wait"}]
    /\ current \in [Cpu -> Vcpu \cup {NULL}]
    /\ flush \in [Vcpu -> BOOLEAN] /\ invvpid \in [Vcpu -> BOOLEAN]
    /\ lock \in Vcpu \cup {NULL}
    /\ next \in [Vcpu -> 1..(N + 1)]
    /\ map \in [Vcpu -> SUBSET Cpu]
    /\ acks \in [Cpu -> SUBSET Vcpu] /\ ipi \in [Cpu -> BOOLEAN]
    /\ asked \in [Vcpu -> SUBSET Vcpu] /\ cached \in [Vcpu -> SUBSET Vcpu]
    /\ returned \in [Vcpu -> BOOLEAN]

\* When vemu_tlb_invalidate has returned, every vcpu of the partition has executed
\* its invalidation since the call, or is outside the guest and does so before it
\* enters; and one without a vpid does not run on with what it had cached before
\* the call.  Of one with a vpid this last is not so: invvpid_single does not name
\* what the VMCS holds (venter.c, vcreate.c), and cached keeps the request.
ShootdownIsComplete ==
    \A r, v \in Vcpu : returned[r] =>
        /\ r \in asked[v] =>
              /\ pc[v] # "guest"
              /\ flush[v] \/ (pc[v] = "entering" /\ (v \in Tagged => invvpid[v]))
        /\ pc[v] = "guest" /\ v \notin Tagged => r \notin cached[v]

\* Nobody waits for its own cpu, which would never acknowledge
\* (vipi_check_ack gives -EINVAL for it, and the loop waits for 1).
NeverWaitsForItself == \A r \in Vcpu : pc[r] = "wait" => CpuOf[r] \notin map[r]

\* A shootdown comes to its end, although it sends no ipi where one is due
\* already (was_pending) and an exit drops the ipis of all.
ShootdownReturns == \A r \in Vcpu : pc[r] = "wait" ~> pc[r] = "hv"
=============================================================================
