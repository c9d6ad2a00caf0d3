---------------------------- MODULE VInterrupts ----------------------------
(* Virtual interrupts: how an interrupt is made pending for a vcpu (another   *)
(* vcpu's vipi, a device interrupt it subscribed to, its own request), how    *)
(* __venter picks the event of an entry, and how an exit is forced when a     *)
(* running guest has to take one.  A step is what the code does under one     *)
(* lock, or between two.                                                      *)
EXTENDS Integers, FiniteSets, FiniteSetsExt

CONSTANTS Vcpu, Cpu, CpuOf,
          Vector,      \* vectors a guest may receive, as numbers
          NMI,         \* the nmi, which has a pending bit of its own
          PerLevel,    \* vectors that share an interrupt level (16)
          Allowed,     \* vectors available on the cpu, a subset of Events
          EXC,         \* an exception, as an event
          NULL

Events == Vector \cup {NMI}
None == -1
Intl(vector) == vector \div PerLevel          \* vector_to_intl
Levels == {Intl(x) : x \in Vector}

VARIABLES
    state,       \* vsched_metadata.state
    pc,          \* where the vcpu's flow of control is
    current,     \* per cpu: the vcpu on it
    loaded,      \* per cpu: the vcpu whose vmcs is loaded
    preempted,   \* flags.preempted
    pending,     \* visr_pending: external interrupts, and NMI
    inIntl,      \* delivery.in_intl: levels in service
    intl,        \* delivery.intl, the guest's cr8
    window,      \* delivery.{int,nmi}_window_exit, as cached
    vmcsWindow,  \* the same two bits in the vmcs
    event,       \* the event the vmcs injects at the entry
    exception,   \* voperation_queue: an exception waits to be injected
    chosen,      \* external_vector of the entry under way
    allowed,     \* allowed_external_vectors
    subscribed,  \* subscribed_vectors
    queued,      \* vectors in whose dispatch_vectors dq the vcpu is
    ipi,         \* per cpu: VIPI_VECTOR is set in the lapic's irr
    blocked,     \* guest: what blocks interrupts: "if", "ss", "nmi"
    handlers     \* history: levels whose handlers the guest is in

vars == <<state, pc, current, loaded, preempted, pending, inIntl, intl, window,
          vmcsWindow, event, exception, chosen, allowed, subscribed, queued, ipi,
          blocked, handlers>>
guestVars == <<blocked, handlers>>
dispatchVars == <<allowed, subscribed, queued>>
cpuVars == <<current, loaded, preempted>>
entryVars == <<window, vmcsWindow, event, chosen>>

\* fls32 and bmp256_fls: -1 when nothing is set.
Highest(S) == IF S = {} THEN None ELSE Max(S)
Deliverable(v, vector) ==
    /\ vector # None
    /\ Intl(vector) > Highest(inIntl[v])
    /\ Intl(vector) >= intl[v]
Best(v) == Highest(pending[v] \ {NMI})

Init ==
    /\ state = [v \in Vcpu |-> "READY"]
    /\ pc = [v \in Vcpu |-> "off"]
    /\ current = [c \in Cpu |-> NULL]
    /\ loaded = [c \in Cpu |-> NULL]
    /\ preempted = [v \in Vcpu |-> TRUE]
    /\ pending = [v \in Vcpu |-> {}]
    /\ inIntl = [v \in Vcpu |-> {}]
    /\ intl = [v \in Vcpu |-> 0]
    /\ window = [v \in Vcpu |-> "none"]
    /\ vmcsWindow = [v \in Vcpu |-> "none"]
    /\ event = [v \in Vcpu |-> NULL]
    /\ exception = [v \in Vcpu |-> FALSE]
    /\ chosen = [v \in Vcpu |-> NULL]
    /\ allowed = [v \in Vcpu |-> Allowed]
    /\ subscribed = [v \in Vcpu |-> {}]
    /\ queued = [v \in Vcpu |-> {}]
    /\ ipi = [c \in Cpu |-> FALSE]
    /\ blocked = [v \in Vcpu |-> {"if"}]
    /\ handlers = [v \in Vcpu |-> {}]

Goto(v, label) == pc' = [pc EXCEPT ![v] = label]
SetPending(v, x) == pending' = [pending EXCEPT ![v] = @ \cup {x}]

-----------------------------------------------------------------------------
(* Scheduling: a vcpu whose handler has enabled preemption may lose the cpu,  *)
(* and whoever gets it loads a vmcs of its own.                               *)
Dispatch(v) ==
    /\ state[v] = "READY"
    /\ current[CpuOf[v]] = NULL
    /\ current' = [current EXCEPT ![CpuOf[v]] = v]
    /\ state' = [state EXCEPT ![v] = "TRANSITIONING"]
    /\ Goto(v, "hv")
    /\ UNCHANGED <<loaded, preempted, pending, inIntl, intl, entryVars,
                   exception, dispatchVars, ipi, guestVars>>

\* vsched_put_ctx with the state the vcpu is left in.
PutCpu(v, s) ==
    /\ current' = [current EXCEPT ![CpuOf[v]] = NULL]
    /\ state' = [state EXCEPT ![v] = s]
    /\ preempted' = [preempted EXCEPT ![v] = TRUE]
    /\ Goto(v, "off")

Reschedule(v) ==
    /\ pc[v] = "hv"
    /\ PutCpu(v, "READY")
    /\ UNCHANGED <<loaded, pending, inIntl, intl, entryVars, exception,
                   dispatchVars, ipi, guestVars>>

\* While the vcpu is off its cpu one that is not modelled loads its own vmcs.
OthersRun(c) ==
    /\ current[c] = NULL
    /\ loaded' = [loaded EXCEPT ![c] = NULL]
    /\ UNCHANGED <<state, pc, current, preempted, pending, inIntl, intl,
                   entryVars, exception, dispatchVars, ipi, guestVars>>

-----------------------------------------------------------------------------
(* Making an interrupt pending.                                               *)

\* The hypervisor runs on the cpu with interrupts enabled.
IntsEnabled(c) ==
    \A v \in Vcpu : current[c] = v => pc[v] \in {"handler", "hv"}

\* vdispatch_interrupt: every vcpu in the dq of the vector gets it, and the dq
\* is emptied; who takes it at an entry queues up again.
Dispatched(c, x) ==
    LET takers == {v \in Vcpu : CpuOf[v] = c /\ x \in queued[v]} IN
    /\ pending' = [v \in Vcpu |-> IF v \in takers THEN pending[v] \cup {x}
                                  ELSE pending[v]]
    /\ queued' = [v \in Vcpu |-> IF v \in takers THEN queued[v] \ {x}
                                 ELSE queued[v]]

\* __visr_dispatcher: a device interrupts the hypervisor itself.
HostInterrupt(c, x) ==
    /\ IntsEnabled(c)
    /\ Dispatched(c, x)
    /\ UNCHANGED <<state, pc, cpuVars, inIntl, intl, entryVars, exception,
                   allowed, subscribed, ipi, guestVars>>

\* The vipi interrupts the hypervisor: vipi_data.vcpus.drain = 0.
HostIpi(c) ==
    /\ ipi[c]
    /\ IntsEnabled(c)
    /\ ipi' = [ipi EXCEPT ![c] = FALSE]
    /\ UNCHANGED <<state, pc, cpuVars, pending, inIntl, intl, entryVars,
                   exception, dispatchVars, guestVars>>

\* __vemu_inject_external_interrupt, called on another cpu; a mutant forgets the
\* NMI.
NeedsExitForInt(v, x) ==
    state[v] = "RUNNING" /\ x # NMI /\ window[v] # "int" /\ Deliverable(v, x)
NeedsExit(v, x) ==
    /\ state[v] = "RUNNING"
    /\ \/ x = NMI /\ NMI \notin pending[v] /\ window[v] # "nmi"
       \/ x # NMI /\ window[v] # "int" /\ Deliverable(v, x)

Inject(v, x) ==
    /\ SetPending(v, x)
    /\ ipi' = [ipi EXCEPT ![CpuOf[v]] = @ \/ NeedsExit(v, x)]
    /\ UNCHANGED <<state, pc, cpuVars, inIntl, intl, entryVars, exception,
                   dispatchVars, guestVars>>

\* __vemu_unpause_vcpu with an interrupt.
Unpause(v, x) ==
    /\ state[v] = "PAUSED"
    /\ state' = [state EXCEPT ![v] = "READY"]
    /\ SetPending(v, x)
    /\ UNCHANGED <<pc, cpuVars, inIntl, intl, entryVars, exception,
                   dispatchVars, ipi, guestVars>>

\* vemu_set_vcpu_subscription_perms, by a root vcpu on any cpu.
SetPerm(v, x) ==
    /\ \/ /\ allowed' = [allowed EXCEPT ![v] = @ \cup {x}]
          /\ UNCHANGED <<subscribed, queued>>
       \/ /\ allowed' = [allowed EXCEPT ![v] = @ \ {x}]
          /\ subscribed' = [subscribed EXCEPT ![v] = @ \ {x}]
          /\ queued' = [queued EXCEPT ![v] = @ \ {x}]
    /\ UNCHANGED <<state, pc, cpuVars, pending, inIntl, intl, entryVars,
                   exception, ipi, guestVars>>

-----------------------------------------------------------------------------
(* The guest.                                                                 *)
IntsBlocked(v) == blocked[v] \cap {"if", "ss"} # {}
NmisBlocked(v) == blocked[v] \cap {"nmi", "ss"} # {}

\* The processor delivers the event of the entry before the first instruction.
GuestDeliver(v) ==
    /\ pc[v] = "guest" /\ event[v] # NULL
    /\ event' = [event EXCEPT ![v] = NULL]
    /\ blocked' = [blocked EXCEPT ![v] =
                     @ \cup IF event[v] = NMI THEN {"nmi", "if"} ELSE {"if"}]
    /\ handlers' = [handlers EXCEPT ![v] =
                      @ \cup IF event[v] \in Vector THEN {Intl(event[v])} ELSE {}]
    /\ UNCHANGED <<state, pc, cpuVars, pending, inIntl, intl, window,
                   vmcsWindow, exception, chosen, dispatchVars, ipi>>

\* sti, cli, mov ss, iret.
GuestBlock(v) ==
    /\ pc[v] = "guest" /\ event[v] = NULL
    /\ \E b \in {blocked[v] \ {"if"}, blocked[v] \cup {"if"}, blocked[v] \ {"nmi"},
                 blocked[v] \cup {"ss"}, blocked[v] \ {"ss"}} :
         blocked' = [blocked EXCEPT ![v] = b]
    /\ UNCHANGED <<state, pc, cpuVars, pending, inIntl, intl, entryVars,
                   exception, dispatchVars, ipi, handlers>>

\* Any exit; with event[v] set it happened while the event was being delivered.
Exit(v) ==
    /\ pc[v] = "guest"
    /\ Goto(v, "exited")
    /\ UNCHANGED <<state, cpuVars, pending, inIntl, intl, entryVars,
                   exception, dispatchVars, ipi, guestVars>>

-----------------------------------------------------------------------------
(* vexit_dispatcher: the state changes first, so that nobody sends an ipi     *)
(* from here on; a build with VIPI_DRAIN_STRICT drains the one that may have  *)
(* come, else it is taken in the host or forces the next exit.                *)
Leave(v) ==
    /\ pc[v] = "exited"
    /\ state' = [state EXCEPT ![v] = "TRANSITIONING"]
    /\ ipi' \in {ipi, [ipi EXCEPT ![CpuOf[v]] = FALSE]}
    /\ Goto(v, "handler")
    /\ UNCHANGED <<cpuVars, pending, inIntl, intl, entryVars, exception,
                   dispatchVars, guestVars>>

\* The exit handlers, each up to the end of its work; all are at "hv" then.
HandleNop(v) ==                                   \* vexit_nop: the windows
    /\ UNCHANGED <<pending, inIntl, intl, exception, dispatchVars, handlers>>

HandleExternal(v) ==                              \* vexit_ext_dispatcher
    /\ \E x \in Events : Dispatched(CpuOf[v], x)
    /\ UNCHANGED <<inIntl, intl, exception, allowed, subscribed, handlers>>

HandleFault(v) ==                                 \* vexit_gp0, vexit_ud, ...
    /\ exception' = [exception EXCEPT ![v] = TRUE]
    /\ UNCHANGED <<pending, inIntl, intl, dispatchVars, handlers>>

HandleCr8(v) ==                                   \* vset_intl
    /\ \E l \in Levels \cup {0} : intl' = [intl EXCEPT ![v] = l]
    /\ UNCHANGED <<pending, inIntl, exception, dispatchVars, handlers>>

HandleSelfIpi(v) ==                               \* vipi to itself; vtimers
    /\ \E x \in Events : SetPending(v, x)
    /\ UNCHANGED <<inIntl, intl, exception, dispatchVars, handlers>>

Subscribe(v) ==
    /\ \E x \in allowed[v] :
         /\ subscribed' = [subscribed EXCEPT ![v] = @ \cup {x}]
         /\ queued' = [queued EXCEPT ![v] = IF x \in pending[v] THEN @
                                            ELSE @ \cup {x}]
    /\ UNCHANGED <<allowed, pending, inIntl, intl, exception, handlers>>

Unsubscribe(v) ==
    /\ \E x \in allowed[v] :
         /\ subscribed' = [subscribed EXCEPT ![v] = @ \ {x}]
         /\ queued' = [queued EXCEPT ![v] = @ \ {x}]
    /\ UNCHANGED <<allowed, pending, inIntl, intl, exception, handlers>>

Veoi(v) ==
    /\ inIntl' = [inIntl EXCEPT ![v] = @ \ {Highest(@)}]
    /\ handlers' = [handlers EXCEPT ![v] = @ \ {Highest(@)}]
    /\ UNCHANGED <<pending, intl, exception, dispatchVars>>

\* vqueue_idt_vectoring_info: what was being delivered is to be delivered anew.
Requeue(v) ==
    /\ IF event[v] \in Events
       THEN SetPending(v, event[v])
       ELSE UNCHANGED pending
    /\ exception' = [exception EXCEPT ![v] = TRUE]
    /\ UNCHANGED <<inIntl, intl, dispatchVars, handlers>>

Handle(v) ==
    /\ pc[v] = "handler"
    /\ \/ /\ event[v] = NULL
          /\ \/ HandleNop(v) \/ HandleExternal(v) \/ HandleFault(v)
             \/ HandleCr8(v) \/ HandleSelfIpi(v) \/ Subscribe(v)
             \/ Unsubscribe(v) \/ Veoi(v)
       \/ event[v] # NULL /\ Requeue(v)
    /\ event' = [event EXCEPT ![v] = NULL]
    /\ Goto(v, "hv")
    /\ UNCHANGED <<state, cpuVars, window, vmcsWindow, chosen, ipi, blocked>>

Pause(v) ==
    /\ pc[v] = "handler" /\ event[v] = NULL
    /\ PutCpu(v, "PAUSED")
    /\ UNCHANGED <<loaded, pending, inIntl, intl, entryVars, exception,
                   dispatchVars, ipi, guestVars>>

-----------------------------------------------------------------------------
(* __venter, with interrupts disabled.                                        *)
Enter(v) ==
    /\ pc[v] = "hv"
    /\ IF preempted[v]
       THEN loaded' = [loaded EXCEPT ![CpuOf[v]] = v]
       ELSE UNCHANGED loaded
    /\ preempted' = [preempted EXCEPT ![v] = FALSE]
    /\ state' = [state EXCEPT ![v] = "RUNNING"]
    /\ Goto(v, "entering")
    /\ UNCHANGED <<current, pending, inIntl, intl, entryVars, exception,
                   dispatchVars, ipi, guestVars>>

\* The choice of the event: an exception first, then the nmi, then the highest
\* deliverable vector; what has to wait gets a window exit.
NmiFits(v) == NMI \in pending[v] /\ ~NmisBlocked(v) /\ ~exception[v]
NmiWaits(v) == NMI \in pending[v] /\ ~NmiFits(v)
BehindNmi(v) == "nmi" \in blocked[v] \/ NMI \in pending[v]
IntFits(v) == /\ Deliverable(v, Best(v)) /\ ~BehindNmi(v)
              /\ ~IntsBlocked(v) /\ ~exception[v]
NewWindow(v) ==
    IF NmiWaits(v) \/ (Deliverable(v, Best(v)) /\ BehindNmi(v)) THEN "nmi"
    ELSE IF Deliverable(v, Best(v)) /\ ~IntFits(v) THEN "int"
    ELSE "none"

InjectPending(v) ==
    /\ pc[v] = "entering"
    /\ chosen' = [chosen EXCEPT ![v] = IF NmiFits(v) THEN NMI
                                       ELSE IF IntFits(v) THEN Best(v)
                                       ELSE NULL]
    /\ event' = [event EXCEPT ![v] = IF exception[v] THEN EXC
                                     ELSE chosen'[v]]
    /\ exception' = [exception EXCEPT ![v] = FALSE]
    /\ pending' = [pending EXCEPT ![v] = @ \ {chosen'[v]}]
    /\ inIntl' = [inIntl EXCEPT ![v] =
                    IF IntFits(v) THEN @ \cup {Intl(Best(v))} ELSE @]
    /\ window' = [window EXCEPT ![v] = NewWindow(v)]
    /\ IF NewWindow(v) # window[v]
       THEN vmcsWindow' = [u \in Vcpu |-> IF u = loaded[CpuOf[v]]
                                          THEN NewWindow(v) ELSE vmcsWindow[u]]
       ELSE UNCHANGED vmcsWindow
    /\ Goto(v, "injected")
    /\ UNCHANGED <<state, cpuVars, intl, dispatchVars, ipi, guestVars>>

\* A subscriber that takes an interrupt queues up for the next one.
NotRequeued(v, x) == queued[v]          \* a mutant
Requeued(v, x) == IF x \in subscribed[v] THEN queued[v] \cup {x} ELSE queued[v]
Resume(v) ==
    /\ pc[v] = "injected"
    /\ queued' = [queued EXCEPT ![v] = Requeued(v, chosen[v])]
    /\ chosen' = [chosen EXCEPT ![v] = NULL]
    /\ Goto(v, "guest")
    /\ UNCHANGED <<state, cpuVars, pending, inIntl, intl, window, vmcsWindow,
                   event, exception, allowed, subscribed, ipi, guestVars>>

Next ==
    \/ \E v \in Vcpu :
         \/ Dispatch(v) \/ Reschedule(v) \/ GuestDeliver(v) \/ GuestBlock(v)
         \/ Exit(v) \/ Leave(v) \/ Handle(v) \/ Pause(v)
         \/ Enter(v) \/ InjectPending(v) \/ Resume(v)
    \/ \E v \in Vcpu, x \in Events : Inject(v, x) \/ Unpause(v, x)
    \/ \E v \in Vcpu, x \in Allowed : SetPerm(v, x)
    \/ \E c \in Cpu, x \in Events : HostInterrupt(c, x)
    \/ \E c \in Cpu : HostIpi(c) \/ OthersRun(c)

Spec == Init /\ [][Next]_vars

-----------------------------------------------------------------------------
\* What the constants are: a vector is a byte, the nmi, an exception and NULL are
\* told apart from it.
InterruptAssumption ==
    /\ Vector \subseteq 0..255 /\ PerLevel \in Nat \ {0}
    /\ CpuOf \in [Vcpu -> Cpu]
    /\ Allowed \subseteq Events
    /\ NMI \notin Vector /\ EXC \notin Events /\ NULL \notin Events \cup Vcpu

Windows == {"none", "int", "nmi"}
TypeOK ==
    /\ state \in [Vcpu -> {"READY", "TRANSITIONING", "RUNNING", "PAUSED"}]
    /\ pc \in [Vcpu -> {"off", "hv", "entering", "injected", "guest", "exited",
                        "handler"}]
    /\ current \in [Cpu -> Vcpu \cup {NULL}] /\ loaded \in [Cpu -> Vcpu \cup {NULL}]
    /\ preempted \in [Vcpu -> BOOLEAN] /\ exception \in [Vcpu -> BOOLEAN]
    /\ pending \in [Vcpu -> SUBSET Events] /\ ipi \in [Cpu -> BOOLEAN]
    /\ inIntl \in [Vcpu -> SUBSET Levels] /\ intl \in [Vcpu -> Levels \cup {0}]
    /\ window \in [Vcpu -> Windows] /\ vmcsWindow \in [Vcpu -> Windows]
    /\ event \in [Vcpu -> Events \cup {EXC, NULL}]
    /\ chosen \in [Vcpu -> Events \cup {NULL}]
    /\ allowed \in [Vcpu -> SUBSET Allowed]
    /\ subscribed \in [Vcpu -> SUBSET Allowed] /\ queued \in [Vcpu -> SUBSET Allowed]
    /\ blocked \in [Vcpu -> SUBSET {"if", "ss", "nmi"}]
    /\ handlers \in [Vcpu -> SUBSET Levels]

\* A guest never runs on past an interrupt it could take: while one is pending
\* that its levels let through, a window exit is armed in the vmcs or the ipi
\* of the sender is on its way (__vemu_inject_external_interrupt decides
\* between them from a state that __venter is about to change).
NoInterruptIsMissed ==
    \A v \in Vcpu : pc[v] = "guest" =>
        /\ NMI \in pending[v] => vmcsWindow[v] = "nmi" \/ ipi[CpuOf[v]]
        /\ Deliverable(v, Best(v)) => vmcsWindow[v] # "none" \/ ipi[CpuOf[v]]

\* The window bits in the vmcs are the cached ones (venter.c:176-196 writes them
\* on a change only), although others load their vmcs in between.
WindowsAgree == \A v \in Vcpu : vmcsWindow[v] = window[v]

\* A subscriber is in the dispatch queue of the vector, or has it pending, or is
\* about to queue up again: no device interrupt finds it missing for good.  Who
\* was not subscribed, or lost the permission, is in no queue.
SubscribersHear ==
    \A v \in Vcpu :
        /\ queued[v] \subseteq subscribed[v] /\ subscribed[v] \subseteq allowed[v]
        /\ \A x \in subscribed[v] :
             x \in queued[v] \/ x \in pending[v] \/ chosen[v] = x

\* An interrupt is only injected into a guest that accepts it: the levels of
\* the handlers it is in nest strictly, and are in service until their veoi.
InjectedFits ==
    \A v \in Vcpu :
        /\ handlers[v] \subseteq inIntl[v]
        /\ pc[v] \in {"injected", "guest"} /\ event[v] \in Vector =>
             /\ ~IntsBlocked(v) /\ Intl(event[v]) >= intl[v]
             /\ \A l \in handlers[v] : l < Intl(event[v])
        /\ pc[v] \in {"injected", "guest"} /\ event[v] = NMI => ~NmisBlocked(v)
=============================================================================
