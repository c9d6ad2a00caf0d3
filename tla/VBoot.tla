-------------------------------- MODULE VBoot --------------------------------
(* How the hypervisor takes over the machine (__start_twanvisor) and how the   *)
(* root then creates partitions (VCREATE_PARTITION).  The bsp has the other    *)
(* cpus virtualised one after another, itself last; every cpu finds out what   *)
(* it supports, and a creation is checked against what the target cpus found.  *)
EXTENDS Naturals, Sequences

CONSTANTS
    Cpus,       \* cpus 0 .. Cpus-1
    Bsp,
    CpuModel,   \* what a cpu can be: a set of sets of capabilities
    Vids,       \* vids 0 .. Vids-1
    Config,     \* partition -> what the root asks for, see Wanted
    NULL

Processor == 0..(Cpus - 1)
Vid == 0..(Vids - 1)
Partition == DOMAIN Config
\* A request lists its vcpus, each with its cpu, the optional features it wants,
\* how it boots, and faults: what else the prechecks would refuse.
Vcpus(p) == DOMAIN Config[p].vcpus
Wanted(p, i) == Config[p].vcpus[i]

VARIABLES
    caps,      \* per cpu: its hardware, fixed at power on
    boot,      \* where __start_twanvisor is
    next,      \* its loop variable
    core,      \* per cpu: where __do_virtualise_core is
    lvt,       \* per cpu: the local vector table entries that deliver an NMI
    support,   \* per cpu: arch_flags.support
    current,   \* per cpu: current_vcpu, "root" for the root's
    on,        \* flags.twanvisor_on
    vids,      \* the free vids
    table,     \* vpartition_table
    call,      \* per cpu: the VCREATE_PARTITION its root vcpu is in
    vid,       \* per partition: its vid
    state,     \* per partition and vcpu: vsched_metadata.state
    vmcs,      \* per partition and vcpu: the controls it was entered with
    root       \* per cpu: the controls of the root's vcpu

vars == <<caps, boot, next, core, lvt, support, current, on, vids, table, call,
          vid, state, vmcs, root>>
machine == <<caps, boot, next, core, lvt, support, current, on, root>>
partitions == <<vids, table, call, vid, state, vmcs>>

\* A creation of partition p: where it is, the vid it has, the vcpu it pushes.
Creation(pc, p, id, i) == [pc |-> pc, p |-> p, id |-> id, i |-> i]
Idle == Creation("none", NULL, NULL, 0)

Init ==
    /\ caps \in [Processor -> CpuModel]
    /\ boot = "vkernel" /\ next = 0
    /\ core = [c \in Processor |-> "native"]
    /\ lvt \in [Processor -> {{}, {"lint1", "pmcr"}}]
    /\ support = [c \in Processor |-> {}]
    /\ current = [c \in Processor |-> NULL]
    /\ on = FALSE
    /\ vids = {} /\ table = [v \in Vid |-> NULL]
    /\ call = [c \in Processor |-> Idle]
    /\ vid = [p \in Partition |-> NULL]
    /\ state = [p \in Partition |-> [i \in Vcpus(p) |-> "none"]]
    /\ vmcs = [p \in Partition |-> [i \in Vcpus(p) |-> {}]]
    /\ root = [c \in Processor |-> {}]

-----------------------------------------------------------------------------
(* What a cpu does to be virtualised.                                         *)

\* NMIs become normal interrupts with the NMI's vector: the two lints, and
\* whichever of the other entries the cpu is found to have.
LapicReconfig(c) ==
    lvt[c] \ ({"lint0", "lint1"}
              \cup (IF {"mca", "cmci"} \subseteq caps[c] THEN {"cmci"} ELSE {})
              \cup (IF {"acpi", "dts"} \subseteq caps[c] THEN {"tsr"} ELSE {})
              \cup (IF "perfmon" \in caps[c] THEN {"pmcr"} ELSE {}))

\* The secondary controls are read only where they exist, and the EPT and VPID
\* capabilities only where one of the two is there.
Proc2 == {"wbinvd_exiting", "ug", "ept", "vpid", "ept_ve"}
EptCap == {"ept_pml5", "invvpid_single", "pt_use_gpa"}
FlagsInit(c) ==
    ({"proc2", "exit2"} \cap caps[c])
    \cup (IF "proc2" \notin caps[c] THEN {}
          ELSE (Proc2 \cap caps[c])
               \cup (IF {"ept", "vpid"} \cap caps[c] = {} THEN {}
                     ELSE EptCap \cap caps[c]))

\* The tsc's frequency is read, or measured; the timer's is calibrated where it
\* is not read, which needs the counter.
TscKnown(c) == {"crystal", "base_freq", "counter"} \cap caps[c] # {}
LapicKnown(c) == {"crystal", "counter"} \cap caps[c] # {}

Returned(c) == core[c] \in {"virtual", "failed"}
Go(c, from, to) == core[c] = from /\ core' = [core EXCEPT ![c] = to]

\* vper_cpu_data_init, which gives up on a cpu without frequencies, and
\* root_vcpu_init.
PerCpuDataInit(c) ==
    /\ Go(c, "called", IF TscKnown(c) /\ LapicKnown(c) THEN "vmxon" ELSE "failed")
    /\ lvt' = [lvt EXCEPT ![c] = LapicReconfig(c)]
    /\ support' = [support EXCEPT ![c] = FlagsInit(c)]
    /\ UNCHANGED <<caps, root, boot, next, current, on, partitions>>

\* vmxon, vmclear and vmptrld: each may fail, and the core goes on natively.
VmxOn(c) ==
    /\ \E to \in {"launch", "failed"} : Go(c, "vmxon", to)
    /\ UNCHANGED <<caps, root, boot, next, lvt, support, current, on, partitions>>

\* vmwrite_adjusted: the cpu drops what it does not allow.
Adjusted(c, controls) == controls \cap caps[c]
\* The secondary controls of the root's vcpu and of a created one, which are
\* written only where the cpu is known to have them.
Secondary(c, controls) ==
    IF "proc2" \in support[c] THEN Adjusted(c, controls) ELSE {}
RootControls(c) == Secondary(c, {"wbinvd_exiting"})

\* What the cpuid leaf of the emulation features tells a guest of cpu c.
EmulationFeatures(c) ==
    ({"ept", "ug", "ept_ve", "wbinvd_exiting", "ept_pml5", "pt_use_gpa"} \cap support[c])
    \cup (IF {"vpid", "invvpid_single"} \subseteq support[c] THEN {"vpid"} ELSE {})

\* The root's vcpu is current before the launch that makes it so.
Launch(c) ==
    /\ \E to \in {"virtual", "failed"} : Go(c, "launch", to)
    /\ current' = [current EXCEPT ![c] = "root"]
    /\ root' = [root EXCEPT ![c] = RootControls(c)]
    /\ UNCHANGED <<caps, boot, next, lvt, support, on, partitions>>

-----------------------------------------------------------------------------
(* __start_twanvisor on the bsp.                                              *)
\* The id that vpartition_id_alloc takes.
Lowest(S) == CHOOSE v \in S : \A w \in S : v <= w
Boot(from, to) == boot = from /\ boot' = to

\* vkernel_init, then vpartition_table_init.
VkernelInit ==
    LET vmx == \A c \in Processor : "vmx" \in caps[c] IN
    /\ Boot("vkernel", IF vmx THEN "root" ELSE "refused")
    /\ vids' = IF vmx THEN Vid ELSE vids
    /\ UNCHANGED <<caps, root, next, core, lvt, support, current, on, table, call, vid,
                   state, vmcs>>

RootPartitionInit ==
    /\ Boot("root", "loop")
    /\ vids' = vids \ {Lowest(vids)}
    /\ table' = [table EXCEPT ![Lowest(vids)] = "root"]
    /\ UNCHANGED <<caps, root, next, core, lvt, support, current, on, call, vid, state,
                   vmcs>>

\* ipi_run_func(..., true) refuses a cpu that is not active; nobody looks.
RunOnNext ==
    /\ next \in Processor /\ boot = "loop"
    /\ IF next = Bsp
       THEN next' = next + 1 /\ UNCHANGED <<boot, core>>
       ELSE /\ core' = [core EXCEPT ![next] =
                           IF "active" \in caps[next] THEN "called" ELSE "failed"]
            /\ boot' = "wait" /\ UNCHANGED next
    /\ UNCHANGED <<caps, root, lvt, support, current, on, partitions>>

Waited ==
    /\ Boot("wait", "loop")
    /\ Returned(next)
    /\ next' = next + 1
    /\ UNCHANGED <<caps, root, core, lvt, support, current, on, partitions>>

RunOnBsp ==
    /\ next = Cpus
    /\ Boot("loop", "bsp")
    /\ Go(Bsp, "native", "called")
    /\ UNCHANGED <<caps, root, next, lvt, support, current, on, partitions>>

TwanvisorOn ==
    /\ Boot("bsp", "done")
    /\ Returned(Bsp)
    /\ on' = TRUE
    /\ UNCHANGED <<caps, root, next, core, lvt, support, current, partitions>>

-----------------------------------------------------------------------------
(* VCREATE_PARTITION, by the root vcpu of cpu c.                              *)
\* A mutant looks at what every vcpu needs only.
VcpuPrecheckNeeds(w) ==
    w.cpu \in Processor /\ {"ug", "ept"} \subseteq support[w.cpu] /\ w.faults = {}
VcpuPrecheck(w) ==
    /\ w.cpu \in Processor
    /\ {"ug", "ept"} \subseteq support[w.cpu]
    /\ "vpid" \in w.features => {"vpid", "invvpid_single"} \subseteq support[w.cpu]
    /\ "ept_ve" \in w.features => "ept_ve" \in support[w.cpu]
    /\ w.faults = {}
VpartitionPrecheck(p) ==
    /\ Config[p].faults = {}
    /\ Vcpus(p) # {}
    /\ \A i \in Vcpus(p) : VcpuPrecheck(Wanted(p, i))

At(c, pc) == core[c] = "virtual" /\ call[c].pc = pc
To(c, r) == call' = [call EXCEPT ![c] = r]

\* The root does not hand the same memory to two creations.
Create(c, p) ==
    /\ on /\ At(c, "none")
    /\ vid[p] = NULL /\ \A d \in Processor : call[d].p # p
    /\ VpartitionPrecheck(p)
    /\ To(c, Creation("id", p, NULL, 0))
    /\ UNCHANGED <<machine, vids, table, vid, state, vmcs>>

IdAlloc(c) ==
    /\ At(c, "id")
    /\ IF vids = {}
       THEN To(c, Idle) /\ UNCHANGED vids
       ELSE /\ To(c, Creation("setup", call[c].p, Lowest(vids), 0))
            /\ vids' = vids \ {Lowest(vids)}
    /\ UNCHANGED <<machine, table, vid, state, vmcs>>

\* vpartition_setup with vcpu_setup of every vcpu.
Setup(c) ==
    /\ At(c, "setup")
    /\ To(c, Creation("place", call[c].p, call[c].id, 0))
    /\ vid' = [vid EXCEPT ![call[c].p] = call[c].id]
    /\ state' = [state EXCEPT ![call[c].p] = [i \in Vcpus(call[c].p) |-> "INITIALIZING"]]
    /\ UNCHANGED <<machine, vids, table, vmcs>>

\* vpartition_push: the partition can be found before its vcpus are queued ...
Place(c) ==
    /\ At(c, "place")
    /\ To(c, Creation("push", call[c].p, call[c].id, 1))
    /\ table' = [table EXCEPT ![call[c].id] = call[c].p]
    /\ UNCHANGED <<machine, vids, vid, state, vmcs>>

\* ... which vsched_put and vsched_put_paused do one by one.
Push(c) ==
    LET p == call[c].p
        i == call[c].i
    IN
    /\ At(c, "push")
    /\ state' = [state EXCEPT ![p][i] = Wanted(p, i).boot]
    /\ To(c, IF i = Len(Config[p].vcpus) THEN Idle
             ELSE Creation("push", p, call[c].id, i + 1))
    /\ UNCHANGED <<machine, vids, table, vid, vmcs>>

EntryControls(w) ==
    Secondary(w.cpu, {"ept", "ug", "wbinvd_exiting", "pt_use_gpa"} \cup w.features)
\* The fields that the optional controls need: the area of the virtualisation
\* exceptions where the cpu has them, the tag where the vcpu has one.
EntryFields(w) ==
    {"eptp"} \cup (IF "ept_ve" \in support[w.cpu] THEN {"ve_info"} ELSE {})
             \cup (IF "vpid" \in w.features THEN {"tag"} ELSE {})
\* vcpu_entry on the vcpu's cpu, as far as the launch; a VMCS that cannot be
\* loaded ends in vfailure_recover.
VcpuEntry(p, i) ==
    LET w == Wanted(p, i) IN
    /\ state[p][i] = "READY" /\ core[w.cpu] = "virtual"
    /\ \/ /\ vmcs' = [vmcs EXCEPT ![p][i] = EntryControls(w) \cup EntryFields(w)]
          /\ state' = [state EXCEPT ![p][i] = "RUNNING"]
       \/ state' = [state EXCEPT ![p][i] = "TERMINATED"] /\ UNCHANGED vmcs
    /\ UNCHANGED <<machine, vids, table, call, vid>>

Next ==
    \/ VkernelInit \/ RootPartitionInit \/ RunOnNext \/ Waited \/ RunOnBsp
    \/ TwanvisorOn
    \/ \E c \in Processor : PerCpuDataInit(c) \/ VmxOn(c) \/ Launch(c)
    \/ \E c \in Processor, p \in Partition : Create(c, p)
    \/ \E c \in Processor : IdAlloc(c) \/ Setup(c) \/ Place(c) \/ Push(c)
    \/ \E p \in Partition : \E i \in Vcpus(p) : VcpuEntry(p, i)

Spec == Init /\ [][Next]_vars

-----------------------------------------------------------------------------
\* When twanvisor_on tells the kernel that the hypervisor is there, no cpu is
\* still on its way: every one either runs the root's vcpu, with its NMIs turned
\* into interrupts, or has given up for a reason of its own (and is not in the
\* hypervisor's hands although twanvisor_on says so).
OnMeansVirtual ==
    on => \A c \in Processor :
        \/ core[c] = "virtual" /\ current[c] = "root" /\ "lint1" \notin lvt[c]
        \/ core[c] = "failed"

EnteredWell(p, i) ==
    LET w == Wanted(p, i)
        v == vmcs[p][i]
    IN /\ {"ept", "ug", "eptp"} \cup w.features \subseteq v
       /\ "ept_ve" \in v => "ve_info" \in v
       /\ "vpid" \in v <=> "tag" \in v
       /\ w.features \subseteq EmulationFeatures(w.cpu)
       /\ "wbinvd_exiting" \in v <=> "wbinvd_exiting" \in EmulationFeatures(w.cpu)

\* What the prechecks accept is what the vcpu is entered with, and what cpuid
\* tells it: the target cpu's controls hold second-level paging, unrestricted
\* guest and every feature asked for, with the fields these need, although
\* vmwrite_adjusted silently drops what the cpu lacks; and wbinvd is said to do
\* nothing exactly where the controls catch it, for the root too.
EnteredAsAsked ==
    /\ \A p \in Partition : \A i \in Vcpus(p) : state[p][i] = "RUNNING" => EnteredWell(p, i)
    /\ \A c \in Processor : core[c] = "virtual" =>
          ("wbinvd_exiting" \in root[c] <=> "wbinvd_exiting" \in EmulationFeatures(c))

\* A partition that vpartition_get can find is set up, its vcpus included, and is
\* found under its own vid only; creations on two cpus never share a vid.
FoundIsSetUp ==
    /\ \A v \in Vid : table[v] \in Partition =>
          /\ vid[table[v]] = v
          /\ \A i \in Vcpus(table[v]) : state[table[v]][i] # "none"
    /\ \A p, q \in Partition : p # q /\ vid[p] # NULL => vid[p] # vid[q]
=============================================================================
