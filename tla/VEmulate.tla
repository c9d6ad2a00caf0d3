------------------------------ MODULE VEmulate ------------------------------
(* Exits that emulate an instruction: cpuid, moves to control registers, msr  *)
(* accesses, instructions that do nothing or do not exist in a guest.  Two    *)
(* vcpus share a cpu.  A handler runs with preemption disabled until it no    *)
(* longer needs the vmcs, queues what is to be done in the vcpu, and __venter *)
(* does it after it has loaded the vcpu's vmcs again if it was preempted.     *)
(* What the cpu can do is a set of features; what the guest is shown of it    *)
(* (cpuid), what it may turn on (cr4) and what it may touch (msrs) come from  *)
(* three places of the code.                                                  *)
EXTENDS Naturals

CONSTANTS Vcpu, RootVcpu,  \* vcpus of one cpu, the one of root among them
          CpuModel,        \* the sets of features a cpu may have
          Wrap,            \* bound: instructions are counted modulo Wrap
          NULL

-----------------------------------------------------------------------------
(* cpuid: what vexit_cpuid clears whatever the cpu has.                       *)
HiddenFeature == {"mce", "smx", "xsave", "x2apic", "vmx", "monitor", "mpx",
                  "waitpkg", "rdpid", "pku", "uintr", "fred", "uintr_timer",
                  "user_msr", "sr_bios", "rdtscp"}
Shown(h) == h \ HiddenFeature

\* The leaves of cpuid: the hypervisor's own (vinfo_dispatcher), those that are
\* cleared, and those handed on with features masked.
CpuidResult(v, leaf, h) ==
    CASE leaf = "info" -> {"info"}
      [] leaf = "root_info" -> IF v = RootVcpu THEN {"root_info"} ELSE {}
      [] leaf = "topology" -> {}
      [] leaf = "cache" -> IF v = RootVcpu THEN {"cache"} ELSE {}
      [] leaf = "features" -> Shown(h)

\* vper_cpu_flags_init: feature_flags and trap_cache.  tsc_aux comes from rdpid
\* alone (vmain.c:312).
FeatureFlags(h) ==
    h \cap {"mce", "umip", "la57", "smx", "fsgsbase", "pcid", "xsave", "kl", "smep",
               "smap", "pku", "cet", "uintr", "lass", "lam", "fred"}
TrapCache(h) ==
    (h \cap {"user_msr", "uintr_timer", "waitpkg", "mpx", "arch_cap", "sr_bios",
                "xapic_disable", "x2apic"})
    \cup (IF h \cap {"sgx", "lmce"} # {} THEN {"feature_control"} ELSE {})
    \cup (IF "rdpid" \in h THEN {"tsc_aux"} ELSE {})

-----------------------------------------------------------------------------
(* Msrs, one for each group that vsetup_traps treats alike, by address.       *)
Msr == [MONITOR_FILTER_SIZE |-> 6, APIC_BASE |-> 27, USER_MSR_CTL |-> 28,
        FEATURE_CONTROL |-> 58, XAPIC_DISABLE_STATUS |-> 189, UMWAIT_CONTROL |-> 225,
        ARCH_CAPABILITIES |-> 266, SR_BIOS_DONE |-> 337, FRED_CONFIG |-> 468,
        VMX_BASIC |-> 1152, X2APIC_ID |-> 2050, UINTR_RR |-> 2437, BNDCFGS |-> 3472,
        XSS |-> 3488, UINTR_TIMER |-> 6912, TSC_AUX |-> 1048576 + 259,
        VIRTUAL_MITIGATION_CTRL |-> 524288, EFER |-> 1048576 + 128]
\* (an address from c0000000 is written 1048576 plus its offset)
High == 1048576
InRange(a) == a <= 511 \/ (a >= High /\ a <= High + 8191)  \* vin_msr_bitmap_range
Emulated == {"FEATURE_CONTROL", "ARCH_CAPABILITIES", "VIRTUAL_MITIGATION_CTRL"}
Blocked == DOMAIN Msr \ (Emulated \cup {"EFER"})           \* msr_blocklist

\* vsetup_traps: what a group is trapped for.
Wanted(m, h) ==
    CASE m = "XSS" -> "xsave" \in FeatureFlags(h)
      [] m = "USER_MSR_CTL" -> "user_msr" \in TrapCache(h)
      [] m = "UINTR_RR" -> "uintr" \in FeatureFlags(h)
      [] m = "UINTR_TIMER" -> "uintr_timer" \in TrapCache(h)
      [] m = "FRED_CONFIG" -> "fred" \in FeatureFlags(h)
      [] m = "UMWAIT_CONTROL" -> "waitpkg" \in TrapCache(h)
      [] m = "XAPIC_DISABLE_STATUS" -> "xapic_disable" \in TrapCache(h)
      [] m = "TSC_AUX" -> "tsc_aux" \in TrapCache(h)
      [] m = "SR_BIOS_DONE" -> "sr_bios" \in TrapCache(h)
      [] m = "BNDCFGS" -> "mpx" \in TrapCache(h)
      [] m = "X2APIC_ID" -> "x2apic" \in TrapCache(h)
      [] m = "ARCH_CAPABILITIES" -> "arch_cap" \in TrapCache(h)
      [] m \in {"FEATURE_CONTROL", "MONITOR_FILTER_SIZE", "VMX_BASIC", "APIC_BASE"} -> TRUE
      [] OTHER -> FALSE

\* vtrap_msr_read and vtrap_msr_write set a bit where vmap_msr finds one; the
\* cpu exits for a set bit and for addresses that no bitmap covers.
ReadOnlyTrap == {"ARCH_CAPABILITIES"}
TrapBit(m, write, h) ==
    Wanted(m, h) /\ InRange(Msr[m]) /\ (write => m \notin ReadOnlyTrap)
BitmapCovers(a) == a <= 8191 \/ (a >= High /\ a <= High + 8191)
Exits(m, write, h) == ~BitmapCovers(Msr[m]) \/ TrapBit(m, write, h)

\* vexit_rdmsr and vexit_wrmsr: TRUE if the access is answered, FALSE for #GP.
\* "same" says whether a write keeps the value; root reaches the cpu for the
\* rest, where a fault is caught by the shield ("ok" is what the cpu answers).
Rdmsr(v, m, ok, h) ==
    CASE m = "ARCH_CAPABILITIES" -> TRUE
      [] m = "VIRTUAL_MITIGATION_CTRL" -> "arch_cap" \in TrapCache(h)
      [] m = "FEATURE_CONTROL" -> "feature_control" \in TrapCache(h)
      [] OTHER -> v = RootVcpu /\ m \notin Blocked /\ ok
Wrmsr(v, m, same, ok, h) ==
    CASE m = "VIRTUAL_MITIGATION_CTRL" -> "arch_cap" \in TrapCache(h) /\ same
      [] m = "FEATURE_CONTROL" -> "feature_control" \in TrapCache(h) /\ same
      [] OTHER -> v = RootVcpu /\ m \notin Blocked /\ ok
MsrAnswer(v, i, h) ==
    IF i.write THEN Wrmsr(v, i.msr, i.same, i.ok, h) ELSE Rdmsr(v, i.msr, i.ok, h)

-----------------------------------------------------------------------------
(* cr4: the bits a write may have, with the feature each belongs to.  A write *)
(* exits when it clears vmxe or changes a masked bit.                         *)
Cr4Bit == {"mce", "umip", "la57", "smx", "fsgsbase", "pcid", "xsave", "kl", "smep",
           "smap", "pku", "cet", "pks", "uintr", "lass", "lam", "fred"}
NeverInCr4 == {"mce", "smx", "xsave", "uintr", "fred"}
CrValid(cr, bits, h) ==
    IF cr = 0 THEN "cd" \notin bits
    ELSE /\ bits \cap NeverInCr4 = {}
         /\ bits \ {"pku"} \subseteq FeatureFlags(h)
         /\ "pku" \notin FeatureFlags(h)        \* vexit.c:460 tests the feature

VARIABLES
    have,       \* the features of this cpu
    vmcs,       \* per vcpu: rip, the control register the last instruction wrote
                \* and its value, the fault to deliver, why it exited
    loaded,     \* whose vmcs the cpu has loaded
    current,    \* vcurrent_vcpu
    preempted,  \* flags.preempted
    pc,         \* "guest", "pinned", "host" (preemptible), "queued"
    op,         \* the instruction, as the handler has read it
    queue,      \* voperation_queue
    expected    \* history: the vmcs as the guest may expect it next, or NULL

vars == <<have, vmcs, loaded, current, preempted, pc, op, queue, expected>>

NoOps == [advance |-> FALSE, cr |-> NULL, fault |-> NULL]
Init ==
    /\ have \in CpuModel
    /\ vmcs = [v \in Vcpu |-> [rip |-> 0, cr |-> NULL, fault |-> NULL, exit |-> NULL]]
    /\ loaded = RootVcpu /\ current = RootVcpu
    /\ preempted = [v \in Vcpu |-> v # RootVcpu]
    /\ pc = [v \in Vcpu |-> IF v = RootVcpu THEN "guest" ELSE "queued"]
    /\ op = [v \in Vcpu |-> NULL]
    /\ queue = [v \in Vcpu |-> NoOps]
    /\ expected = [v \in Vcpu |-> [rip |-> 0, cr |-> NULL, fault |-> NULL]]

Instr ==
    [kind : {"nop", "cpuid", "ud", "gp"}]
    \cup [kind : {"mov_cr"}, cr : {0}, bits : {{}, {"cd"}}, rsp : BOOLEAN]
    \cup [kind : {"mov_cr"}, cr : {4}, bits : {{}} \cup {{b} : b \in Cr4Bit}, rsp : BOOLEAN]
    \cup [kind : {"msr"}, msr : DOMAIN Msr, write : BOOLEAN, same : BOOLEAN, ok : BOOLEAN]

\* Bound: of two vcpus in the middle of an instruction, one is in one of these.
Simple == [kind : {"nop"}] \cup [kind : {"mov_cr"}, cr : {0}, bits : {{}}, rsp : BOOLEAN]

\* A reference: what the machine the guest is shown does with the instruction.
\* A bit of cr4 may be set, and a msr is there, if cpuid shows the feature it
\* belongs to; a msr that is there keeps its value.
MsrFeature(m) ==
    CASE m = "FEATURE_CONTROL" -> {"sgx", "lmce"}
      [] m \in {"ARCH_CAPABILITIES", "VIRTUAL_MITIGATION_CTRL"} -> {"arch_cap"}
      [] m = "MONITOR_FILTER_SIZE" -> {"monitor"}
      [] m = "USER_MSR_CTL" -> {"user_msr"}
      [] m = "UMWAIT_CONTROL" -> {"waitpkg"}
      [] m = "SR_BIOS_DONE" -> {"sr_bios"}
      [] m = "FRED_CONFIG" -> {"fred"}
      [] m = "VMX_BASIC" -> {"vmx"}
      [] m = "X2APIC_ID" -> {"x2apic"}
      [] m = "UINTR_RR" -> {"uintr"}
      [] m = "BNDCFGS" -> {"mpx"}
      [] m = "XSS" -> {"xsave"}
      [] m = "UINTR_TIMER" -> {"uintr_timer"}
      [] m = "TSC_AUX" -> {"rdpid", "rdtscp"}
      [] OTHER -> {}
Succeeds(v, i) ==
    CASE i.kind \in {"nop", "cpuid"} -> TRUE
      [] i.kind = "mov_cr" -> i.bits \subseteq CpuidResult(v, "features", have)
      [] i.kind = "msr" -> /\ MsrFeature(i.msr) \cap CpuidResult(v, "features", have) # {}
                           /\ i.write => i.same
      [] OTHER -> FALSE
Doubtful(i) ==
    i.kind = "mov_cr" /\ i.cr = 4 /\ ("pku" \in have \cup i.bits \/ "pks" \in i.bits)
Fault(i) == IF i.kind = "ud" THEN "UD" ELSE "GP"
Reference(v, i) ==
    IF Doubtful(i) THEN NULL
    ELSE IF Succeeds(v, i)
    THEN [rip |-> (vmcs[v].rip + 1) % Wrap, fault |-> NULL,
          cr |-> IF i.kind = "mov_cr" THEN <<i.cr, i.bits>> ELSE NULL]
    ELSE [rip |-> vmcs[v].rip, cr |-> NULL, fault |-> Fault(i)]

\* The handler's verdict.
Answered(v, i) ==
    CASE i.kind \in {"nop", "cpuid"} -> TRUE
      [] i.kind = "mov_cr" -> CrValid(i.cr, i.bits, have)
      [] i.kind = "msr" -> MsrAnswer(v, i, have)
      [] OTHER -> FALSE

\* The guest executes an instruction that exits; the exit fields go to the
\* vmcs that is loaded.
Exit(v, i) ==
    /\ current = v /\ pc[v] = "guest"
    /\ i.kind = "msr" => Exits(i.msr, i.write, have)
    /\ i \in Simple \/ \A w \in Vcpu \ {v} : op[w] \in Simple \cup {NULL}
    /\ pc' = [pc EXCEPT ![v] = "pinned"]
    /\ vmcs' = [vmcs EXCEPT ![loaded] = [rip |-> @.rip, cr |-> NULL, fault |-> NULL, exit |-> i]]
    /\ expected' = [expected EXCEPT ![v] = Reference(v, i)]
    /\ UNCHANGED <<have, loaded, current, preempted, op, queue>>

\* The handler reads the exit fields, then enables preemption.
ReadExit(v) ==
    /\ current = v /\ pc[v] = "pinned"
    /\ op' = [op EXCEPT ![v] = vmcs[loaded].exit]
    /\ vmcs' = [vmcs EXCEPT ![loaded].exit = NULL]
    /\ pc' = [pc EXCEPT ![v] = "host"]
    /\ UNCHANGED <<have, loaded, current, preempted, queue, expected>>

\* ... and queues its answer.  A move from rsp reads the stack pointer from the
\* vmcs only here (vgpr_val), the other registers were saved at the exit.
Moved(v, i) == [val |-> <<i.cr, i.bits>>, from |-> IF i.rsp THEN loaded ELSE v]
Answer(v, i) ==
    IF Answered(v, i)
    THEN [advance |-> TRUE, fault |-> NULL,
          cr |-> IF i.kind = "mov_cr" THEN Moved(v, i) ELSE NULL]
    ELSE [advance |-> FALSE, cr |-> NULL, fault |-> Fault(i)]
Queue(v) ==
    /\ current = v /\ pc[v] = "host"
    /\ queue' = [queue EXCEPT ![v] = Answer(v, op[v])]
    /\ pc' = [pc EXCEPT ![v] = "queued"]
    /\ UNCHANGED <<have, vmcs, loaded, current, preempted, op, expected>>

\* __venter, interrupts disabled: reload, control registers, rip, the event.  A
\* mutant does not reload.
NotReloaded(v) == loaded
Reloaded(v) == IF preempted[v] THEN v ELSE loaded
Enter(v) ==
    LET at == Reloaded(v) IN
    /\ current = v /\ pc[v] = "queued"
    /\ loaded' = at
    /\ preempted' = [preempted EXCEPT ![v] = FALSE]
    /\ vmcs' = [vmcs EXCEPT ![at] =
         [cr |-> IF queue[v].cr # NULL THEN queue[v].cr.val ELSE @.cr,
          rip |-> IF queue[v].advance THEN (@.rip + 1) % Wrap ELSE @.rip,
          fault |-> queue[v].fault, exit |-> @.exit]]
    /\ queue' = [queue EXCEPT ![v] = NoOps]
    /\ op' = [op EXCEPT ![v] = NULL]
    /\ pc' = [pc EXCEPT ![v] = "guest"]
    /\ UNCHANGED <<have, current, expected>>

\* The other vcpu is dispatched wherever preemption is enabled.
Preempt(v, w) ==
    /\ current = v /\ v # w /\ pc[v] \in {"host", "queued"}
    /\ current' = w
    /\ preempted' = [preempted EXCEPT ![v] = TRUE]
    /\ UNCHANGED <<have, vmcs, loaded, pc, op, queue, expected>>

Next == \E v \in Vcpu : \/ \E i \in Instr : Exit(v, i)
                        \/ ReadExit(v) \/ Queue(v) \/ Enter(v)
                        \/ \E w \in Vcpu : Preempt(v, w)

Spec == Init /\ [][Next]_vars

-----------------------------------------------------------------------------
TypeOK ==
    /\ have \in CpuModel /\ loaded \in Vcpu /\ current \in Vcpu
    /\ preempted \in [Vcpu -> BOOLEAN]
    /\ pc \in [Vcpu -> {"guest", "pinned", "host", "queued"}]

\* An emulated instruction takes effect once, on the vcpu that executed it, or
\* faults and changes nothing, with any preemption between the exit and the
\* entry and whichever vmcs is loaded by then; a control register takes the bits
\* whose features cpuid shows, and no other; and of the msr accesses that exit
\* those are answered whose feature cpuid shows.  Excepted are all writes on a
\* cpu with protection keys and cr4.pke without them (vexit.c:460 tests the
\* feature instead of the bit), and cr4.pks (features.pks is never set).
EmulatedOnce ==
    \A v \in Vcpu :
        pc[v] = "guest" /\ expected[v] # NULL =>
            expected[v] = [rip |-> vmcs[v].rip, cr |-> vmcs[v].cr, fault |-> vmcs[v].fault]

\* A value moved to a control register is the one the vcpu had: no handler
\* reads the vmcs of another vcpu after enabling preemption.  Excepted is a
\* move from rsp, which vgpr_val reads too late (vexit.c:414-418).
OwnOperand ==
    \A v \in Vcpu : queue[v].cr # NULL /\ ~op[v].rsp => queue[v].cr.from = v
=============================================================================
