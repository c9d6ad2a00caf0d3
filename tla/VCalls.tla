-------------------------------- MODULE VCalls --------------------------------
(* vcalls: what vexit_vmcall and vcall_dispatcher do around a handler, the     *)
(* handlers' checks, and the handlers of the criticality levels, which a       *)
(* partition reads and writes as far as the root has permitted.  What the      *)
(* other handlers go on to do is in VInterrupts, VTlb, VTimer, VRoutes, VSched *)
(* and VLifecycle.  A vcpu is preemptible while its count is zero.             *)
EXTENDS Naturals

CONSTANTS
    Vcpu, Vid, RootVid,
    VidOf,      \* vcpu -> its partition
    Cpu,        \* physical processors
    MaxLevel,   \* VSCHED_MAX_CRITICALITY
    Perms,      \* permissions the root may give, see Allows
    Strict,     \* CONFIG_TWANVISOR_VSCHED_STRICT
    NULL

VARIABLES
    count,   \* per vcpu: preemption_count
    state,   \* per vcpu: vsched_metadata.state
    call,    \* per vcpu: the call it is in and where it is
    ret,     \* per vcpu: what the call returns
    alive,   \* the partitions in the table
    lock,    \* per vid: the holder of the table entry's lock
    perm,    \* per vid and processor: criticality_perms
    level    \* per processor: vcriticality_level

vars == <<count, state, call, ret, alive, lock, perm, level>>

Scheduling == {"vyield", "vpause", "vpv_spin_pause"}
Criticality == {"vset_criticality_perm", "vread_criticality_level",
                "vwrite_criticality_level"}
\* "valter_vcpu" stands for the two calls that alter a vcpu, "vframe_set" for
\* the two that change a frame; vset_route's vid is the sender's.
RootOnly == {"valter_vcpu", "vset_vcpu_subscription_perm", "vset_criticality_perm",
             "vset_route", "vkdbg", "vcreate_partition", "vdestroy_partition",
             "vframe_set"}
OtherVid == {"vset_vcpu_subscription_perm", "vset_criticality_perm", "vset_route",
             "vdestroy_partition"}
\* vcall_table; "vread_vcpu_state_far" stands for the calls anyone may make.
vcall_table == Scheduling \cup Criticality \cup RootOnly \cup {"vread_vcpu_state_far"}

Root(v) == VidOf[v] = RootVid
Guest == [pc |-> "guest", id |-> NULL, vid |-> NULL, cpu |-> NULL, arg |-> NULL]
Full == [read |-> TRUE, write |-> TRUE, min |-> 0, max |-> MaxLevel]
None == [read |-> FALSE, write |-> FALSE, min |-> 0, max |-> 0]

Init ==
    /\ count = [v \in Vcpu |-> 0]
    /\ state = [v \in Vcpu |-> "RUNNING"]
    /\ call = [v \in Vcpu |-> Guest]
    /\ ret = [v \in Vcpu |-> NULL]
    /\ alive = Vid
    /\ lock = [p \in Vid |-> NULL]
    /\ perm = [p \in Vid |-> [c \in Cpu |-> IF p = RootVid THEN Full ELSE None]]
    /\ level = [c \in Cpu |-> 0]

At(v, pc) == call[v].pc = pc
To(v, pc) == call' = [call EXCEPT ![v].pc = pc]
\* A handler returns a value, which vcall_dispatcher hands to the guest.
Return(v, r) == To(v, "return") /\ ret' = [ret EXCEPT ![v] = r]
Enable(v) == count' = [count EXCEPT ![v] = @ - 1]

-----------------------------------------------------------------------------
(* The exit, and the dispatcher.                                              *)
Exit(v, id, vid, cpu, arg) ==
    /\ At(v, "guest") /\ state[v] = "RUNNING"
    /\ count' = [count EXCEPT ![v] = @ + 1]
    /\ state' = [state EXCEPT ![v] = "TRANSITIONING"]
    /\ call' = [call EXCEPT ![v] = [pc |-> "dispatch", id |-> id, vid |-> vid,
                                    cpu |-> cpu, arg |-> arg]]
    /\ UNCHANGED <<ret, alive, lock, perm, level>>

\* A caller outside ring 0 and an unknown id end here.
VcallDispatcher(v) ==
    /\ At(v, "dispatch")
    /\ \/ Enable(v) /\ Return(v, "GP")
       \/ IF call[v].id \in vcall_table
          THEN To(v, "handler") /\ UNCHANGED <<count, ret>>
          ELSE Enable(v) /\ Return(v, "EINVAL")
    /\ UNCHANGED <<state, alive, lock, perm, level>>

Resume(v) ==
    /\ At(v, "return")
    /\ call' = [call EXCEPT ![v] = Guest]
    /\ state' = [state EXCEPT ![v] = "RUNNING"]
    /\ ret' = [ret EXCEPT ![v] = NULL]
    /\ UNCHANGED <<count, alive, lock, perm, level>>

-----------------------------------------------------------------------------
(* The handlers.                                                              *)

\* vyield, vpause and vpv_spin_pause leave the cpu before they let themselves be
\* preempted; a strict build refuses them.
LeaveCpu(v) ==
    /\ At(v, "handler") /\ call[v].id \in Scheduling
    /\ IF Strict
       THEN Enable(v) /\ Return(v, "EINVAL") /\ UNCHANGED state
       ELSE /\ To(v, "away")
            /\ state' = [state EXCEPT ![v] = IF call[v].id = "vyield" THEN "READY"
                                             ELSE "PAUSED"]
            /\ UNCHANGED <<count, ret>>
    /\ UNCHANGED <<alive, lock, perm, level>>
ComeBack(v) ==
    /\ At(v, "away")
    /\ state' = [state EXCEPT ![v] = "TRANSITIONING"]
    /\ Enable(v) /\ Return(v, "OK")
    /\ UNCHANGED <<alive, lock, perm, level>>

\* All others let themselves be preempted at once, and check their caller.
Checks(v) ==
    IF call[v].id \in RootOnly /\ ~Root(v) THEN "EPERM"
    ELSE IF call[v].id \in OtherVid /\ call[v].vid = VidOf[v] THEN "EINVAL"
    ELSE "OK"
Enter(v) ==
    /\ At(v, "handler") /\ call[v].id \notin Scheduling
    /\ Enable(v)
    /\ IF Checks(v) = "OK" THEN To(v, "body") /\ UNCHANGED ret
       ELSE Return(v, Checks(v))
    /\ UNCHANGED <<state, alive, lock, perm, level>>

\* What the other handlers call: they may refuse their arguments.
Emulate(v) ==
    /\ At(v, "body") /\ call[v].id \notin Criticality
    /\ \E r \in {"OK", "EINVAL"} : Return(v, r)
    /\ UNCHANGED <<count, state, alive, lock, perm, level>>

\* vemu_set_criticality_perm names a partition, the other two take the caller's.
Target(v) == IF call[v].id = "vset_criticality_perm" THEN call[v].vid ELSE VidOf[v]
Valid(v) ==
    CASE call[v].id = "vset_criticality_perm" ->
            call[v].arg.write => call[v].arg.min <= call[v].arg.max
                                 /\ call[v].arg.max <= MaxLevel
      [] call[v].id = "vread_criticality_level" -> TRUE
      [] call[v].id = "vwrite_criticality_level" -> call[v].arg <= MaxLevel
VpartitionGet(v) ==
    LET p == Target(v) IN
    /\ At(v, "body") /\ call[v].id \in Criticality
    /\ IF ~Valid(v) THEN Return(v, "EINVAL") /\ UNCHANGED lock
       ELSE /\ lock[p] = NULL
            /\ IF p \in alive
               THEN /\ lock' = [lock EXCEPT ![p] = v]
                    /\ To(v, "locked") /\ UNCHANGED ret
               ELSE Return(v, "EINVAL") /\ UNCHANGED lock
    /\ UNCHANGED <<count, state, alive, perm, level>>

Put(v) == lock' = [lock EXCEPT ![Target(v)] = NULL]
SetCriticalityPerm(v) ==
    /\ At(v, "locked") /\ call[v].id = "vset_criticality_perm"
    /\ perm' = [perm EXCEPT ![Target(v)][call[v].cpu] = call[v].arg]
    /\ Put(v) /\ Return(v, "OK")
    /\ UNCHANGED <<count, state, alive, level>>
ReadCriticalityLevel(v) ==
    /\ At(v, "locked") /\ call[v].id = "vread_criticality_level"
    /\ Put(v)
    /\ Return(v, IF perm[Target(v)][call[v].cpu].read THEN level[call[v].cpu]
                 ELSE "EPERM")
    /\ UNCHANGED <<count, state, alive, perm, level>>

\* The permission is looked up first; the level has a lock of its own.
Allows(q, l) == q.write /\ l >= q.min /\ l <= q.max
\* A mutant puts the partition before the level is written.
LookUpPermOnly(v) ==
    /\ At(v, "locked") /\ call[v].id = "vwrite_criticality_level"
    /\ Put(v)
    /\ IF Allows(perm[Target(v)][call[v].cpu], call[v].arg)
       THEN To(v, "write") /\ UNCHANGED ret ELSE Return(v, "EINVAL")
    /\ UNCHANGED <<count, state, alive, perm, level>>
LookUpPerm(v) ==
    /\ At(v, "locked") /\ call[v].id = "vwrite_criticality_level"
    /\ IF Allows(perm[Target(v)][call[v].cpu], call[v].arg)
       THEN To(v, "write") /\ UNCHANGED <<lock, ret>>
       ELSE Put(v) /\ Return(v, "EINVAL")
    /\ UNCHANGED <<count, state, alive, perm, level>>
WriteCriticalityLevel(v) ==
    /\ At(v, "write")
    /\ level' = [level EXCEPT ![call[v].cpu] = call[v].arg]
    /\ Put(v) /\ Return(v, "OK")
    /\ UNCHANGED <<count, state, alive, perm>>

\* vpartition_remove, once the partition's vcpus have all terminated.
Remove(p) ==
    /\ p \in alive \ {RootVid} /\ lock[p] = NULL
    /\ \A v \in Vcpu : VidOf[v] = p => At(v, "guest")
    /\ alive' = alive \ {p}
    /\ state' = [v \in Vcpu |-> IF VidOf[v] = p THEN "TERMINATED" ELSE state[v]]
    /\ UNCHANGED <<count, call, ret, lock, perm, level>>

Next ==
    \/ \E v \in Vcpu, id \in (vcall_table \ Criticality) \cup {"none"}, p \in Vid :
          Exit(v, id, p, NULL, NULL)
    \/ \E v \in Vcpu, p \in Vid, c \in Cpu, q \in Perms :
          Exit(v, "vset_criticality_perm", p, c, q)
    \/ \E v \in Vcpu, c \in Cpu, l \in 0..(MaxLevel + 1) :
          \/ Exit(v, "vwrite_criticality_level", NULL, c, l)
          \/ Exit(v, "vread_criticality_level", NULL, c, NULL)
    \/ \E v \in Vcpu :
          \/ VcallDispatcher(v) \/ Resume(v) \/ LeaveCpu(v) \/ ComeBack(v)
          \/ Enter(v) \/ Emulate(v) \/ VpartitionGet(v) \/ SetCriticalityPerm(v)
          \/ ReadCriticalityLevel(v) \/ LookUpPerm(v) \/ WriteCriticalityLevel(v)
    \/ \E p \in Vid : Remove(p)

Spec == Init /\ [][Next]_vars

-----------------------------------------------------------------------------
\* Every handler lets itself be preempted exactly once on each of its paths, the
\* refusals and early returns included: a guest is entered with a count of zero,
\* and a vcpu that leaves the cpu of its own accord does so with preemption off
\* (a handler enables preemption, see the comment in vexit_dispatcher).
PreemptionBalanced ==
    \A v \in Vcpu :
        /\ call[v].pc \in {"guest", "return", "body", "locked", "write"} => count[v] = 0
        /\ call[v].pc \in {"dispatch", "handler", "away"} => count[v] = 1

\* A criticality level is only ever written by a partition that may write that
\* level on that processor at the very moment, although the permission is looked
\* up earlier and the root may withdraw it from another cpu.
LevelStep ==
    \A c \in Cpu : level'[c] # level[c] =>
        \E v \in Vcpu : /\ At(v, "write") /\ call[v].cpu = c
                        /\ VidOf[v] \in alive
                        /\ Allows(perm[VidOf[v]][c], level'[c])
=============================================================================
