---------------------------- MODULE MCHypervisor ----------------------------
(* The components of the hypervisor, for TLC: the initial state chooses one   *)
(* of them, which then runs alone with x1 .. x19 as its state.  They come with *)
(* what is proved about them for every value of their constants, see           *)
(* HypervisorProofs.                                                           *)
EXTENDS Integers

CONSTANTS v1, v2,        \* vcpus, and callers of VRoutes
          u1, u2,        \* vcpus of VSched
          t1, t2, t3,    \* timers
          p1, p2,        \* cpus
          r1, creator,   \* root vcpus of VLifecycle
          NMI, EXC, IDLE, NULL

VARIABLES part, x1, x2, x3, x4, x5, x6, x7, x8, x9, x10, x11, x12, x13, x14, x15,
          x16, x17, x18, x19

Last19 == <<part, x19>>
Last16 == <<x16, x17, x18, Last19>>
Last14 == <<x14, x15, Last16>>
Last10 == <<x10, x11, x12, x13, Last14>>
Last9 == <<x9, Last10>>
Last8 == <<x8, Last9>>
All == <<x1, x2, x3, x4, x5, x6, x7, Last8>>

-----------------------------------------------------------------------------
\* One vcpu, two vectors of two levels and the nmi; a device has the higher one.
Interrupts == INSTANCE VInterruptsProofs WITH
    Vcpu <- {v1}, Cpu <- {p1}, CpuOf <- [v \in {v1} |-> p1], Vector <- {2, 4},
    PerLevel <- 2, Allowed <- {4},
    state <- x1, pc <- x2, current <- x3, loaded <- x4, preempted <- x5,
    pending <- x6, inIntl <- x7, intl <- x8, window <- x9, vmcsWindow <- x10,
    event <- x11, exception <- x12, chosen <- x13, allowed <- x14,
    subscribed <- x15, queued <- x16, ipi <- x17, blocked <- x18, handlers <- x19

\* The routes' types.
Types == {"VIPI_ROUTE", "VTLB_SHOOTDOWN_ROUTE"}
\* Boot: cpus with every capability, with few, without a clock; and five requests,
\* the last two of which the prechecks refuse, for two vids.
FullCpu == {"vmx", "active", "proc2", "exit2", "ug", "ept", "vpid", "ept_ve",
            "invvpid_single", "crystal", "perfmon", "wbinvd_exiting"}
OldCpu == {"vmx", "active", "proc2", "ug", "ept", "vpid", "counter"}
Models == {FullCpu, OldCpu, {"vmx", "proc2", "crystal"}, FullCpu \ {"vmx"},
           FullCpu \ {"crystal"}}
Asked(c, f, how, x) == [cpu |-> c, features |-> f, boot |-> how, faults |-> x]
Requests ==
    [first |-> [faults |-> {}, vcpus |-> <<Asked(0, {"vpid"}, "READY", {}),
                                           Asked(1, {}, "PAUSED", {})>>],
     second |-> [faults |-> {}, vcpus |-> <<Asked(1, {"ept_ve"}, "READY", {})>>],
     third |-> [faults |-> {}, vcpus |-> <<Asked(0, {}, "READY", {})>>],
     fourth |-> [faults |-> {}, vcpus |-> <<Asked(1, {}, "READY", {"rip"})>>],
     fifth |-> [faults |-> {"root"}, vcpus |-> <<>>]]
\* Calls: a root vcpu and one of another partition, two levels.
Owners == [v \in {v1, v2} |-> IF v = v1 THEN 0 ELSE 1]
Permissions ==
    {[read |-> FALSE, write |-> w, min |-> 1, max |-> m] : w \in BOOLEAN, m \in {0, 1}}

\* Three timers; a root vcpu and one of another partition that write levels; and
\* the scheduler with two vcpus, MCQS with two criticalities and fixed slices.
Mcqs == INSTANCE VSchedProofs WITH
    Timer <- {t1, t2, t3}, MaxTicks <- 3,
    armed <- x1, periodic <- x2, ticks <- x3, chain <- x4, value <- x5, active <- x6,
    due <- x7,
    CallVcpu <- {v1, v2}, Vid <- {0, 1}, RootVid <- 0, VidOf <- Owners, Cpu <- {p1},
    MaxLevel <- 1, Perms <- Permissions, Strict <- FALSE,
    count <- x1, callState <- x2, call <- x3, ret <- x4, alive <- x5, lock <- x6,
    perm <- x7, vlevel <- x8,
    Vcpu <- {u1, u2}, Frames <- 2, Policy <- "MCQS", MaxCrit <- 1, Slices <- {1}, MaxStrays <- 1,
    state <- x1, crit <- x2, slice <- x3, left <- x4, rearm <- x5, term <- x6,
    yield <- x7, heap <- x8, frames <- x9, clock <- x10, level <- x11, kick <- x12,
    current <- x13, pc <- x14, sliceArmed <- x15, strays <- x16, missed <- x17, silent <- x18

\* The same with MCFS, one criticality and slices that come and go, and with
\* CONFIG_TWANVISOR_VSCHED_STRICT.
Mcfs == INSTANCE VSchedProofs WITH
    Timer <- {t1, t2, t3}, MaxTicks <- 3,
    armed <- x1, periodic <- x2, ticks <- x3, chain <- x4, value <- x5, active <- x6,
    due <- x7,
    CallVcpu <- {v1, v2}, Vid <- {0, 1}, RootVid <- 0, VidOf <- Owners, Cpu <- {p1},
    MaxLevel <- 1, Perms <- {}, Strict <- TRUE,
    count <- x1, callState <- x2, call <- x3, ret <- x4, alive <- x5, lock <- x6,
    perm <- x7, vlevel <- x8,
    Vcpu <- {u1, u2}, Frames <- 2, Policy <- "MCFS", MaxCrit <- 0, Slices <- {0, 1}, MaxStrays <- 1,
    state <- x1, crit <- x2, slice <- x3, left <- x4, rearm <- x5, term <- x6,
    yield <- x7, heap <- x8, frames <- x9, clock <- x10, level <- x11, kick <- x12,
    current <- x13, pc <- x14, sliceArmed <- x15, strays <- x16, missed <- x17, silent <- x18

\* MCQS without slices, from where a pop of the higher queue has left a vcpu linked
\* in the lower one up to the second such pop.
Strays == INSTANCE VSched WITH
    Vcpu <- {u1, u2}, Frames <- 2, Policy <- "MCQS", MaxCrit <- 1, Slices <- {0},
    MaxStrays <- 2,
    state <- x1, crit <- x2, slice <- x3, left <- x4, rearm <- x5, term <- x6,
    yield <- x7, heap <- x8, frames <- x9, clock <- x10, level <- x11, kick <- x12,
    current <- x13, pc <- x14, armed <- x15, strays <- x16, missed <- x17, silent <- x18

\* A shootdown of three vcpus, two of them on one cpu; the boot; the emulation on a
\* cpu with few features; the root and two partitions with two route types.
Parts == INSTANCE VPartitionProofs WITH
    N <- 3, Cpu <- {p1, p2}, CpuOf <- <<p1, p1, p2>>, Tagged <- {1, 3},
    flush <- x1, invvpid <- x2, next <- x3, current <- x4, lock <- x5, pc <- x6,
    map <- x7, acks <- x8, ipi <- x9, asked <- x10, returned <- x11, state <- x12,
    cached <- x13,
    Cpus <- 2, Bsp <- 0, CpuModel <- Models, Vids <- 3, Config <- Requests,
    caps <- x1, boot <- x2, core <- x4, lvt <- x5, support <- x6,
    onCpu <- x7, on <- x8, vids <- x9, table <- x10, creating <- x11, vid <- x13,
    controls <- x14, root <- x15,
    Vcpu <- {v1, v2}, RootVcpu <- v1, Wrap <- 2,
    FeatureSets <- {{"mce", "arch_cap", "smep"}, {"sgx", "uintr"}},
    have <- x1, vmcs <- x2, loaded <- x3, preempted <- x5, op <- x7, queue <- x8,
    expected <- x9,
    Vid <- {0, 1, 2}, Caller <- {v1}, RouteType <- Types,
    valid <- x1, senders <- x2, receivers <- x3, call <- x4, writers <- x5,
    crashed <- x6, granted <- x7

\* The life of a partition: two vcpus on two cpus, which run, pause and spin
\* under MCQS; and two that are put into frames and taken out of them under MCFS.
Life == INSTANCE VLifecycle WITH
    N <- 2, CpuOf <- <<p1, p2>>, Destroyers <- {r1}, Creator <- creator,
    PvSpin <- TRUE, PanicOnBug <- TRUE, Policy <- "MCQS",
    state <- x1, terminate <- x2, spin <- x3, queued <- x4, kicked <- x5, valid <- x6,
    holder <- x7, total <- x8, pc <- x9, idx <- x10, cnt <- x11, sum <- x12,
    notified <- x13, claims <- x14, counted <- x15
FrameLife == INSTANCE VLifecycle WITH
    N <- 2, CpuOf <- <<p1, p2>>, Destroyers <- {r1}, Creator <- creator,
    PvSpin <- TRUE, PanicOnBug <- TRUE, Policy <- "MCFS",
    state <- x1, terminate <- x2, spin <- x3, queued <- x4, kicked <- x5, valid <- x6,
    holder <- x7, total <- x8, pc <- x9, idx <- x10, cnt <- x11, sum <- x12,
    notified <- x13, claims <- x14, counted <- x15

ASSUME PartsAssumption ==
    /\ Interrupts!InterruptAssumption
    /\ Parts!TlbAssumption /\ Parts!BootAssumption
    /\ Parts!EmulationAssumption /\ Parts!RoutesAssumption
    /\ Mcqs!SchedAssumption /\ Mcfs!SchedAssumption
    /\ Mcqs!CallsAssumption /\ Mcfs!CallsAssumption

-----------------------------------------------------------------------------
Off19 == x19 = NULL
Off16 == x16 = NULL /\ x17 = NULL /\ x18 = NULL /\ Off19
Off14 == x14 = NULL /\ x15 = NULL /\ Off16
Off10 == x10 = NULL /\ x11 = NULL /\ x12 = NULL /\ x13 = NULL /\ Off14
Off9 == x9 = NULL /\ Off10
Off8 == x8 = NULL /\ Off9

HvInit ==
    \/ part = "interrupts" /\ Interrupts!Init
    \/ part = "tlb" /\ Parts!Tlb!Init /\ Off14
    \/ part = "timers" /\ Mcqs!Timers!Init /\ Off8
    \/ part = "routes" /\ Parts!Routes!Init /\ Off8
    \/ part = "MCQS" /\ Mcqs!Sched!Init /\ Off19
    \/ part = "MCFS" /\ Mcfs!Sched!Init /\ Off19
    \/ part = "strays" /\ Strays!Init /\ Off19
    \/ part = "emulation" /\ Parts!Emulation!Init /\ Off10
    \/ part = "boot" /\ Parts!Boot!Init /\ Off16
    \/ part = "life" /\ Life!Init /\ Off16
    \/ part = "frames" /\ FrameLife!Init /\ Off16
    \/ part = "calls" /\ Mcqs!Calls!Init /\ Off9
    \/ part = "strict" /\ Mcfs!Calls!Init /\ Off9

HvNext ==
    \/ part = "interrupts" /\ Interrupts!Next /\ UNCHANGED part
    \/ part = "tlb" /\ Parts!Tlb!Next /\ UNCHANGED Last14
    \/ part = "timers" /\ Mcqs!Timers!Next /\ UNCHANGED Last8
    \/ part = "routes" /\ Parts!Routes!Next /\ UNCHANGED Last8
    \/ part = "MCQS" /\ Mcqs!Sched!Next /\ UNCHANGED Last19
    \/ part = "MCFS" /\ Mcfs!Sched!Next /\ UNCHANGED Last19
    \/ part = "strays" /\ Strays!Next /\ UNCHANGED Last19
    \/ part = "emulation" /\ Parts!Emulation!Next /\ UNCHANGED Last10
    \/ part = "boot" /\ Parts!Boot!Next /\ UNCHANGED Last16
    \/ part = "life" /\ Life!Next /\ UNCHANGED Last16
    \/ part = "frames" /\ FrameLife!Next /\ UNCHANGED Last16
    \/ part = "calls" /\ Mcqs!Calls!Next /\ UNCHANGED Last9
    \/ part = "strict" /\ Mcfs!Calls!Next /\ UNCHANGED Last9

HvSpec == HvInit /\ [][HvNext]_All

-----------------------------------------------------------------------------
\* No guest runs on past an interrupt it could take, the window bits of its vmcs
\* are the cached ones, and what is injected nests by level (venter.c,
\* __vemu_inject_external_interrupt; see VInterrupts).
NoInterruptIsMissed ==
    part = "interrupts" =>
        /\ Interrupts!TypeOK /\ Interrupts!NoInterruptIsMissed
        /\ Interrupts!WindowsAgree /\ Interrupts!InjectedFits

\* A subscriber is never missing from the dispatch queue for good, and nobody
\* else is in it (vdispatch_interrupt, __venter's requeue; see VInterrupts).
SubscribersHear == part = "interrupts" => Interrupts!SubscribersHear

\* When vemu_tlb_invalidate has returned, every vcpu of the partition has executed
\* its invalidation or does so before it enters; one without a vpid does not run on
\* with what it had cached before the call; and nobody waits for its own cpu, which
\* would never acknowledge (see VTlb, and there of what is not so with a vpid).
ShootdownIsComplete ==
    part = "tlb" => /\ Parts!Tlb!TypeOK
                    /\ Parts!Tlb!ShootdownIsComplete /\ Parts!Tlb!NeverWaitsForItself

\* Each virtual timer expires at its own time, whatever the others do to the
\* delta chain they share (see VTimer).
TimersOnTime == part = "timers" => Mcqs!Timers!TypeOK /\ Mcqs!Timers!TimersOnTime

\* Both ends of a route agree with what the root granted, once no call is
\* between the two ends (vemu_set_route and vpartition_remove; see VRoutes).
RoutesAreGrants == part = "routes" => Parts!Routes!TypeOK /\ Parts!Routes!RoutesAreGrants

\* The queue __vsched_pop serves holds the ready vcpus and the paused one the
\* paused, each once, until a queue above the lowest is served; the idle vcpu never
\* sleeps through work, but for a vcpu that is pushed while in a frame (see VSched).
QueuesHoldTheReady ==
    /\ part = "MCQS" => /\ Mcqs!Sched!TypeOK
                        /\ Mcqs!Sched!QueuesHoldTheReady
                        /\ Mcqs!Sched!IdleIsKicked
    /\ part = "MCFS" => /\ Mcfs!Sched!TypeOK
                        /\ Mcfs!Sched!IdleIsKicked
    /\ part = "strays" => /\ Strays!TypeOK
                          /\ Strays!QueuesHoldTheReady
                          /\ Strays!IdleIsKicked

\* The end of the current vcpu's time slice is in sight: its timer is armed, or
\* a yield or a rearm is requested (vsched_timer.c, __venter; see VSched).
SliceEnds ==
    /\ part = "MCQS" => Mcqs!Sched!SliceEnds
    /\ part = "MCFS" => Mcfs!Sched!SliceEnds

\* An instruction that exits is emulated exactly once, on the operand and into
\* the vmcs of its own vcpu, wherever the handler is preempted (see VEmulate).
EmulatedOnce ==
    part = "emulation" =>
        Parts!Emulation!TypeOK /\ Parts!Emulation!EmulatedOnce /\ Parts!Emulation!OwnOperand

\* A partition found in the table is set up, its vcpus are entered with the
\* controls they were asked for and the cpu has, and the hypervisor is only on
\* when every cpu is virtual (vmain.c, vcreate.c; see VBoot).
EnteredAsAsked ==
    part = "boot" =>
        Parts!Boot!EnteredAsAsked /\ Parts!Boot!FoundIsSetUp /\ Parts!Boot!OnMeansVirtual

\* Each vcpu of a partition is counted once by whoever terminated it; the partition
\* is finalized when all are terminated and none can be dispatched, which then
\* stays so, under MCQS at the lowest level and under MCFS with the frames that
\* vdo_transitioning_recover leaves (vrecovery.c, vsched_dsa.c; see VLifecycle).
TerminatedForGood ==
    /\ [](/\ part = "life" => /\ Life!TypeOK /\ Life!CountedOnce
                              /\ Life!FinalizedWhenAllTerminated
          /\ part = "frames" => /\ FrameLife!TypeOK /\ FrameLife!CountedOnce
                                /\ FrameLife!FinalizedWhenAllTerminated)
    /\ [][\A v \in 1..2 : part \in {"life", "frames"} /\ x1[v] = "terminated"
                             => x1'[v] = "terminated"]_All

\* A criticality level is only written by who may write it at that moment, and
\* every handler enables preemption exactly once, on each of its paths (see
\* VCalls).
LevelsAreGranted ==
    [][/\ part = "calls" => Mcqs!Calls!PreemptionBalanced /\ Mcqs!Calls!LevelStep
       /\ part = "strict" => Mcfs!Calls!PreemptionBalanced /\ Mcfs!Calls!LevelStep]_All
=============================================================================
