-------------------------- MODULE HypervisorProofs --------------------------
(* Proofs about the hypervisor of MCHypervisor: the properties that TLC checks *)
(* of its components, from the invariants that VInterruptsProofs, VSchedProofs *)
(* and VPartitionProofs show each component to keep.                           *)
EXTENDS MCHypervisor, TLAPS

\* The component that runs has its invariant.
HvInv ==
    /\ part = "interrupts" => Interrupts!IInv
    /\ part = "tlb" => Parts!ShootdownInv
    /\ part = "timers" => Mcqs!TimersInv
    /\ part = "routes" => Parts!RoutesInv
    /\ part = "MCQS" => Mcqs!SliceInv
    /\ part = "MCFS" => Mcfs!SliceInv
    /\ part = "emulation" => Parts!EmulationInv
    /\ part = "boot" => Parts!BootInv
    /\ part = "calls" => Mcqs!CallsInv
    /\ part = "strict" => Mcfs!CallsInv

\* It starts in an initial state of its own ...
Starts ==
    /\ part = "interrupts" => Interrupts!Init
    /\ part = "tlb" => Parts!Tlb!Init
    /\ part = "timers" => Mcqs!Timers!Init
    /\ part = "routes" => Parts!Routes!Init
    /\ part = "MCQS" => Mcqs!Sched!Init
    /\ part = "MCFS" => Mcfs!Sched!Init
    /\ part = "emulation" => Parts!Emulation!Init
    /\ part = "boot" => Parts!Boot!Init
    /\ part = "calls" => Mcqs!Calls!Init
    /\ part = "strict" => Mcfs!Calls!Init

\* ... stays the one that runs, and takes its own steps or none.
Runs ==
    /\ part' = part
    /\ part = "interrupts" => [Interrupts!Next]_(Interrupts!vars)
    /\ part = "tlb" => [Parts!Tlb!Next]_(Parts!Tlb!vars)
    /\ part = "timers" => [Mcqs!Timers!Next]_(Mcqs!Timers!vars)
    /\ part = "routes" => [Parts!Routes!Next]_(Parts!Routes!vars)
    /\ part = "MCQS" => [Mcqs!Sched!Next]_(Mcqs!Sched!vars)
    /\ part = "MCFS" => [Mcfs!Sched!Next]_(Mcfs!Sched!vars)
    /\ part = "emulation" => [Parts!Emulation!Next]_(Parts!Emulation!vars)
    /\ part = "boot" => [Parts!Boot!Next]_(Parts!Boot!vars)
    /\ part = "calls" => [Mcqs!Calls!Next]_(Mcqs!Calls!vars)
    /\ part = "strict" => [Mcfs!Calls!Next]_(Mcfs!Calls!vars)

-----------------------------------------------------------------------------
\* The initial state chooses a component and initializes it.
LEMMA HvStarts == ASSUME HvInit PROVE Starts
  BY SMTT(60) DEF HvInit, Starts

\* Each step is one of the component chosen.
LEMMA HvRuns == ASSUME [HvNext]_All PROVE Runs
  <1>1. CASE UNCHANGED All
    BY <1>1, ZenonT(60) DEF Runs, All, Last8, Last9, Last10, Last14, Last16, Last19,
         Interrupts!vars, Parts!Tlb!vars, Mcqs!Timers!vars, Parts!Routes!vars,
         Mcqs!Sched!vars, Mcfs!Sched!vars, Parts!Emulation!vars, Parts!Boot!vars,
         Mcqs!Calls!vars, Mcfs!Calls!vars
  <1>2. CASE HvNext
    <2>1. part' = part BY <1>2, ZenonT(60) DEF HvNext, Last8, Last9, Last10, Last14, Last16, Last19
    <2> QED BY SMTT(60), <1>2, <2>1 DEF HvNext, Runs
  <1> QED BY <1>1, <1>2, ZenonT(60)

\* Each component establishes its invariant.
LEMMA HvInitInv == ASSUME HvInit PROVE HvInv
  <1>1. 3 \in Nat BY SMTT(60)
  <1> QED
    BY <1>1, HvStarts, PartsAssumption, Interrupts!InitIInv, Parts!ShootdownInitInv,
       Mcqs!TimersInitInv, Parts!RoutesInitInv, Mcqs!SliceInitInv, Mcfs!SliceInitInv,
       Parts!EmulationInitInv, Parts!BootInitInv, Mcqs!CallsInitInv,
       Mcfs!CallsInitInv, ZenonT(60) DEF Starts, HvInv

\* The steps of each keep it.
LEMMA HvNextInv == ASSUME HvInv, [HvNext]_All PROVE HvInv'
  <1>1. 3 \in Nat BY SMTT(60)
  <1>2. /\ part = "interrupts" => Interrupts!IInv'
        /\ part = "tlb" => Parts!ShootdownInv'
        /\ part = "routes" => Parts!RoutesInv'
        /\ part = "emulation" => Parts!EmulationInv'
        /\ part = "boot" => Parts!BootInv'
    BY HvRuns, PartsAssumption, Interrupts!NextIInv, Parts!ShootdownNextInv,
       Parts!RoutesNextInv, Parts!EmulationNextInv, Parts!BootNextInv, ZenonT(60) DEF Runs,
       HvInv
  <1>3. /\ part = "timers" => Mcqs!TimersInv'
        /\ part = "MCQS" => Mcqs!SliceInv'
        /\ part = "calls" => Mcqs!CallsInv'
    BY <1>1, HvRuns, PartsAssumption, Mcqs!TimersNextInv, Mcqs!SliceNextInv,
       Mcqs!CallsNextInv, ZenonT(60) DEF Runs, HvInv
  <1>4. /\ part = "MCFS" => Mcfs!SliceInv'
        /\ part = "strict" => Mcfs!CallsInv'
    BY HvRuns, PartsAssumption, Mcfs!SliceNextInv, Mcfs!CallsNextInv, ZenonT(60) DEF Runs,
       HvInv
  <1> QED BY HvRuns, <1>2, <1>3, <1>4, ZenonT(60) DEF Runs, HvInv

\* So the invariants of all the components hold.
LEMMA HvInvariant == HvSpec => []HvInv
  BY HvInitInv, HvNextInv, PTL DEF HvSpec

\* What they say of the hypervisor.
LEMMA HvInvHolds ==
    ASSUME HvInv
    PROVE  /\ NoInterruptIsMissed /\ SubscribersHear /\ ShootdownIsComplete /\ TimersOnTime
           /\ RoutesAreGrants /\ SliceEnds /\ EmulatedOnce /\ EnteredAsAsked
  <1>1. 3 \in Nat OBVIOUS
  <1> QED
    BY <1>1, PartsAssumption, Interrupts!IInvHolds, Parts!ShootdownInvHolds,
       Mcqs!TimersInvIsOnTime, Parts!RoutesInvHolds, Mcqs!SliceInvHolds, Mcfs!SliceInvHolds,
       Parts!EmulationInvHolds, Parts!BootInvHolds, ZenonT(60)
    DEF HvInv, NoInterruptIsMissed, SubscribersHear, ShootdownIsComplete, TimersOnTime,
        RoutesAreGrants, SliceEnds, EmulatedOnce, EnteredAsAsked

-----------------------------------------------------------------------------
\* No guest runs on past an interrupt it could take, and what is injected nests by
\* level (venter.c, __vemu_inject_external_interrupt).
THEOREM NoInterruptIsMissedHolds == HvSpec => []NoInterruptIsMissed
  BY HvInvariant, HvInvHolds, PTL

\* A subscriber is never missing from the dispatch queue for good
\* (vdispatch_interrupt and the requeue of __venter).
THEOREM SubscribersHearHolds == HvSpec => []SubscribersHear
  BY HvInvariant, HvInvHolds, PTL

\* When vemu_tlb_invalidate has returned, every vcpu of the partition has executed its
\* invalidation or does so before it enters, and one without a vpid does not run on
\* with what it had cached before the call.
THEOREM ShootdownIsCompleteHolds == HvSpec => []ShootdownIsComplete
  BY HvInvariant, HvInvHolds, PTL

\* Each virtual timer expires at its own time, whatever the others do to the delta
\* chain they share.
THEOREM TimersOnTimeHolds == HvSpec => []TimersOnTime
  BY HvInvariant, HvInvHolds, PTL

\* Both ends of a route agree with what the root granted, once no call is between
\* the two ends (vemu_set_route and vpartition_remove).
THEOREM RoutesAreGrantsHolds == HvSpec => []RoutesAreGrants
  BY HvInvariant, HvInvHolds, PTL

\* The end of the current vcpu's time slice is in sight, with MCQS and with MCFS
\* (vsched_timer.c, __venter).
THEOREM SliceEndsHolds == HvSpec => []SliceEnds
  BY HvInvariant, HvInvHolds, PTL

\* An instruction that exits is emulated exactly once, on the operand and into the
\* vmcs of its own vcpu, wherever the handler is preempted.
THEOREM EmulatedOnceHolds == HvSpec => []EmulatedOnce
  BY HvInvariant, HvInvHolds, PTL

\* A partition found in the table is set up, and its vcpus are entered with the
\* controls they were asked for and the cpu has (vmain.c, vcreate.c).
THEOREM EnteredAsAskedHolds == HvSpec => []EnteredAsAsked
  BY HvInvariant, HvInvHolds, PTL

\* A criticality level is only written by who may write it at that moment, and
\* every handler enables preemption exactly once, on each of its paths, with and
\* without CONFIG_TWANVISOR_VSCHED_STRICT (vcalls.c).
THEOREM LevelsAreGrantedHolds == HvSpec => LevelsAreGranted
  <1>1. ASSUME HvInv, [HvNext]_All
        PROVE  /\ part = "calls" => Mcqs!Calls!PreemptionBalanced /\ Mcqs!Calls!LevelStep
               /\ part = "strict" => Mcfs!Calls!PreemptionBalanced /\ Mcfs!Calls!LevelStep
    BY <1>1, HvRuns, PartsAssumption, Mcqs!CallsInvHolds, Mcfs!CallsInvHolds,
       Mcqs!CallsNextInv, Mcfs!CallsNextInv, ZenonT(60) DEF HvInv, Runs
  <1> QED BY <1>1, HvInvariant, PTL DEF HvSpec, LevelsAreGranted
=============================================================================
