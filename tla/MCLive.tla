------------------------------- MODULE MCLive -------------------------------
(* What must eventually happen in the hypervisor, for TLC: the teardown of a  *)
(* partition (VLifecycle) and a TLB shootdown (VTlb).  The initial state      *)
(* chooses one of the two, which runs alone; y1 .. y13 are the state of VTlb. *)
EXTENDS VLifecycle

CONSTANTS r1, p1, p2

VARIABLES part, y1, y2, y3, y4, y5, y6, y7, y8, y9, y10, y11, y12, y13

\* Three vcpus, two of them on one cpu.
ThreeOnTwo == <<p1, p1, p2>>

\* Two vcpus on a cpu each, one of them with a vpid.
Tlb == INSTANCE VTlb WITH
    N <- 2, Cpu <- {p1, p2}, CpuOf <- <<p1, p2>>, Tagged <- {1},
    state <- y1, pc <- y2, current <- y3, flush <- y4, invvpid <- y5, lock <- y6,
    next <- y7, map <- y8, acks <- y9, ipi <- y10, asked <- y11, returned <- y12,
    cached <- y13

tlb == <<y1, y2, y3, y4, y5, y6, y7, y8, y9, y10, y11, y12, y13>>

LiveInit == part \in {"teardown", "tlb"} /\ Init /\ Tlb!Init

LiveNext ==
    \/ part = "teardown" /\ Next /\ UNCHANGED <<part, tlb>>
    \/ part = "tlb" /\ Tlb!Next /\ UNCHANGED <<part, vars>>

\* See VLifecycle and VTlb.
LiveFairness ==
    /\ WF_vars(part = "teardown" /\ (Place \/ Push))
    /\ \A v \in Vcpus : WF_vars(part = "teardown" /\ Proceed(v))
    /\ \A x \in Actors : SF_vars(part = "teardown" /\ TeardownStep(x))
    /\ \A v \in 1..2 : /\ WF_tlb(part = "tlb" /\ (Tlb!Proceed(v) \/ Tlb!Dispatch(v)))
                       /\ SF_tlb(part = "tlb" /\ Tlb!Done(v))

LiveSpec == LiveInit /\ [][LiveNext]_<<vars, part, tlb>> /\ LiveFairness

-----------------------------------------------------------------------------
\* A shootdown comes to its end, although it sends no ipi where one is due
\* already (was_pending) and an exit drops the ipis of all (vemu_tlb_invalidate;
\* see VTlb).
ShootdownReturns ==
    \A r \in 1..2 : (part = "tlb" /\ y2[r] = "wait") ~> (part = "tlb" /\ y2[r] = "hv")
=============================================================================
