-------------------------- MODULE VPartitionProofs --------------------------
(* Proofs about partitions and their vcpus, for every value of the constants:  *)
(* the TLB shootdown between their vcpus (VTlb), the boot and the creation of  *)
(* partitions (VBoot), the instructions emulated for them (VEmulate) and the   *)
(* routes between them (VRoutes).  Each component has an invariant that its    *)
(* steps keep.  They share the names that the WITH of an instance does not     *)
(* change.                                                                     *)
EXTENDS Integers, Sequences, WellFoundedInduction, TLAPS

\* A set of naturals that is not empty has a least element.
LEMMA LeastOf ==
    ASSUME NEW S, S \subseteq Nat, S # {}
    PROVE  \E m \in S : \A y \in S : m <= y
  <1> DEFINE Below == {p \in Nat \X Nat : p[1] < p[2]}
  <1>1. \A x, y \in Nat : y < x => <<y, x>> \in Below BY Zenon
  <1>2. IsWellFoundedOn(Below, Nat) BY NatLessThanWellFounded, Zenon DEF OpToRel
  <1> HIDE DEF Below
  <1>3. PICK m \in S : \A y \in S : ~(<<y, m>> \in Below) BY <1>2, WFMin, Zenon
  <1>4. \A y \in S : ~(y < m) BY <1>1, <1>3, Zenon
  <1>5. \A y \in S : y \in Nat BY Zenon
  <1> QED BY <1>4, <1>5

-----------------------------------------------------------------------------
(* The TLB shootdown between the vcpus of a partition.                        *)

CONSTANTS N, Cpu, CpuOf, Tagged, NULL
VARIABLES state, pc, current, flush, invvpid, lock, next, map, acks, ipi, asked, cached, returned
Tlb == INSTANCE VTlb

\* A partition has vcpus, each placed on one of the cpus.
TlbAssumption ==
    N \in Nat \ {0} /\ CpuOf \in [Tlb!Vcpu -> Cpu] /\ NULL \notin Tlb!Vcpu


\* A vcpu whose code runs is the current one of its cpu, and it is in VRUNNING
\* from __venter's critical section to that of vexit_dispatcher.
VcpuPhases ==
    \A v \in Tlb!Vcpu :
        /\ pc[v] \notin {"hv", "wait"} => Tlb!OnCpu(v)
        /\ pc[v] \in {"entering", "guest", "exited"} <=> state[v] = "RUNNING"

\* Where a requester is in its two passes.
PassInv ==
    \A r \in Tlb!Vcpu :
        /\ pc[r] = "pass" => next[r] \in Tlb!Vcpu
        /\ pc[r] \notin {"pass", "wait"} => next[r] = 1
        /\ pc[r] \in {"pass", "wait"} => ~returned[r]
        /\ CpuOf[r] \notin map[r]

\* A request that a vcpu has not answered has left its mark, or the entry that
\* is under way answers it.
MarkInv ==
    \A r, v \in Tlb!Vcpu : r \in asked[v] =>
        flush[v] \/ (pc[v] = "entering" /\ (v \in Tagged => invvpid[v]))

\* A requester is queued at the cpu, and waits for the cpu, of each vcpu that
\* was in the guest, or about to enter it without invalidating.
WaitsFor(r, v) ==
    /\ pc[r] \in {"pass", "wait"}
    /\ r \in acks[CpuOf[v]]
    /\ CpuOf[v] \in map[r]
AckInv ==
    \A r, v \in Tlb!Vcpu :
        /\ r \in asked[v]
        /\ pc[v] = "guest" \/ (pc[v] = "entering" /\ v \in Tagged /\ ~invvpid[v])
        => WaitsFor(r, v)

\* A vcpu without a vpid has cached nothing from before its last invalidation.
CachedInv == \A v \in Tlb!Vcpu \ Tagged : cached[v] = asked[v]

ShootdownInv == Tlb!TypeOK /\ VcpuPhases /\ PassInv /\ MarkInv /\ AckInv /\ CachedInv

-----------------------------------------------------------------------------
\* The initial states of VTlb, where all vcpus are ready, satisfy the invariant.
LEMMA ShootdownInitInv == ASSUME TlbAssumption, Tlb!Init PROVE ShootdownInv
  <1>1. Tlb!TypeOK /\ PassInv
    BY DEF TlbAssumption, Tlb!Init, Tlb!TypeOK, PassInv, Tlb!Vcpu
  <1>2. VcpuPhases /\ MarkInv /\ AckInv /\ CachedInv
    BY DEF TlbAssumption, Tlb!Init, VcpuPhases, MarkInv, AckInv, CachedInv
  <1> QED BY <1>1, <1>2 DEF ShootdownInv

\* Each step of VTlb keeps the types (vemu_tlb_invalidate, __venter,
\* vexit_dispatcher, the scheduler).
LEMMA ShootdownNextTypes ==
    ASSUME TlbAssumption, ShootdownInv, [Tlb!Next]_(Tlb!vars)
    PROVE  Tlb!TypeOK'
  <1> USE DEF ShootdownInv, Tlb!TypeOK
  <1>1. CASE UNCHANGED (Tlb!vars) BY <1>1 DEF Tlb!vars
  <1>2. ASSUME NEW v \in Tlb!Vcpu, Tlb!Dispatch(v) PROVE Tlb!TypeOK'
    BY <1>2 DEF TlbAssumption, Tlb!Dispatch
  <1>3. ASSUME NEW v \in Tlb!Vcpu, Tlb!Preempt(v) PROVE Tlb!TypeOK'
    BY <1>3 DEF TlbAssumption, Tlb!Preempt
  <1>4. ASSUME NEW v \in Tlb!Vcpu, Tlb!Enter(v) PROVE Tlb!TypeOK'
    BY <1>4 DEF Tlb!Enter, Tlb!Goto
  <1>5. ASSUME NEW v \in Tlb!Vcpu, Tlb!Resume(v) PROVE Tlb!TypeOK'
    BY <1>5 DEF Tlb!Resume, Tlb!Goto
  <1>6. ASSUME NEW v \in Tlb!Vcpu, Tlb!Exit(v) PROVE Tlb!TypeOK'
    BY <1>6 DEF Tlb!Exit, Tlb!Goto
  <1>7. ASSUME NEW v \in Tlb!Vcpu, Tlb!Leave(v) PROVE Tlb!TypeOK'
    BY <1>7 DEF Tlb!Leave, Tlb!Goto
  <1>8. ASSUME NEW v \in Tlb!Vcpu, Tlb!Ack(v) PROVE Tlb!TypeOK'
    BY ZenonT(60), <1>8 DEF TlbAssumption, Tlb!Ack, Tlb!Goto
  <1>9. ASSUME NEW r \in Tlb!Vcpu, Tlb!Request(r) PROVE Tlb!TypeOK'
    BY <1>9 DEF Tlb!Request, Tlb!Goto
  <1>10. ASSUME NEW r \in Tlb!Vcpu, Tlb!Mark(r) PROVE Tlb!TypeOK'
    <2>1. next[r] \in 1..N /\ CpuOf[next[r]] \in Cpu
      BY <1>10 DEF TlbAssumption, Tlb!Mark, PassInv, Tlb!Vcpu
    <2>2. next' \in [Tlb!Vcpu -> 1..(N + 1)] BY <1>10, <2>1 DEF TlbAssumption, Tlb!Mark
    <2>3. acks' \in [Cpu -> SUBSET Tlb!Vcpu] BY <1>10, <2>1 DEF Tlb!Mark, Tlb!QueueAck
    <2>4. map' \in [Tlb!Vcpu -> SUBSET Cpu] BY <1>10, <2>1 DEF Tlb!Mark
    <2>5. /\ asked' \in [Tlb!Vcpu -> SUBSET Tlb!Vcpu]
          /\ cached' \in [Tlb!Vcpu -> SUBSET Tlb!Vcpu]
      BY <1>10, <2>1 DEF Tlb!Mark, Tlb!Vcpu
    <2>6. ipi' \in [Cpu -> BOOLEAN] /\ flush' \in [Tlb!Vcpu -> BOOLEAN]
      BY <1>10, <2>1 DEF Tlb!Mark, Tlb!Vcpu
    <2>7. pc' \in [Tlb!Vcpu -> {"hv", "entering", "guest", "exited", "acking", "pass", "wait"}]
          /\ lock' \in Tlb!Vcpu \cup {NULL}
      BY SMTT(60), <1>10 DEF Tlb!Mark
    <2> QED BY <1>10, <2>2, <2>3, <2>4, <2>5, <2>6, <2>7 DEF Tlb!Mark
  <1>11. ASSUME NEW r \in Tlb!Vcpu, Tlb!Done(r) PROVE Tlb!TypeOK'
    BY <1>11 DEF TlbAssumption, Tlb!Done, Tlb!Goto
  <1>12. ASSUME NEW c \in Cpu, Tlb!HostIpi(c) PROVE Tlb!TypeOK' BY <1>12 DEF Tlb!HostIpi
  <1> QED BY <1>1, <1>2, <1>3, <1>4, <1>5, <1>6, <1>7, <1>8, <1>9, <1>10, <1>11, <1>12
          DEF Tlb!Next

\* A vcpu whose code runs, and one in VRUNNING, are the current one of their cpu;
\* two of one cpu are the same.
LEMMA OneRuns ==
    ASSUME VcpuPhases, NEW v \in Tlb!Vcpu, NEW w \in Tlb!Vcpu, CpuOf[v] = CpuOf[w],
           pc[v] \notin {"hv", "wait"}, pc[w] \notin {"hv", "wait"}
    PROVE  v = w
  BY DEF VcpuPhases, Tlb!OnCpu

\* Each step keeps the phases: __venter and vexit_dispatcher set the state, the
\* scheduler changes the current vcpu only in a handler.
LEMMA ShootdownNextPhase ==
    ASSUME TlbAssumption, ShootdownInv, [Tlb!Next]_(Tlb!vars)
    PROVE  VcpuPhases'
  <1> USE DEF ShootdownInv, Tlb!TypeOK, VcpuPhases, Tlb!OnCpu
  <1>1. CASE UNCHANGED (Tlb!vars) BY <1>1 DEF Tlb!vars
  <1>2. ASSUME NEW v \in Tlb!Vcpu, Tlb!Dispatch(v) PROVE VcpuPhases'
    BY <1>2 DEF TlbAssumption, Tlb!Dispatch
  <1>3. ASSUME NEW v \in Tlb!Vcpu, Tlb!Preempt(v) PROVE VcpuPhases'
    BY <1>3 DEF TlbAssumption, Tlb!Preempt
  <1>4. ASSUME NEW v \in Tlb!Vcpu, Tlb!Enter(v) PROVE VcpuPhases'
    BY <1>4 DEF Tlb!Enter, Tlb!Goto
  <1>5. ASSUME NEW v \in Tlb!Vcpu, Tlb!Resume(v) PROVE VcpuPhases'
    BY <1>5 DEF Tlb!Resume, Tlb!Goto
  <1>6. ASSUME NEW v \in Tlb!Vcpu, Tlb!Exit(v) PROVE VcpuPhases'
    BY <1>6 DEF Tlb!Exit, Tlb!Goto
  <1>7. ASSUME NEW v \in Tlb!Vcpu, Tlb!Leave(v) PROVE VcpuPhases'
    BY <1>7 DEF Tlb!Leave, Tlb!Goto
  <1>8. ASSUME NEW v \in Tlb!Vcpu, Tlb!Ack(v) PROVE VcpuPhases'
    BY <1>8 DEF Tlb!Ack, Tlb!Goto
  <1>9. ASSUME NEW r \in Tlb!Vcpu, Tlb!Request(r) PROVE VcpuPhases'
    BY <1>9 DEF Tlb!Request, Tlb!Goto
  <1>10. ASSUME NEW r \in Tlb!Vcpu, Tlb!Mark(r) PROVE VcpuPhases' BY <1>10 DEF Tlb!Mark
  <1>11. ASSUME NEW r \in Tlb!Vcpu, Tlb!Done(r) PROVE VcpuPhases'
    BY <1>11 DEF Tlb!Done, Tlb!Goto
  <1>12. ASSUME NEW c \in Cpu, Tlb!HostIpi(c) PROVE VcpuPhases' BY <1>12 DEF Tlb!HostIpi
  <1> QED BY <1>1, <1>2, <1>3, <1>4, <1>5, <1>6, <1>7, <1>8, <1>9, <1>10, <1>11, <1>12
          DEF Tlb!Next

\* What Mark does to the vcpu it comes to: it is one of the partition's, and one
\* in VRUNNING is not on the requester's own cpu.
LEMMA Marked ==
    ASSUME TlbAssumption, ShootdownInv, NEW r \in Tlb!Vcpu, Tlb!Mark(r)
    PROVE  /\ next[r] \in Tlb!Vcpu /\ CpuOf[next[r]] \in Cpu
           /\ state[next[r]] = "RUNNING" => CpuOf[next[r]] # CpuOf[r]
  <1>1. next[r] \in Tlb!Vcpu /\ CpuOf[next[r]] \in Cpu /\ pc[r] = "pass"
    BY DEF TlbAssumption, Tlb!Mark, ShootdownInv, PassInv
  <1>2. ASSUME state[next[r]] = "RUNNING", CpuOf[next[r]] = CpuOf[r] PROVE FALSE
    <2>1. pc[next[r]] \in {"entering", "guest", "exited"}
      BY <1>1, <1>2 DEF ShootdownInv, VcpuPhases
    <2> QED BY <1>1, <1>2, <2>1, OneRuns DEF ShootdownInv
  <1> QED BY <1>1, <1>2

\* Each step keeps the passes: Request starts one, Mark goes through the vcpus,
\* Done ends it.
LEMMA ShootdownNextPass ==
    ASSUME TlbAssumption, ShootdownInv, [Tlb!Next]_(Tlb!vars)
    PROVE  PassInv'
  <1> USE DEF ShootdownInv, Tlb!TypeOK, PassInv
  <1>1. CASE UNCHANGED (Tlb!vars) BY <1>1 DEF Tlb!vars
  <1>2. ASSUME NEW v \in Tlb!Vcpu, Tlb!Dispatch(v) PROVE PassInv'
    BY <1>2 DEF Tlb!Dispatch
  <1>3. ASSUME NEW v \in Tlb!Vcpu, Tlb!Preempt(v) PROVE PassInv' BY <1>3 DEF Tlb!Preempt
  <1>4. ASSUME NEW v \in Tlb!Vcpu, Tlb!Enter(v) PROVE PassInv'
    BY <1>4 DEF Tlb!Enter, Tlb!Goto
  <1>5. ASSUME NEW v \in Tlb!Vcpu, Tlb!Resume(v) PROVE PassInv'
    BY <1>5 DEF Tlb!Resume, Tlb!Goto
  <1>6. ASSUME NEW v \in Tlb!Vcpu, Tlb!Exit(v) PROVE PassInv'
    BY <1>6 DEF Tlb!Exit, Tlb!Goto
  <1>7. ASSUME NEW v \in Tlb!Vcpu, Tlb!Leave(v) PROVE PassInv'
    BY <1>7 DEF Tlb!Leave, Tlb!Goto
  <1>8. ASSUME NEW v \in Tlb!Vcpu, Tlb!Ack(v) PROVE PassInv'
    BY <1>8 DEF Tlb!Ack, Tlb!Goto
  <1>9. ASSUME NEW r \in Tlb!Vcpu, Tlb!Request(r) PROVE PassInv'
    <2>1. 1 \in Tlb!Vcpu BY DEF TlbAssumption, Tlb!Vcpu
    <2>2. pc[r] = "hv" /\ next[r] = 1 BY <1>9 DEF Tlb!Request, Tlb!Goto
    <2> QED BY <1>9, <2>1, <2>2 DEF Tlb!Request, Tlb!Goto
  <1>10. ASSUME NEW r \in Tlb!Vcpu, Tlb!Mark(r) PROVE PassInv'
    <2>1. next[r] \in Tlb!Vcpu /\ (state[next[r]] = "RUNNING" => CpuOf[next[r]] # CpuOf[r])
      BY <1>10, Marked
    <2>2. \A q \in Tlb!Vcpu : CpuOf[q] \notin map'[q] BY <1>10, <2>1 DEF Tlb!Mark
    <2>3. pc'[r] \in {"pass", "wait"} /\ (pc'[r] = "pass" => next'[r] \in Tlb!Vcpu)
      BY <1>10, <2>1 DEF TlbAssumption, Tlb!Mark, Tlb!Vcpu
    <2>4. \A q \in Tlb!Vcpu \ {r} : pc'[q] = pc[q] /\ next'[q] = next[q]
      BY <1>10 DEF Tlb!Mark
    <2>5. returned' = returned /\ ~returned[r] BY <1>10 DEF Tlb!Mark
    <2> QED BY <2>2, <2>3, <2>4, <2>5
  <1>11. ASSUME NEW r \in Tlb!Vcpu, Tlb!Done(r) PROVE PassInv'
    BY <1>11 DEF Tlb!Done, Tlb!Goto
  <1>12. ASSUME NEW c \in Cpu, Tlb!HostIpi(c) PROVE PassInv' BY SMTT(60), <1>12 DEF Tlb!HostIpi
  <1> QED BY <1>1, <1>2, <1>3, <1>4, <1>5, <1>6, <1>7, <1>8, <1>9, <1>10, <1>11, <1>12
          DEF Tlb!Next

\* Each step keeps the marks: only an entry takes one away, and it invalidates.
LEMMA ShootdownNextMark ==
    ASSUME TlbAssumption, ShootdownInv, [Tlb!Next]_(Tlb!vars)
    PROVE  MarkInv'
  <1> USE DEF ShootdownInv, Tlb!TypeOK, MarkInv
  <1>1. CASE UNCHANGED (Tlb!vars) BY <1>1 DEF Tlb!vars
  <1>2. ASSUME NEW v \in Tlb!Vcpu, Tlb!Dispatch(v) PROVE MarkInv'
    BY <1>2 DEF Tlb!Dispatch
  <1>3. ASSUME NEW v \in Tlb!Vcpu, Tlb!Preempt(v) PROVE MarkInv' BY <1>3 DEF Tlb!Preempt
  <1>4. ASSUME NEW v \in Tlb!Vcpu, Tlb!Enter(v) PROVE MarkInv'
    BY <1>4 DEF Tlb!Enter, Tlb!Goto
  <1>5. ASSUME NEW v \in Tlb!Vcpu, Tlb!Resume(v) PROVE MarkInv'
    BY <1>5 DEF Tlb!Resume, Tlb!Goto
  <1>6. ASSUME NEW v \in Tlb!Vcpu, Tlb!Exit(v) PROVE MarkInv'
    BY <1>6 DEF Tlb!Exit, Tlb!Goto
  <1>7. ASSUME NEW v \in Tlb!Vcpu, Tlb!Leave(v) PROVE MarkInv'
    BY <1>7 DEF Tlb!Leave, Tlb!Goto
  <1>8. ASSUME NEW v \in Tlb!Vcpu, Tlb!Ack(v) PROVE MarkInv'
    BY <1>8 DEF Tlb!Ack, Tlb!Goto
  <1>9. ASSUME NEW r \in Tlb!Vcpu, Tlb!Request(r) PROVE MarkInv'
    BY <1>9 DEF Tlb!Request, Tlb!Goto
  <1>10. ASSUME NEW r \in Tlb!Vcpu, Tlb!Mark(r) PROVE MarkInv'
    <2>1. next[r] \in Tlb!Vcpu BY <1>10, Marked
    <2>2. \A v \in Tlb!Vcpu : pc[v] = "entering" => pc'[v] = "entering"
      BY <1>10 DEF Tlb!Mark
    <2> QED BY <1>10, <2>1, <2>2 DEF Tlb!Mark
  <1>11. ASSUME NEW r \in Tlb!Vcpu, Tlb!Done(r) PROVE MarkInv'
    BY <1>11 DEF Tlb!Done, Tlb!Goto
  <1>12. ASSUME NEW c \in Cpu, Tlb!HostIpi(c) PROVE MarkInv' BY SMTT(60), <1>12 DEF Tlb!HostIpi
  <1> QED BY <1>1, <1>2, <1>3, <1>4, <1>5, <1>6, <1>7, <1>8, <1>9, <1>10, <1>11, <1>12
          DEF Tlb!Next

\* Each step keeps the requesters queued: an exit empties the queue of its own
\* cpu, whose vcpu has then left the guest; a requester goes on only when it is
\* in no queue any more.
LEMMA ShootdownNextAck ==
    ASSUME TlbAssumption, ShootdownInv, [Tlb!Next]_(Tlb!vars)
    PROVE  AckInv'
  <1> USE DEF ShootdownInv, Tlb!TypeOK, AckInv, WaitsFor
  <1>1. CASE UNCHANGED (Tlb!vars) BY <1>1 DEF Tlb!vars
  <1>2. ASSUME NEW v \in Tlb!Vcpu, Tlb!Dispatch(v) PROVE AckInv'
    BY <1>2 DEF Tlb!Dispatch
  <1>3. ASSUME NEW v \in Tlb!Vcpu, Tlb!Preempt(v) PROVE AckInv' BY <1>3 DEF Tlb!Preempt
  <1>4. ASSUME NEW v \in Tlb!Vcpu, Tlb!Enter(v) PROVE AckInv'
    BY <1>4 DEF Tlb!Enter, Tlb!Goto, MarkInv
  <1>5. ASSUME NEW v \in Tlb!Vcpu, Tlb!Resume(v) PROVE AckInv'
    BY <1>5 DEF Tlb!Resume, Tlb!Goto
  <1>6. ASSUME NEW v \in Tlb!Vcpu, Tlb!Exit(v) PROVE AckInv'
    BY <1>6 DEF Tlb!Exit, Tlb!Goto
  <1>7. ASSUME NEW v \in Tlb!Vcpu, Tlb!Leave(v) PROVE AckInv'
    BY <1>7 DEF Tlb!Leave, Tlb!Goto
  <1>8. ASSUME NEW u \in Tlb!Vcpu, Tlb!Ack(u) PROVE AckInv'
    <2> SUFFICES ASSUME NEW r \in Tlb!Vcpu, NEW v \in Tlb!Vcpu, r \in asked'[v],
                        pc'[v] = "guest"
                        \/ (pc'[v] = "entering" /\ v \in Tagged /\ ~invvpid'[v])
                 PROVE  WaitsFor(r, v)'
      OBVIOUS
    <2>1. pc[u] = "acking" /\ pc' = [pc EXCEPT ![u] = "hv"]
          /\ UNCHANGED <<asked, invvpid, map>>
          /\ acks' = [acks EXCEPT ![CpuOf[u]] = {}]
      BY <1>8 DEF Tlb!Ack, Tlb!Goto
    <2>2. v # u /\ pc[v] = pc'[v] /\ WaitsFor(r, v) BY <2>1
    <2>3. CpuOf[v] # CpuOf[u] BY <2>1, <2>2, OneRuns
    <2>4. acks'[CpuOf[v]] = acks[CpuOf[v]] BY <2>1, <2>3 DEF TlbAssumption
    <2> QED BY <2>1, <2>2, <2>4
  <1>9. ASSUME NEW q \in Tlb!Vcpu, Tlb!Request(q) PROVE AckInv'
    BY <1>9 DEF Tlb!Request, Tlb!Goto
  <1>10. ASSUME NEW q \in Tlb!Vcpu, Tlb!Mark(q) PROVE AckInv'
    <2> SUFFICES ASSUME NEW r \in Tlb!Vcpu, NEW v \in Tlb!Vcpu, r \in asked'[v],
                        pc'[v] = "guest"
                        \/ (pc'[v] = "entering" /\ v \in Tagged /\ ~invvpid'[v])
                 PROVE  WaitsFor(r, v)'
      OBVIOUS
    <2>1. /\ next[q] \in Tlb!Vcpu /\ CpuOf[next[q]] \in Cpu
          /\ state[next[q]] = "RUNNING" => CpuOf[next[q]] # CpuOf[q]
      BY <1>10, Marked
    <2>2. pc[q] = "pass" /\ pc'[q] \in {"pass", "wait"} BY <1>10 DEF Tlb!Mark
    <2>3. pc'[v] = pc[v] /\ invvpid' = invvpid BY <1>10, <2>2 DEF Tlb!Mark
    <2>4. CASE r \in asked[v]
      <3>1. WaitsFor(r, v) BY <2>3, <2>4
      <3>2. acks[CpuOf[v]] \subseteq acks'[CpuOf[v]] /\ map[r] \subseteq map'[r]
        BY <1>10, <2>1 DEF TlbAssumption, Tlb!Mark, Tlb!QueueAck
      <3>3. pc'[r] \in {"pass", "wait"} BY <1>10, <2>2, <3>1 DEF Tlb!Mark
      <3> QED BY <3>1, <3>2, <3>3
    <2>5. CASE r \notin asked[v]
      <3>1. r = q /\ v = next[q] BY <1>10, <2>1, <2>5 DEF Tlb!Mark
      <3>2. state[v] = "RUNNING" BY <2>3 DEF VcpuPhases
      <3>3. r \in acks'[CpuOf[v]] /\ CpuOf[v] \in map'[r]
        BY <1>10, <2>1, <3>1, <3>2 DEF Tlb!Mark, Tlb!QueueAck
      <3> QED BY <2>2, <3>1, <3>3
    <2> QED BY <2>4, <2>5
  <1>11. ASSUME NEW q \in Tlb!Vcpu, Tlb!Done(q) PROVE AckInv'
    BY <1>11 DEF Tlb!Done, Tlb!Goto, Tlb!Acked
  <1>12. ASSUME NEW c \in Cpu, Tlb!HostIpi(c) PROVE AckInv' BY <1>12 DEF Tlb!HostIpi
  <1> QED BY <1>1, <1>2, <1>3, <1>4, <1>5, <1>6, <1>7, <1>8, <1>9, <1>10, <1>11, <1>12,
          ZenonT(60) DEF Tlb!Next

\* Each step keeps what a vcpu without a vpid has cached: Mark adds to both
\* histories, and Resume, the entry itself, empties both.
LEMMA ShootdownNextCached ==
    ASSUME TlbAssumption, ShootdownInv, [Tlb!Next]_(Tlb!vars)
    PROVE  CachedInv'
  <1> USE DEF ShootdownInv, Tlb!TypeOK, CachedInv
  <1>1. CASE UNCHANGED <<asked, cached>> BY <1>1
  <1>2. ASSUME NEW v \in Tlb!Vcpu, Tlb!Resume(v) PROVE CachedInv'
    BY <1>2 DEF Tlb!Resume
  <1>3. ASSUME NEW r \in Tlb!Vcpu, Tlb!Mark(r) PROVE CachedInv'
    <2>1. next[r] \in Tlb!Vcpu BY <1>3, Marked
    <2>2. \A v \in Tlb!Vcpu \ {next[r]} : asked'[v] = asked[v] /\ cached'[v] = cached[v]
      BY <1>3, <2>1 DEF Tlb!Mark
    <2>3. asked'[next[r]] = asked[next[r]] \cup {r} /\ cached'[next[r]] = cached[next[r]] \cup {r}
      BY <1>3, <2>1 DEF Tlb!Mark
    <2> SUFFICES ASSUME NEW v \in Tlb!Vcpu \ Tagged PROVE cached'[v] = asked'[v]
      OBVIOUS
    <2>4. CASE v = next[r]
      <3>1. cached[v] = asked[v] OBVIOUS
      <3> HIDE DEF CachedInv, ShootdownInv, Tlb!TypeOK
      <3> QED BY <2>3, <2>4, <3>1, Zenon
    <2>5. CASE v # next[r] BY <2>2, <2>5
    <2> QED BY <2>4, <2>5
  <1>4. CASE UNCHANGED (Tlb!vars) BY <1>1, <1>4 DEF Tlb!vars
  <1>5. ASSUME NEW v \in Tlb!Vcpu,
               \/ Tlb!Dispatch(v) \/ Tlb!Preempt(v) \/ Tlb!Enter(v) \/ Tlb!Exit(v)
               \/ Tlb!Leave(v) \/ Tlb!Ack(v) \/ Tlb!Request(v) \/ Tlb!Done(v)
        PROVE  UNCHANGED <<asked, cached>>
    BY <1>5, Zenon DEF Tlb!Dispatch, Tlb!Preempt, Tlb!Enter, Tlb!Exit, Tlb!Leave,
         Tlb!Ack, Tlb!Request, Tlb!Done
  <1>6. ASSUME NEW c \in Cpu, Tlb!HostIpi(c) PROVE UNCHANGED <<asked, cached>>
    BY <1>6 DEF Tlb!HostIpi
  <1> QED BY <1>1, <1>2, <1>3, <1>4, <1>5, <1>6, Zenon DEF Tlb!Next

\* Each step of VTlb keeps the whole invariant.
LEMMA ShootdownNextInv ==
    ASSUME TlbAssumption, ShootdownInv, [Tlb!Next]_(Tlb!vars)
    PROVE  ShootdownInv'
  <1>1. Tlb!TypeOK' BY ShootdownNextTypes, Zenon
  <1>2. VcpuPhases' BY ShootdownNextPhase, Zenon
  <1>3. PassInv' BY ShootdownNextPass, Zenon
  <1>4. MarkInv' BY ShootdownNextMark, Zenon
  <1>5. AckInv' BY ShootdownNextAck, Zenon
  <1>6. CachedInv' BY ShootdownNextCached, Zenon
  <1> QED BY <1>1, <1>2, <1>3, <1>4, <1>5, <1>6, Zenon DEF ShootdownInv

\* What the invariant says: whoever has not executed its invalidation since a call
\* that has returned is outside the guest and will, one without a vpid runs with
\* nothing cached before the call, and nobody waits for its own cpu.
LEMMA ShootdownInvHolds ==
    ASSUME ShootdownInv
    PROVE  Tlb!TypeOK /\ Tlb!ShootdownIsComplete /\ Tlb!NeverWaitsForItself
  <1>1. ASSUME NEW r \in Tlb!Vcpu, NEW v \in Tlb!Vcpu, returned[r], r \in asked[v]
        PROVE  /\ pc[v] # "guest"
               /\ flush[v] \/ (pc[v] = "entering" /\ (v \in Tagged => invvpid[v]))
    BY <1>1 DEF ShootdownInv, PassInv, MarkInv, AckInv, WaitsFor
  <1>3. Tlb!ShootdownIsComplete
    BY <1>1 DEF ShootdownInv, CachedInv, Tlb!ShootdownIsComplete
  <1>2. Tlb!NeverWaitsForItself BY DEF ShootdownInv, PassInv, Tlb!NeverWaitsForItself
  <1> QED BY <1>2, <1>3, Zenon DEF ShootdownInv

\* For any vcpus on any cpus, with and without vpids: every unanswered request has
\* left its mark, and its requester waits for each vcpu that has not answered; so
\* vemu_tlb_invalidate returns only when every vcpu of the partition has executed its
\* invalidation or does so before it enters, no vcpu without a vpid runs on with what
\* it had cached before the call, and no requester waits for an acknowledgement of
\* its own cpu, where vipi_check_ack would fail for ever.
THEOREM ShootdownCorrect ==
    ASSUME TlbAssumption
    PROVE  Tlb!Spec => [](Tlb!ShootdownIsComplete /\ Tlb!NeverWaitsForItself)
  <1>1. Tlb!Init => ShootdownInv BY ShootdownInitInv, Zenon
  <1>2. ShootdownInv /\ [Tlb!Next]_(Tlb!vars) => ShootdownInv' BY ShootdownNextInv, Zenon
  <1>3. ShootdownInv => Tlb!ShootdownIsComplete /\ Tlb!NeverWaitsForItself
    BY ShootdownInvHolds, Zenon
  <1> QED BY <1>1, <1>2, <1>3, PTL DEF Tlb!Spec

-----------------------------------------------------------------------------
(* The boot and the creation of partitions.                                   *)

CONSTANTS Cpus, Bsp, CpuModel, Vids, Config
VARIABLES caps, boot, core, lvt, support, onCpu, on, vids, table, creating, vid, controls,
          root
Boot == INSTANCE VBoot WITH call <- creating, current <- onCpu, vmcs <- controls

\* The bsp is a cpu; no request is one of the table's other values; a vcpu asks
\* for the two optional features there are and boots ready or paused.
BootAssumption ==
    /\ Cpus \in Nat /\ Bsp \in Boot!Processor /\ Vids \in Nat
    /\ NULL \notin Boot!Partition /\ "root" \notin Boot!Partition /\ NULL \notin Boot!Vid
    /\ \A p \in Boot!Partition : \A i \in Boot!Vcpus(p) :
         /\ Boot!Wanted(p, i).features \subseteq {"vpid", "ept_ve"}
         /\ Boot!Wanted(p, i).boot \in {"READY", "PAUSED"}

\* What a cpu has once it is past vper_cpu_data_init, and once it is virtual; what
\* it supports is found out once.
CpuFound(c) ==
    /\ support[c] = {} \/ support[c] = Boot!FlagsInit(c)
    /\ core[c] \in {"vmxon", "launch", "virtual"} =>
         "lint1" \notin lvt[c] /\ support[c] = Boot!FlagsInit(c)
    /\ core[c] = "virtual" =>
         /\ onCpu[c] = "root"
         /\ "wbinvd_exiting" \in root[c] <=> "wbinvd_exiting" \in Boot!EmulationFeatures(c)
\* The cpus that the loop of the bsp has passed have returned.
MachineInv ==
    /\ core = [c \in Boot!Processor |-> core[c]] /\ lvt = [c \in Boot!Processor |-> lvt[c]]
    /\ support = [c \in Boot!Processor |-> support[c]]
    /\ onCpu = [c \in Boot!Processor |-> onCpu[c]]
    /\ root = [c \in Boot!Processor |-> root[c]]
    /\ next \in Nat /\ (on => boot = "done") /\ (boot \in {"vkernel", "root"} => next = 0)
    /\ \A c \in Boot!Processor : CpuFound(c)
    /\ boot \in {"loop", "wait"} =>
         \A c \in Boot!Processor : c < next /\ c # Bsp => Boot!Returned(c)
    /\ boot \in {"bsp", "done"} => \A c \in Boot!Processor : c # Bsp => Boot!Returned(c)
    /\ boot = "done" => Boot!Returned(Bsp)
\* Once a cpu has found out what it supports, that does not change.
SupportStays ==
    \A c \in Boot!Processor : support[c] # {} => support'[c] = support[c]

\* The machine at power on.
LEMMA MachineInit ==
    ASSUME Boot!Init
    PROVE  MachineInv
  <1>1. /\ boot = "vkernel" /\ next = 0 /\ core = [c \in Boot!Processor |-> "native"]
        /\ support = [c \in Boot!Processor |-> {}] /\ onCpu = [c \in Boot!Processor |-> NULL]
        /\ on = FALSE /\ root = [c \in Boot!Processor |-> {}]
    BY Zenon DEF Boot!Init
  <1>2. lvt = [c \in Boot!Processor |-> lvt[c]] BY Zenon DEF Boot!Init
  <1>3. \A c \in Boot!Processor : core[c] = "native" /\ support[c] = {} BY <1>1, Zenon
  <1>4. \A c \in Boot!Processor : CpuFound(c) BY <1>3, Zenon DEF CpuFound
  <1>5. /\ core = [c \in Boot!Processor |-> core[c]]
        /\ support = [c \in Boot!Processor |-> support[c]]
        /\ onCpu = [c \in Boot!Processor |-> onCpu[c]]
        /\ root = [c \in Boot!Processor |-> root[c]]
    BY <1>1, Zenon
  <1>6. next \in Nat /\ boot \notin {"loop", "wait", "bsp", "done"} BY <1>1, Zenon
  <1> QED BY <1>1, <1>2, <1>4, <1>5, <1>6, Zenon DEF MachineInv

\* A cpu that a step does not touch.
LEMMA CpuKept ==
    ASSUME NEW c \in Boot!Processor, CpuFound(c), caps' = caps, core'[c] = core[c],
           lvt'[c] = lvt[c], support'[c] = support[c], onCpu'[c] = onCpu[c], root'[c] = root[c]
    PROVE  CpuFound(c)'
  <1>1. Boot!FlagsInit(c)' = Boot!FlagsInit(c) BY Zenon DEF Boot!FlagsInit
  <1>2. Boot!EmulationFeatures(c)' = Boot!EmulationFeatures(c) BY Zenon DEF Boot!EmulationFeatures
  <1> QED BY <1>1, <1>2, Zenon DEF CpuFound

\* A step of one cpu that is being virtualised: it had not returned.
LEMMA CoreGoes ==
    ASSUME BootAssumption, MachineInv, NEW c \in Boot!Processor, NEW from, NEW to, Boot!Go(c, from, to),
           from \notin {"virtual", "failed"},
           boot' = boot, next' = next, on' = on, CpuFound(c)', caps' = caps,
           \A d \in Boot!Processor \ {c} : /\ lvt'[d] = lvt[d] /\ support'[d] = support[d]
                                           /\ onCpu'[d] = onCpu[d] /\ root'[d] = root[d],
           lvt' = [d \in Boot!Processor |-> lvt'[d]],
           support' = [d \in Boot!Processor |-> support'[d]],
           onCpu' = [d \in Boot!Processor |-> onCpu'[d]],
           root' = [d \in Boot!Processor |-> root'[d]]
    PROVE  MachineInv'
  <1>0. core = [d \in Boot!Processor |-> core[d]] BY Zenon DEF MachineInv
  <1>1. core[c] = from /\ core' = [core EXCEPT ![c] = to] BY Zenon DEF Boot!Go
  <1>2. /\ core' = [d \in Boot!Processor |-> core'[d]]
        /\ \A d \in Boot!Processor \ {c} : core'[d] = core[d]
    BY <1>0, <1>1, Zenon
  <1>3. \A d \in Boot!Processor : CpuFound(d)'
    <2> SUFFICES ASSUME NEW d \in Boot!Processor, d # c PROVE CpuFound(d)' BY Zenon
    <2> QED BY <1>2, CpuKept, Zenon DEF MachineInv
  <1>4. \A d \in Boot!Processor : Boot!Returned(d) => Boot!Returned(d)'
    <2> SUFFICES ASSUME NEW d \in Boot!Processor, Boot!Returned(d) PROVE Boot!Returned(d)' BY Zenon
    <2>1. d # c BY <1>1, Zenon DEF Boot!Returned
    <2> QED BY <1>2, <2>1, Zenon DEF Boot!Returned
  <1>5. /\ boot' \in {"loop", "wait"} =>
             \A d \in Boot!Processor : d < next' /\ d # Bsp => Boot!Returned(d)'
        /\ boot' \in {"bsp", "done"} => \A d \in Boot!Processor : d # Bsp => Boot!Returned(d)'
    BY <1>4, Zenon DEF MachineInv
  <1>6. boot' = "done" => Boot!Returned(Bsp)'
    BY <1>4, Zenon DEF MachineInv, BootAssumption
  <1>7. next' \in Nat /\ (on' => boot' = "done") /\ (boot' \in {"vkernel", "root"} => next' = 0)
    BY Zenon DEF MachineInv
  <1> QED BY <1>2, <1>3, <1>5, <1>6, <1>7, Zenon DEF MachineInv

\* vper_cpu_data_init.
LEMMA PerCpuDataInitStep ==
    ASSUME BootAssumption, MachineInv, NEW c \in Boot!Processor, Boot!PerCpuDataInit(c)
    PROVE  MachineInv' /\ SupportStays
  <1> DEFINE to == IF Boot!TscKnown(c) /\ Boot!LapicKnown(c) THEN "vmxon" ELSE "failed"
  <1>1. /\ Boot!Go(c, "called", to) /\ lvt' = [lvt EXCEPT ![c] = Boot!LapicReconfig(c)]
        /\ support' = [support EXCEPT ![c] = Boot!FlagsInit(c)]
        /\ caps' = caps /\ root' = root /\ boot' = boot /\ next' = next /\ onCpu' = onCpu
        /\ on' = on
    BY Zenon DEF Boot!PerCpuDataInit
  <1>2. to \in {"vmxon", "failed"} BY Zenon
  <1> HIDE DEF to
  <1>3. /\ lvt = [d \in Boot!Processor |-> lvt[d]] /\ support = [d \in Boot!Processor |-> support[d]]
        /\ core = [d \in Boot!Processor |-> core[d]] /\ onCpu = [d \in Boot!Processor |-> onCpu[d]]
        /\ root = [d \in Boot!Processor |-> root[d]]
    BY Zenon DEF MachineInv
  <1>4. /\ lvt' = [d \in Boot!Processor |-> lvt'[d]] /\ support' = [d \in Boot!Processor |-> support'[d]]
        /\ onCpu' = [d \in Boot!Processor |-> onCpu'[d]]
        /\ root' = [d \in Boot!Processor |-> root'[d]]
        /\ \A d \in Boot!Processor \ {c} : /\ lvt'[d] = lvt[d] /\ support'[d] = support[d]
                                           /\ onCpu'[d] = onCpu[d] /\ root'[d] = root[d]
        /\ lvt'[c] = Boot!LapicReconfig(c) /\ support'[c] = Boot!FlagsInit(c)
    BY <1>1, <1>3, Zenon
  <1>5. core'[c] = to BY <1>1, <1>3, Zenon DEF Boot!Go
  <1>6. CpuFound(c)'
    <2>1. Boot!FlagsInit(c)' = Boot!FlagsInit(c) BY <1>1, Zenon DEF Boot!FlagsInit
    <2>2. "lint1" \notin Boot!LapicReconfig(c) BY Zenon DEF Boot!LapicReconfig
    <2>3. core'[c] # "virtual" BY <1>2, <1>5, Zenon
    <2> QED BY <1>4, <2>1, <2>2, <2>3, Zenon DEF CpuFound
  <1>7. "called" \notin {"virtual", "failed"} BY Zenon
  <1>8. MachineInv' BY <1>1, <1>4, <1>6, <1>7, CoreGoes, Zenon
  <1>9. SupportStays BY <1>4, Zenon DEF MachineInv, CpuFound, SupportStays
  <1> QED BY <1>8, <1>9, Zenon

\* vmxon and the launch.
LEMMA VmxOnStep ==
    ASSUME BootAssumption, MachineInv, NEW c \in Boot!Processor, Boot!VmxOn(c)
    PROVE  MachineInv' /\ SupportStays
  <1>1. PICK to \in {"launch", "failed"} : Boot!Go(c, "vmxon", to) BY Zenon DEF Boot!VmxOn
  <1>2. /\ lvt' = lvt /\ support' = support /\ caps' = caps /\ root' = root /\ boot' = boot
        /\ next' = next /\ onCpu' = onCpu /\ on' = on
    BY Zenon DEF Boot!VmxOn
  <1>3. core[c] = "vmxon" /\ core'[c] = to BY <1>1, Zenon DEF MachineInv, Boot!Go
  <1>4. CpuFound(c)'
    <2>1. Boot!FlagsInit(c)' = Boot!FlagsInit(c) BY <1>2, Zenon DEF Boot!FlagsInit
    <2>2. "lint1" \notin lvt[c] /\ support[c] = Boot!FlagsInit(c)
      BY <1>3, Zenon DEF MachineInv, CpuFound
    <2>3. core'[c] # "virtual" BY <1>1, <1>3, Zenon
    <2> QED BY <1>2, <2>1, <2>2, <2>3, Zenon DEF CpuFound
  <1>5. "vmxon" \notin {"virtual", "failed"} BY Zenon
  <1>6. /\ lvt' = [d \in Boot!Processor |-> lvt'[d]] /\ support' = [d \in Boot!Processor |-> support'[d]]
        /\ onCpu' = [d \in Boot!Processor |-> onCpu'[d]]
        /\ root' = [d \in Boot!Processor |-> root'[d]]
        /\ \A d \in Boot!Processor \ {c} : /\ lvt'[d] = lvt[d] /\ support'[d] = support[d]
                                           /\ onCpu'[d] = onCpu[d] /\ root'[d] = root[d]
    BY <1>2, Zenon DEF MachineInv
  <1>7. MachineInv' BY <1>1, <1>2, <1>4, <1>5, <1>6, CoreGoes, Zenon
  <1> QED BY <1>2, <1>7, Zenon DEF SupportStays

\* What the root's vcpu is caught for is what its cpuid says.
LEMMA LaunchStep ==
    ASSUME BootAssumption, MachineInv, NEW c \in Boot!Processor, Boot!Launch(c)
    PROVE  MachineInv' /\ SupportStays
  <1>1. PICK to \in {"virtual", "failed"} : Boot!Go(c, "launch", to) BY Zenon DEF Boot!Launch
  <1>2. /\ lvt' = lvt /\ support' = support /\ caps' = caps /\ boot' = boot
        /\ next' = next /\ on' = on /\ onCpu' = [onCpu EXCEPT ![c] = "root"]
        /\ root' = [root EXCEPT ![c] = Boot!RootControls(c)]
    BY Zenon DEF Boot!Launch
  <1>3. core[c] = "launch" /\ core'[c] = to BY <1>1, Zenon DEF MachineInv, Boot!Go
  <1>4. /\ onCpu = [d \in Boot!Processor |-> onCpu[d]] /\ root = [d \in Boot!Processor |-> root[d]]
        /\ lvt = [d \in Boot!Processor |-> lvt[d]] /\ support = [d \in Boot!Processor |-> support[d]]
    BY Zenon DEF MachineInv
  <1>5. /\ lvt' = [d \in Boot!Processor |-> lvt'[d]] /\ support' = [d \in Boot!Processor |-> support'[d]]
        /\ onCpu' = [d \in Boot!Processor |-> onCpu'[d]]
        /\ root' = [d \in Boot!Processor |-> root'[d]]
        /\ \A d \in Boot!Processor \ {c} : /\ lvt'[d] = lvt[d] /\ support'[d] = support[d]
                                           /\ onCpu'[d] = onCpu[d] /\ root'[d] = root[d]
        /\ onCpu'[c] = "root" /\ root'[c] = Boot!RootControls(c)
    BY <1>2, <1>4, Zenon
  <1>6. CpuFound(c)'
    <2>1. Boot!FlagsInit(c)' = Boot!FlagsInit(c) BY <1>2, Zenon DEF Boot!FlagsInit
    <2>2. "lint1" \notin lvt[c] /\ support[c] = Boot!FlagsInit(c)
      BY <1>3, Zenon DEF MachineInv, CpuFound
    <2>3. "wbinvd_exiting" \in support[c] <=> "proc2" \in support[c] /\ "wbinvd_exiting" \in caps[c]
      BY <2>2, Zenon DEF Boot!FlagsInit, Boot!Proc2, Boot!EptCap
    <2>4. "wbinvd_exiting" \in Boot!RootControls(c) <=> "wbinvd_exiting" \in support[c]
      BY <2>3, Zenon DEF Boot!RootControls, Boot!Secondary, Boot!Adjusted
    <2>5. "wbinvd_exiting" \in Boot!EmulationFeatures(c)' <=> "wbinvd_exiting" \in support'[c]
      BY Zenon DEF Boot!EmulationFeatures
    <2> QED BY <1>2, <1>5, <2>1, <2>2, <2>4, <2>5, Zenon DEF CpuFound
  <1>7. "launch" \notin {"virtual", "failed"} BY Zenon
  <1>8. MachineInv' BY <1>1, <1>2, <1>5, <1>6, <1>7, CoreGoes, Zenon
  <1> QED BY <1>2, <1>8, Zenon DEF SupportStays

\* A step of the bsp's loop that leaves the cpus alone, but for where it is.
LEMMA BspMoves ==
    ASSUME BootAssumption, MachineInv, caps' = caps, core' = core, lvt' = lvt, support' = support,
           onCpu' = onCpu, root' = root, next' \in Nat, on' => boot' = "done",
           boot' \in {"vkernel", "root"} => next' = 0,
           boot' \in {"loop", "wait"} =>
             \A c \in Boot!Processor : c < next' /\ c # Bsp => Boot!Returned(c),
           boot' \in {"bsp", "done"} => \A c \in Boot!Processor : c # Bsp => Boot!Returned(c),
           boot' = "done" => Boot!Returned(Bsp)
    PROVE  MachineInv' /\ SupportStays
  <1>1. \A c \in Boot!Processor : CpuFound(c)' BY CpuKept, Zenon DEF MachineInv
  <1>2. \A c : Boot!Returned(c)' <=> Boot!Returned(c) BY Zenon DEF Boot!Returned
  <1>3. /\ boot' \in {"loop", "wait"} =>
             \A c \in Boot!Processor : c < next' /\ c # Bsp => Boot!Returned(c)'
        /\ boot' \in {"bsp", "done"} => \A c \in Boot!Processor : c # Bsp => Boot!Returned(c)'
        /\ boot' = "done" => Boot!Returned(Bsp)'
    BY <1>2, Zenon
  <1>4. MachineInv' BY <1>1, <1>3, Zenon DEF MachineInv
  <1> QED BY <1>4, Zenon DEF SupportStays

\* The steps of __start_twanvisor.
LEMMA StartStep ==
    ASSUME BootAssumption, MachineInv,
           \/ Boot!VkernelInit \/ Boot!RootPartitionInit \/ Boot!Waited \/ Boot!TwanvisorOn
    PROVE  MachineInv' /\ SupportStays
  <1>0. next \in Nat /\ (on => boot = "done") /\ (boot \in {"vkernel", "root"} => next = 0)
    BY Zenon DEF MachineInv
  <1>1. CASE Boot!VkernelInit
    <2>1. /\ caps' = caps /\ core' = core /\ lvt' = lvt /\ support' = support /\ onCpu' = onCpu
          /\ root' = root /\ next' = next /\ on' = on /\ boot = "vkernel" /\ boot' \in {"root", "refused"}
      BY <1>1, Zenon DEF Boot!VkernelInit, Boot!Boot
    <2>2. boot' \notin {"loop", "wait"} /\ boot' \notin {"bsp", "done"} /\ boot' # "done" BY <2>1, Zenon
    <2>3. ~on' /\ next' = 0 BY <1>0, <2>1, Zenon
    <2> QED BY <1>0, <2>1, <2>2, <2>3, BspMoves, Zenon
  <1>2. CASE Boot!RootPartitionInit
    <2>1. /\ caps' = caps /\ core' = core /\ lvt' = lvt /\ support' = support /\ onCpu' = onCpu
          /\ root' = root /\ next' = next /\ on' = on /\ boot = "root" /\ boot' = "loop"
      BY <1>2, Zenon DEF Boot!RootPartitionInit, Boot!Boot
    <2>2. boot' \notin {"bsp", "done"} /\ boot' # "done" /\ boot' \notin {"vkernel", "root"} BY <2>1, Zenon
    <2>3. ~on' /\ next = 0 BY <1>0, <2>1, Zenon
    <2>4. \A c \in Boot!Processor : ~(c < next') BY <2>1, <2>3 DEF Boot!Processor, BootAssumption
    <2> QED BY <1>0, <2>1, <2>2, <2>3, <2>4, BspMoves, Zenon
  <1>3. CASE Boot!Waited
    <2>1. /\ caps' = caps /\ core' = core /\ lvt' = lvt /\ support' = support /\ onCpu' = onCpu
          /\ root' = root /\ next' = next + 1 /\ on' = on /\ boot = "wait" /\ boot' = "loop"
          /\ Boot!Returned(next)
      BY <1>3, Zenon DEF Boot!Waited, Boot!Boot
    <2>2. boot' \notin {"bsp", "done"} /\ boot' # "done" /\ boot' \notin {"vkernel", "root"} BY <2>1, Zenon
    <2>3. ~on' BY <1>0, <2>1, Zenon
    <2>4. next' \in Nat BY <1>0, <2>1
    <2>5. ASSUME NEW c \in Boot!Processor, c < next', c # Bsp PROVE Boot!Returned(c)
      <3>1. c \in Nat BY DEF Boot!Processor, BootAssumption
      <3>2. c < next \/ c = next BY <1>0, <2>1, <2>5, <3>1
      <3> QED BY <2>1, <2>5, <3>2, Zenon DEF MachineInv
    <2> QED BY <2>1, <2>2, <2>3, <2>4, <2>5, BspMoves, Zenon
  <1>4. CASE Boot!TwanvisorOn
    <2>1. /\ caps' = caps /\ core' = core /\ lvt' = lvt /\ support' = support /\ onCpu' = onCpu
          /\ root' = root /\ next' = next /\ on' = TRUE /\ boot = "bsp" /\ boot' = "done"
          /\ Boot!Returned(Bsp)
      BY <1>4, Zenon DEF Boot!TwanvisorOn, Boot!Boot
    <2>2. boot' \notin {"loop", "wait"} /\ boot' \notin {"vkernel", "root"} BY <2>1, Zenon
    <2>3. \A c \in Boot!Processor : c # Bsp => Boot!Returned(c) BY <2>1, Zenon DEF MachineInv
    <2> QED BY <1>0, <2>1, <2>2, <2>3, BspMoves, Zenon
  <1> QED BY <1>1, <1>2, <1>3, <1>4, Zenon

\* The cpu that the bsp calls has not been passed yet.
LEMMA RunStep ==
    ASSUME BootAssumption, MachineInv, Boot!RunOnNext \/ Boot!RunOnBsp
    PROVE  MachineInv' /\ SupportStays
  <1>0. /\ next \in Nat /\ (on => boot = "done") /\ core = [d \in Boot!Processor |-> core[d]]
    BY Zenon DEF MachineInv
  <1>1. /\ caps' = caps /\ lvt' = lvt /\ support' = support /\ onCpu' = onCpu
        /\ root' = root /\ on' = on /\ boot = "loop"
    BY Zenon DEF Boot!RunOnNext, Boot!RunOnBsp, Boot!Boot
  <1>2. ~on BY <1>0, <1>1, Zenon
  <1>3. CASE Boot!RunOnNext /\ next = Bsp
    <2>1. next' = next + 1 /\ boot' = boot /\ core' = core BY <1>3, Zenon DEF Boot!RunOnNext
    <2>2. boot' \notin {"bsp", "done"} /\ boot' # "done" /\ boot' \notin {"vkernel", "root"}
      BY <1>1, <2>1, Zenon
    <2>3. next' \in Nat BY <1>0, <2>1
    <2>4. ASSUME NEW c \in Boot!Processor, c < next', c # Bsp PROVE Boot!Returned(c)
      <3>1. c \in Nat BY DEF Boot!Processor, BootAssumption
      <3>2. c < next BY <1>0, <1>3, <2>1, <2>4, <3>1
      <3> QED BY <1>1, <2>4, <3>2, Zenon DEF MachineInv
    <2> QED BY <1>1, <1>2, <2>1, <2>2, <2>3, <2>4, BspMoves, Zenon
  <1>4. ASSUME NEW c \in Boot!Processor, NEW to \in {"called", "failed"},
               core' = [core EXCEPT ![c] = to]
        PROVE  /\ core' = [d \in Boot!Processor |-> core'[d]]
               /\ \A d \in Boot!Processor : CpuFound(d)'
               /\ \A d \in Boot!Processor \ {c} : Boot!Returned(d) => Boot!Returned(d)'
    <2>1. /\ core' = [d \in Boot!Processor |-> core'[d]]
          /\ core'[c] = to /\ \A d \in Boot!Processor \ {c} : core'[d] = core[d]
      BY <1>0, <1>4, Zenon
    <2>2. \A d \in Boot!Processor \ {c} : Boot!Returned(d) => Boot!Returned(d)'
      BY <2>1, Zenon DEF Boot!Returned
    <2>3. CpuFound(c)'
      <3>1. Boot!FlagsInit(c)' = Boot!FlagsInit(c) BY <1>1, Zenon DEF Boot!FlagsInit
      <3>2. core'[c] \notin {"vmxon", "launch", "virtual"} BY <2>1, Zenon
      <3>3. core'[c] # "virtual" BY <2>1, Zenon
      <3>4. support[c] = {} \/ support[c] = Boot!FlagsInit(c) BY Zenon DEF MachineInv, CpuFound
      <3> QED BY <1>1, <3>1, <3>2, <3>3, <3>4, Zenon DEF CpuFound
    <2>4. ASSUME NEW d \in Boot!Processor, d # c PROVE CpuFound(d)'
      BY <1>1, <2>1, <2>4, CpuKept, Zenon DEF MachineInv
    <2> QED BY <2>1, <2>2, <2>3, <2>4, Zenon
  <1>5. CASE Boot!RunOnNext /\ next # Bsp
    <2>1. /\ next \in Boot!Processor /\ next' = next /\ boot' = "wait"
          /\ \E to \in {"called", "failed"} : core' = [core EXCEPT ![next] = to]
      BY <1>5, Zenon DEF Boot!RunOnNext
    <2>2. PICK to \in {"called", "failed"} : core' = [core EXCEPT ![next] = to] BY <2>1, Zenon
    <2>3. /\ core' = [d \in Boot!Processor |-> core'[d]]
          /\ \A d \in Boot!Processor : CpuFound(d)'
          /\ \A d \in Boot!Processor \ {next} : Boot!Returned(d) => Boot!Returned(d)'
      BY <1>4, <2>1, <2>2, Zenon
    <2>4. ASSUME NEW c \in Boot!Processor, c < next', c # Bsp PROVE Boot!Returned(c)'
      <3>1. c # next BY <1>0, <2>1, <2>4
      <3>2. Boot!Returned(c) BY <1>1, <2>1, <2>4, Zenon DEF MachineInv
      <3> QED BY <2>3, <3>1, <3>2, Zenon
    <2>5. boot' \notin {"bsp", "done"} /\ boot' # "done" /\ boot' \notin {"vkernel", "root"} BY <2>1, Zenon
    <2>6. MachineInv'
      BY <1>0, <1>1, <1>2, <2>1, <2>3, <2>4, <2>5, Zenon DEF MachineInv
    <2> QED BY <1>1, <2>6, Zenon DEF SupportStays
  <1>6. CASE Boot!RunOnBsp
    <2>1. /\ next' = next /\ next = Cpus /\ boot' = "bsp" /\ core' = [core EXCEPT ![Bsp] = "called"]
      BY <1>6, Zenon DEF Boot!RunOnBsp, Boot!Boot, Boot!Go
    <2>2. /\ core' = [d \in Boot!Processor |-> core'[d]]
          /\ \A d \in Boot!Processor : CpuFound(d)'
          /\ \A d \in Boot!Processor \ {Bsp} : Boot!Returned(d) => Boot!Returned(d)'
      <3>1. "called" \in {"called", "failed"} /\ Bsp \in Boot!Processor BY Zenon DEF BootAssumption
      <3> QED BY <1>4, <2>1, <3>1, Zenon
    <2>3. ASSUME NEW c \in Boot!Processor, c # Bsp PROVE Boot!Returned(c)'
      <3>1. c < next BY <2>1 DEF Boot!Processor, BootAssumption
      <3>2. Boot!Returned(c) BY <1>1, <2>3, <3>1, Zenon DEF MachineInv
      <3> QED BY <2>2, <2>3, <3>2, Zenon
    <2>4. boot' \notin {"loop", "wait"} /\ boot' # "done" /\ boot' \notin {"vkernel", "root"} BY <2>1, Zenon
    <2>5. MachineInv'
      BY <1>0, <1>1, <1>2, <2>1, <2>2, <2>3, <2>4, Zenon DEF MachineInv
    <2> QED BY <1>1, <2>5, Zenon DEF SupportStays
  <1> QED BY <1>3, <1>5, <1>6, Zenon

-----------------------------------------------------------------------------
\* The prechecks have accepted p.
Passed(p) == \A i \in Boot!Vcpus(p) : Boot!VcpuPrecheck(Boot!Wanted(p, i))
\* A creation: its vid is neither free nor, before vpartition_setup, anybody's.
CallGoes(c) ==
    /\ creating[c].pc # "none" => creating[c].p \in Boot!Partition /\ Passed(creating[c].p)
    /\ creating[c].pc \in {"id", "setup"} => vid[creating[c].p] = NULL
    /\ creating[c].pc \in {"setup", "place", "push"} => creating[c].id \in Boot!Vid /\ creating[c].id \notin vids
    /\ creating[c].pc = "setup" => \A q \in Boot!Partition : vid[q] # creating[c].id
    /\ creating[c].pc \in {"place", "push"} => vid[creating[c].p] = creating[c].id
\* Two creations are of two partitions, with two vids.
CallsApart(c, d) ==
    /\ creating[c].pc # "none" /\ creating[d].pc # "none" => creating[c].p # creating[d].p
    /\ creating[c].pc = "setup" /\ creating[d].pc = "setup" => creating[c].id # creating[d].id
\* A partition, before and after vpartition_setup.
SetUp(p) ==
    /\ vid[p] = NULL => \A i \in Boot!Vcpus(p) : state[p][i] = "none"
    /\ vid[p] # NULL => /\ vid[p] \in Boot!Vid /\ vid[p] \notin vids /\ Passed(p)
                        /\ \A i \in Boot!Vcpus(p) : state[p][i] # "none"
    /\ \A i \in Boot!Vcpus(p) : state[p][i] = "RUNNING" => Boot!EnteredWell(p, i)
PartitionShape ==
    /\ table = [v \in Boot!Vid |-> table[v]] /\ creating = [c \in Boot!Processor |-> creating[c]]
    /\ vid = [p \in Boot!Partition |-> vid[p]]
    /\ state = [p \in Boot!Partition |-> state[p]] /\ controls = [p \in Boot!Partition |-> controls[p]]
    /\ \A p \in Boot!Partition : /\ state[p] = [i \in Boot!Vcpus(p) |-> state[p][i]]
                                 /\ controls[p] = [i \in Boot!Vcpus(p) |-> controls[p][i]]
    /\ vids \subseteq Boot!Vid
PartitionsInv ==
    /\ PartitionShape
    /\ \A c \in Boot!Processor : CallGoes(c)
    /\ \A c, d \in Boot!Processor : c # d => CallsApart(c, d)
    /\ \A p \in Boot!Partition : SetUp(p)
    /\ \A p, q \in Boot!Partition : p # q /\ vid[p] # NULL => vid[p] # vid[q]
    /\ \A v \in Boot!Vid : table[v] \in Boot!Partition => vid[table[v]] = v
    /\ ~on => /\ \A c \in Boot!Processor : creating[c].pc = "none"
              /\ \A p \in Boot!Partition : vid[p] = NULL

\* At power on there is no partition.
LEMMA PartitionsInit ==
    ASSUME BootAssumption, Boot!Init
    PROVE  PartitionsInv
  <1>1. /\ vids = {} /\ table = [v \in Boot!Vid |-> NULL]
        /\ creating = [c \in Boot!Processor |-> Boot!Idle]
        /\ vid = [p \in Boot!Partition |-> NULL]
        /\ state = [p \in Boot!Partition |-> [i \in Boot!Vcpus(p) |-> "none"]]
        /\ controls = [p \in Boot!Partition |-> [i \in Boot!Vcpus(p) |-> {}]]
    BY Zenon DEF Boot!Init
  <1>2. /\ \A v \in Boot!Vid : table[v] = NULL
        /\ \A c \in Boot!Processor : creating[c] = Boot!Idle
        /\ \A p \in Boot!Partition : vid[p] = NULL
        /\ \A p \in Boot!Partition : state[p] = [i \in Boot!Vcpus(p) |-> "none"]
        /\ \A p \in Boot!Partition : controls[p] = [i \in Boot!Vcpus(p) |-> {}]
    BY <1>1, Zenon
  <1>3. \A c \in Boot!Processor : creating[c].pc = "none" BY <1>2 DEF Boot!Idle, Boot!Creation
  <1>4. \A p \in Boot!Partition : \A i \in Boot!Vcpus(p) : state[p][i] = "none" BY <1>2, ZenonT(60)
  <1>5. PartitionShape
    <2>1. /\ table = [v \in Boot!Vid |-> table[v]] /\ creating = [c \in Boot!Processor |-> creating[c]]
          /\ vid = [p \in Boot!Partition |-> vid[p]]
      BY <1>1, Zenon
    <2>2. state = [p \in Boot!Partition |-> state[p]] /\ controls = [p \in Boot!Partition |-> controls[p]]
      BY <1>1, Zenon
    <2>3. \A p \in Boot!Partition : /\ state[p] = [i \in Boot!Vcpus(p) |-> state[p][i]]
                                    /\ controls[p] = [i \in Boot!Vcpus(p) |-> controls[p][i]]
      BY <1>2, Zenon
    <2> QED BY <1>1, <2>1, <2>2, <2>3, Zenon DEF PartitionShape
  <1>6. \A c \in Boot!Processor : CallGoes(c) BY <1>3, Zenon DEF CallGoes
  <1>7. \A c, d \in Boot!Processor : CallsApart(c, d) BY <1>3, Zenon DEF CallsApart
  <1>8. \A p \in Boot!Partition : SetUp(p) BY <1>2, <1>4, Zenon DEF SetUp
  <1>9. \A v \in Boot!Vid : table[v] \notin Boot!Partition BY <1>2, Zenon DEF BootAssumption
  <1> QED BY <1>2, <1>3, <1>5, <1>6, <1>7, <1>8, <1>9, Zenon DEF PartitionsInv

\* What the prechecks accepted stays acceptable, and what a vcpu was entered with
\* stays right.
LEMMA PassedStays ==
    ASSUME SupportStays, NEW p, Passed(p)
    PROVE  Passed(p)'
  <1> SUFFICES ASSUME NEW i \in Boot!Vcpus(p) PROVE Boot!VcpuPrecheck(Boot!Wanted(p, i))'
    BY Zenon DEF Passed
  <1> DEFINE w == Boot!Wanted(p, i)
  <1>1. Boot!VcpuPrecheck(w) BY Zenon DEF Passed
  <1> HIDE DEF w
  <1>2. w.cpu \in Boot!Processor /\ support[w.cpu] # {} BY <1>1, Zenon DEF Boot!VcpuPrecheck
  <1>3. support'[w.cpu] = support[w.cpu] BY <1>2, Zenon DEF SupportStays
  <1>4. Boot!VcpuPrecheck(w)' BY <1>1, <1>3, Zenon DEF Boot!VcpuPrecheck
  <1> QED BY <1>4, Zenon DEF w
LEMMA EnteredStays ==
    ASSUME SupportStays, NEW p, NEW i \in Boot!Vcpus(p), Passed(p), Boot!EnteredWell(p, i),
           controls'[p][i] = controls[p][i]
    PROVE  Boot!EnteredWell(p, i)'
  <1> DEFINE w == Boot!Wanted(p, i)
  <1>1. Boot!VcpuPrecheck(w) BY Zenon DEF Passed
  <1>2. w.cpu \in Boot!Processor /\ support[w.cpu] # {} BY <1>1, Zenon DEF Boot!VcpuPrecheck
  <1>3. support'[w.cpu] = support[w.cpu] BY <1>2, Zenon DEF SupportStays
  <1>4. Boot!EmulationFeatures(w.cpu)' = Boot!EmulationFeatures(w.cpu)
    BY <1>3, Zenon DEF Boot!EmulationFeatures
  <1> QED BY <1>4, Zenon DEF Boot!EnteredWell

\* A step of the machine, which at most takes a vid for the root.
LEMMA PartitionsKept ==
    ASSUME PartitionsInv, SupportStays, on => on', vids' \subseteq Boot!Vid,
           vids' \subseteq vids \/ ~on, table' = [v \in Boot!Vid |-> table'[v]],
           \A v \in Boot!Vid : table'[v] \in Boot!Partition => table'[v] = table[v],
           creating' = creating, vid' = vid, state' = state, controls' = controls
    PROVE  PartitionsInv'
  <1>1. PartitionShape' BY Zenon DEF PartitionsInv, PartitionShape
  <1>2. ~on => /\ \A c \in Boot!Processor : creating[c].pc = "none"
               /\ \A p \in Boot!Partition : vid[p] = NULL
    BY Zenon DEF PartitionsInv
  <1>3. ASSUME NEW c \in Boot!Processor PROVE CallGoes(c)'
    <2>1. CallGoes(c) BY Zenon DEF PartitionsInv
    <2>2. CASE on
      <3>1. vids' \subseteq vids BY <2>2, Zenon
      <3> QED BY <2>1, <3>1, PassedStays, Zenon DEF CallGoes
    <2>3. CASE ~on
      <3>1. creating'[c].pc = "none" BY <1>2, <2>3, Zenon
      <3> QED BY <3>1, Zenon DEF CallGoes
    <2> QED BY <2>2, <2>3, Zenon
  <1>4. \A c, d \in Boot!Processor : c # d => CallsApart(c, d)'
    BY Zenon DEF PartitionsInv, CallsApart
  <1>5. ASSUME NEW p \in Boot!Partition PROVE SetUp(p)'
    <2>1. SetUp(p) BY Zenon DEF PartitionsInv
    <2>2. CASE vid[p] = NULL
      <3>1. \A i \in Boot!Vcpus(p) : state'[p][i] = "none" BY <2>1, <2>2, Zenon DEF SetUp
      <3> QED BY <2>2, <3>1, Zenon DEF SetUp
    <2>3. CASE vid[p] # NULL
      <3>1. Passed(p) /\ vid[p] \in Boot!Vid /\ vid[p] \notin vids BY <2>1, <2>3, Zenon DEF SetUp
      <3>2. vid'[p] \notin vids' BY <1>2, <2>3, <3>1, Zenon
      <3>3. Passed(p)' BY <3>1, PassedStays, Zenon
      <3>4. ASSUME NEW i \in Boot!Vcpus(p), state'[p][i] = "RUNNING" PROVE Boot!EnteredWell(p, i)'
        <4>1. Boot!EnteredWell(p, i) BY <2>1, <3>4, Zenon DEF SetUp
        <4> QED BY <3>1, <4>1, EnteredStays, Zenon
      <3> QED BY <2>1, <2>3, <3>1, <3>2, <3>3, <3>4, Zenon DEF SetUp
    <2> QED BY <2>2, <2>3, Zenon
  <1>6. \A p, q \in Boot!Partition : p # q /\ vid'[p] # NULL => vid'[p] # vid'[q]
    BY Zenon DEF PartitionsInv
  <1>7. \A v \in Boot!Vid : table'[v] \in Boot!Partition => vid'[table'[v]] = v
    BY Zenon DEF PartitionsInv
  <1>8. ~on' => /\ \A c \in Boot!Processor : creating'[c].pc = "none"
                /\ \A p \in Boot!Partition : vid'[p] = NULL
    BY <1>2, Zenon
  <1> QED BY <1>1, <1>3, <1>4, <1>5, <1>6, <1>7, <1>8, Zenon DEF PartitionsInv

\* A step that leaves the machine alone and moves the creation of cpu c.
LEMMA CreationMoves ==
    ASSUME PartitionsInv, NEW c \in Boot!Processor,
           \A d \in Boot!Processor : d # c => creating'[d] = creating[d],
           support' = support, on' = on, on, vids' \subseteq vids, vid' = vid,
           \A v \in Boot!Vid : table'[v] \in Boot!Partition => vid[table'[v]] = v,
           PartitionShape', \A p \in Boot!Partition : SetUp(p)',
           CallGoes(c)', \A d \in Boot!Processor : d # c => CallsApart(c, d)' /\ CallsApart(d, c)'
    PROVE  PartitionsInv'
  <1>0. SupportStays BY Zenon DEF SupportStays
  <1>1. ASSUME NEW d \in Boot!Processor, d # c PROVE CallGoes(d)'
    <2>1. CallGoes(d) /\ creating'[d] = creating[d] BY <1>1, Zenon DEF PartitionsInv
    <2>2. \A v : v \notin vids => v \notin vids' BY Zenon
    <2> QED BY <1>0, <2>1, <2>2, PassedStays, Zenon DEF CallGoes
  <1>2. ASSUME NEW d \in Boot!Processor, NEW e \in Boot!Processor, d # e PROVE CallsApart(d, e)'
    <2>1. CASE d # c /\ e # c
      <3>1. CallsApart(d, e) /\ creating'[d] = creating[d] /\ creating'[e] = creating[e]
        BY <1>2, <2>1, Zenon DEF PartitionsInv
      <3> QED BY <3>1, Zenon DEF CallsApart
    <2> QED BY <1>2, <2>1, Zenon
  <1>3. \A p, q \in Boot!Partition : p # q /\ vid'[p] # NULL => vid'[p] # vid'[q]
    BY Zenon DEF PartitionsInv
  <1>4. \A v \in Boot!Vid : table'[v] \in Boot!Partition => vid'[table'[v]] = v BY Zenon
  <1> QED BY <1>1, <1>2, <1>3, <1>4, Zenon DEF PartitionsInv

\* A partition that a step does not touch.
LEMMA SetUpKept ==
    ASSUME NEW p \in Boot!Partition, SetUp(p), support' = support, vids' \subseteq vids,
           vid'[p] = vid[p], state'[p] = state[p], controls'[p] = controls[p]
    PROVE  SetUp(p)'
  <1>0. SupportStays BY Zenon DEF SupportStays
  <1>1. vid[p] # NULL => Passed(p)' BY <1>0, PassedStays, Zenon DEF SetUp
  <1>2. ASSUME NEW i \in Boot!Vcpus(p), state'[p][i] = "RUNNING" PROVE Boot!EnteredWell(p, i)'
    <2>1. Boot!EnteredWell(p, i) /\ state[p][i] = "RUNNING" BY <1>2, Zenon DEF SetUp
    <2>2. state[p][i] # "none" BY <2>1, Zenon
    <2>3. Passed(p) BY <2>2, Zenon DEF SetUp
    <2> QED BY <1>0, <2>1, <2>3, EnteredStays, Zenon
  <1>3. vid[p] # NULL => vid[p] \notin vids' BY Zenon DEF SetUp
  <1> QED BY <1>1, <1>2, <1>3, Zenon DEF SetUp

\* The same when the partitions' vcpus stay as they are.
LEMMA CreationAlone ==
    ASSUME PartitionsInv, NEW c \in Boot!Processor, NEW r, creating' = [creating EXCEPT ![c] = r],
           support' = support, on' = on, on, vids' \subseteq vids,
           table' = [v \in Boot!Vid |-> table'[v]],
           \A v \in Boot!Vid : table'[v] \in Boot!Partition => vid[table'[v]] = v,
           vid' = vid, state' = state, controls' = controls,
           CallGoes(c)', \A d \in Boot!Processor : d # c => CallsApart(c, d)' /\ CallsApart(d, c)'
    PROVE  PartitionsInv'
  <1>1. PartitionShape BY Zenon DEF PartitionsInv
  <1>2. PartitionShape'
    <2>1. creating' = [d \in Boot!Processor |-> creating'[d]] BY <1>1, Zenon DEF PartitionShape
    <2>2. vids' \subseteq Boot!Vid BY <1>1, Zenon DEF PartitionShape
    <2> QED BY <1>1, <2>1, <2>2, Zenon DEF PartitionShape
  <1>3. \A d \in Boot!Processor : d # c => creating'[d] = creating[d] BY <1>1, Zenon DEF PartitionShape
  <1>4. \A p \in Boot!Partition : SetUp(p)' BY SetUpKept, Zenon DEF PartitionsInv
  <1> QED BY <1>2, <1>3, <1>4, CreationMoves, Zenon

\* A creation starts once the prechecks accept it.
LEMMA CreationStep ==
    ASSUME BootAssumption, PartitionsInv, NEW c \in Boot!Processor, NEW p \in Boot!Partition, Boot!Create(c, p)
    PROVE  PartitionsInv'
  <1>1. /\ on /\ on' = on /\ support' = support /\ vids' = vids /\ table' = table /\ vid' = vid
        /\ state' = state /\ controls' = controls /\ vid[p] = NULL
        /\ \A d \in Boot!Processor : creating[d].p # p
        /\ creating' = [creating EXCEPT ![c] = Boot!Creation("id", p, NULL, 0)]
    BY Zenon DEF Boot!Create, Boot!To, Boot!machine
  <1>2. Passed(p) BY Zenon DEF Boot!Create, Boot!VpartitionPrecheck, Passed
  <1>3. /\ creating'[c] = Boot!Creation("id", p, NULL, 0)
        /\ \A d \in Boot!Processor \ {c} : creating'[d] = creating[d]
    BY <1>1, Zenon DEF PartitionsInv, PartitionShape
  <1>4. creating'[c].pc = "id" /\ creating'[c].p = p BY <1>3 DEF Boot!Creation
  <1>5. CallGoes(c)'
    <2>1. Passed(p)' BY <1>1, <1>2, PassedStays, Zenon DEF SupportStays
    <2> QED BY <1>1, <1>4, <2>1, Zenon DEF CallGoes
  <1>6. ASSUME NEW d \in Boot!Processor, d # c PROVE CallsApart(c, d)' /\ CallsApart(d, c)'
    <2>1. creating'[d].p # p BY <1>1, <1>3, <1>6, Zenon
    <2> QED BY <1>4, <2>1, Zenon DEF CallsApart
  <1>7. /\ vids' \subseteq vids /\ table' = [v \in Boot!Vid |-> table'[v]]
        /\ \A v \in Boot!Vid : table'[v] \in Boot!Partition => vid[table'[v]] = v
    BY <1>1, Zenon DEF PartitionsInv, PartitionShape
  <1> QED BY <1>1, <1>5, <1>6, <1>7, CreationAlone, Zenon

\* The hypervisor is on while a creation runs.
LEMMA CreatingIsOn ==
    ASSUME PartitionsInv, NEW c \in Boot!Processor, creating[c].pc # "none"
    PROVE  on
  BY Zenon DEF PartitionsInv

\* vpartition_id_alloc takes a vid that is free.
LEMMA IdAllocStep ==
    ASSUME BootAssumption, PartitionsInv, NEW c \in Boot!Processor, Boot!IdAlloc(c)
    PROVE  PartitionsInv'
  <1>1. /\ on' = on /\ support' = support /\ table' = table /\ vid' = vid
        /\ state' = state /\ controls' = controls /\ creating[c].pc = "id"
    BY Zenon DEF Boot!IdAlloc, Boot!At, Boot!machine
  <1>2. on
    <2>1. creating[c].pc # "none" BY <1>1, Zenon
    <2> QED BY <2>1, CreatingIsOn, Zenon
  <1>3. /\ table' = [v \in Boot!Vid |-> table'[v]]
        /\ \A v \in Boot!Vid : table'[v] \in Boot!Partition => vid[table'[v]] = v
    BY <1>1, Zenon DEF PartitionsInv, PartitionShape
  <1>4. creating[c].p \in Boot!Partition /\ Passed(creating[c].p) /\ vid[creating[c].p] = NULL /\ CallGoes(c)
    BY <1>1, Zenon DEF PartitionsInv, CallGoes
  <1>5. CASE vids = {}
    <2>1. vids' = vids /\ creating' = [creating EXCEPT ![c] = Boot!Idle]
      BY <1>5, Zenon DEF Boot!IdAlloc, Boot!To
    <2>2. creating'[c] = Boot!Idle BY <2>1, Zenon DEF PartitionsInv, PartitionShape
    <2>3. creating'[c].pc = "none" BY <2>2 DEF Boot!Idle, Boot!Creation
    <2>4. CallGoes(c)' BY <2>3, Zenon DEF CallGoes
    <2>5. \A d \in Boot!Processor : CallsApart(c, d)' /\ CallsApart(d, c)'
      BY <2>3, Zenon DEF CallsApart
    <2>6. vids' \subseteq vids BY <2>1, Zenon
    <2> QED BY <1>1, <1>2, <1>3, <2>1, <2>4, <2>5, <2>6, CreationAlone, Zenon
  <1>6. CASE vids # {}
    <2> DEFINE v == Boot!Lowest(vids)
    <2>1. v \in vids
      <3>1. vids \subseteq Nat
        BY DEF PartitionsInv, PartitionShape, BootAssumption, Boot!Vid
      <3>2. \E m \in vids : \A y \in vids : m <= y BY <1>6, <3>1, LeastOf, Zenon
      <3> QED BY <3>2, Zenon DEF Boot!Lowest
    <2>2. /\ vids' = vids \ {v}
          /\ creating' = [creating EXCEPT ![c] = Boot!Creation("setup", creating[c].p, v, 0)]
      BY <1>6, Zenon DEF Boot!IdAlloc, Boot!To
    <2> HIDE DEF v
    <2>3. /\ creating'[c] = Boot!Creation("setup", creating[c].p, v, 0)
          /\ \A d \in Boot!Processor \ {c} : creating'[d] = creating[d]
      BY <2>2, Zenon DEF PartitionsInv, PartitionShape
    <2>4. creating'[c].pc = "setup" /\ creating'[c].p = creating[c].p /\ creating'[c].id = v
      BY <2>3 DEF Boot!Creation
    <2>5. v \in Boot!Vid /\ v \notin vids' /\ vids' \subseteq vids
      BY <2>1, <2>2, Zenon DEF PartitionsInv, PartitionShape
    <2>6. \A q \in Boot!Partition : vid[q] # v
      <3> SUFFICES ASSUME NEW q \in Boot!Partition, vid[q] = v PROVE FALSE BY Zenon
      <3>1. v # NULL BY <2>5, Zenon DEF BootAssumption
      <3>2. SetUp(q) BY Zenon DEF PartitionsInv
      <3> QED BY <2>1, <3>1, <3>2, Zenon DEF SetUp
    <2>7. CallGoes(c)'
      <3>1. Passed(creating[c].p)'
        <4>1. PICK q : q = creating[c].p BY Zenon
        <4>2. Passed(q)' BY <1>1, <1>4, <4>1, PassedStays, Zenon DEF SupportStays
        <4> QED BY <2>4, <4>1, <4>2, Zenon
      <3>2. CallGoes(c)' BY <1>1, <1>4, <2>4, <2>5, <2>6, <3>1, Zenon DEF CallGoes
      <3> QED BY <3>2, Zenon
    <2>8. ASSUME NEW d \in Boot!Processor, d # c PROVE CallsApart(c, d)' /\ CallsApart(d, c)'
      <3>1. creating'[d] = creating[d] BY <2>3, <2>8, Zenon
      <3>2. CallsApart(c, d) /\ CallsApart(d, c) /\ CallGoes(d) BY <2>8, Zenon DEF PartitionsInv
      <3>3. creating[d].pc # "none" => creating[d].p # creating[c].p BY <1>1, <3>2, Zenon DEF CallsApart
      <3>4. creating[d].pc = "setup" => creating[d].id # v BY <2>1, <3>2, Zenon DEF CallGoes
      <3> QED BY <2>4, <3>1, <3>3, <3>4, Zenon DEF CallsApart
    <2> QED BY <1>1, <1>2, <1>3, <2>2, <2>5, <2>7, <2>8, CreationAlone, Zenon
  <1> QED BY <1>5, <1>6, Zenon

\* vpartition_push: the partition can be found once it is set up.
LEMMA PlaceStep ==
    ASSUME BootAssumption, PartitionsInv, NEW c \in Boot!Processor, Boot!Place(c)
    PROVE  PartitionsInv'
  <1>1. /\ on' = on /\ support' = support /\ vids' = vids /\ vid' = vid
        /\ state' = state /\ controls' = controls /\ creating[c].pc = "place"
        /\ table' = [table EXCEPT ![creating[c].id] = creating[c].p]
        /\ creating' = [creating EXCEPT ![c] = Boot!Creation("push", creating[c].p, creating[c].id, 1)]
    BY Zenon DEF Boot!Place, Boot!At, Boot!To, Boot!machine
  <1>2. on
    <2>1. creating[c].pc # "none" BY <1>1, Zenon
    <2> QED BY <2>1, CreatingIsOn, Zenon
  <1>3. PICK p, id : p = creating[c].p /\ id = creating[c].id BY Zenon
  <1>4. p \in Boot!Partition /\ Passed(p) /\ id \in Boot!Vid /\ id \notin vids /\ vid[p] = id
    <2>1. CallGoes(c) BY Zenon DEF PartitionsInv
    <2> QED BY <1>1, <1>3, <2>1, Zenon DEF CallGoes
  <1>5. table = [v \in Boot!Vid |-> table[v]] /\ creating = [d \in Boot!Processor |-> creating[d]]
    BY Zenon DEF PartitionsInv, PartitionShape
  <1>6. /\ table' = [v \in Boot!Vid |-> table'[v]] /\ table'[id] = p
        /\ \A v \in Boot!Vid \ {id} : table'[v] = table[v]
    BY <1>1, <1>3, <1>4, <1>5, Zenon
  <1>7. \A v \in Boot!Vid : table'[v] \in Boot!Partition => vid[table'[v]] = v
    BY <1>4, <1>6, Zenon DEF PartitionsInv
  <1>8. /\ creating'[c] = Boot!Creation("push", p, id, 1)
        /\ \A d \in Boot!Processor \ {c} : creating'[d] = creating[d]
    BY <1>1, <1>3, <1>5, Zenon
  <1>9. creating'[c].pc = "push" /\ creating'[c].p = p /\ creating'[c].id = id BY SMTT(60), <1>8 DEF Boot!Creation
  <1>10. CallGoes(c)'
    <2>1. Passed(p)' BY <1>1, <1>4, PassedStays, Zenon DEF SupportStays
    <2> QED BY <1>1, <1>4, <1>9, <2>1 DEF CallGoes
  <1>11. ASSUME NEW d \in Boot!Processor, d # c PROVE CallsApart(c, d)' /\ CallsApart(d, c)'
    <2>1. creating'[d] = creating[d] /\ CallsApart(c, d) BY <1>8, <1>11, Zenon DEF PartitionsInv
    <2>2. creating[d].pc # "none" => creating[d].p # p BY <1>1, <1>3, <2>1, Zenon DEF CallsApart
    <2> QED BY <1>9, <2>1, <2>2, Zenon DEF CallsApart
  <1>12. vids' \subseteq vids BY <1>1, Zenon
  <1> QED BY <1>1, <1>2, <1>6, <1>7, <1>10, <1>11, <1>12, CreationAlone, Zenon

\* vsched_put and vsched_put_paused, which nothing runs before.
LEMMA PushStep ==
    ASSUME BootAssumption, PartitionsInv, NEW c \in Boot!Processor, Boot!Push(c)
    PROVE  PartitionsInv'
  <1>1. PICK p, id, i : p = creating[c].p /\ id = creating[c].id /\ i = creating[c].i BY Zenon
  <1>2. /\ on' = on /\ support' = support /\ vids' = vids /\ table' = table /\ vid' = vid
        /\ controls' = controls /\ creating[c].pc = "push"
        /\ state' = [state EXCEPT ![p][i] = Boot!Wanted(p, i).boot]
        /\ \E r \in {Boot!Idle, Boot!Creation("push", p, id, i + 1)} : creating' = [creating EXCEPT ![c] = r]
    BY <1>1, Zenon DEF Boot!Push, Boot!At, Boot!To, Boot!machine
  <1>3. on
    <2>1. creating[c].pc # "none" BY <1>2, Zenon
    <2> QED BY <2>1, CreatingIsOn, Zenon
  <1>4. p \in Boot!Partition /\ Passed(p) /\ id \in Boot!Vid /\ id \notin vids /\ vid[p] = id
    <2>1. CallGoes(c) BY Zenon DEF PartitionsInv
    <2> QED BY <1>1, <1>2, <2>1, Zenon DEF CallGoes
  <1>5. PartitionShape BY Zenon DEF PartitionsInv
  <1>6. PICK r \in {Boot!Idle, Boot!Creation("push", p, id, i + 1)} : creating' = [creating EXCEPT ![c] = r]
    BY <1>2, Zenon
  <1>7. /\ creating'[c] = r /\ creating' = [d \in Boot!Processor |-> creating'[d]]
        /\ \A d \in Boot!Processor : d # c => creating'[d] = creating[d]
    BY <1>5, <1>6, Zenon DEF PartitionShape
  <1>8. creating'[c].pc = "none" \/ (creating'[c].pc = "push" /\ creating'[c].p = p /\ creating'[c].id = id)
    BY <1>6, <1>7 DEF Boot!Idle, Boot!Creation
  <1>9. /\ state' = [q \in Boot!Partition |-> state'[q]]
        /\ state'[p] = [state[p] EXCEPT ![i] = Boot!Wanted(p, i).boot]
        /\ \A q \in Boot!Partition : q # p => state'[q] = state[q]
    <2>1. state = [q \in Boot!Partition |-> state[q]] BY <1>5, Zenon DEF PartitionShape
    <2> QED BY <1>2, <1>4, <2>1, Zenon
  <1>10. /\ state'[p] = [j \in Boot!Vcpus(p) |-> state'[p][j]]
         /\ \A j \in Boot!Vcpus(p) : state'[p][j] = IF j = i THEN Boot!Wanted(p, i).boot ELSE state[p][j]
    <2>1. state[p] = [j \in Boot!Vcpus(p) |-> state[p][j]] BY <1>4, <1>5, Zenon DEF PartitionShape
    <2> QED BY <1>9, <2>1, Zenon
  <1>11. PartitionShape'
    <2>1. \A q \in Boot!Partition : /\ state'[q] = [j \in Boot!Vcpus(q) |-> state'[q][j]]
                                    /\ controls'[q] = [j \in Boot!Vcpus(q) |-> controls'[q][j]]
      BY <1>2, <1>5, <1>9, <1>10, Zenon DEF PartitionShape
    <2> QED BY <1>2, <1>5, <1>7, <1>9, <2>1, Zenon DEF PartitionShape
  <1>12. vids' \subseteq vids BY <1>2, Zenon
  <1>13. SetUp(p)'
    <2>1. SetUp(p) BY <1>4, Zenon DEF PartitionsInv
    <2>2. vid[p] # NULL BY <1>4, Zenon DEF BootAssumption
    <2>3. Passed(p)' BY <1>2, <1>4, PassedStays, Zenon DEF SupportStays
    <2>4. ASSUME NEW j \in Boot!Vcpus(p)
          PROVE  /\ state'[p][j] # "none"
                 /\ state'[p][j] = "RUNNING" => Boot!EnteredWell(p, j)'
      <3>1. CASE j = i
        <4>1. state'[p][j] \in {"READY", "PAUSED"}
          BY <1>4, <1>10, <2>4, <3>1, Zenon DEF BootAssumption
        <4> QED BY <4>1, Zenon
      <3>2. CASE j # i
        <4>1. state'[p][j] = state[p][j] BY <1>10, <2>4, <3>2, Zenon
        <4>2. state[p][j] # "none" BY <2>1, <2>2, <2>4, Zenon DEF SetUp
        <4>3. ASSUME state[p][j] = "RUNNING" PROVE Boot!EnteredWell(p, j)'
          <5>1. Boot!EnteredWell(p, j) BY <2>1, <2>4, <4>3, Zenon DEF SetUp
          <5>2. SupportStays BY <1>2, Zenon DEF SupportStays
          <5> QED BY <1>2, <1>4, <2>4, <5>1, <5>2, EnteredStays, Zenon
        <4> QED BY <4>1, <4>2, <4>3, Zenon
      <3> QED BY <3>1, <3>2, Zenon
    <2> QED BY <1>2, <1>4, <2>2, <2>3, <2>4, Zenon DEF SetUp
  <1>14. \A q \in Boot!Partition : SetUp(q)'
    BY <1>2, <1>9, <1>12, <1>13, SetUpKept, Zenon DEF PartitionsInv
  <1>15. CallGoes(c)'
    <2>1. Passed(p)' BY <1>2, <1>4, PassedStays, Zenon DEF SupportStays
    <2> QED BY <1>2, <1>4, <1>8, <2>1, Zenon DEF CallGoes
  <1>16. ASSUME NEW d \in Boot!Processor, d # c PROVE CallsApart(c, d)' /\ CallsApart(d, c)'
    <2>1. creating'[d] = creating[d] /\ CallsApart(c, d) BY <1>7, <1>16, Zenon DEF PartitionsInv
    <2>2. creating[d].pc # "none" => creating[d].p # p BY <1>1, <1>2, <2>1, Zenon DEF CallsApart
    <2> QED BY <1>8, <2>1, <2>2, Zenon DEF CallsApart
  <1>17. \A v \in Boot!Vid : table'[v] \in Boot!Partition => vid[table'[v]] = v
    BY <1>2, Zenon DEF PartitionsInv
  <1> QED BY <1>2, <1>3, <1>7, <1>11, <1>12, <1>14, <1>15, <1>16, <1>17, CreationMoves, Zenon

\* vpartition_setup: the vid was nobody's, and is nobody else's.
LEMMA SetupStep ==
    ASSUME BootAssumption, PartitionsInv, NEW c \in Boot!Processor, Boot!Setup(c)
    PROVE  PartitionsInv'
  <1>1. PICK p, id : p = creating[c].p /\ id = creating[c].id BY Zenon
  <1>2. /\ on' = on /\ support' = support /\ vids' = vids /\ table' = table
        /\ controls' = controls /\ creating[c].pc = "setup" /\ vid' = [vid EXCEPT ![p] = id]
        /\ state' = [state EXCEPT ![p] = [i \in Boot!Vcpus(p) |-> "INITIALIZING"]]
        /\ creating' = [creating EXCEPT ![c] = Boot!Creation("place", p, id, 0)]
    BY <1>1, Zenon DEF Boot!Setup, Boot!At, Boot!To, Boot!machine
  <1>3. on
    <2>1. creating[c].pc # "none" BY <1>2, Zenon
    <2> QED BY <2>1, CreatingIsOn, Zenon
  <1>4. /\ p \in Boot!Partition /\ Passed(p) /\ vid[p] = NULL /\ id \in Boot!Vid /\ id \notin vids
        /\ \A q \in Boot!Partition : vid[q] # id
    <2>1. CallGoes(c) BY Zenon DEF PartitionsInv
    <2> QED BY <1>1, <1>2, <2>1, Zenon DEF CallGoes
  <1>5. PartitionShape BY Zenon DEF PartitionsInv
  <1>6. /\ creating'[c] = Boot!Creation("place", p, id, 0)
        /\ creating' = [d \in Boot!Processor |-> creating'[d]]
        /\ \A d \in Boot!Processor : d # c => creating'[d] = creating[d]
    BY <1>2, <1>5, Zenon DEF PartitionShape
  <1>7. creating'[c].pc = "place" /\ creating'[c].p = p /\ creating'[c].id = id BY <1>6 DEF Boot!Creation
  <1>8. /\ vid' = [q \in Boot!Partition |-> vid'[q]] /\ vid'[p] = id
        /\ \A q \in Boot!Partition : q # p => vid'[q] = vid[q]
    BY <1>2, <1>4, <1>5, Zenon DEF PartitionShape
  <1>9. /\ state' = [q \in Boot!Partition |-> state'[q]]
        /\ state'[p] = [i \in Boot!Vcpus(p) |-> "INITIALIZING"]
        /\ \A q \in Boot!Partition : q # p => state'[q] = state[q]
    BY <1>2, <1>4, <1>5, Zenon DEF PartitionShape
  <1>10. PartitionShape'
    <2>1. state'[p] = [j \in Boot!Vcpus(p) |-> state'[p][j]] BY <1>9, Zenon
    <2>2. \A q \in Boot!Partition : /\ state'[q] = [j \in Boot!Vcpus(q) |-> state'[q][j]]
                                    /\ controls'[q] = [j \in Boot!Vcpus(q) |-> controls'[q][j]]
      BY <1>2, <1>5, <1>9, <2>1, Zenon DEF PartitionShape
    <2> QED BY <1>2, <1>5, <1>6, <1>8, <1>9, <2>2, Zenon DEF PartitionShape
  <1>11. SupportStays BY <1>2, Zenon DEF SupportStays
  <1>12. id # NULL BY <1>4, Zenon DEF BootAssumption
  <1>13. Passed(p)' BY <1>4, <1>11, PassedStays, Zenon
  <1>14. SetUp(p)'
    <2>1. \A i \in Boot!Vcpus(p) : state'[p][i] = "INITIALIZING" BY <1>9, Zenon
    <2>2. \A i \in Boot!Vcpus(p) : state'[p][i] # "none" /\ state'[p][i] # "RUNNING" BY <2>1, Zenon
    <2> QED BY <1>2, <1>4, <1>8, <1>12, <1>13, <2>2, Zenon DEF SetUp
  <1>15. ASSUME NEW q \in Boot!Partition PROVE SetUp(q)'
    <2>1. CASE q # p
      <3>1. SetUp(q) /\ vid'[q] = vid[q] /\ state'[q] = state[q] /\ controls'[q] = controls[q]
        BY <1>2, <1>8, <1>9, <2>1, Zenon DEF PartitionsInv
      <3>2. vids' \subseteq vids BY <1>2, Zenon
      <3> QED BY <1>2, <3>1, <3>2, SetUpKept, Zenon
    <2> QED BY <1>14, <2>1, Zenon
  <1>16. ASSUME NEW d \in Boot!Processor, d # c
         PROVE  CallGoes(d)' /\ CallsApart(c, d)' /\ CallsApart(d, c)'
    <2>1. creating'[d] = creating[d] /\ CallsApart(c, d) /\ CallGoes(d)
      BY <1>6, <1>16, Zenon DEF PartitionsInv
    <2>2. creating[d].pc # "none" => creating[d].p # p BY <1>1, <1>2, <2>1, Zenon DEF CallsApart
    <2>3. creating[d].pc = "setup" => creating[d].id # id BY <1>1, <1>2, <2>1, Zenon DEF CallsApart
    <2>4. CASE creating[d].pc = "none" BY <1>7, <2>1, <2>4, Zenon DEF CallGoes, CallsApart
    <2>5. CASE creating[d].pc # "none"
      <3>1. PICK q : q = creating[d].p BY Zenon
      <3>2. q \in Boot!Partition /\ Passed(q) /\ q # p BY <2>1, <2>2, <2>5, <3>1, Zenon DEF CallGoes
      <3>3. Passed(q)' /\ vid'[q] = vid[q] BY <1>8, <1>11, <3>2, PassedStays, Zenon
      <3>4. creating[d].pc = "setup" => \A x \in Boot!Partition : vid'[x] # creating[d].id
        BY <1>8, <2>1, <2>3, Zenon DEF CallGoes
      <3>5. CallGoes(d)'
        <4>1. creating[d].pc # "none" => q \in Boot!Partition /\ Passed(q)' BY <3>2, <3>3, Zenon
        <4>2. /\ creating[d].pc \in {"id", "setup"} => vid'[q] = NULL
              /\ creating[d].pc \in {"place", "push"} => vid'[q] = creating[d].id
              /\ creating[d].pc \in {"setup", "place", "push"} =>
                   creating[d].id \in Boot!Vid /\ creating[d].id \notin vids'
          BY <1>2, <2>1, <3>1, <3>3, Zenon DEF CallGoes
        <4> QED BY <2>1, <3>1, <3>4, <4>1, <4>2, Zenon DEF CallGoes
      <3>6. CallsApart(c, d)' /\ CallsApart(d, c)' BY <1>7, <2>1, <2>2, Zenon DEF CallsApart
      <3> QED BY <3>5, <3>6, Zenon
    <2> QED BY <2>4, <2>5, Zenon
  <1>17. CallGoes(c)' BY <1>2, <1>4, <1>7, <1>8, <1>13 DEF CallGoes
  <1>18. ASSUME NEW d \in Boot!Processor, NEW e \in Boot!Processor, d # e PROVE CallsApart(d, e)'
    <2>1. CASE d # c /\ e # c
      <3>1. CallsApart(d, e) /\ creating'[d] = creating[d] /\ creating'[e] = creating[e]
        BY <1>6, <1>18, <2>1, Zenon DEF PartitionsInv
      <3> QED BY <3>1, Zenon DEF CallsApart
    <2> QED BY <1>16, <1>18, <2>1, Zenon
  <1>19. \A x, y \in Boot!Partition : x # y /\ vid'[x] # NULL => vid'[x] # vid'[y]
    <2> SUFFICES ASSUME NEW x \in Boot!Partition, NEW y \in Boot!Partition, x # y, vid'[x] # NULL
                 PROVE  vid'[x] # vid'[y]
      BY Zenon
    <2>1. CASE x = p BY <1>4, <1>8, <2>1, Zenon
    <2>2. CASE y = p BY <1>4, <1>8, <2>2, Zenon
    <2>3. CASE x # p /\ y # p BY <1>8, <2>3, Zenon DEF PartitionsInv
    <2> QED BY <2>1, <2>2, <2>3, Zenon
  <1>20. ASSUME NEW v \in Boot!Vid, table'[v] \in Boot!Partition PROVE vid'[table'[v]] = v
    <2>1. PICK q : q = table[v] BY Zenon
    <2>2. q \in Boot!Partition /\ vid[q] = v BY <1>2, <1>20, <2>1, Zenon DEF PartitionsInv
    <2>3. q # p BY <1>4, <2>2, Zenon DEF BootAssumption
    <2> QED BY <1>2, <1>8, <2>1, <2>2, <2>3, Zenon
  <1> QED BY <1>2, <1>3, <1>10, <1>15, <1>16, <1>17, <1>18, <1>19, <1>20, Zenon DEF PartitionsInv

\* What a vcpu is entered with, once the prechecks have accepted it.
LEMMA EntryIsWell ==
    ASSUME BootAssumption, NEW p \in Boot!Partition, NEW i \in Boot!Vcpus(p), Passed(p),
           NEW w, w = Boot!Wanted(p, i), support[w.cpu] = Boot!FlagsInit(w.cpu),
           support' = support, controls'[p][i] = Boot!EntryControls(w) \cup Boot!EntryFields(w)
    PROVE  Boot!EnteredWell(p, i)'
  <1>1. Boot!VcpuPrecheck(w) BY Zenon DEF Passed
  <1>2. PICK s, h, f, v : s = support[w.cpu] /\ h = caps[w.cpu] /\ f = w.features /\ v = controls'[p][i]
    BY Zenon
  <1>3. f \subseteq {"vpid", "ept_ve"} BY <1>2, Zenon DEF BootAssumption
  <1>4. /\ "ug" \in s /\ "ept" \in s
        /\ "vpid" \in f => "vpid" \in s /\ "invvpid_single" \in s
        /\ "ept_ve" \in f => "ept_ve" \in s
    BY <1>1, <1>2, Zenon DEF Boot!VcpuPrecheck
  <1>5. \A x \in {"wbinvd_exiting", "ug", "ept", "vpid", "ept_ve"} :
           x \in s <=> "proc2" \in s /\ x \in h
    BY <1>2, Zenon DEF Boot!FlagsInit, Boot!Proc2, Boot!EptCap
  <1>6. "proc2" \in s BY <1>4, <1>5, Zenon
  <1>7. v = (({"ept", "ug", "wbinvd_exiting", "pt_use_gpa"} \cup f) \cap h)
              \cup ({"eptp"} \cup (IF "ept_ve" \in s THEN {"ve_info"} ELSE {})
                             \cup (IF "vpid" \in f THEN {"tag"} ELSE {}))
    BY <1>2, <1>6, Zenon DEF Boot!EntryControls, Boot!EntryFields, Boot!Secondary, Boot!Adjusted
  <1>8. Boot!EmulationFeatures(w.cpu)' =
            ({"ept", "ug", "ept_ve", "wbinvd_exiting", "ept_pml5", "pt_use_gpa"} \cap s)
            \cup (IF {"vpid", "invvpid_single"} \subseteq s THEN {"vpid"} ELSE {})
    BY <1>2, Zenon DEF Boot!EmulationFeatures
  <1>9. PICK e : e = Boot!EmulationFeatures(w.cpu)' BY Zenon
  <1>10. \A x \in f : x \in {"vpid", "ept_ve"} /\ x \in s /\ x \in h
    <2>1. \A x \in f : x = "vpid" \/ x = "ept_ve" BY <1>3, Zenon
    <2>2. \A x \in f : x \in s BY <1>4, <2>1, Zenon
    <2> QED BY <1>5, <2>1, <2>2, Zenon
  <1>11. {"ept", "ug", "eptp"} \cup f \subseteq v BY <1>4, <1>5, <1>7, <1>10, Zenon
  <1>12. "ept_ve" \in v => "ve_info" \in v BY <1>4, <1>7, Zenon
  <1>13. "vpid" \in v <=> "tag" \in v BY <1>3, <1>7, <1>10, Zenon
  <1>14. f \subseteq e BY <1>4, <1>8, <1>9, <1>10, Zenon
  <1>15. "wbinvd_exiting" \in v <=> "wbinvd_exiting" \in e BY <1>3, <1>5, <1>6, <1>7, <1>8, <1>9, Zenon
  <1> QED BY <1>2, <1>9, <1>11, <1>12, <1>13, <1>14, <1>15, Zenon DEF Boot!EnteredWell

\* vcpu_entry.
LEMMA VcpuEntryStep ==
    ASSUME BootAssumption, MachineInv, PartitionsInv, NEW p \in Boot!Partition,
           NEW i \in Boot!Vcpus(p), Boot!VcpuEntry(p, i)
    PROVE  PartitionsInv'
  <1>1. PICK w : w = Boot!Wanted(p, i) BY Zenon
  <1>2. /\ on' = on /\ support' = support /\ vids' = vids /\ table' = table /\ creating' = creating
        /\ vid' = vid /\ state[p][i] = "READY" /\ core[w.cpu] = "virtual"
        /\ \/ /\ controls' = [controls EXCEPT ![p][i] = Boot!EntryControls(w) \cup Boot!EntryFields(w)]
              /\ state' = [state EXCEPT ![p][i] = "RUNNING"]
           \/ state' = [state EXCEPT ![p][i] = "TERMINATED"] /\ controls' = controls
    BY <1>1, Zenon DEF Boot!VcpuEntry, Boot!machine
  <1>3. PartitionShape /\ SetUp(p) BY Zenon DEF PartitionsInv
  <1>4. vid[p] # NULL /\ Passed(p) /\ vid[p] \in Boot!Vid /\ vid[p] \notin vids
    <2>1. state[p][i] # "none" BY <1>2, Zenon
    <2> QED BY <1>3, <2>1, Zenon DEF SetUp
  <1>5. SupportStays BY <1>2, Zenon DEF SupportStays
  <1>6. PICK now \in {"RUNNING", "TERMINATED"} : state' = [state EXCEPT ![p][i] = now]
    BY <1>2, Zenon
  <1>7. /\ state' = [q \in Boot!Partition |-> state'[q]]
        /\ state'[p] = [state[p] EXCEPT ![i] = now]
        /\ \A q \in Boot!Partition : q # p => state'[q] = state[q]
    <2>1. state = [q \in Boot!Partition |-> state[q]] BY <1>3, Zenon DEF PartitionShape
    <2> QED BY <1>6, <2>1, Zenon
  <1>8. /\ state'[p] = [j \in Boot!Vcpus(p) |-> state'[p][j]] /\ state'[p][i] = now
        /\ \A j \in Boot!Vcpus(p) : j # i => state'[p][j] = state[p][j]
    <2>1. state[p] = [j \in Boot!Vcpus(p) |-> state[p][j]] BY <1>3, Zenon DEF PartitionShape
    <2> QED BY <1>7, <2>1, Zenon
  <1>9. /\ controls' = [q \in Boot!Partition |-> controls'[q]]
        /\ controls'[p] = [j \in Boot!Vcpus(p) |-> controls'[p][j]]
        /\ \A q \in Boot!Partition : q # p => controls'[q] = controls[q]
        /\ \A j \in Boot!Vcpus(p) : j # i => controls'[p][j] = controls[p][j]
        /\ now = "RUNNING" => controls'[p][i] = Boot!EntryControls(w) \cup Boot!EntryFields(w)
    <2>0. /\ controls = [q \in Boot!Partition |-> controls[q]]
          /\ controls[p] = [j \in Boot!Vcpus(p) |-> controls[p][j]]
      BY <1>3, Zenon DEF PartitionShape
    <2>1. CASE controls' = [controls EXCEPT ![p][i] = Boot!EntryControls(w) \cup Boot!EntryFields(w)]
      <3>1. PICK v : v = Boot!EntryControls(w) \cup Boot!EntryFields(w) BY Zenon
      <3>2. /\ controls' = [q \in Boot!Partition |-> controls'[q]] /\ controls'[p] = [controls[p] EXCEPT ![i] = v]
            /\ \A q \in Boot!Partition : q # p => controls'[q] = controls[q]
        BY <2>0, <2>1, <3>1, Zenon
      <3>3. /\ controls'[p] = [j \in Boot!Vcpus(p) |-> controls'[p][j]] /\ controls'[p][i] = v
            /\ \A j \in Boot!Vcpus(p) : j # i => controls'[p][j] = controls[p][j]
        BY <2>0, <3>2, Zenon
      <3> QED BY <3>1, <3>2, <3>3, Zenon
    <2>2. CASE state' = [state EXCEPT ![p][i] = "TERMINATED"] /\ controls' = controls
      <3>1. state'[p][i] = "TERMINATED"
        <4>1. /\ state = [q \in Boot!Partition |-> state[q]]
              /\ state[p] = [j \in Boot!Vcpus(p) |-> state[p][j]]
          BY <1>3, Zenon DEF PartitionShape
        <4>2. state'[p] = [state[p] EXCEPT ![i] = "TERMINATED"] BY <2>2, <4>1, Zenon
        <4> QED BY <4>1, <4>2, Zenon
      <3>2. now # "RUNNING" BY <1>8, <3>1, Zenon
      <3> QED BY <2>0, <2>2, <3>2, Zenon
    <2> QED BY <1>2, <2>1, <2>2, Zenon
  <1>10. PartitionShape'
    <2>1. \A q \in Boot!Partition : /\ state'[q] = [j \in Boot!Vcpus(q) |-> state'[q][j]]
                                    /\ controls'[q] = [j \in Boot!Vcpus(q) |-> controls'[q][j]]
      <3> SUFFICES ASSUME NEW q \in Boot!Partition
                   PROVE  /\ state'[q] = [j \in Boot!Vcpus(q) |-> state'[q][j]]
                          /\ controls'[q] = [j \in Boot!Vcpus(q) |-> controls'[q][j]]
        BY Zenon
      <3>1. CASE q = p BY <1>8, <1>9, <3>1, Zenon
      <3>2. CASE q # p
        <4>1. state'[q] = state[q] /\ controls'[q] = controls[q] BY <1>7, <1>9, <3>2, Zenon
        <4> QED BY <1>3, <4>1, Zenon DEF PartitionShape
      <3> QED BY <3>1, <3>2, Zenon
    <2> QED BY <1>2, <1>3, <1>7, <1>9, <2>1, Zenon DEF PartitionShape
  <1>11. SetUp(p)'
    <2>1. ASSUME NEW j \in Boot!Vcpus(p)
          PROVE  /\ state'[p][j] # "none"
                 /\ state'[p][j] = "RUNNING" => Boot!EnteredWell(p, j)'
      <3>1. CASE j = i
        <4>1. state'[p][j] # "none" BY <1>6, <1>8, <3>1, Zenon
        <4>2. ASSUME state'[p][j] = "RUNNING" PROVE Boot!EnteredWell(p, i)'
          <5>1. controls'[p][i] = Boot!EntryControls(w) \cup Boot!EntryFields(w)
            BY <1>8, <1>9, <3>1, <4>2, Zenon
          <5>2. Boot!VcpuPrecheck(w) BY <1>1, <1>4, Zenon DEF Passed
          <5>3. w.cpu \in Boot!Processor BY <5>2, Zenon DEF Boot!VcpuPrecheck
          <5>4. CpuFound(w.cpu) BY <5>3, Zenon DEF MachineInv
          <5>5. support[w.cpu] = Boot!FlagsInit(w.cpu) BY <1>2, <5>4, Zenon DEF CpuFound
          <5> QED BY <1>1, <1>2, <1>4, <5>1, <5>5, EntryIsWell, Zenon
        <4> QED BY <3>1, <4>1, <4>2, Zenon
      <3>2. CASE j # i
        <4>1. state'[p][j] = state[p][j] /\ controls'[p][j] = controls[p][j] BY <1>8, <1>9, <2>1, <3>2, Zenon
        <4>2. state[p][j] # "none" BY <1>3, <1>4, <2>1, Zenon DEF SetUp
        <4>3. ASSUME state[p][j] = "RUNNING" PROVE Boot!EnteredWell(p, j)'
          <5>1. Boot!EnteredWell(p, j) BY <1>3, <2>1, <4>3, Zenon DEF SetUp
          <5> QED BY <1>4, <1>5, <2>1, <4>1, <5>1, EnteredStays, Zenon
        <4> QED BY <4>1, <4>2, <4>3, Zenon
      <3> QED BY <3>1, <3>2, Zenon
    <2>2. Passed(p)' BY <1>4, <1>5, PassedStays, Zenon
    <2> QED BY <1>2, <1>4, <2>1, <2>2, Zenon DEF SetUp
  <1>12. ASSUME NEW q \in Boot!Partition PROVE SetUp(q)'
    <2>1. CASE q # p
      <3>1. SetUp(q) /\ vid'[q] = vid[q] /\ state'[q] = state[q] /\ controls'[q] = controls[q]
        BY <1>2, <1>7, <1>9, <2>1, Zenon DEF PartitionsInv
      <3>2. vids' \subseteq vids BY <1>2, Zenon
      <3> QED BY <1>2, <3>1, <3>2, SetUpKept, Zenon
    <2> QED BY <1>11, <2>1, Zenon
  <1>13. ASSUME NEW c \in Boot!Processor PROVE CallGoes(c)'
    <2>1. CallGoes(c) BY Zenon DEF PartitionsInv
    <2>2. PICK q : q = creating[c].p BY Zenon
    <2>3. Passed(q) => Passed(q)' BY <1>5, PassedStays, Zenon
    <2> QED BY <1>2, <2>1, <2>2, <2>3, Zenon DEF CallGoes
  <1>14. \A c, d \in Boot!Processor : c # d => CallsApart(c, d)'
    BY <1>2, Zenon DEF PartitionsInv, CallsApart
  <1>15. /\ \A x, y \in Boot!Partition : x # y /\ vid'[x] # NULL => vid'[x] # vid'[y]
         /\ \A v \in Boot!Vid : table'[v] \in Boot!Partition => vid'[table'[v]] = v
         /\ ~on' => /\ \A c \in Boot!Processor : creating'[c].pc = "none"
                    /\ \A q \in Boot!Partition : vid'[q] = NULL
    BY <1>2, Zenon DEF PartitionsInv
  <1> QED BY <1>10, <1>12, <1>13, <1>14, <1>15, Zenon DEF PartitionsInv

\* What holds of the boot, whatever step is taken.
BootInv == MachineInv /\ PartitionsInv

LEMMA BootInitInv ==
    ASSUME BootAssumption, Boot!Init
    PROVE  BootInv
  BY MachineInit, PartitionsInit, Zenon DEF BootInv

\* Every step of the boot and of a creation keeps the invariant.
LEMMA BootNextInv ==
    ASSUME BootAssumption, BootInv, [Boot!Next]_(Boot!vars)
    PROVE  BootInv'
  <1>0. MachineInv /\ PartitionsInv BY Zenon DEF BootInv
  <1>1. ASSUME MachineInv', SupportStays, on => on', UNCHANGED Boot!partitions PROVE BootInv'
    <2>1. /\ vids' = vids /\ table' = table /\ creating' = creating /\ vid' = vid /\ state' = state
          /\ controls' = controls
      BY <1>1, Zenon DEF Boot!partitions
    <2>2. /\ vids' \subseteq Boot!Vid /\ vids' \subseteq vids
          /\ table' = [v \in Boot!Vid |-> table'[v]]
          /\ \A v \in Boot!Vid : table'[v] \in Boot!Partition => table'[v] = table[v]
      BY <1>0, <2>1, Zenon DEF PartitionsInv, PartitionShape
    <2> QED BY <1>0, <1>1, <2>1, <2>2, PartitionsKept, Zenon DEF BootInv
  <1>2. ASSUME UNCHANGED Boot!machine PROVE MachineInv'
    <2>1. /\ caps' = caps /\ core' = core /\ lvt' = lvt /\ support' = support /\ onCpu' = onCpu
          /\ root' = root /\ next' = next /\ on' = on /\ boot' = boot
      BY <1>2, Zenon DEF Boot!machine
    <2> QED BY <1>0, <2>1, BspMoves, Zenon DEF MachineInv
  <1>3. CASE UNCHANGED Boot!vars
    <2>1. UNCHANGED Boot!machine /\ UNCHANGED Boot!partitions /\ support' = support /\ on' = on
      BY <1>3, Zenon DEF Boot!vars, Boot!machine, Boot!partitions
    <2> QED BY <1>1, <1>2, <2>1, Zenon DEF SupportStays
  <1>4. CASE Boot!VkernelInit
    <2>1. /\ on' = on /\ table' = table /\ creating' = creating /\ vid' = vid /\ state' = state
          /\ controls' = controls /\ boot = "vkernel" /\ (vids' = Boot!Vid \/ vids' = vids)
      BY <1>4, Zenon DEF Boot!VkernelInit, Boot!Boot
    <2>2. ~on BY <1>0, <2>1, Zenon DEF MachineInv
    <2>3. /\ vids' \subseteq Boot!Vid /\ table' = [v \in Boot!Vid |-> table'[v]]
          /\ \A v \in Boot!Vid : table'[v] \in Boot!Partition => table'[v] = table[v]
      BY <1>0, <2>1, Zenon DEF PartitionsInv, PartitionShape
    <2>4. MachineInv' /\ SupportStays BY <1>0, <1>4, StartStep, Zenon
    <2> QED BY <1>0, <2>1, <2>2, <2>3, <2>4, PartitionsKept, Zenon DEF BootInv
  <1>5. CASE Boot!RootPartitionInit
    <2>1. /\ on' = on /\ creating' = creating /\ vid' = vid /\ state' = state
          /\ controls' = controls /\ vids' = vids \ {Boot!Lowest(vids)}
          /\ table' = [table EXCEPT ![Boot!Lowest(vids)] = "root"]
      BY <1>5, Zenon DEF Boot!RootPartitionInit
    <2>2. vids \subseteq Boot!Vid /\ table = [v \in Boot!Vid |-> table[v]]
      BY <1>0, Zenon DEF PartitionsInv, PartitionShape
    <2>3. vids' \subseteq Boot!Vid /\ vids' \subseteq vids BY <2>1, <2>2, Zenon
    <2>4. /\ table' = [v \in Boot!Vid |-> table'[v]]
          /\ \A v \in Boot!Vid : table'[v] = "root" \/ table'[v] = table[v]
      BY <2>1, <2>2, Zenon
    <2>5. \A v \in Boot!Vid : table'[v] \in Boot!Partition => table'[v] = table[v]
      BY <2>4, Zenon DEF BootAssumption
    <2>6. MachineInv' /\ SupportStays BY <1>0, <1>5, StartStep, Zenon
    <2> QED BY <1>0, <2>1, <2>3, <2>4, <2>5, <2>6, PartitionsKept, Zenon DEF BootInv
  <1>6. CASE Boot!RunOnNext \/ Boot!RunOnBsp
    <2>1. on' = on /\ UNCHANGED Boot!partitions
      BY <1>6, Zenon DEF Boot!RunOnNext, Boot!RunOnBsp
    <2> QED BY <1>0, <1>1, <1>6, <2>1, RunStep, Zenon
  <1>7. CASE Boot!Waited \/ Boot!TwanvisorOn
    <2>1. (on => on') /\ UNCHANGED Boot!partitions
      <3>1. CASE Boot!Waited BY <3>1, Zenon DEF Boot!Waited
      <3>2. CASE Boot!TwanvisorOn
        <4>1. on' = TRUE /\ UNCHANGED Boot!partitions BY <3>2, Zenon DEF Boot!TwanvisorOn
        <4> QED BY <4>1, Zenon
      <3> QED BY <1>7, <3>1, <3>2, Zenon
    <2> QED BY <1>0, <1>1, <1>7, <2>1, StartStep, Zenon
  <1>8. ASSUME NEW c \in Boot!Processor, Boot!PerCpuDataInit(c) \/ Boot!VmxOn(c) \/ Boot!Launch(c)
        PROVE  BootInv'
    <2>1. on' = on /\ UNCHANGED Boot!partitions
      BY <1>8, Zenon DEF Boot!PerCpuDataInit, Boot!VmxOn, Boot!Launch
    <2>2. MachineInv' /\ SupportStays
      BY <1>0, <1>8, PerCpuDataInitStep, VmxOnStep, LaunchStep, Zenon
    <2> QED BY <1>1, <2>1, <2>2, Zenon
  <1>9. ASSUME NEW c \in Boot!Processor, NEW p \in Boot!Partition, Boot!Create(c, p) PROVE BootInv'
    <2>1. UNCHANGED Boot!machine BY <1>9, Zenon DEF Boot!Create
    <2> QED BY <1>0, <1>2, <1>9, <2>1, CreationStep, Zenon DEF BootInv
  <1>10. ASSUME NEW c \in Boot!Processor,
                Boot!IdAlloc(c) \/ Boot!Setup(c) \/ Boot!Place(c) \/ Boot!Push(c)
         PROVE  BootInv'
    <2>1. UNCHANGED Boot!machine
      BY <1>10, Zenon DEF Boot!IdAlloc, Boot!Setup, Boot!Place, Boot!Push
    <2>2. PartitionsInv' BY <1>0, <1>10, IdAllocStep, SetupStep, PlaceStep, PushStep, Zenon
    <2> QED BY <1>2, <2>1, <2>2, Zenon DEF BootInv
  <1>11. ASSUME NEW p \in Boot!Partition, NEW i \in Boot!Vcpus(p), Boot!VcpuEntry(p, i) PROVE BootInv'
    <2>1. UNCHANGED Boot!machine BY <1>11, Zenon DEF Boot!VcpuEntry
    <2> QED BY <1>0, <1>2, <1>11, <2>1, VcpuEntryStep, Zenon DEF BootInv
  <1> QED
    BY <1>3, <1>4, <1>5, <1>6, <1>7, <1>8, <1>9, <1>10, <1>11, Zenon DEF Boot!Next

\* The invariant says what EnteredAsAsked, FoundIsSetUp and OnMeansVirtual do.
LEMMA BootInvHolds ==
    ASSUME BootAssumption, BootInv
    PROVE  Boot!EnteredAsAsked /\ Boot!FoundIsSetUp /\ Boot!OnMeansVirtual
  <1>0. MachineInv /\ PartitionsInv BY Zenon DEF BootInv
  <1>1. Boot!EnteredAsAsked
    <2>1. \A c \in Boot!Processor : core[c] = "virtual" =>
            ("wbinvd_exiting" \in root[c] <=> "wbinvd_exiting" \in Boot!EmulationFeatures(c))
      BY <1>0, Zenon DEF MachineInv, CpuFound
    <2>2. \A p \in Boot!Partition : \A i \in Boot!Vcpus(p) :
             state[p][i] = "RUNNING" => Boot!EnteredWell(p, i)
      BY <1>0, Zenon DEF PartitionsInv, SetUp
    <2> QED BY <2>1, <2>2, Zenon DEF Boot!EnteredAsAsked
  <1>2. Boot!FoundIsSetUp
    <2>1. ASSUME NEW v \in Boot!Vid, table[v] \in Boot!Partition
          PROVE  /\ vid[table[v]] = v
                 /\ \A i \in Boot!Vcpus(table[v]) : state[table[v]][i] # "none"
      <3>1. vid[table[v]] = v /\ SetUp(table[v]) BY <1>0, <2>1, Zenon DEF PartitionsInv
      <3>2. v # NULL BY <2>1, Zenon DEF BootAssumption
      <3> QED BY <3>1, <3>2, Zenon DEF SetUp
    <2> QED BY <1>0, <2>1, Zenon DEF PartitionsInv, Boot!FoundIsSetUp
  <1>3. Boot!OnMeansVirtual
    <2> SUFFICES ASSUME on, NEW c \in Boot!Processor
                 PROVE  \/ core[c] = "virtual" /\ onCpu[c] = "root" /\ "lint1" \notin lvt[c]
                        \/ core[c] = "failed"
      BY Zenon DEF Boot!OnMeansVirtual
    <2>1. boot = "done" BY <1>0, Zenon DEF MachineInv
    <2>2. boot \in {"bsp", "done"} BY <2>1, Zenon
    <2>3. Boot!Returned(c) /\ CpuFound(c) BY <1>0, <2>1, <2>2, Zenon DEF MachineInv
    <2> QED BY <2>3, Zenon DEF Boot!Returned, CpuFound
  <1> QED BY <1>1, <1>2, <1>3, Zenon

\* The boot is correct for any number of cpus, whatever each has, and for any
\* requests: a partition found in the table is set up under its own vid, a vcpu
\* is entered with what it asked for, and twanvisor_on is raised only once every
\* cpu has returned from __do_virtualise_core.
THEOREM BootCorrect ==
    ASSUME BootAssumption
    PROVE  Boot!Spec => [](Boot!EnteredAsAsked /\ Boot!FoundIsSetUp /\ Boot!OnMeansVirtual)
  <1>1. Boot!Init => BootInv BY BootInitInv, Zenon
  <1>2. BootInv /\ [Boot!Next]_(Boot!vars) => BootInv' BY BootNextInv, Zenon
  <1>3. BootInv => Boot!EnteredAsAsked /\ Boot!FoundIsSetUp /\ Boot!OnMeansVirtual BY BootInvHolds, Zenon
  <1> QED BY <1>1, <1>2, <1>3, PTL DEF Boot!Spec

-----------------------------------------------------------------------------
(* Emulated instructions.                                                     *)

CONSTANTS Vcpu, RootVcpu, FeatureSets, Wrap
VARIABLES have, vmcs, loaded, preempted, op, queue, expected
Emulation == INSTANCE VEmulate WITH CpuModel <- FeatureSets

\* The root's vcpu is one of the cpu's, cd is a bit of cr0 and not a feature,
\* and no queued value is none.
EmulationAssumption ==
    /\ RootVcpu \in Vcpu
    /\ \A h \in FeatureSets : "cd" \notin h
    /\ \A v \in Vcpu, i \in Emulation!Instr :
         i.kind = "mov_cr" => [val |-> <<i.cr, i.bits>>, from |-> v] # NULL

\* A move to a control register with its fields.
LEMMA MoveFields ==
    ASSUME NEW i \in Emulation!Instr, i.kind = "mov_cr"
    PROVE  /\ i.rsp \in BOOLEAN
           /\ \/ i.cr = 0 /\ i.bits \in {{}, {"cd"}}
              \/ i.cr = 4 /\ (i.bits = {} \/ \E b \in Emulation!Cr4Bit : i.bits = {b})
  <1>1. CASE i \in [kind : {"nop", "cpuid", "ud", "gp"}] BY <1>1, Zenon
  <1>2. CASE i \in [kind : {"msr"}, msr : DOMAIN Emulation!Msr, write : BOOLEAN, same : BOOLEAN,
                    ok : BOOLEAN]
    BY <1>2, Zenon
  <1>3. CASE i \in [kind : {"mov_cr"}, cr : {0}, bits : {{}, {"cd"}}, rsp : BOOLEAN] BY <1>3, Zenon
  <1>4. CASE i \in [kind : {"mov_cr"}, cr : {4}, bits : {{}} \cup {{b} : b \in Emulation!Cr4Bit},
                    rsp : BOOLEAN]
    <2>1. i.cr = 4 /\ i.bits \in {{}} \cup {{b} : b \in Emulation!Cr4Bit} /\ i.rsp \in BOOLEAN BY <1>4, Zenon
    <2> QED BY <2>1, Zenon
  <1> QED BY <1>1, <1>2, <1>3, <1>4, Zenon DEF Emulation!Instr

\* The accesses to a msr that reach a handler.
Exited(i) == i.kind = "msr" => Emulation!Exits(i.msr, i.write, have)

\* Such an access is answered if the guest is shown the feature of the msr.
LEMMA MsrVerdictAgrees ==
    ASSUME NEW v \in Vcpu, NEW i \in Emulation!Instr, i.kind = "msr", Exited(i)
    PROVE  Emulation!Succeeds(v, i) <=> Emulation!Answered(v, i)
  <1>0. i.msr \in DOMAIN Emulation!Msr /\ i.write \in BOOLEAN /\ i.same \in BOOLEAN /\ i.ok \in BOOLEAN
    <2>1. CASE i \in [kind : {"nop", "cpuid", "ud", "gp"}] BY <2>1, Zenon
    <2>2. CASE i \in [kind : {"msr"}, msr : DOMAIN Emulation!Msr, write : BOOLEAN, same : BOOLEAN,
                      ok : BOOLEAN]
      BY <2>2, Zenon
    <2>3. CASE i \in [kind : {"mov_cr"}, cr : {0}, bits : {{}, {"cd"}}, rsp : BOOLEAN] BY <2>3, Zenon
    <2>4. CASE i \in [kind : {"mov_cr"}, cr : {4}, bits : {{}} \cup {{b} : b \in Emulation!Cr4Bit},
                      rsp : BOOLEAN]
      BY <2>4, Zenon
    <2> QED BY <2>1, <2>2, <2>3, <2>4, Zenon DEF Emulation!Instr
  <1>1. Emulation!Exits(i.msr, i.write, have) BY Zenon DEF Exited
  <1>2. Emulation!Answered(v, i) <=> Emulation!MsrAnswer(v, i, have) BY Zenon DEF Emulation!Answered
  <1>3. Emulation!Succeeds(v, i) <=> /\ Emulation!MsrFeature(i.msr) \cap Emulation!Shown(have) # {}
                                     /\ i.write => i.same
    BY Zenon DEF Emulation!Succeeds, Emulation!CpuidResult
  <1>4. CASE i.msr = "FEATURE_CONTROL"
    <2>1. Emulation!MsrFeature(i.msr) = {"sgx", "lmce"} BY <1>4, Zenon DEF Emulation!MsrFeature
    <2>2. Emulation!MsrFeature(i.msr) \cap Emulation!Shown(have) # {} <=> have \cap {"sgx", "lmce"} # {}
      BY <2>1, Zenon DEF Emulation!Shown, Emulation!HiddenFeature
    <2>3. "feature_control" \in Emulation!TrapCache(have) <=> have \cap {"sgx", "lmce"} # {}
      BY Zenon DEF Emulation!TrapCache
    <2>4. Emulation!MsrAnswer(v, i, have) <=> /\ "feature_control" \in Emulation!TrapCache(have)
                                              /\ i.write => i.same
      BY <1>0, <1>4, Zenon DEF Emulation!MsrAnswer, Emulation!Rdmsr, Emulation!Wrmsr
    <2> QED BY <1>2, <1>3, <2>2, <2>3, <2>4, Zenon
  <1>5. "arch_cap" \in Emulation!TrapCache(have) <=> "arch_cap" \in have
    BY Zenon DEF Emulation!TrapCache
  <1>6. CASE i.msr \in {"ARCH_CAPABILITIES", "VIRTUAL_MITIGATION_CTRL"}
    <2>1. Emulation!MsrFeature(i.msr) = {"arch_cap"} BY <1>6, Zenon DEF Emulation!MsrFeature
    <2>2. Emulation!MsrFeature(i.msr) \cap Emulation!Shown(have) # {} <=> "arch_cap" \in have
      BY <2>1, Zenon DEF Emulation!Shown, Emulation!HiddenFeature
    <2>3. CASE i.msr = "VIRTUAL_MITIGATION_CTRL"
      <3>1. Emulation!MsrAnswer(v, i, have) <=> /\ "arch_cap" \in Emulation!TrapCache(have)
                                                /\ i.write => i.same
        BY <1>0, <2>3, Zenon DEF Emulation!MsrAnswer, Emulation!Rdmsr, Emulation!Wrmsr
      <3> QED BY <1>2, <1>3, <1>5, <2>2, <3>1, Zenon
    <2>4. CASE i.msr = "ARCH_CAPABILITIES"
      <3>1. Emulation!BitmapCovers(Emulation!Msr[i.msr])
        BY <2>4 DEF Emulation!BitmapCovers, Emulation!Msr
      <3>2. Emulation!TrapBit(i.msr, i.write, have) BY <1>1, <3>1, Zenon DEF Emulation!Exits
      <3>3. ~i.write BY <2>4, <3>2, Zenon DEF Emulation!TrapBit, Emulation!ReadOnlyTrap
      <3>4. Emulation!Wanted(i.msr, have) BY <3>2, Zenon DEF Emulation!TrapBit
      <3>5. "arch_cap" \in have BY <1>5, <2>4, <3>4, Zenon DEF Emulation!Wanted
      <3>6. Emulation!MsrAnswer(v, i, have) BY <2>4, <3>3, Zenon DEF Emulation!MsrAnswer, Emulation!Rdmsr
      <3> QED BY <1>2, <1>3, <2>2, <3>3, <3>5, <3>6, Zenon
    <2> QED BY <1>6, <2>3, <2>4, Zenon
  <1>7. CASE i.msr = "EFER"
    <2>1. Emulation!BitmapCovers(Emulation!Msr[i.msr])
      BY <1>7 DEF Emulation!BitmapCovers, Emulation!Msr, Emulation!High
    <2>2. Emulation!Wanted(i.msr, have) BY <1>1, <2>1, Zenon DEF Emulation!Exits, Emulation!TrapBit
    <2>3. ~Emulation!Wanted("EFER", have) BY Zenon DEF Emulation!Wanted
    <2> QED BY <1>7, <2>2, <2>3, Zenon
  <1>8. CASE i.msr \notin {"FEATURE_CONTROL", "ARCH_CAPABILITIES", "VIRTUAL_MITIGATION_CTRL", "EFER"}
    <2>1. i.msr \in Emulation!Blocked BY <1>0, <1>8, Zenon DEF Emulation!Blocked, Emulation!Emulated
    <2>2. ~Emulation!MsrAnswer(v, i, have)
      BY <1>0, <1>8, <2>1, Zenon DEF Emulation!MsrAnswer, Emulation!Rdmsr, Emulation!Wrmsr
    <2>3. Emulation!MsrFeature(i.msr) \subseteq Emulation!HiddenFeature
      BY <1>0, <1>8, Zenon DEF Emulation!MsrFeature, Emulation!HiddenFeature
    <2> QED BY <1>2, <1>3, <2>2, <2>3, Zenon DEF Emulation!Shown
  <1> QED BY <1>4, <1>6, <1>7, <1>8, Zenon

\* The handler's verdict is that of the machine that the guest is shown.
LEMMA VerdictAgrees ==
    ASSUME EmulationAssumption, have \in FeatureSets, NEW v \in Vcpu, NEW i \in Emulation!Instr,
           ~Emulation!Doubtful(i), Exited(i)
    PROVE  Emulation!Succeeds(v, i) <=> Emulation!Answered(v, i)
  <1>1. CASE i.kind \notin {"mov_cr", "msr"}
    BY <1>1, Zenon DEF Emulation!Succeeds, Emulation!Answered
  <1>3. CASE i.kind = "msr" BY <1>3, MsrVerdictAgrees, Zenon
  <1>2. CASE i.kind = "mov_cr"
    <2>1. Emulation!Succeeds(v, i) <=> i.bits \subseteq Emulation!Shown(have)
      BY <1>2, Zenon DEF Emulation!Succeeds, Emulation!CpuidResult
    <2>2. Emulation!Answered(v, i) <=> Emulation!CrValid(i.cr, i.bits, have)
      BY <1>2, Zenon DEF Emulation!Answered
    <2>3. CASE i.cr = 0 /\ i.bits \in {{}, {"cd"}}
      <3>1. Emulation!CrValid(i.cr, i.bits, have) <=> "cd" \notin i.bits
        BY <2>3, Zenon DEF Emulation!CrValid
      <3>2. "cd" \notin Emulation!Shown(have) BY Zenon DEF Emulation!Shown, EmulationAssumption
      <3> QED BY <2>1, <2>2, <2>3, <3>1, <3>2, Zenon
    <2>4. CASE i.cr = 4
      <3>1. "pku" \notin have /\ "pku" \notin i.bits /\ "pks" \notin i.bits
        BY <1>2, <2>4, Zenon DEF Emulation!Doubtful
      <3>2. "pku" \notin Emulation!FeatureFlags(have) BY <3>1, Zenon DEF Emulation!FeatureFlags
      <3>3. Emulation!CrValid(i.cr, i.bits, have) <=>
              /\ i.bits \cap Emulation!NeverInCr4 = {}
              /\ i.bits \ {"pku"} \subseteq Emulation!FeatureFlags(have)
        BY <2>4, <3>2 DEF Emulation!CrValid
      <3>4. CASE i.bits = {} BY <2>1, <2>2, <3>3, <3>4, Zenon
      <3>5. ASSUME NEW b \in Emulation!Cr4Bit, i.bits = {b}
            PROVE  Emulation!Succeeds(v, i) <=> Emulation!Answered(v, i)
        <4>1. Emulation!Succeeds(v, i) <=> b \in have /\ b \notin Emulation!HiddenFeature
          BY <2>1, <3>5, Zenon DEF Emulation!Shown
        <4>2. b # "pku" /\ b # "pks" BY <3>1, <3>5, Zenon
        <4>3. i.bits \ {"pku"} = {b} BY <3>5, <4>2, Zenon
        <4>4. Emulation!CrValid(i.cr, i.bits, have) <=>
                b \notin Emulation!NeverInCr4 /\ b \in Emulation!FeatureFlags(have)
          BY <3>3, <3>5, <4>3, Zenon
        <4>5. b \in Emulation!FeatureFlags(have) <=> b \in have
          BY <4>2, Zenon DEF Emulation!FeatureFlags, Emulation!Cr4Bit
        <4>6. b \in Emulation!HiddenFeature <=> b \in Emulation!NeverInCr4
          BY <4>2, Zenon DEF Emulation!HiddenFeature, Emulation!NeverInCr4, Emulation!Cr4Bit
        <4> QED BY <2>2, <4>1, <4>4, <4>5, <4>6, Zenon
      <3>6. i.bits = {} \/ \E b \in Emulation!Cr4Bit : i.bits = {b}
        BY <1>2, <2>4, MoveFields
      <3> QED BY <3>4, <3>5, <3>6, Zenon
    <2> QED BY <1>2, <2>3, <2>4, MoveFields, Zenon
  <1> QED BY <1>1, <1>2, <1>3, Zenon

\* Between the exit and the entry the vmcs of a vcpu waits for the answer: no
\* other vcpu's handler touches it, since a vcpu that has not been preempted is
\* the current one and its vmcs is loaded.  What the guest may expect is what the
\* queue will make of the vmcs.
Answering(v) ==
    [rip |-> IF queue[v].advance THEN (vmcs[v].rip + 1) % Wrap ELSE vmcs[v].rip,
     cr |-> IF queue[v].cr # NULL THEN queue[v].cr.val ELSE vmcs[v].cr,
     fault |-> queue[v].fault]
Visible(v) == [rip |-> vmcs[v].rip, cr |-> vmcs[v].cr, fault |-> vmcs[v].fault]
Waiting(v, i) ==
    /\ i \in Emulation!Instr /\ Exited(i) /\ vmcs[v].cr = NULL /\ vmcs[v].fault = NULL
    /\ expected[v] = Emulation!Reference(v, i)
Emulating(v) ==
    /\ ~preempted[v] => current = v /\ loaded = v
    /\ pc[v] \in {"guest", "pinned"} => ~preempted[v]
    /\ pc[v] # "queued" => queue[v] = Emulation!NoOps
    /\ pc[v] = "guest" /\ expected[v] # NULL => expected[v] = Visible(v)
    /\ pc[v] = "pinned" => Waiting(v, vmcs[v].exit)
    /\ pc[v] = "host" => Waiting(v, op[v])
    /\ pc[v] = "queued" /\ expected[v] # NULL => expected[v] = Answering(v)
    /\ queue[v].cr # NULL /\ ~op[v].rsp => queue[v].cr.from = v
EmulationShape ==
    /\ Emulation!TypeOK
    /\ vmcs = [v \in Vcpu |-> vmcs[v]] /\ op = [v \in Vcpu |-> op[v]]
    /\ queue = [v \in Vcpu |-> queue[v]] /\ expected = [v \in Vcpu |-> expected[v]]
    /\ \A v \in Vcpu : vmcs[v] = [rip |-> vmcs[v].rip, cr |-> vmcs[v].cr,
                                  fault |-> vmcs[v].fault, exit |-> vmcs[v].exit]
EmulationInv == EmulationShape /\ \A v \in Vcpu : Emulating(v)

\* What the guest may expect of an instruction depends on the cpu and on where
\* the guest is.
LEMMA ReferenceKept ==
    ASSUME NEW v \in Vcpu, NEW i, have' = have, vmcs'[v].rip = vmcs[v].rip
    PROVE  Emulation!Reference(v, i)' = Emulation!Reference(v, i)
  <1>1. Emulation!Succeeds(v, i)' = Emulation!Succeeds(v, i)
    BY Zenon DEF Emulation!Succeeds
  <1>2. Emulation!Doubtful(i)' = Emulation!Doubtful(i) BY Zenon DEF Emulation!Doubtful
  <1> QED BY <1>1, <1>2, Zenon DEF Emulation!Reference

\* Whether an access exits depends on the cpu alone.
LEMMA ExitedKept ==
    ASSUME NEW i, have' = have
    PROVE  Exited(i)' = Exited(i)
  BY Zenon DEF Exited

\* A step leaves alone the vcpus whose state it does not touch.
LEMMA OthersEmulate ==
    ASSUME EmulationInv, NEW w \in Vcpu, have' = have, vmcs'[w] = vmcs[w], op'[w] = op[w],
           queue'[w] = queue[w], expected'[w] = expected[w], pc'[w] = pc[w],
           ~preempted'[w] => current' = w /\ loaded' = w,
           pc[w] \in {"guest", "pinned"} => ~preempted'[w]
    PROVE  Emulating(w)'
  <1>1. Emulating(w) BY Zenon DEF EmulationInv
  <1>2. Answering(w)' = Answering(w) BY Zenon DEF Answering
  <1>3. Visible(w)' = Visible(w) BY Zenon DEF Visible
  <1>4. ASSUME NEW i PROVE Waiting(w, i) => Waiting(w, i)'
    <2>1. Emulation!Reference(w, i)' = Emulation!Reference(w, i) BY ReferenceKept, Zenon
    <2>2. Exited(i)' = Exited(i) BY ExitedKept, Zenon
    <2> QED BY <2>1, <2>2, Zenon DEF Waiting
  <1>5. ASSUME pc'[w] = "pinned" PROVE Waiting(w, vmcs[w].exit)' BY <1>1, <1>4, <1>5, Zenon DEF Emulating
  <1>6. ASSUME pc'[w] = "host" PROVE Waiting(w, op[w])' BY <1>1, <1>4, <1>6, Zenon DEF Emulating
  <1> QED BY <1>1, <1>2, <1>3, <1>5, <1>6, Zenon DEF Emulating

\* At first the root's vcpu is in the guest.
LEMMA EmulationInitInv ==
    ASSUME EmulationAssumption, Emulation!Init
    PROVE  EmulationInv
  <1> DEFINE m == [rip |-> 0, cr |-> NULL, fault |-> NULL, exit |-> NULL]
             e == [rip |-> 0, cr |-> NULL, fault |-> NULL]
  <1>1. /\ have \in FeatureSets /\ vmcs = [v \in Vcpu |-> m] /\ loaded = RootVcpu /\ current = RootVcpu
        /\ preempted = [v \in Vcpu |-> v # RootVcpu]
        /\ pc = [v \in Vcpu |-> IF v = RootVcpu THEN "guest" ELSE "queued"]
        /\ op = [v \in Vcpu |-> NULL] /\ queue = [v \in Vcpu |-> Emulation!NoOps]
        /\ expected = [v \in Vcpu |-> e]
    BY Zenon DEF Emulation!Init
  <1>2. /\ m.rip = 0 /\ m.cr = NULL /\ m.fault = NULL
        /\ m = [rip |-> m.rip, cr |-> m.cr, fault |-> m.fault, exit |-> m.exit]
        /\ e = [rip |-> m.rip, cr |-> m.cr, fault |-> m.fault]
    BY Zenon
  <1>3. /\ Emulation!NoOps.advance = FALSE /\ Emulation!NoOps.cr = NULL /\ Emulation!NoOps.fault = NULL
    BY Zenon DEF Emulation!NoOps
  <1> HIDE DEF m, e
  <1>4. Emulation!TypeOK BY <1>1, Zenon DEF Emulation!TypeOK, EmulationAssumption
  <1>5. \A v \in Vcpu : vmcs[v] = m BY <1>1, Zenon
  <1>6. EmulationShape
    <2>1. /\ vmcs = [v \in Vcpu |-> vmcs[v]] /\ op = [v \in Vcpu |-> op[v]]
          /\ queue = [v \in Vcpu |-> queue[v]] /\ expected = [v \in Vcpu |-> expected[v]]
      BY <1>1, Zenon
    <2> QED BY <1>2, <1>4, <1>5, <2>1, Zenon DEF EmulationShape
  <1>7. ASSUME NEW v \in Vcpu PROVE Emulating(v)
    <2>1. /\ preempted[v] = (v # RootVcpu) /\ pc[v] = (IF v = RootVcpu THEN "guest" ELSE "queued")
          /\ queue[v] = Emulation!NoOps /\ expected[v] = e /\ vmcs[v] = m
      BY <1>1, Zenon
    <2>2. Visible(v) = e BY <1>2, <2>1, Zenon DEF Visible
    <2>3. Answering(v) = e BY <1>2, <1>3, <2>1, Zenon DEF Answering
    <2>4. queue[v].cr = NULL BY <1>3, <2>1, Zenon
    <2>5. CASE v = RootVcpu
      <3>1. pc[v] = "guest" /\ preempted[v] = FALSE BY <2>1, <2>5, Zenon
      <3> QED BY <1>1, <2>1, <2>2, <2>4, <2>5, <3>1, Zenon DEF Emulating
    <2>6. CASE v # RootVcpu
      <3>1. pc[v] = "queued" /\ preempted[v] = TRUE BY <2>1, <2>6, Zenon
      <3> QED BY <2>1, <2>3, <2>4, <3>1, Zenon DEF Emulating
    <2> QED BY <2>5, <2>6, Zenon
  <1> QED BY <1>6, <1>7, Zenon DEF EmulationInv

\* What a vcpu that runs has.
LEMMA OwnVmcsLoaded ==
    ASSUME EmulationInv, NEW v \in Vcpu, pc[v] \in {"guest", "pinned"}
    PROVE  loaded = v /\ current = v /\ preempted[v] = FALSE
  <1>1. Emulating(v) BY Zenon DEF EmulationInv
  <1>2. preempted[v] \in BOOLEAN BY Zenon DEF EmulationInv, EmulationShape, Emulation!TypeOK
  <1> QED BY <1>1, <1>2, Zenon DEF Emulating

\* What changing the vmcs of a vcpu leaves.
LEMMA VmcsChanged ==
    ASSUME EmulationInv, NEW v \in Vcpu, NEW m, vmcs' = [vmcs EXCEPT ![v] = m],
           m = [rip |-> m.rip, cr |-> m.cr, fault |-> m.fault, exit |-> m.exit]
    PROVE  /\ vmcs'[v] = m /\ \A w \in Vcpu \ {v} : vmcs'[w] = vmcs[w]
           /\ vmcs' = [w \in Vcpu |-> vmcs'[w]]
           /\ \A w \in Vcpu : vmcs'[w] = [rip |-> vmcs'[w].rip, cr |-> vmcs'[w].cr,
                                          fault |-> vmcs'[w].fault, exit |-> vmcs'[w].exit]
  <1>1. /\ vmcs = [w \in Vcpu |-> vmcs[w]]
        /\ \A w \in Vcpu : vmcs[w] = [rip |-> vmcs[w].rip, cr |-> vmcs[w].cr,
                                      fault |-> vmcs[w].fault, exit |-> vmcs[w].exit]
    BY Zenon DEF EmulationInv, EmulationShape
  <1>2. vmcs'[v] = m /\ \A w \in Vcpu \ {v} : vmcs'[w] = vmcs[w] BY <1>1, Zenon
  <1>3. vmcs' = [w \in Vcpu |-> vmcs'[w]] BY <1>1, Zenon
  <1>4. \A w \in Vcpu : vmcs'[w] = [rip |-> vmcs'[w].rip, cr |-> vmcs'[w].cr,
                                    fault |-> vmcs'[w].fault, exit |-> vmcs'[w].exit]
    BY <1>1, <1>2, Zenon
  <1> QED BY <1>2, <1>3, <1>4, Zenon

\* The instruction exits.
LEMMA EmulExitStep ==
    ASSUME EmulationInv, NEW v \in Vcpu, NEW i \in Emulation!Instr, Emulation!Exit(v, i)
    PROVE  EmulationInv'
  <1>1. /\ pc[v] = "guest" /\ pc' = [pc EXCEPT ![v] = "pinned"]
        /\ vmcs' = [vmcs EXCEPT ![loaded] = [rip |-> vmcs[loaded].rip, cr |-> NULL, fault |-> NULL, exit |-> i]]
        /\ expected' = [expected EXCEPT ![v] = Emulation!Reference(v, i)]
        /\ have' = have /\ loaded' = loaded /\ current' = current /\ preempted' = preempted
        /\ op' = op /\ queue' = queue
    BY Zenon DEF Emulation!Exit
  <1>2. loaded = v /\ current = v /\ preempted[v] = FALSE
    <2>1. pc[v] \in {"guest", "pinned"} BY <1>1, Zenon
    <2> QED BY <2>1, OwnVmcsLoaded, Zenon
  <1> DEFINE m == [rip |-> vmcs[v].rip, cr |-> NULL, fault |-> NULL, exit |-> i]
  <1>3. /\ m.rip = vmcs[v].rip /\ m.cr = NULL /\ m.fault = NULL /\ m.exit = i
        /\ m = [rip |-> m.rip, cr |-> m.cr, fault |-> m.fault, exit |-> m.exit]
    BY Zenon
  <1>4. vmcs' = [vmcs EXCEPT ![v] = m]
    BY <1>1, <1>2, Zenon
  <1> HIDE DEF m
  <1>5. /\ vmcs'[v] = m /\ \A w \in Vcpu \ {v} : vmcs'[w] = vmcs[w]
        /\ vmcs' = [w \in Vcpu |-> vmcs'[w]]
        /\ \A w \in Vcpu : vmcs'[w] = [rip |-> vmcs'[w].rip, cr |-> vmcs'[w].cr,
                                       fault |-> vmcs'[w].fault, exit |-> vmcs'[w].exit]
    BY <1>3, <1>4, VmcsChanged, Zenon
  <1>6. /\ pc \in [Vcpu -> {"guest", "pinned", "host", "queued"}]
        /\ expected = [w \in Vcpu |-> expected[w]]
    BY Zenon DEF EmulationInv, EmulationShape, Emulation!TypeOK
  <1>7. /\ pc'[v] = "pinned" /\ \A w \in Vcpu \ {v} : pc'[w] = pc[w]
        /\ pc' \in [Vcpu -> {"guest", "pinned", "host", "queued"}]
    BY <1>1, <1>6, Zenon
  <1>8. /\ expected'[v] = Emulation!Reference(v, i)
        /\ \A w \in Vcpu \ {v} : expected'[w] = expected[w]
        /\ expected' = [w \in Vcpu |-> expected'[w]]
    BY <1>1, <1>6, Zenon
  <1>9. EmulationShape'
    BY <1>1, <1>5, <1>7, <1>8, Zenon DEF EmulationInv, EmulationShape, Emulation!TypeOK
  <1>10. Emulating(v)'
    <2>1. Emulation!Reference(v, i)' = Emulation!Reference(v, i)
      <3>1. vmcs'[v].rip = vmcs[v].rip BY <1>3, <1>5, Zenon
      <3> QED BY <1>1, <3>1, ReferenceKept, Zenon
    <2>2. vmcs'[v].exit = i /\ vmcs'[v].cr = NULL /\ vmcs'[v].fault = NULL BY <1>3, <1>5, Zenon
    <2>0. Exited(i)'
      <3>1. Exited(i) BY Zenon DEF Exited, Emulation!Exit
      <3> QED BY <1>1, <3>1, ExitedKept, Zenon
    <2>3. Waiting(v, vmcs[v].exit)' BY <1>8, <2>0, <2>1, <2>2, Zenon DEF Waiting
    <2>4. queue[v] = Emulation!NoOps BY <1>1, Zenon DEF EmulationInv, Emulating
    <2>5. queue[v].cr = NULL BY <2>4 DEF Emulation!NoOps
    <2> QED BY <1>1, <1>2, <1>7, <2>3, <2>4, <2>5, Zenon DEF Emulating
  <1>11. ASSUME NEW w \in Vcpu, w # v PROVE Emulating(w)'
    <2>1. Emulating(w) BY Zenon DEF EmulationInv
    <2>2. /\ vmcs'[w] = vmcs[w] /\ op'[w] = op[w] /\ queue'[w] = queue[w]
          /\ expected'[w] = expected[w] /\ pc'[w] = pc[w]
      BY <1>1, <1>5, <1>7, <1>8, <1>11, Zenon
    <2>3. /\ ~preempted'[w] => current' = w /\ loaded' = w
          /\ pc[w] \in {"guest", "pinned"} => ~preempted'[w]
      BY <1>1, <2>1, Zenon DEF Emulating
    <2> QED BY <1>1, <2>2, <2>3, OthersEmulate, Zenon
  <1> QED BY <1>9, <1>10, <1>11, Zenon DEF EmulationInv

\* The handler has the exit of its own vcpu.
LEMMA ReadExitStep ==
    ASSUME EmulationInv, NEW v \in Vcpu, Emulation!ReadExit(v)
    PROVE  EmulationInv'
  <1>1. /\ pc[v] = "pinned" /\ pc' = [pc EXCEPT ![v] = "host"]
        /\ vmcs' = [vmcs EXCEPT ![loaded] = [vmcs[loaded] EXCEPT !.exit = NULL]]
        /\ op' = [op EXCEPT ![v] = vmcs[loaded].exit]
        /\ have' = have /\ loaded' = loaded /\ current' = current /\ preempted' = preempted
        /\ expected' = expected /\ queue' = queue
    BY Zenon DEF Emulation!ReadExit
  <1>2. loaded = v /\ current = v /\ preempted[v] = FALSE
    <2>1. pc[v] \in {"guest", "pinned"} BY <1>1, Zenon
    <2> QED BY <2>1, OwnVmcsLoaded, Zenon
  <1> DEFINE m == [rip |-> vmcs[v].rip, cr |-> vmcs[v].cr, fault |-> vmcs[v].fault, exit |-> NULL]
  <1>3. /\ m.rip = vmcs[v].rip /\ m.cr = vmcs[v].cr /\ m.fault = vmcs[v].fault
        /\ m = [rip |-> m.rip, cr |-> m.cr, fault |-> m.fault, exit |-> m.exit]
    BY Zenon
  <1>4. vmcs' = [vmcs EXCEPT ![v] = m]
    <2>1. vmcs[v] = [rip |-> vmcs[v].rip, cr |-> vmcs[v].cr, fault |-> vmcs[v].fault,
                     exit |-> vmcs[v].exit]
      BY Zenon DEF EmulationInv, EmulationShape
    <2>2. [vmcs[v] EXCEPT !.exit = NULL] = m BY <2>1
    <2> QED BY <1>1, <1>2, <2>2, Zenon
  <1> HIDE DEF m
  <1>5. /\ vmcs'[v] = m /\ \A w \in Vcpu \ {v} : vmcs'[w] = vmcs[w]
        /\ vmcs' = [w \in Vcpu |-> vmcs'[w]]
        /\ \A w \in Vcpu : vmcs'[w] = [rip |-> vmcs'[w].rip, cr |-> vmcs'[w].cr,
                                       fault |-> vmcs'[w].fault, exit |-> vmcs'[w].exit]
    BY <1>3, <1>4, VmcsChanged, Zenon
  <1>6. /\ pc \in [Vcpu -> {"guest", "pinned", "host", "queued"}]
        /\ op = [w \in Vcpu |-> op[w]]
    BY Zenon DEF EmulationInv, EmulationShape, Emulation!TypeOK
  <1>7. /\ pc'[v] = "host" /\ \A w \in Vcpu \ {v} : pc'[w] = pc[w]
        /\ pc' \in [Vcpu -> {"guest", "pinned", "host", "queued"}]
    BY <1>1, <1>6, Zenon
  <1>8. /\ op'[v] = vmcs[v].exit /\ \A w \in Vcpu \ {v} : op'[w] = op[w]
        /\ op' = [w \in Vcpu |-> op'[w]]
    BY <1>1, <1>2, <1>6, Zenon
  <1>9. EmulationShape'
    BY <1>1, <1>5, <1>7, <1>8, Zenon DEF EmulationInv, EmulationShape, Emulation!TypeOK
  <1>10. Emulating(v)'
    <2>1. Waiting(v, vmcs[v].exit) BY <1>1, Zenon DEF EmulationInv, Emulating
    <2>2. vmcs'[v].rip = vmcs[v].rip /\ vmcs'[v].cr = vmcs[v].cr /\ vmcs'[v].fault = vmcs[v].fault
      BY <1>3, <1>5, Zenon
    <2>3. \A i : Waiting(v, i) /\ op'[v] = i => Waiting(v, op[v])'
      BY <1>1, <2>2, ReferenceKept, ExitedKept, Zenon DEF Waiting
    <2>4. Waiting(v, op[v])' BY <1>8, <2>1, <2>3, Zenon
    <2>5. queue[v] = Emulation!NoOps BY <1>1, Zenon DEF EmulationInv, Emulating
    <2>6. queue[v].cr = NULL BY <2>5 DEF Emulation!NoOps
    <2> QED BY <1>1, <1>2, <1>7, <2>4, <2>5, <2>6, Zenon DEF Emulating
  <1>11. ASSUME NEW w \in Vcpu, w # v PROVE Emulating(w)'
    <2>1. Emulating(w) BY Zenon DEF EmulationInv
    <2>2. /\ vmcs'[w] = vmcs[w] /\ op'[w] = op[w] /\ queue'[w] = queue[w]
          /\ expected'[w] = expected[w] /\ pc'[w] = pc[w]
      BY <1>1, <1>5, <1>7, <1>8, <1>11, Zenon
    <2>3. /\ ~preempted'[w] => current' = w /\ loaded' = w
          /\ pc[w] \in {"guest", "pinned"} => ~preempted'[w]
      BY <1>1, <2>1, Zenon DEF Emulating
    <2> QED BY <1>1, <2>2, <2>3, OthersEmulate, Zenon
  <1> QED BY <1>9, <1>10, <1>11, Zenon DEF EmulationInv

\* The handler queues its answer, which is what the guest may expect.
LEMMA QueueStep ==
    ASSUME EmulationAssumption, EmulationInv, NEW v \in Vcpu, Emulation!Queue(v)
    PROVE  EmulationInv'
  <1>1. /\ pc[v] = "host" /\ pc' = [pc EXCEPT ![v] = "queued"]
        /\ queue' = [queue EXCEPT ![v] = Emulation!Answer(v, op[v])]
        /\ have' = have /\ vmcs' = vmcs /\ loaded' = loaded /\ current' = current
        /\ preempted' = preempted /\ expected' = expected /\ op' = op
    BY Zenon DEF Emulation!Queue
  <1>2. /\ pc \in [Vcpu -> {"guest", "pinned", "host", "queued"}] /\ queue = [w \in Vcpu |-> queue[w]]
        /\ have \in FeatureSets /\ loaded \in Vcpu
    BY Zenon DEF EmulationInv, EmulationShape, Emulation!TypeOK
  <1>3. /\ pc'[v] = "queued" /\ \A w \in Vcpu \ {v} : pc'[w] = pc[w]
        /\ pc' \in [Vcpu -> {"guest", "pinned", "host", "queued"}]
    BY <1>1, <1>2, Zenon
  <1>4. /\ queue'[v] = Emulation!Answer(v, op[v]) /\ \A w \in Vcpu \ {v} : queue'[w] = queue[w]
        /\ queue' = [w \in Vcpu |-> queue'[w]]
    BY <1>1, <1>2, Zenon
  <1>5. EmulationShape'
    BY <1>1, <1>3, <1>4, Zenon DEF EmulationInv, EmulationShape, Emulation!TypeOK
  <1>6. Emulating(v) /\ Waiting(v, op[v]) BY <1>1, Zenon DEF EmulationInv, Emulating
  <1>7. PICK i \in Emulation!Instr : i = op[v] BY <1>6, Zenon DEF Waiting
  <1>8. ASSUME expected[v] # NULL PROVE expected[v] = Answering(v)'
    <2>1. expected[v] = Emulation!Reference(v, i) /\ ~Emulation!Doubtful(i)
      BY <1>6, <1>7, <1>8, Zenon DEF Waiting, Emulation!Reference
    <2>2. Emulation!Succeeds(v, i) <=> Emulation!Answered(v, i)
      <3>1. Exited(i) BY <1>6, <1>7, Zenon DEF Waiting
      <3> QED BY <1>2, <2>1, <3>1, VerdictAgrees, Zenon
    <2>3. vmcs[v].cr = NULL /\ vmcs[v].fault = NULL BY <1>6, Zenon DEF Waiting
    <2>4. queue'[v] = Emulation!Answer(v, i) BY <1>4, <1>7, Zenon
    <2>5. CASE Emulation!Answered(v, i)
      <3> DEFINE r == IF i.kind = "mov_cr" THEN Emulation!Moved(v, i) ELSE NULL
      <3>1. queue'[v] = [advance |-> TRUE, fault |-> NULL, cr |-> r]
        BY <2>4, <2>5, Zenon DEF Emulation!Answer
      <3>2. queue'[v].advance = TRUE /\ queue'[v].fault = NULL /\ queue'[v].cr = r BY <3>1
      <3>3. expected[v] = [rip |-> (vmcs[v].rip + 1) % Wrap, fault |-> NULL,
                           cr |-> IF i.kind = "mov_cr" THEN <<i.cr, i.bits>> ELSE NULL]
        BY <2>1, <2>2, <2>5, Zenon DEF Emulation!Reference
      <3>4. (IF queue'[v].cr # NULL THEN queue'[v].cr.val ELSE vmcs'[v].cr) =
              (IF i.kind = "mov_cr" THEN <<i.cr, i.bits>> ELSE NULL)
        <4>1. CASE i.kind = "mov_cr"
          <5>1. PICK w \in Vcpu : Emulation!Moved(v, i) = [val |-> <<i.cr, i.bits>>, from |-> w]
            BY <1>2, Zenon DEF Emulation!Moved
          <5>2. queue'[v].cr = [val |-> <<i.cr, i.bits>>, from |-> w] BY <3>2, <4>1, <5>1, Zenon
          <5>3. queue'[v].cr # NULL BY <4>1, <5>2, Zenon DEF EmulationAssumption
          <5>4. queue'[v].cr.val = <<i.cr, i.bits>> BY <5>2
          <5> QED BY <4>1, <5>3, <5>4, Zenon
        <4>2. CASE i.kind # "mov_cr" BY <1>1, <2>3, <3>2, <4>2, Zenon
        <4> QED BY <4>1, <4>2, Zenon
      <3>5. Answering(v)' = [rip |-> (vmcs[v].rip + 1) % Wrap, fault |-> NULL,
                             cr |-> IF i.kind = "mov_cr" THEN <<i.cr, i.bits>> ELSE NULL]
        BY <1>1, <3>2, <3>4, Zenon DEF Answering
      <3> QED BY <3>3, <3>5, Zenon
    <2>6. CASE ~Emulation!Answered(v, i)
      <3>1. queue'[v] = [advance |-> FALSE, cr |-> NULL, fault |-> Emulation!Fault(i)]
        BY <2>4, <2>6, Zenon DEF Emulation!Answer
      <3>2. queue'[v].advance = FALSE /\ queue'[v].cr = NULL /\ queue'[v].fault = Emulation!Fault(i)
        BY <3>1
      <3>3. expected[v] = [rip |-> vmcs[v].rip, cr |-> NULL, fault |-> Emulation!Fault(i)]
        BY <2>1, <2>2, <2>6, Zenon DEF Emulation!Reference
      <3>4. Answering(v)' = [rip |-> vmcs[v].rip, cr |-> NULL, fault |-> Emulation!Fault(i)]
        BY <1>1, <2>3, <3>2, Zenon DEF Answering
      <3> QED BY <3>3, <3>4, Zenon
    <2> QED BY <2>5, <2>6, Zenon
  <1>9. ASSUME queue'[v].cr # NULL, ~op'[v].rsp PROVE queue'[v].cr.from = v
    <2>1. queue'[v] = Emulation!Answer(v, i) /\ op'[v] = i BY <1>1, <1>4, <1>7, Zenon
    <2>2. CASE ~Emulation!Answered(v, i)
      <3>1. queue'[v] = [advance |-> FALSE, cr |-> NULL, fault |-> Emulation!Fault(i)]
        BY <2>1, <2>2, Zenon DEF Emulation!Answer
      <3> QED BY <1>9, <3>1
    <2>3. CASE Emulation!Answered(v, i)
      <3> DEFINE r == IF i.kind = "mov_cr" THEN Emulation!Moved(v, i) ELSE NULL
      <3>1. queue'[v] = [advance |-> TRUE, fault |-> NULL, cr |-> r]
        BY <2>1, <2>3, Zenon DEF Emulation!Answer
      <3>2. queue'[v].cr = r BY <3>1
      <3>3. r = Emulation!Moved(v, i) BY <1>9, <3>2, Zenon
      <3>4. Emulation!Moved(v, i) = [val |-> <<i.cr, i.bits>>, from |-> v]
        BY <1>9, <2>1, Zenon DEF Emulation!Moved
      <3>5. queue'[v].cr = [val |-> <<i.cr, i.bits>>, from |-> v] BY <3>2, <3>3, <3>4, Zenon
      <3> QED BY <3>5
    <2> QED BY <2>2, <2>3, Zenon
  <1>10. Emulating(v)' BY <1>1, <1>3, <1>6, <1>8, <1>9, Zenon DEF Emulating
  <1>11. ASSUME NEW w \in Vcpu, w # v PROVE Emulating(w)'
    <2>1. Emulating(w) BY Zenon DEF EmulationInv
    <2>2. /\ vmcs'[w] = vmcs[w] /\ op'[w] = op[w] /\ queue'[w] = queue[w]
          /\ expected'[w] = expected[w] /\ pc'[w] = pc[w]
      BY <1>1, <1>3, <1>4, <1>11, Zenon
    <2>3. /\ ~preempted'[w] => current' = w /\ loaded' = w
          /\ pc[w] \in {"guest", "pinned"} => ~preempted'[w]
      BY <1>1, <2>1, Zenon DEF Emulating
    <2> QED BY <1>1, <2>2, <2>3, OthersEmulate, Zenon
  <1> QED BY <1>5, <1>10, <1>11, Zenon DEF EmulationInv

\* __venter does what is queued, in the vmcs of its own vcpu.
LEMMA EmulEnterStep ==
    ASSUME EmulationInv, NEW v \in Vcpu, Emulation!Enter(v)
    PROVE  EmulationInv'
  <1>0. Emulating(v) BY Zenon DEF EmulationInv
  <1>1. current = v /\ Emulation!Reloaded(v) = v
    <2>1. preempted[v] \in BOOLEAN BY Zenon DEF EmulationInv, EmulationShape, Emulation!TypeOK
    <2> QED BY <1>0, <2>1, Zenon DEF Emulation!Enter, Emulation!Reloaded, Emulating
  <1> DEFINE m == [cr |-> IF queue[v].cr # NULL THEN queue[v].cr.val ELSE vmcs[v].cr,
                   rip |-> IF queue[v].advance THEN (vmcs[v].rip + 1) % Wrap ELSE vmcs[v].rip,
                   fault |-> queue[v].fault, exit |-> vmcs[v].exit]
  <1>2. /\ pc[v] = "queued" /\ pc' = [pc EXCEPT ![v] = "guest"]
        /\ loaded' = v /\ preempted' = [preempted EXCEPT ![v] = FALSE]
        /\ vmcs' = [vmcs EXCEPT ![v] = m]
        /\ queue' = [queue EXCEPT ![v] = Emulation!NoOps] /\ op' = [op EXCEPT ![v] = NULL]
        /\ have' = have /\ current' = current /\ expected' = expected
    BY <1>1, Zenon DEF Emulation!Enter
  <1>3. /\ m = [rip |-> m.rip, cr |-> m.cr, fault |-> m.fault, exit |-> m.exit]
        /\ [rip |-> m.rip, cr |-> m.cr, fault |-> m.fault] = Answering(v)
    BY Zenon DEF Answering
  <1> HIDE DEF m
  <1>5. /\ vmcs'[v] = m /\ \A w \in Vcpu \ {v} : vmcs'[w] = vmcs[w]
        /\ vmcs' = [w \in Vcpu |-> vmcs'[w]]
        /\ \A w \in Vcpu : vmcs'[w] = [rip |-> vmcs'[w].rip, cr |-> vmcs'[w].cr,
                                       fault |-> vmcs'[w].fault, exit |-> vmcs'[w].exit]
    BY <1>2, <1>3, VmcsChanged, Zenon
  <1>6. /\ pc \in [Vcpu -> {"guest", "pinned", "host", "queued"}] /\ preempted \in [Vcpu -> BOOLEAN]
        /\ op = [w \in Vcpu |-> op[w]] /\ queue = [w \in Vcpu |-> queue[w]]
    BY Zenon DEF EmulationInv, EmulationShape, Emulation!TypeOK
  <1>7. /\ pc'[v] = "guest" /\ \A w \in Vcpu \ {v} : pc'[w] = pc[w]
        /\ pc' \in [Vcpu -> {"guest", "pinned", "host", "queued"}]
        /\ preempted'[v] = FALSE /\ \A w \in Vcpu \ {v} : preempted'[w] = preempted[w]
        /\ preempted' \in [Vcpu -> BOOLEAN]
    BY <1>2, <1>6, Zenon
  <1>8. /\ queue'[v] = Emulation!NoOps /\ \A w \in Vcpu \ {v} : queue'[w] = queue[w]
        /\ queue' = [w \in Vcpu |-> queue'[w]]
        /\ \A w \in Vcpu \ {v} : op'[w] = op[w]
        /\ op' = [w \in Vcpu |-> op'[w]]
    BY <1>2, <1>6, Zenon
  <1>9. EmulationShape'
    BY <1>2, <1>5, <1>7, <1>8, Zenon DEF EmulationInv, EmulationShape, Emulation!TypeOK
  <1>10. Emulating(v)'
    <2>1. Visible(v)' = Answering(v) BY <1>3, <1>5, Zenon DEF Visible
    <2>2. expected[v] # NULL => expected'[v] = Visible(v)'
      BY <1>0, <1>2, <2>1, Zenon DEF Emulating
    <2>3. queue'[v].cr = NULL BY <1>8 DEF Emulation!NoOps
    <2> QED BY <1>1, <1>2, <1>7, <1>8, <2>2, <2>3, Zenon DEF Emulating
  <1>11. ASSUME NEW w \in Vcpu, w # v PROVE Emulating(w)'
    <2>1. Emulating(w) BY Zenon DEF EmulationInv
    <2>2. /\ vmcs'[w] = vmcs[w] /\ op'[w] = op[w] /\ queue'[w] = queue[w]
          /\ expected'[w] = expected[w] /\ pc'[w] = pc[w] /\ preempted'[w] = preempted[w]
      BY <1>2, <1>5, <1>7, <1>8, <1>11, Zenon
    <2>3. preempted[w] BY <1>1, <1>11, <2>1, Zenon DEF Emulating
    <2>4. pc[w] \notin {"guest", "pinned"} BY <2>1, <2>3, Zenon DEF Emulating
    <2>5. /\ ~preempted'[w] => current' = w /\ loaded' = w
          /\ pc[w] \in {"guest", "pinned"} => ~preempted'[w]
      BY <2>2, <2>3, <2>4, Zenon
    <2> QED BY <1>2, <2>2, <2>5, OthersEmulate, Zenon
  <1> QED BY <1>9, <1>10, <1>11, Zenon DEF EmulationInv

\* Another vcpu is dispatched.
LEMMA EmulPreemptStep ==
    ASSUME EmulationInv, NEW v \in Vcpu, NEW u \in Vcpu, Emulation!Preempt(v, u)
    PROVE  EmulationInv'
  <1>1. /\ current = v /\ v # u /\ pc[v] \in {"host", "queued"} /\ current' = u
        /\ preempted' = [preempted EXCEPT ![v] = TRUE]
        /\ have' = have /\ vmcs' = vmcs /\ loaded' = loaded /\ pc' = pc /\ op' = op
        /\ queue' = queue /\ expected' = expected
    BY Zenon DEF Emulation!Preempt
  <1>2. preempted \in [Vcpu -> BOOLEAN]
    BY Zenon DEF EmulationInv, EmulationShape, Emulation!TypeOK
  <1>3. /\ preempted' \in [Vcpu -> BOOLEAN] /\ preempted'[v] = TRUE
        /\ \A w \in Vcpu \ {v} : preempted'[w] = preempted[w]
    BY <1>1, <1>2, Zenon
  <1>4. EmulationShape' BY <1>1, <1>3, Zenon DEF EmulationInv, EmulationShape, Emulation!TypeOK
  <1>5. ASSUME NEW w \in Vcpu PROVE Emulating(w)'
    <2>1. Emulating(w) BY Zenon DEF EmulationInv
    <2>2. preempted'[w]
      <3>1. CASE w = v BY <1>3, <3>1, Zenon
      <3>2. CASE w # v
        <4>1. preempted[w] BY <1>1, <2>1, <3>2, Zenon DEF Emulating
        <4> QED BY <1>3, <3>2, <4>1, Zenon
      <3> QED BY <3>1, <3>2, Zenon
    <2>3. pc[w] \notin {"guest", "pinned"}
      <3>1. CASE w = v BY <1>1, <3>1, Zenon
      <3>2. CASE w # v
        <4>1. preempted[w] BY <1>1, <2>1, <3>2, Zenon DEF Emulating
        <4> QED BY <2>1, <4>1, Zenon DEF Emulating
      <3> QED BY <3>1, <3>2, Zenon
    <2>4. /\ vmcs'[w] = vmcs[w] /\ op'[w] = op[w] /\ queue'[w] = queue[w]
          /\ expected'[w] = expected[w] /\ pc'[w] = pc[w]
          /\ ~preempted'[w] => current' = w /\ loaded' = w
          /\ pc[w] \in {"guest", "pinned"} => ~preempted'[w]
      BY <1>1, <2>2, <2>3, Zenon
    <2> QED BY <1>1, <2>4, OthersEmulate, Zenon
  <1> QED BY <1>4, <1>5, Zenon DEF EmulationInv

\* No step of an emulation leaves the invariant.
LEMMA EmulationNextInv ==
    ASSUME EmulationAssumption, EmulationInv, [Emulation!Next]_(Emulation!vars)
    PROVE  EmulationInv'
  <1>1. CASE \E v \in Vcpu, i \in Emulation!Instr : Emulation!Exit(v, i) BY <1>1, EmulExitStep, Zenon
  <1>2. CASE \E v \in Vcpu : Emulation!ReadExit(v) BY <1>2, ReadExitStep, Zenon
  <1>3. CASE \E v \in Vcpu : Emulation!Queue(v) BY <1>3, QueueStep, Zenon
  <1>4. CASE \E v \in Vcpu : Emulation!Enter(v) BY <1>4, EmulEnterStep, Zenon
  <1>5. CASE \E v, w \in Vcpu : Emulation!Preempt(v, w) BY <1>5, EmulPreemptStep, Zenon
  <1>6. CASE UNCHANGED Emulation!vars
    <2>1. /\ have' = have /\ vmcs' = vmcs /\ loaded' = loaded /\ pc' = pc /\ op' = op
          /\ queue' = queue /\ expected' = expected /\ current' = current /\ preempted' = preempted
      BY <1>6, Zenon DEF Emulation!vars
    <2>2. EmulationShape' BY <2>1, Zenon DEF EmulationInv, EmulationShape, Emulation!TypeOK
    <2>3. ASSUME NEW w \in Vcpu PROVE Emulating(w)'
      <3>1. Emulating(w) BY Zenon DEF EmulationInv
      <3>2. /\ ~preempted'[w] => current' = w /\ loaded' = w
            /\ pc[w] \in {"guest", "pinned"} => ~preempted'[w]
        BY <2>1, <3>1, Zenon DEF Emulating
      <3> QED BY <2>1, <3>2, OthersEmulate, Zenon
    <2> QED BY <2>2, <2>3, Zenon DEF EmulationInv
  <1> QED BY <1>1, <1>2, <1>3, <1>4, <1>5, <1>6, Zenon DEF Emulation!Next

\* The invariant compares what was done with what the instruction says.
LEMMA EmulationInvHolds ==
    ASSUME EmulationInv
    PROVE  Emulation!TypeOK /\ Emulation!EmulatedOnce /\ Emulation!OwnOperand
  BY Zenon DEF EmulationInv, EmulationShape, Emulating, Visible, Emulation!EmulatedOnce,
               Emulation!OwnOperand

\* An emulated instruction takes effect once, on the vcpu that executed it, with
\* the verdict of the machine that the guest is shown, wherever it is preempted.
THEOREM EmulationCorrect ==
    ASSUME EmulationAssumption
    PROVE  Emulation!Spec =>
             [](Emulation!TypeOK /\ Emulation!EmulatedOnce /\ Emulation!OwnOperand)
  <1>1. Emulation!Init => EmulationInv BY EmulationInitInv
  <1>2. EmulationInv /\ [Emulation!Next]_(Emulation!vars) => EmulationInv' BY EmulationNextInv
  <1>3. EmulationInv => Emulation!TypeOK /\ Emulation!EmulatedOnce /\ Emulation!OwnOperand
    BY EmulationInvHolds, Zenon
  <1> QED BY <1>1, <1>2, <1>3, PTL DEF Emulation!Spec

-----------------------------------------------------------------------------
(* Routes.                                                                    *)

CONSTANTS Vid, Caller, RouteType
VARIABLES valid, senders, receivers, call, writers, crashed, granted
Routes == INSTANCE VRoutes

\* The root has a vid.
RoutesAssumption == Routes!Root \in Vid

\* A call that is between its two entries holds the first one, whose partition
\* therefore stays in the table; every grant is between partitions of the table;
\* and no route has the root as its sender.
RoutesInv ==
    /\ Routes!TypeOK /\ Routes!RoutesAreGrants
    /\ \A a \in Caller : call[a] # NULL =>
         /\ call[a].sender \in Vid /\ call[a].target \in Vid /\ call[a].type \in RouteType
         /\ call[a].sender # Routes!Root /\ call[a].sender # call[a].target
         /\ Routes!Vid1(call[a].sender, call[a].target) \in valid
    /\ \A ty \in RouteType, s, t \in Vid : <<ty, s, t>> \in granted => s \in valid /\ t \in valid
    /\ \A ty \in RouteType : receivers[ty][Routes!Root] = {}
    /\ call \in [Caller -> {call[a] : a \in Caller}]

\* The routes at first.
LEMMA RoutesInitInv ==
    ASSUME RoutesAssumption, Routes!Init
    PROVE  RoutesInv
  <1>1. /\ valid = {Routes!Root} /\ writers = {} /\ granted = {}
        /\ call = [a \in Caller |-> NULL]
        /\ senders = [ty \in RouteType |-> [p \in Vid |-> {}]]
        /\ receivers = [ty \in RouteType |-> [p \in Vid |-> {}]]
    BY Zenon DEF Routes!Init, Routes!NoRoutes
  <1>2. Routes!TypeOK BY <1>1, Zenon DEF Routes!TypeOK, RoutesAssumption
  <1>3. \A ty \in RouteType, p \in Vid : senders[ty][p] = {} /\ receivers[ty][p] = {}
    BY <1>1, Zenon
  <1>4. Routes!RoutesAreGrants
    BY <1>1, <1>2, <1>3, Zenon DEF Routes!RoutesAreGrants, Routes!RouteIsGrant, Routes!TypeOK
  <1>5. \A a \in Caller : call[a] = NULL BY <1>1, Zenon
  <1>6. call \in [Caller -> {call[a] : a \in Caller}] BY <1>1, Zenon
  <1> QED BY <1>1, <1>2, <1>3, <1>4, <1>5, <1>6, Zenon DEF RoutesInv, RoutesAssumption

\* What a step that leaves the maps alone leaves true.
LEMMA GrantsKept ==
    ASSUME Routes!RoutesAreGrants, valid' = valid, senders' = senders, receivers' = receivers,
           granted' = granted
    PROVE  Routes!RoutesAreGrants'
  <1> SUFFICES ASSUME NEW ty \in RouteType, NEW s \in valid', NEW t \in valid'
               PROVE  Routes!RouteIsGrant(ty, s, t)'
    BY Zenon DEF Routes!RoutesAreGrants
  <1>1. Routes!RouteIsGrant(ty, s, t) BY Zenon DEF Routes!RoutesAreGrants
  <1> QED BY <1>1, Zenon DEF Routes!RouteIsGrant

\* A partition is created without routes, but for the root's.
LEMMA CreateStep ==
    ASSUME RoutesAssumption, RoutesInv, NEW p \in Routes!Guest, Routes!Create(p)
    PROVE  RoutesInv'
  <1>1. /\ p \notin valid /\ p \in Vid /\ p # Routes!Root
        /\ valid' = valid \cup {p} /\ writers' = writers /\ granted' = granted /\ call' = call
        /\ senders' = [ty \in RouteType |-> [senders[ty] EXCEPT ![p] = {Routes!Root}]]
        /\ receivers' = [ty \in RouteType |-> [receivers[ty] EXCEPT ![p] = {}]]
    BY Zenon DEF Routes!Create, Routes!Guest
  <1>2. /\ senders \in [RouteType -> [Vid -> SUBSET Vid]]
        /\ receivers \in [RouteType -> [Vid -> SUBSET Vid]]
        /\ Routes!Root \in valid /\ valid \subseteq Vid
    BY Zenon DEF RoutesInv, Routes!TypeOK
  <1>3. ASSUME NEW ty \in RouteType, NEW q \in Vid
        PROVE  /\ senders'[ty][q] = (IF q = p THEN {Routes!Root} ELSE senders[ty][q])
               /\ receivers'[ty][q] = (IF q = p THEN {} ELSE receivers[ty][q])
    BY <1>1, <1>2, Zenon
  <1>4. Routes!TypeOK'
    <2>1. \A ty \in RouteType : /\ [senders[ty] EXCEPT ![p] = {Routes!Root}] \in [Vid -> SUBSET Vid]
                                /\ [receivers[ty] EXCEPT ![p] = {}] \in [Vid -> SUBSET Vid]
      BY <1>1, <1>2, Zenon DEF RoutesAssumption
    <2> QED BY <1>1, <1>2, <2>1, Zenon DEF RoutesInv, Routes!TypeOK
  <1>5. \A ty \in RouteType, s, t \in Vid : <<ty, s, t>> \in granted => s # p /\ t # p
    BY <1>1, Zenon DEF RoutesInv
  <1>6. Routes!RoutesAreGrants'
    <2> SUFFICES ASSUME NEW ty \in RouteType, NEW s \in valid', NEW t \in valid'
                 PROVE  Routes!RouteIsGrant(ty, s, t)'
      BY Zenon DEF Routes!RoutesAreGrants
    <2> USE DEF Routes!RouteIsGrant
    <2>0. s \in Vid /\ t \in Vid /\ (s # p => s \in valid) /\ (t # p => t \in valid) BY <1>1, <1>2, Zenon
    <2>1. CASE s # p /\ t # p
      <3>1. s \in valid /\ t \in valid /\ senders'[ty][t] = senders[ty][t]
            /\ receivers'[ty][s] = receivers[ty][s]
        BY <1>3, <2>0, <2>1, Zenon
      <3> QED BY <1>1, <3>1, Zenon DEF RoutesInv, Routes!RoutesAreGrants
    <2>2. CASE t = p
      <3>1. senders'[ty][t] = {Routes!Root} BY <1>3, <2>0, <2>2, Zenon
      <3>2. <<ty, s, t>> \notin granted BY <1>5, <2>0, <2>2, Zenon
      <3>3. ty # Routes!VIPI => p \notin receivers'[ty][s] /\ receivers'[ty][s] \subseteq valid'
        <4>1. CASE s = p BY <1>3, <2>0, <4>1, Zenon
        <4>2. CASE s # p
          <5>1. receivers'[ty][s] = receivers[ty][s] /\ s \in valid BY <1>3, <2>0, <4>2, Zenon
          <5>2. ty # Routes!VIPI => receivers[ty][s] \subseteq valid
            BY <1>2, <5>1, Zenon DEF RoutesInv, Routes!RoutesAreGrants
          <5> QED BY <1>1, <5>1, <5>2, Zenon
        <4> QED BY <4>1, <4>2, Zenon
      <3> QED BY <1>1, <1>2, <2>2, <3>1, <3>2, <3>3, ZenonT(60)
    <2>3. CASE s = p /\ t # p
      <3>1. senders'[ty][t] = senders[ty][t] /\ t \in valid /\ receivers'[ty][s] = {}
        BY <1>3, <2>0, <2>3, Zenon
      <3>2. <<ty, s, t>> \notin granted BY <1>5, <2>0, <2>3, Zenon
      <3>3. ty # Routes!VIPI => senders[ty][t] \subseteq valid
        BY <1>2, <3>1, Zenon DEF RoutesInv, Routes!RoutesAreGrants
      <3> QED BY <1>1, <2>3, <3>1, <3>2, <3>3, Zenon
    <2> QED BY <2>1, <2>2, <2>3, Zenon
  <1>7. \A ty \in RouteType : receivers'[ty][Routes!Root] = {}
    <2>1. Routes!Root \in Vid /\ Routes!Root # p BY <1>1, <1>2, Zenon
    <2>2. \A ty \in RouteType : receivers'[ty][Routes!Root] = receivers[ty][Routes!Root]
      BY <1>3, <2>1, Zenon
    <2> QED BY <2>2, Zenon DEF RoutesInv
  <1> QED BY <1>1, <1>4, <1>6, <1>7, Zenon DEF RoutesInv, Routes!Vid1

\* The first entry of VSET_ROUTE is taken.
LEMMA SetRouteFirstStep ==
    ASSUME RoutesAssumption, RoutesInv, NEW a \in Caller, NEW s \in Vid, NEW t \in Vid,
           NEW ty \in RouteType, NEW allow \in BOOLEAN, Routes!SetRouteFirst(a, s, t, ty, allow)
    PROVE  RoutesInv'
  <1> DEFINE new == [sender |-> s, target |-> t, type |-> ty, allow |-> allow,
                     first |-> Routes!Vid1(s, t)]
  <1>1. /\ s # Routes!Root /\ s # t /\ Routes!Vid1(s, t) \in valid
        /\ call' = [call EXCEPT ![a] = new]
        /\ valid' = valid /\ senders' = senders /\ receivers' = receivers /\ writers' = writers
        /\ granted' = granted
    BY Zenon DEF Routes!SetRouteFirst
  <1>2. new.sender = s /\ new.target = t /\ new.type = ty BY Zenon
  <1> HIDE DEF new
  <1>3. call \in [Caller -> {call[b] : b \in Caller}] BY Zenon DEF RoutesInv
  <1>4. call'[a] = new /\ \A b \in Caller : b # a => call'[b] = call[b] BY <1>1, <1>3, Zenon
  <1>5. call' \in [Caller -> {call'[b] : b \in Caller}] BY <1>1, <1>3, Zenon
  <1>6. Routes!TypeOK' /\ Routes!RoutesAreGrants'
    <2>1. Routes!TypeOK' BY <1>1, Zenon DEF RoutesInv, Routes!TypeOK
    <2>2. Routes!RoutesAreGrants' BY <1>1, GrantsKept, Zenon DEF RoutesInv
    <2> QED BY <2>1, <2>2, Zenon
  <1>7. ASSUME NEW b \in Caller, call'[b] # NULL
        PROVE  /\ call'[b].sender \in Vid /\ call'[b].target \in Vid /\ call'[b].type \in RouteType
               /\ call'[b].sender # Routes!Root /\ call'[b].sender # call'[b].target
               /\ Routes!Vid1(call'[b].sender, call'[b].target) \in valid'
    <2>1. CASE b = a
      <3>1. call'[b].sender = s /\ call'[b].target = t /\ call'[b].type = ty BY <1>2, <1>4, <2>1, Zenon
      <3>2. Routes!Vid1(call'[b].sender, call'[b].target) = Routes!Vid1(s, t) BY <3>1, Zenon
      <3>3. Routes!Vid1(call'[b].sender, call'[b].target) \in valid' BY <1>1, <3>2
      <3> QED BY <1>1, <3>1, <3>3, Zenon
    <2>2. CASE b # a BY <1>1, <1>4, <1>7, <2>2, Zenon DEF RoutesInv
    <2> QED BY <2>1, <2>2, Zenon
  <1> QED BY <1>1, <1>5, <1>6, <1>7, Zenon DEF RoutesInv, Routes!Vid1

\* Both entries of VSET_ROUTE are held: both maps and the grant change together.
LEMMA SetRouteSecondStep ==
    ASSUME RoutesAssumption, RoutesInv, NEW a \in Caller, Routes!SetRouteSecond(a)
    PROVE  RoutesInv'
  <1> DEFINE s == call[a].sender
             t == call[a].target
             ty == call[a].type
             allow == call[a].allow
             both == Routes!Vid2(s, t) \in valid
  <1>1. /\ call[a] # NULL /\ call' = [call EXCEPT ![a] = NULL]
        /\ both => /\ receivers' = [receivers EXCEPT ![ty][s] = Routes!Put(@, t, allow)]
                   /\ senders' = [senders EXCEPT ![ty][t] = Routes!Put(@, s, allow)]
                   /\ granted' = Routes!Put(granted, <<ty, s, t>>, allow)
        /\ ~both => receivers' = receivers /\ senders' = senders /\ granted' = granted
        /\ valid' = valid /\ writers' = writers
    BY Zenon DEF Routes!SetRouteSecond
  <1>2. /\ s \in Vid /\ t \in Vid /\ ty \in RouteType /\ s # Routes!Root /\ s # t
        /\ Routes!Vid1(s, t) \in valid
    BY <1>1, Zenon DEF RoutesInv
  <1> HIDE DEF s, t, ty, allow
  <1>3. both => s \in valid /\ t \in valid BY <1>2, Zenon DEF Routes!Vid1, Routes!Vid2
  <1> HIDE DEF both
  <1>4. /\ senders \in [RouteType -> [Vid -> SUBSET Vid]]
        /\ receivers \in [RouteType -> [Vid -> SUBSET Vid]]
        /\ granted \subseteq RouteType \X Vid \X Vid
        /\ Routes!Root \in valid /\ valid \subseteq Vid
    BY Zenon DEF RoutesInv, Routes!TypeOK
  <1>5. call \in [Caller -> {call[b] : b \in Caller}] BY Zenon DEF RoutesInv
  <1>6. call'[a] = NULL /\ \A b \in Caller : b # a => call'[b] = call[b] BY <1>1, <1>5, Zenon
  <1>7. call' \in [Caller -> {call'[b] : b \in Caller}] BY <1>1, <1>5, Zenon
  <1>8. \A b \in Caller : call'[b] # NULL =>
          /\ call'[b].sender \in Vid /\ call'[b].target \in Vid /\ call'[b].type \in RouteType
          /\ call'[b].sender # Routes!Root /\ call'[b].sender # call'[b].target
          /\ Routes!Vid1(call'[b].sender, call'[b].target) \in valid'
    BY <1>1, <1>6, Zenon DEF RoutesInv
  <1>9. CASE ~both
    <2>1. receivers' = receivers /\ senders' = senders /\ granted' = granted /\ valid' = valid
          /\ writers' = writers
      BY <1>1, <1>9, Zenon
    <2>2. Routes!TypeOK' /\ Routes!RoutesAreGrants'
      <3>1. Routes!TypeOK' BY <2>1, Zenon DEF RoutesInv, Routes!TypeOK
      <3>2. Routes!RoutesAreGrants' BY <2>1, GrantsKept, Zenon DEF RoutesInv
      <3> QED BY <3>1, <3>2, Zenon
    <2> QED BY <1>7, <1>8, <2>1, <2>2, Zenon DEF RoutesInv, Routes!Vid1
  <1>10. CASE both
    <2>1. /\ receivers' = [receivers EXCEPT ![ty] = [receivers[ty] EXCEPT ![s] = Routes!Put(receivers[ty][s], t, allow)]]
          /\ senders' = [senders EXCEPT ![ty] = [senders[ty] EXCEPT ![t] = Routes!Put(senders[ty][t], s, allow)]]
          /\ granted' = Routes!Put(granted, <<ty, s, t>>, allow)
      BY <1>1, <1>10, Zenon
    <2>2. \A S \in SUBSET Vid, x \in Vid : Routes!Put(S, x, allow) \in SUBSET Vid BY Zenon DEF Routes!Put
    <2>3. senders' \in [RouteType -> [Vid -> SUBSET Vid]] /\ receivers' \in [RouteType -> [Vid -> SUBSET Vid]]
      BY <1>2, <1>4, <2>1, <2>2, Zenon
    <2>4. granted' \subseteq RouteType \X Vid \X Vid
      <3>1. <<ty, s, t>> \in RouteType \X Vid \X Vid BY <1>2, Zenon
      <3> QED BY <1>4, <2>1, <3>1, Zenon DEF Routes!Put
    <2>5. Routes!TypeOK' BY <1>1, <1>4, <2>3, <2>4, Zenon DEF RoutesInv, Routes!TypeOK
    <2>6. ASSUME NEW y \in RouteType, NEW q \in Vid
          PROVE  /\ senders'[y][q] = (IF y = ty /\ q = t THEN Routes!Put(senders[y][q], s, allow) ELSE senders[y][q])
                 /\ receivers'[y][q] = (IF y = ty /\ q = s THEN Routes!Put(receivers[y][q], t, allow) ELSE receivers[y][q])
      BY <1>2, <1>4, <2>1, Zenon
    <2>7. s \in valid /\ t \in valid BY <1>3, <1>10, Zenon
    <2>8. ASSUME NEW y \in RouteType, NEW u \in Vid, NEW v \in Vid
          PROVE  <<y, u, v>> \in granted' <=>
                   IF y = ty /\ u = s /\ v = t THEN allow ELSE <<y, u, v>> \in granted
      <3>1. <<y, u, v>> = <<ty, s, t>> <=> y = ty /\ u = s /\ v = t BY Zenon
      <3> QED BY <2>1, <3>1, Zenon DEF Routes!Put
    <2>9. Routes!RoutesAreGrants'
      <3> SUFFICES ASSUME NEW y \in RouteType, NEW u \in valid, NEW v \in valid
                   PROVE  Routes!RouteIsGrant(y, u, v)'
        BY <1>1, Zenon DEF Routes!RoutesAreGrants
      <3>0. u \in Vid /\ v \in Vid BY <1>4, Zenon
      <3>1. /\ <<y, u, v>> \in granted => u \in senders[y][v]
            /\ y # Routes!VIPI =>
                 /\ u \in senders[y][v] => u = Routes!Root \/ <<y, u, v>> \in granted
                 /\ u # Routes!Root => (v \in receivers[y][u] <=> u \in senders[y][v])
                 /\ senders[y][v] \subseteq valid /\ receivers[y][u] \subseteq valid
        BY Zenon DEF RoutesInv, Routes!RoutesAreGrants, Routes!RouteIsGrant
      <3>2. /\ u \in senders'[y][v] <=> IF y = ty /\ v = t /\ u = s THEN allow ELSE u \in senders[y][v]
            /\ v \in receivers'[y][u] <=> IF y = ty /\ v = t /\ u = s THEN allow ELSE v \in receivers[y][u]
        <4>1. CASE y = ty /\ v = t /\ u = s
          <5>1. senders'[y][v] = Routes!Put(senders[y][v], s, allow) /\ receivers'[y][u] = Routes!Put(receivers[y][u], t, allow)
            BY <2>6, <3>0, <4>1, Zenon
          <5> QED BY <4>1, <5>1, Zenon DEF Routes!Put
        <4>2. CASE ~(y = ty /\ v = t /\ u = s)
          <5>1. senders'[y][v] = senders[y][v] \/ (senders'[y][v] = Routes!Put(senders[y][v], s, allow) /\ u # s)
            BY <2>6, <3>0, <4>2, Zenon
          <5>2. receivers'[y][u] = receivers[y][u] \/ (receivers'[y][u] = Routes!Put(receivers[y][u], t, allow) /\ v # t)
            BY <2>6, <3>0, <4>2, Zenon
          <5>3. u \in senders'[y][v] <=> u \in senders[y][v] BY <5>1, Zenon DEF Routes!Put
          <5>4. v \in receivers'[y][u] <=> v \in receivers[y][u] BY <5>2, Zenon DEF Routes!Put
          <5> QED BY <4>2, <5>3, <5>4, Zenon
        <4> QED BY <4>1, <4>2, Zenon
      <3>3. y # Routes!VIPI => senders'[y][v] \subseteq valid /\ receivers'[y][u] \subseteq valid
        <4>1. senders'[y][v] \subseteq senders[y][v] \cup {s}
          <5>1. senders'[y][v] = senders[y][v] \/ senders'[y][v] = Routes!Put(senders[y][v], s, allow)
            BY <2>6, <3>0, Zenon
          <5> QED BY <5>1, Zenon DEF Routes!Put
        <4>2. receivers'[y][u] \subseteq receivers[y][u] \cup {t}
          <5>1. receivers'[y][u] = receivers[y][u] \/ receivers'[y][u] = Routes!Put(receivers[y][u], t, allow)
            BY <2>6, <3>0, Zenon
          <5> QED BY <5>1, Zenon DEF Routes!Put
        <4> QED BY <2>7, <3>1, <4>1, <4>2, Zenon
      <3>4. <<y, u, v>> \in granted' <=> IF y = ty /\ v = t /\ u = s THEN allow ELSE <<y, u, v>> \in granted
        BY <2>8, <3>0, Zenon
      <3> QED BY <1>1, <3>1, <3>2, <3>3, <3>4, ZenonT(60) DEF Routes!RouteIsGrant
    <2>10. \A y \in RouteType, u, v \in Vid : <<y, u, v>> \in granted' => u \in valid' /\ v \in valid'
      BY <1>1, <2>7, <2>8, Zenon DEF RoutesInv
    <2>11. \A y \in RouteType : receivers'[y][Routes!Root] = {}
      BY <1>2, <1>4, <2>6, ZenonT(60) DEF RoutesInv
    <2> QED BY <1>7, <1>8, <2>5, <2>9, <2>10, <2>11, ZenonT(60) DEF RoutesInv, Routes!Vid1
  <1> QED BY <1>9, <1>10, Zenon

\* vpartition_start_exclusive waits for the readers.
LEMMA StartExclusiveStep ==
    ASSUME RoutesAssumption, RoutesInv, NEW p \in Routes!Guest, Routes!StartExclusive(p)
    PROVE  RoutesInv'
  <1>1. /\ valid' = valid /\ senders' = senders /\ receivers' = receivers /\ call' = call
        /\ granted' = granted /\ writers' = writers \cup {p}
    BY Zenon DEF Routes!StartExclusive
  <1>2. Routes!TypeOK' BY <1>1, Zenon DEF RoutesInv, Routes!TypeOK
  <1>3. Routes!RoutesAreGrants'
    BY <1>1, GrantsKept, Zenon DEF RoutesInv
  <1> QED BY <1>1, <1>2, <1>3, Zenon DEF RoutesInv, Routes!Vid1

\* The teardown leaves no route of the partition that goes.
LEMMA FinalizeStep ==
    ASSUME RoutesAssumption, RoutesInv, NEW p \in Routes!Guest, Routes!Finalize(p)
    PROVE  RoutesInv'
  <1>1. /\ p \in valid /\ p \in Vid /\ p # Routes!Root /\ \A a \in Caller : call[a] = NULL
        /\ writers' = writers \ {p} /\ call' = call
        /\ \/ /\ valid' = valid /\ receivers' = receivers /\ senders' = senders /\ granted' = granted
           \/ /\ valid' = valid \ {p}
              /\ receivers' = [ty \in RouteType |-> Routes!UnwoundReceivers(ty, p)]
              /\ senders' = [ty \in RouteType |-> Routes!UnwoundSenders(ty, p)]
              /\ granted' = {g \in granted : g[2] # p /\ g[3] # p}
    BY Zenon DEF Routes!Finalize, Routes!Guest
  <1>2. /\ senders \in [RouteType -> [Vid -> SUBSET Vid]]
        /\ receivers \in [RouteType -> [Vid -> SUBSET Vid]]
        /\ granted \subseteq RouteType \X Vid \X Vid
        /\ Routes!Root \in valid /\ valid \subseteq Vid
    BY Zenon DEF RoutesInv, Routes!TypeOK
  <1>3. CASE valid' = valid /\ receivers' = receivers /\ senders' = senders /\ granted' = granted
    <2>1. Routes!TypeOK' BY <1>1, <1>3, Zenon DEF RoutesInv, Routes!TypeOK
    <2>2. Routes!RoutesAreGrants'
      BY <1>3, GrantsKept, Zenon DEF RoutesInv
    <2> QED BY <1>1, <1>3, <2>1, <2>2, Zenon DEF RoutesInv
  <1>4. CASE /\ valid' = valid \ {p}
             /\ receivers' = [ty \in RouteType |-> Routes!UnwoundReceivers(ty, p)]
             /\ senders' = [ty \in RouteType |-> Routes!UnwoundSenders(ty, p)]
             /\ granted' = {g \in granted : g[2] # p /\ g[3] # p}
    <2>1. ASSUME NEW ty \in RouteType, NEW q \in Vid
          PROVE  /\ receivers'[ty][q] = (IF q = p THEN {}
                       ELSE IF q \in senders[ty][p] \ {Routes!Root} THEN receivers[ty][q] \ {p}
                       ELSE receivers[ty][q])
                 /\ senders'[ty][q] = (IF q = p THEN {}
                       ELSE IF q \in receivers[ty][p] /\ ty # Routes!VIPI THEN senders[ty][q] \ {p}
                       ELSE senders[ty][q])
      BY <1>4, Zenon DEF Routes!UnwoundReceivers, Routes!UnwoundSenders
    <2>2. ASSUME NEW ty \in RouteType, NEW s \in Vid, NEW t \in Vid
          PROVE  <<ty, s, t>> \in granted' <=> <<ty, s, t>> \in granted /\ s # p /\ t # p
      <3>1. <<ty, s, t>>[2] = s /\ <<ty, s, t>>[3] = t BY Zenon
      <3> QED BY <1>4, <3>1, Zenon
    <2>3. Routes!TypeOK'
      <3>1. ASSUME NEW ty \in RouteType
            PROVE  /\ Routes!UnwoundReceivers(ty, p) \in [Vid -> SUBSET Vid]
                   /\ Routes!UnwoundSenders(ty, p) \in [Vid -> SUBSET Vid]
        <4>1. ASSUME NEW q \in Vid PROVE senders[ty][q] \subseteq Vid /\ receivers[ty][q] \subseteq Vid
          BY <1>2, ZenonT(60)
        <4> QED BY <4>1, Zenon DEF Routes!UnwoundReceivers, Routes!UnwoundSenders
      <3>2. senders' \in [RouteType -> [Vid -> SUBSET Vid]] /\ receivers' \in [RouteType -> [Vid -> SUBSET Vid]]
        BY <1>4, <3>1, Zenon
      <3>3. writers' \subseteq Routes!Guest /\ granted' \subseteq RouteType \X Vid \X Vid
        BY <1>1, <1>2, <1>4, Zenon DEF RoutesInv, Routes!TypeOK
      <3> QED BY <1>1, <1>2, <1>4, <3>2, <3>3, Zenon DEF Routes!TypeOK
    <2>4. Routes!RoutesAreGrants'
      <3> SUFFICES ASSUME NEW ty \in RouteType, NEW s \in valid', NEW t \in valid'
                   PROVE  Routes!RouteIsGrant(ty, s, t)'
        BY Zenon DEF Routes!RoutesAreGrants
      <3>0. s \in Vid /\ t \in Vid /\ s \in valid /\ t \in valid /\ s # p /\ t # p BY <1>2, <1>4, Zenon
      <3>1. Routes!RouteIsGrant(ty, s, t) /\ Routes!RouteIsGrant(ty, s, p) /\ Routes!RouteIsGrant(ty, p, t)
        BY <1>1, <3>0, Zenon DEF RoutesInv, Routes!RoutesAreGrants
      <3>2. senders'[ty][t] \in {senders[ty][t], senders[ty][t] \ {p}} BY <2>1, <3>0, Zenon
      <3>3. receivers'[ty][s] \in {receivers[ty][s], receivers[ty][s] \ {p}} BY <2>1, <3>0, Zenon
      <3>4. s \in senders'[ty][t] <=> s \in senders[ty][t] BY <3>0, <3>2, Zenon
      <3>5. t \in receivers'[ty][s] <=> t \in receivers[ty][s] BY <3>0, <3>3, Zenon
      <3>6. <<ty, s, t>> \in granted' <=> <<ty, s, t>> \in granted BY <2>2, <3>0, Zenon
      <3>7. ASSUME ty # Routes!VIPI PROVE p \notin senders'[ty][t]
        <4>1. CASE p \in senders[ty][t]
          <5>1. t \in receivers[ty][p] BY <1>1, <3>1, <3>7, <4>1, Zenon DEF Routes!RouteIsGrant
          <5>2. senders'[ty][t] = senders[ty][t] \ {p} BY <2>1, <3>0, <3>7, <5>1, Zenon
          <5> QED BY <5>2, Zenon
        <4>2. CASE p \notin senders[ty][t] BY <3>2, <4>2, Zenon
        <4> QED BY <4>1, <4>2, Zenon
      <3>8. ASSUME ty # Routes!VIPI PROVE p \notin receivers'[ty][s]
        <4>1. CASE s = Routes!Root
          <5>1. receivers[ty][s] = {} BY <4>1, Zenon DEF RoutesInv
          <5> QED BY <3>3, <5>1, Zenon
        <4>2. CASE s # Routes!Root /\ p \in receivers[ty][s]
          <5>1. s \in senders[ty][p] BY <3>1, <3>8, <4>2, Zenon DEF Routes!RouteIsGrant
          <5>2. receivers'[ty][s] = receivers[ty][s] \ {p} BY <2>1, <3>0, <4>2, <5>1, Zenon
          <5> QED BY <5>2, Zenon
        <4>3. CASE p \notin receivers[ty][s] BY <3>3, <4>3, Zenon
        <4> QED BY <4>1, <4>2, <4>3, Zenon
      <3>9. ty # Routes!VIPI => senders'[ty][t] \subseteq valid' /\ receivers'[ty][s] \subseteq valid'
        <4> SUFFICES ASSUME ty # Routes!VIPI
                     PROVE  senders'[ty][t] \subseteq valid' /\ receivers'[ty][s] \subseteq valid'
          BY Zenon
        <4>1. senders[ty][t] \subseteq valid /\ receivers[ty][s] \subseteq valid
          BY <3>1, Zenon DEF Routes!RouteIsGrant
        <4>2. senders'[ty][t] \subseteq senders[ty][t] /\ receivers'[ty][s] \subseteq receivers[ty][s]
          BY <3>2, <3>3, Zenon
        <4> QED BY <1>4, <3>7, <3>8, <4>1, <4>2, Zenon
      <3> QED BY <3>1, <3>4, <3>5, <3>6, <3>9, ZenonT(60) DEF Routes!RouteIsGrant
    <2>5. \A ty \in RouteType, s, t \in Vid : <<ty, s, t>> \in granted' => s \in valid' /\ t \in valid'
      BY <1>4, <2>2, Zenon DEF RoutesInv
    <2>6. \A ty \in RouteType : receivers'[ty][Routes!Root] = {}
      <3>1. \A ty \in RouteType : receivers[ty][Routes!Root] = {} BY Zenon DEF RoutesInv
      <3> SUFFICES ASSUME NEW ty \in RouteType PROVE receivers'[ty][Routes!Root] = {} BY Zenon
      <3>2. \/ receivers'[ty][Routes!Root] = receivers[ty][Routes!Root]
            \/ receivers'[ty][Routes!Root] = receivers[ty][Routes!Root] \ {p}
        <4>1. Routes!Root \in Vid /\ Routes!Root # p BY <1>1, <1>2, Zenon
        <4>2. receivers'[ty][Routes!Root] =
                (IF Routes!Root = p THEN {}
                 ELSE IF Routes!Root \in senders[ty][p] \ {Routes!Root}
                      THEN receivers[ty][Routes!Root] \ {p}
                 ELSE receivers[ty][Routes!Root])
          BY <2>1, <4>1, Zenon
        <4> QED BY <4>1, <4>2, Zenon
      <3>3. {} \ {p} = {} BY Zenon
      <3> QED BY <3>1, <3>2, <3>3, Zenon
    <2>7. \A a \in Caller : call'[a] = NULL BY <1>1, Zenon
    <2>8. call' \in [Caller -> {call'[a] : a \in Caller}] BY <1>1, Zenon DEF RoutesInv
    <2> QED BY <2>3, <2>4, <2>5, <2>6, <2>7, <2>8, ZenonT(60) DEF RoutesInv
  <1> QED BY <1>1, <1>3, <1>4, Zenon

\* No step of the routes leaves the invariant.
LEMMA RoutesNextInv ==
    ASSUME RoutesAssumption, RoutesInv, [Routes!Next]_(Routes!vars)
    PROVE  RoutesInv'
  <1>1. CASE \E p \in Routes!Guest : Routes!Create(p) BY <1>1, CreateStep, Zenon
  <1>2. CASE \E p \in Routes!Guest : Routes!StartExclusive(p) BY <1>2, StartExclusiveStep, ZenonT(60)
  <1>3. CASE \E p \in Routes!Guest : Routes!Finalize(p) BY <1>3, FinalizeStep, Zenon
  <1>4. CASE \E a \in Caller : Routes!SetRouteSecond(a) BY <1>4, SetRouteSecondStep, Zenon
  <1>5. CASE \E a \in Caller, s, t \in Vid, ty \in RouteType, allow \in BOOLEAN :
               Routes!SetRouteFirst(a, s, t, ty, allow)
    BY <1>5, SetRouteFirstStep, Zenon
  <1>6. CASE UNCHANGED Routes!vars
    <2>1. /\ valid' = valid /\ senders' = senders /\ receivers' = receivers /\ call' = call
          /\ granted' = granted /\ writers' = writers
      BY <1>6, Zenon DEF Routes!vars
    <2>2. Routes!TypeOK' BY <2>1, Zenon DEF RoutesInv, Routes!TypeOK
    <2>3. Routes!RoutesAreGrants' BY <2>1, GrantsKept, Zenon DEF RoutesInv
    <2> QED BY <2>1, <2>2, <2>3, Zenon DEF RoutesInv, Routes!Vid1
  <1> QED BY <1>1, <1>2, <1>3, <1>4, <1>5, <1>6, Zenon DEF Routes!Next

\* The invariant is about routes.
LEMMA RoutesInvHolds ==
    ASSUME RoutesInv
    PROVE  Routes!TypeOK /\ Routes!RoutesAreGrants
  BY Zenon DEF RoutesInv

\* A far hypercall gets through exactly when the root allowed it for the two
\* partitions, whatever is created, torn down or granted in between.
THEOREM RoutesCorrect ==
    ASSUME RoutesAssumption
    PROVE  Routes!Spec => [](Routes!TypeOK /\ Routes!RoutesAreGrants)
  <1>1. Routes!Init => RoutesInv BY RoutesInitInv
  <1>2. RoutesInv /\ [Routes!Next]_(Routes!vars) => RoutesInv' BY RoutesNextInv
  <1>3. RoutesInv => Routes!TypeOK /\ Routes!RoutesAreGrants BY RoutesInvHolds, Zenon
  <1> QED BY <1>1, <1>2, <1>3, PTL DEF Routes!Spec

=============================================================================
