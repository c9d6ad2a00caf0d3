--------------------------- MODULE VLifecycleProofs ---------------------------
(* Proofs about VLifecycle, for any number of vcpus, cpus and destroying      *)
(* root vcpus: every vcpu is counted once, the partition is finalized when    *)
(* all its vcpus are terminated, a failing vcpu finds its partition in the    *)
(* table, and no terminated vcpu comes back.  Under MCQS this is for cpus at  *)
(* the lowest criticality level, see VLifecycle.                              *)
EXTENDS VLifecycle, FiniteSetTheorems, TLAPS

\* No kick comes too late for its vcpu, or the machine halts on it: either the
\* spin hypercalls are not used or a failed assertion panics.
LateKickHalts == PvSpin => PanicOnBug

\* Each kind of actor is where its code can take it.
PcInv ==
    /\ pc[Creator] \in CreatorPcs
    /\ \A r \in Destroyers : pc[r] \in RootPcs
    /\ \A v \in Vcpus : pc[v] \in VcpuPcs

\* The state of a vcpu agrees with what its cpu does; one in MCQS's queue is ready.
PhaseInv ==
    \A v \in Vcpus :
        /\ pc[v] = "off" =>
               state[v] \in {"initializing", "ready", "paused", "spinning",
                            "terminated"}
        /\ pc[v] \in {"host", "exit", "bug", "recover"} => state[v] = "transitioning"
        /\ pc[v] = "guest" => state[v] = "running"
        /\ pc[v] = "get" => state[v] \in {"transitioning", "running"}
        /\ pc[v] = "visit" =>
               IF idx[v] <= v THEN state[v] \in {"transitioning", "running"}
                              ELSE state[v] = "terminated"
        /\ pc[v] \in EndPcs => state[v] = "terminated"
        /\ v \in queued /\ Policy = "MCQS" => state[v] = "ready"

\* The vcpus the creator has yet to push are untouched.
CreatorInv ==
    /\ pc[Creator] = "place" => idx[Creator] = 1
    /\ pc[Creator] \in {"recover", "count", "compare", "final", "notify"} =>
           idx[Creator] \in Vcpus
    /\ \A v \in Vcpus :
           \/ v > idx[Creator]
           \/ v = idx[Creator] /\ pc[Creator] \in {"place", "push", "recover"}
           => state[v] = "initializing"

\* Only an actor between its walk and its count has claims.
ClaimInv == \A x \in Actors : pc[x] \notin {"visit", "count"} => claims[x] = {}

\* Whoever finalizes saw the full count; a partition that was finalized, or
\* whose end root knows of, has all its vcpus counted.
FinalInv ==
    /\ \A x \in Actors : /\ sum[x] <= total
                         /\ pc[x] \in {"final", "notify"} => sum[x] = N
    /\ notified \/ (~valid /\ pc[Creator] # "place") => counted = Vcpus

\* Types, with counts that are just numbers.
ShapeInv ==
    /\ state \in [Vcpus -> States]
    /\ terminate \in [Vcpus -> BOOLEAN]
    /\ spin \in [Vcpus -> {"NONE", "KICKED", "PAUSED"}]
    /\ queued \subseteq Vcpus /\ kicked \subseteq Vcpus
    /\ valid \in BOOLEAN /\ notified \in BOOLEAN
    /\ holder \in Actors \cup {NULL}
    /\ pc \in [Actors -> Pcs]
    /\ idx \in [Actors -> 1..(N + 1)]
    /\ total \in Nat /\ cnt \in [Actors -> Nat] /\ sum \in [Actors -> Nat]
    /\ claims \in [Actors -> SUBSET Vcpus] /\ counted \subseteq Vcpus

\* The inductive invariant.
LInv == ShapeInv /\ PcInv /\ PhaseInv /\ CreatorInv /\ ClaimInv /\ CountedOnce
        /\ FinalInv

-----------------------------------------------------------------------------
(* Facts about the sets of vcpus *)

\* Sets of vcpus are finite, and the one with N of them has them all.
LEMMA VcpuSets ==
    ASSUME NEW S \in SUBSET Vcpus
    PROVE  /\ IsFiniteSet(S)
           /\ Cardinality(S) \in 0..N
           /\ Cardinality(S) = N => S = Vcpus
<1>1. IsFiniteSet(Vcpus) /\ Cardinality(Vcpus) = N
  BY ActorsAssumption, FS_Interval DEF Vcpus
<1>2. IsFiniteSet(S) /\ Cardinality(S) <= N /\ (Cardinality(S) = N => S = Vcpus)
  BY <1>1, FS_Subset, Zenon
<1>3. Cardinality(S) \in Nat
  BY <1>2, FS_CardinalityType, Zenon
<1> QED BY <1>2, <1>3, ActorsAssumption

\* The three kinds of actors are distinct.
LEMMA ActorKinds ==
    /\ Vcpus \subseteq Actors /\ Creator \in Actors /\ Destroyers \subseteq Actors
    /\ Creator \notin Vcpus /\ Creator \notin Destroyers
    /\ \A r \in Destroyers : r \notin Vcpus
    /\ NULL \notin Vcpus
BY ActorsAssumption, Zenon DEF Actors

\* The numbers of the vcpus are the values of the loop variable.
LEMMA VcpuNumbers == \A v \in Vcpus : v \in Int /\ 1 <= v /\ v <= N
BY ActorsAssumption DEF Vcpus

\* The loop variable of a walk, or of a push, that goes on is a vcpu.
LEMMA LoopVcpu ==
    ASSUME ShapeInv, NEW x \in Actors, idx[x] <= N
    PROVE  idx[x] \in Vcpus
BY ActorsAssumption DEF ShapeInv, Vcpus

-----------------------------------------------------------------------------
(* Consequences of the invariant *)

\* What __vsched_pop takes is ready, under both policies.
LEMMA PoppableIsReady ==
    ASSUME LInv, NEW v \in Vcpus, Poppable(v)
    PROVE  state[v] = "ready"
<1>1. CASE Policy = "MCFS"
  BY <1>1, Zenon DEF Poppable
<1>2. CASE Policy = "MCQS"
  BY <1>2, Zenon DEF Poppable, LInv, PhaseInv
<1> QED BY <1>1, <1>2, ActorsAssumption, Zenon

\* The vcpu that vdo_transitioning_recover takes down is alive.
LEMMA RecoverVcpu ==
    ASSUME LInv, NEW x \in Actors, pc[x] = "recover",
           NEW v, v = (IF x = Creator THEN idx[x] ELSE x)
    PROVE  v \in Vcpus /\ state[v] # "terminated"
<1> USE ActorKinds, VcpuNumbers
<1>1. CASE x = Creator
  BY <1>1, Zenon DEF LInv, CreatorInv
<1>2. CASE x # Creator
  <2>1. x \in Vcpus
    BY <1>2, Zenon DEF LInv, PcInv, RootPcs, EndPcs, Actors
  <2> QED BY <1>2, <2>1, Zenon DEF LInv, PhaseInv
<1> QED BY <1>1, <1>2, Zenon

\* The vcpu that a walk takes down is alive.
LEMMA VisitVcpu ==
    ASSUME LInv, NEW x \in Actors, pc[x] = "visit", idx[x] <= N,
           Terminates(x, idx[x])
    PROVE  idx[x] \in Vcpus /\ state[idx[x]] # "terminated"
<1>1. idx[x] \in Vcpus
  BY LoopVcpu, Zenon DEF LInv
<1> QED BY <1>1, VcpuNumbers DEF LInv, PhaseInv, Terminates

\* Whoever finalizes, or has finalized, finds all vcpus counted.
LEMMA AllCounted ==
    ASSUME LInv, NEW x \in Actors, pc[x] \in {"final", "notify"}
    PROVE  counted = Vcpus
<1>1. N <= total /\ total = Cardinality(counted)
  BY Zenon DEF LInv, FinalInv, CountedOnce
<1>2. Cardinality(counted) \in 0..N /\ (Cardinality(counted) = N => counted = Vcpus)
  BY VcpuSets, Zenon DEF LInv, ShapeInv
<1> QED BY <1>1, <1>2, ActorsAssumption

\* A vcpu that fails is alive, and so its partition is in the table.
LEMMA FailureFinds ==
    ASSUME LInv
    PROVE  FailureFindsPartition
<1> SUFFICES ASSUME NEW v \in Vcpus, pc[v] = "get", ~valid PROVE FALSE
  BY Zenon DEF FailureFindsPartition, LInv, ShapeInv
<1>1. state[v] \notin {"initializing", "terminated"}
  BY Zenon DEF LInv, PhaseInv
<1>2. CASE pc[Creator] = "place"
  BY <1>1, <1>2, VcpuNumbers DEF LInv, CreatorInv
<1>3. CASE pc[Creator] # "place"
  BY <1>1, <1>3, Zenon DEF LInv, FinalInv, CountedOnce
<1> QED BY <1>2, <1>3, Zenon

-----------------------------------------------------------------------------
(* One lemma per conjunct of the invariant, one step per action *)

\* Every step keeps the types.
LEMMA ShapeStep ==
    ASSUME LateKickHalts, LInv, [Next]_vars
    PROVE  ShapeInv'
<1> USE ActorKinds, VcpuNumbers, ActorsAssumption DEF LInv, ShapeInv, States,
   Pcs, VcpuPcs, RootPcs, CreatorPcs, EndPcs
<1> USE DEF tableVars, localVars, histVars, Goto, SetState
<1>1. ASSUME Place PROVE ShapeInv'
  BY <1>1, Zenon DEF Place
<1>2. ASSUME Push PROVE ShapeInv'
  <2>1. idx[Creator] \in Vcpus
    BY <1>2, LoopVcpu, Zenon DEF Push
  <2> QED BY <1>2, <2>1 DEF Push, PutReady, PutPaused
<1>3. ASSUME NEW v \in Vcpus, Dispatch(v) PROVE ShapeInv'
  BY <1>3, Zenon DEF Dispatch
<1>4. ASSUME NEW v \in Vcpus, Enter(v) PROVE ShapeInv'
  BY SMTT(30), <1>4 DEF Enter
<1>5. ASSUME NEW v \in Vcpus, Exit(v) PROVE ShapeInv'
  BY <1>5, Zenon DEF Exit
<1>6. ASSUME NEW v \in Vcpus, ExitCheck(v) PROVE ShapeInv'
  BY <1>6, Zenon DEF ExitCheck
<1>7. ASSUME NEW v \in Vcpus, Reschedule(v) PROVE ShapeInv'
  BY SMTT(90), <1>7 DEF Reschedule, PutReady
<1>8. ASSUME NEW v \in Vcpus, Pause(v) PROVE ShapeInv'
  BY SMTT(90), <1>8 DEF Pause, PutPaused
<1>9. ASSUME NEW v \in Vcpus, SpinPause(v) PROVE ShapeInv'
  BY SMTT(90), <1>9 DEF SpinPause
<1>10. ASSUME NEW v \in Vcpus, Unpause(v) PROVE ShapeInv'
  BY <1>10, Zenon DEF Unpause, PutReady
<1>11. ASSUME NEW v \in Vcpus, Fail(v) PROVE ShapeInv'
  BY <1>11, Zenon DEF Fail
<1>12. ASSUME NEW x \in Actors, NEW v \in Vcpus, Kick(x, v) PROVE ShapeInv'
  BY SMTT(90), <1>12 DEF Kick, PutReady, LateKickHalts
<1>13. ASSUME NEW r \in Destroyers, Destroy(r) PROVE ShapeInv'
  BY <1>13, Zenon DEF Destroy
<1>14. ASSUME NEW x \in Actors, Get(x) PROVE ShapeInv'
  BY <1>14 DEF Get
<1>15. ASSUME NEW x \in Actors, Visit(x) PROVE ShapeInv'
  <2>1. idx[x] \in Vcpus
    BY <1>15, LoopVcpu, Zenon DEF Visit
  <2> QED BY SMTT(90), <1>15, <2>1 DEF Visit, Terminates
<1>16. ASSUME NEW x \in Actors, Put(x) PROVE ShapeInv'
  BY <1>16, Zenon DEF Put
<1>17. ASSUME NEW x \in Actors, Recover(x) PROVE ShapeInv'
  <2> DEFINE v == IF x = Creator THEN idx[x] ELSE x
  <2>1. v \in Vcpus
    BY <1>17, RecoverVcpu, Zenon DEF Recover
  <2> HIDE DEF v
  <2>2. /\ state' = [state EXCEPT ![v] = "terminated"]
        /\ claims' = [claims EXCEPT ![x] = {v}]
    BY <1>17, Zenon DEF Recover, v
  <2> QED BY SMTT(90), <1>17, <2>1, <2>2 DEF Recover
<1>18. ASSUME NEW x \in Actors, Count(x) PROVE ShapeInv'
  BY <1>18 DEF Count
<1>19. ASSUME NEW x \in Actors, Compare(x) PROVE ShapeInv'
  <2>0. x = Creator => idx[x] \in Vcpus
    BY <1>19, Zenon DEF Compare, CreatorInv
  <2>1. x = Creator => idx[x] + 1 \in 1..(N + 1)
    BY <2>0
  <2> QED BY SMTT(90), <1>19, <2>1 DEF Compare, Done
<1>20. ASSUME NEW x \in Actors, Finalize(x) PROVE ShapeInv'
  BY Zenon, <1>20 DEF Finalize
<1>21. ASSUME NEW x \in Actors, Notify(x) PROVE ShapeInv'
  <2>0. x = Creator => idx[x] \in Vcpus
    BY <1>21, Zenon DEF Notify, CreatorInv
  <2>1. x = Creator => idx[x] + 1 \in 1..(N + 1)
    BY <2>0
  <2> QED BY <1>21, <2>1, Zenon DEF Notify, Done
<1>22. ASSUME UNCHANGED vars PROVE ShapeInv'
  BY <1>22, Zenon DEF vars
<1>23. ASSUME NEW v \in Vcpus, FrameSet(v) PROVE ShapeInv'
  BY <1>23, Zenon DEF FrameSet
<1>24. ASSUME NEW v \in Vcpus, FrameUnset(v) PROVE ShapeInv'
  BY <1>24, Zenon DEF FrameUnset
<1> QED BY Zenon, <1>1, <1>2, <1>3, <1>4, <1>5, <1>6, <1>7, <1>8, <1>9, <1>10, <1>11,
   <1>12, <1>13, <1>14, <1>15, <1>16, <1>17, <1>18, <1>19, <1>20, <1>21, <1>22, <1>23, <1>24
   DEF Next, TeardownStep

\* Every actor stays on the paths of its code.
LEMMA PcStep ==
    ASSUME LateKickHalts, LInv, [Next]_vars
    PROVE  PcInv'
<1> USE ActorKinds, VcpuNumbers, ActorsAssumption DEF LInv, ShapeInv, PcInv,
   VcpuPcs, RootPcs, CreatorPcs, EndPcs
<1> USE DEF tableVars, localVars, histVars, Goto, SetState
<1>1. ASSUME Place PROVE PcInv'
  BY <1>1, Zenon DEF Place
<1>2. ASSUME Push PROVE PcInv'
  <2>1. idx[Creator] \in Vcpus
    BY <1>2, LoopVcpu, Zenon DEF Push
  <2> QED BY <1>2, <2>1 DEF Push, PutReady, PutPaused
<1>3. ASSUME NEW v \in Vcpus, Dispatch(v) PROVE PcInv'
  BY <1>3 DEF Dispatch
<1>4. ASSUME NEW v \in Vcpus, Enter(v) PROVE PcInv'
  BY <1>4 DEF Enter
<1>5. ASSUME NEW v \in Vcpus, Exit(v) PROVE PcInv'
  BY <1>5, Zenon DEF Exit
<1>6. ASSUME NEW v \in Vcpus, ExitCheck(v) PROVE PcInv'
  BY <1>6, Zenon DEF ExitCheck
<1>7. ASSUME NEW v \in Vcpus, Reschedule(v) PROVE PcInv'
  BY <1>7 DEF Reschedule, PutReady
<1>8. ASSUME NEW v \in Vcpus, Pause(v) PROVE PcInv'
  BY <1>8 DEF Pause, PutPaused
<1>9. ASSUME NEW v \in Vcpus, SpinPause(v) PROVE PcInv'
  BY SMTT(30), <1>9 DEF SpinPause
<1>10. ASSUME NEW v \in Vcpus, Unpause(v) PROVE PcInv'
  BY <1>10, Zenon DEF Unpause, PutReady
<1>11. ASSUME NEW v \in Vcpus, Fail(v) PROVE PcInv'
  BY <1>11, Zenon DEF Fail
<1>12. ASSUME NEW x \in Actors, NEW v \in Vcpus, Kick(x, v) PROVE PcInv'
  BY <1>12, Zenon DEF Kick, PutReady, LateKickHalts
<1>13. ASSUME NEW r \in Destroyers, Destroy(r) PROVE PcInv'
  BY <1>13, Zenon DEF Destroy
<1>14. ASSUME NEW x \in Actors, Get(x) PROVE PcInv'
  BY SMTT(90), <1>14 DEF Get
<1>15. ASSUME NEW x \in Actors, Visit(x) PROVE PcInv'
  <2>1. idx[x] \in Vcpus
    BY <1>15, LoopVcpu, Zenon DEF Visit
  <2> QED BY <1>15, <2>1, Zenon DEF Visit, Terminates
<1>16. ASSUME NEW x \in Actors, Put(x) PROVE PcInv'
  BY <1>16, Zenon DEF Put
<1>17. ASSUME NEW x \in Actors, Recover(x) PROVE PcInv'
  BY <1>17, Zenon DEF Recover
<1>18. ASSUME NEW x \in Actors, Count(x) PROVE PcInv'
  BY <1>18, Zenon DEF Count
<1>19. ASSUME NEW x \in Actors, Compare(x) PROVE PcInv'
  BY <1>19 DEF Compare, Done
<1>20. ASSUME NEW x \in Actors, Finalize(x) PROVE PcInv'
  BY <1>20, Zenon DEF Finalize
<1>21. ASSUME NEW x \in Actors, Notify(x) PROVE PcInv'
  BY <1>21 DEF Notify, Done
<1>22. ASSUME UNCHANGED vars PROVE PcInv'
  BY <1>22, Zenon DEF vars
<1>23. ASSUME NEW v \in Vcpus, FrameSet(v) PROVE PcInv'
  BY <1>23, Zenon DEF FrameSet
<1>24. ASSUME NEW v \in Vcpus, FrameUnset(v) PROVE PcInv'
  BY <1>24, Zenon DEF FrameUnset
<1> QED BY Zenon, <1>1, <1>2, <1>3, <1>4, <1>5, <1>6, <1>7, <1>8, <1>9, <1>10, <1>11,
   <1>12, <1>13, <1>14, <1>15, <1>16, <1>17, <1>18, <1>19, <1>20, <1>21, <1>22, <1>23, <1>24
   DEF Next, TeardownStep

\* The state of a vcpu keeps agreeing with what its cpu does.
LEMMA PhaseStep ==
    ASSUME LateKickHalts, LInv, [Next]_vars
    PROVE  PhaseInv'
<1> USE ActorKinds, VcpuNumbers, ActorsAssumption DEF LInv, ShapeInv, PcInv,
   PhaseInv, CreatorInv, VcpuPcs, RootPcs, CreatorPcs, EndPcs
<1> USE DEF tableVars, localVars, histVars, Goto, SetState
<1>1. ASSUME Place PROVE PhaseInv'
  BY <1>1 DEF Place
<1>2. ASSUME Push PROVE PhaseInv'
  <2>1. idx[Creator] \in Vcpus
    BY <1>2, LoopVcpu, Zenon DEF Push
  <2> QED BY SMTT(30), <1>2, <2>1 DEF Push, PutReady, PutPaused
<1>3. ASSUME NEW v \in Vcpus, Dispatch(v) PROVE PhaseInv'
  BY SMTT(30), <1>3, PoppableIsReady DEF Dispatch
<1>4. ASSUME NEW v \in Vcpus, Enter(v) PROVE PhaseInv'
  BY SMTT(30), <1>4 DEF Enter
<1>5. ASSUME NEW v \in Vcpus, Exit(v) PROVE PhaseInv'
  BY SMTT(30), <1>5 DEF Exit
<1>6. ASSUME NEW v \in Vcpus, ExitCheck(v) PROVE PhaseInv'
  BY SMTT(30), <1>6 DEF ExitCheck
<1>7. ASSUME NEW v \in Vcpus, Reschedule(v) PROVE PhaseInv'
  BY SMTT(30), <1>7 DEF Reschedule, PutReady
<1>8. ASSUME NEW v \in Vcpus, Pause(v) PROVE PhaseInv'
  BY SMTT(30), <1>8 DEF Pause, PutPaused
<1>9. ASSUME NEW v \in Vcpus, SpinPause(v) PROVE PhaseInv'
  BY SMTT(30), <1>9 DEF SpinPause
<1>10. ASSUME NEW v \in Vcpus, Unpause(v) PROVE PhaseInv'
  BY <1>10, Zenon DEF Unpause, PutReady
<1>11. ASSUME NEW v \in Vcpus, Fail(v) PROVE PhaseInv'
  BY SMTT(30), <1>11 DEF Fail
<1>12. ASSUME NEW x \in Actors, NEW v \in Vcpus, Kick(x, v) PROVE PhaseInv'
  BY SMTT(30), <1>12 DEF Kick, PutReady, LateKickHalts
<1>13. ASSUME NEW r \in Destroyers, Destroy(r) PROVE PhaseInv'
  BY SMTT(30), <1>13 DEF Destroy
<1>14. ASSUME NEW x \in Actors, Get(x) PROVE PhaseInv'
  <2>1. x \in Vcpus => valid
    BY <1>14, FailureFinds, Zenon DEF Get, FailureFindsPartition
  <2> QED BY SMTT(30), <1>14, <2>1 DEF Get
<1>15. ASSUME NEW x \in Actors, Visit(x) PROVE PhaseInv'
  <2>1. idx[x] \in Vcpus
    BY SMTT(30), <1>15, LoopVcpu DEF Visit
  <2> QED BY SMTT(30), <1>15, <2>1 DEF Visit, Terminates
<1>16. ASSUME NEW x \in Actors, Put(x) PROVE PhaseInv'
  BY SMTT(30), <1>16 DEF Put
<1>17. ASSUME NEW x \in Actors, Recover(x) PROVE PhaseInv'
  BY SMTT(30), <1>17 DEF Recover
<1>18. ASSUME NEW x \in Actors, Count(x) PROVE PhaseInv'
  BY SMTT(30), <1>18 DEF Count
<1>19. ASSUME NEW x \in Actors, Compare(x) PROVE PhaseInv'
  BY SMTT(30), <1>19 DEF Compare, Done
<1>20. ASSUME NEW x \in Actors, Finalize(x) PROVE PhaseInv'
  BY SMTT(30), <1>20 DEF Finalize
<1>21. ASSUME NEW x \in Actors, Notify(x) PROVE PhaseInv'
  BY SMTT(30), <1>21 DEF Notify, Done
<1>22. ASSUME UNCHANGED vars PROVE PhaseInv'
  BY <1>22, Zenon DEF vars
<1>23. ASSUME NEW v \in Vcpus, FrameSet(v) PROVE PhaseInv'
  BY SMTT(30), <1>23 DEF FrameSet
<1>24. ASSUME NEW v \in Vcpus, FrameUnset(v) PROVE PhaseInv'
  BY SMTT(30), <1>24 DEF FrameUnset
<1> QED BY Zenon, <1>1, <1>2, <1>3, <1>4, <1>5, <1>6, <1>7, <1>8, <1>9, <1>10, <1>11,
   <1>12, <1>13, <1>14, <1>15, <1>16, <1>17, <1>18, <1>19, <1>20, <1>21, <1>22, <1>23, <1>24
   DEF Next, TeardownStep

\* Nobody but the creator touches a vcpu that is not pushed yet.
LEMMA CreatorStep ==
    ASSUME LateKickHalts, LInv, [Next]_vars
    PROVE  CreatorInv'
<1> USE ActorKinds, VcpuNumbers, ActorsAssumption DEF LInv, ShapeInv, PcInv,
   PhaseInv, CreatorInv, VcpuPcs, RootPcs, CreatorPcs, EndPcs
<1> USE DEF tableVars, localVars, histVars, Goto, SetState
<1>1. ASSUME Place PROVE CreatorInv'
  BY SMTT(30), <1>1 DEF Place
<1>2. ASSUME Push PROVE CreatorInv'
  <2>1. idx[Creator] \in Vcpus
    BY <1>2, LoopVcpu DEF Push
  <2> QED BY SMTT(30), <1>2, <2>1 DEF Push, PutReady, PutPaused
<1>3. ASSUME NEW v \in Vcpus, Dispatch(v) PROVE CreatorInv'
  BY SMTT(30), <1>3, PoppableIsReady DEF Dispatch
<1>4. ASSUME NEW v \in Vcpus, Enter(v) PROVE CreatorInv'
  BY SMTT(30), <1>4 DEF Enter
<1>5. ASSUME NEW v \in Vcpus, Exit(v) PROVE CreatorInv'
  BY SMTT(30), <1>5 DEF Exit
<1>6. ASSUME NEW v \in Vcpus, ExitCheck(v) PROVE CreatorInv'
  BY SMTT(30), <1>6 DEF ExitCheck
<1>7. ASSUME NEW v \in Vcpus, Reschedule(v) PROVE CreatorInv'
  BY SMTT(30), <1>7 DEF Reschedule, PutReady
<1>8. ASSUME NEW v \in Vcpus, Pause(v) PROVE CreatorInv'
  BY SMTT(30), <1>8 DEF Pause, PutPaused
<1>9. ASSUME NEW v \in Vcpus, SpinPause(v) PROVE CreatorInv'
  BY SMTT(30), <1>9 DEF SpinPause
<1>10. ASSUME NEW v \in Vcpus, Unpause(v) PROVE CreatorInv'
  BY <1>10, Zenon DEF Unpause, PutReady
<1>11. ASSUME NEW v \in Vcpus, Fail(v) PROVE CreatorInv'
  BY SMTT(30), <1>11 DEF Fail
<1>12. ASSUME NEW x \in Actors, NEW v \in Vcpus, Kick(x, v) PROVE CreatorInv'
  BY SMTT(30), <1>12 DEF Kick, PutReady, LateKickHalts
<1>13. ASSUME NEW r \in Destroyers, Destroy(r) PROVE CreatorInv'
  BY SMTT(30), <1>13 DEF Destroy
<1>14. ASSUME NEW x \in Actors, Get(x) PROVE CreatorInv'
  BY SMTT(30), <1>14 DEF Get
<1>15. ASSUME NEW x \in Actors, Visit(x) PROVE CreatorInv'
  <2>1. idx[x] \in Vcpus
    BY <1>15, LoopVcpu, Zenon DEF Visit
  <2> QED BY SMTT(30), <1>15, <2>1 DEF Visit, Terminates
<1>16. ASSUME NEW x \in Actors, Put(x) PROVE CreatorInv'
  BY SMTT(30), <1>16 DEF Put
<1>17. ASSUME NEW x \in Actors, Recover(x) PROVE CreatorInv'
  BY SMTT(30), <1>17 DEF Recover
<1>18. ASSUME NEW x \in Actors, Count(x) PROVE CreatorInv'
  BY SMTT(30), <1>18 DEF Count
<1>19. ASSUME NEW x \in Actors, Compare(x) PROVE CreatorInv'
  BY SMTT(30), <1>19 DEF Compare, Done
<1>20. ASSUME NEW x \in Actors, Finalize(x) PROVE CreatorInv'
  BY SMTT(30), <1>20 DEF Finalize
<1>21. ASSUME NEW x \in Actors, Notify(x) PROVE CreatorInv'
  BY SMTT(30), <1>21 DEF Notify, Done
<1>22. ASSUME UNCHANGED vars PROVE CreatorInv'
  BY <1>22, Zenon DEF vars
<1>23. ASSUME NEW v \in Vcpus, FrameSet(v) PROVE CreatorInv'
  BY SMTT(30), <1>23 DEF FrameSet
<1>24. ASSUME NEW v \in Vcpus, FrameUnset(v) PROVE CreatorInv'
  BY SMTT(30), <1>24 DEF FrameUnset
<1> QED BY Zenon, <1>1, <1>2, <1>3, <1>4, <1>5, <1>6, <1>7, <1>8, <1>9, <1>10, <1>11,
   <1>12, <1>13, <1>14, <1>15, <1>16, <1>17, <1>18, <1>19, <1>20, <1>21, <1>22, <1>23, <1>24
   DEF Next, TeardownStep

\* Claims are dropped by the count.
LEMMA ClaimStep ==
    ASSUME LateKickHalts, LInv, [Next]_vars
    PROVE  ClaimInv'
<1> USE ActorKinds, VcpuNumbers, ActorsAssumption DEF LInv, ShapeInv, PcInv,
   ClaimInv, VcpuPcs, RootPcs, CreatorPcs, EndPcs
<1> USE DEF tableVars, localVars, histVars, Goto, SetState
<1>1. ASSUME Place PROVE ClaimInv'
  BY <1>1, Zenon DEF Place
<1>2. ASSUME Push PROVE ClaimInv'
  <2>1. idx[Creator] \in Vcpus
    BY <1>2, LoopVcpu, Zenon DEF Push
  <2> QED BY <1>2, <2>1 DEF Push, PutReady, PutPaused
<1>3. ASSUME NEW v \in Vcpus, Dispatch(v) PROVE ClaimInv'
  BY <1>3, Zenon DEF Dispatch
<1>4. ASSUME NEW v \in Vcpus, Enter(v) PROVE ClaimInv'
  BY SMTT(30), <1>4 DEF Enter
<1>5. ASSUME NEW v \in Vcpus, Exit(v) PROVE ClaimInv'
  BY <1>5, Zenon DEF Exit
<1>6. ASSUME NEW v \in Vcpus, ExitCheck(v) PROVE ClaimInv'
  BY <1>6, Zenon DEF ExitCheck
<1>7. ASSUME NEW v \in Vcpus, Reschedule(v) PROVE ClaimInv'
  BY SMTT(30), <1>7 DEF Reschedule, PutReady
<1>8. ASSUME NEW v \in Vcpus, Pause(v) PROVE ClaimInv'
  BY SMTT(30), <1>8 DEF Pause, PutPaused
<1>9. ASSUME NEW v \in Vcpus, SpinPause(v) PROVE ClaimInv'
  BY SMTT(30), <1>9 DEF SpinPause
<1>10. ASSUME NEW v \in Vcpus, Unpause(v) PROVE ClaimInv'
  BY <1>10, Zenon DEF Unpause, PutReady
<1>11. ASSUME NEW v \in Vcpus, Fail(v) PROVE ClaimInv'
  BY <1>11, Zenon DEF Fail
<1>12. ASSUME NEW x \in Actors, NEW v \in Vcpus, Kick(x, v) PROVE ClaimInv'
  BY <1>12, Zenon DEF Kick, PutReady, LateKickHalts
<1>13. ASSUME NEW r \in Destroyers, Destroy(r) PROVE ClaimInv'
  BY <1>13, Zenon DEF Destroy
<1>14. ASSUME NEW x \in Actors, Get(x) PROVE ClaimInv'
  BY <1>14, Zenon DEF Get
<1>15. ASSUME NEW x \in Actors, Visit(x) PROVE ClaimInv'
  <2>1. idx[x] \in Vcpus
    BY <1>15, LoopVcpu, Zenon DEF Visit
  <2> QED BY SMTT(30), <1>15, <2>1 DEF Visit, Terminates
<1>16. ASSUME NEW x \in Actors, Put(x) PROVE ClaimInv'
  BY <1>16, Zenon DEF Put
<1>17. ASSUME NEW x \in Actors, Recover(x) PROVE ClaimInv'
  BY <1>17, Zenon DEF Recover
<1>18. ASSUME NEW x \in Actors, Count(x) PROVE ClaimInv'
  BY <1>18, Zenon DEF Count
<1>19. ASSUME NEW x \in Actors, Compare(x) PROVE ClaimInv'
  BY <1>19, Zenon DEF Compare, Done
<1>20. ASSUME NEW x \in Actors, Finalize(x) PROVE ClaimInv'
  BY <1>20, Zenon DEF Finalize
<1>21. ASSUME NEW x \in Actors, Notify(x) PROVE ClaimInv'
  BY <1>21, Zenon DEF Notify, Done
<1>22. ASSUME UNCHANGED vars PROVE ClaimInv'
  BY SMTT(30), <1>22 DEF vars
<1>23. ASSUME NEW v \in Vcpus, FrameSet(v) PROVE ClaimInv'
  BY <1>23, Zenon DEF FrameSet
<1>24. ASSUME NEW v \in Vcpus, FrameUnset(v) PROVE ClaimInv'
  BY <1>24, Zenon DEF FrameUnset
<1> QED BY Zenon, <1>1, <1>2, <1>3, <1>4, <1>5, <1>6, <1>7, <1>8, <1>9, <1>10, <1>11,
   <1>12, <1>13, <1>14, <1>15, <1>16, <1>17, <1>18, <1>19, <1>20, <1>21, <1>22, <1>23, <1>24
   DEF Next, TeardownStep

\* The count is kept by a step that counts nobody and terminates nobody.
LEMMA CountFrame ==
    ASSUME CountedOnce, UNCHANGED <<total, cnt, claims, counted>>,
           \A v \in Vcpus : state'[v] = "terminated" <=> state[v] = "terminated"
    PROVE  CountedOnce'
BY Zenon DEF CountedOnce

\* Whoever terminates a vcpu claims it, and a claim is counted once.
LEMMA CountStep ==
    ASSUME LateKickHalts, LInv, [Next]_vars
    PROVE  CountedOnce'
<1> USE ActorKinds DEF LInv, ShapeInv
<1> USE DEF tableVars, localVars, histVars, Goto, SetState
<1>1. ASSUME Place PROVE CountedOnce'
  <2>1. \A u \in Vcpus : state'[u] = "terminated" <=> state[u] = "terminated"
    BY SMTT(30), <1>1 DEF Place
  <2>2. UNCHANGED <<total, cnt, claims, counted>> BY <1>1, Zenon DEF Place
  <2> QED BY <2>1, <2>2, CountFrame, Zenon
<1>2. ASSUME Push PROVE CountedOnce'
  <2>0. idx[Creator] \in Vcpus /\ state[idx[Creator]] = "initializing"
    BY <1>2, LoopVcpu, Zenon DEF Push, CreatorInv
  <2>1. \A u \in Vcpus : state'[u] = "terminated" <=> state[u] = "terminated"
    BY <1>2, <2>0 DEF Push, PutReady, PutPaused
  <2>2. UNCHANGED <<total, cnt, claims, counted>> BY <1>2, Zenon DEF Push
  <2> QED BY <2>1, <2>2, CountFrame, Zenon
<1>3. ASSUME NEW v \in Vcpus, Dispatch(v) PROVE CountedOnce'
  <2>1. \A u \in Vcpus : state'[u] = "terminated" <=> state[u] = "terminated"
    BY <1>3, PoppableIsReady, Zenon DEF Dispatch
  <2>2. UNCHANGED <<total, cnt, claims, counted>> BY <1>3, Zenon DEF Dispatch
  <2> QED BY <2>1, <2>2, CountFrame, Zenon
<1>4. ASSUME NEW v \in Vcpus, Enter(v) PROVE CountedOnce'
  <2>1. \A u \in Vcpus : state'[u] = "terminated" <=> state[u] = "terminated"
    BY <1>4, Zenon DEF Enter, PhaseInv
  <2>2. UNCHANGED <<total, cnt, claims, counted>> BY <1>4, Zenon DEF Enter
  <2> QED BY <2>1, <2>2, CountFrame, Zenon
<1>5. ASSUME NEW v \in Vcpus, Exit(v) PROVE CountedOnce'
  <2>1. \A u \in Vcpus : state'[u] = "terminated" <=> state[u] = "terminated"
    BY <1>5, Zenon DEF Exit, PhaseInv
  <2>2. UNCHANGED <<total, cnt, claims, counted>> BY <1>5, Zenon DEF Exit
  <2> QED BY <2>1, <2>2, CountFrame, Zenon
<1>6. ASSUME NEW v \in Vcpus, ExitCheck(v) PROVE CountedOnce'
  <2>1. \A u \in Vcpus : state'[u] = "terminated" <=> state[u] = "terminated"
    BY <1>6, Zenon DEF ExitCheck, PhaseInv
  <2>2. UNCHANGED <<total, cnt, claims, counted>> BY <1>6, Zenon DEF ExitCheck
  <2> QED BY <2>1, <2>2, CountFrame, Zenon
<1>7. ASSUME NEW v \in Vcpus, Reschedule(v) PROVE CountedOnce'
  <2>1. \A u \in Vcpus : state'[u] = "terminated" <=> state[u] = "terminated"
    BY <1>7, Zenon DEF Reschedule, PutReady, PhaseInv
  <2>2. UNCHANGED <<total, cnt, claims, counted>> BY <1>7, Zenon DEF Reschedule
  <2> QED BY <2>1, <2>2, CountFrame, Zenon
<1>8. ASSUME NEW v \in Vcpus, Pause(v) PROVE CountedOnce'
  <2>1. \A u \in Vcpus : state'[u] = "terminated" <=> state[u] = "terminated"
    BY <1>8, Zenon DEF Pause, PutPaused, PhaseInv
  <2>2. UNCHANGED <<total, cnt, claims, counted>> BY <1>8 DEF Pause
  <2> QED BY <2>1, <2>2, CountFrame, Zenon
<1>9. ASSUME NEW v \in Vcpus, SpinPause(v) PROVE CountedOnce'
  <2>1. \A u \in Vcpus : state'[u] = "terminated" <=> state[u] = "terminated"
    BY <1>9, Zenon DEF SpinPause, PhaseInv
  <2>2. UNCHANGED <<total, cnt, claims, counted>> BY <1>9, Zenon DEF SpinPause
  <2> QED BY <2>1, <2>2, CountFrame, Zenon
<1>10. ASSUME NEW v \in Vcpus, Unpause(v) PROVE CountedOnce'
  <2>1. \A u \in Vcpus : state'[u] = "terminated" <=> state[u] = "terminated"
    BY <1>10, Zenon DEF Unpause, PutReady, PhaseInv
  <2>2. UNCHANGED <<total, cnt, claims, counted>> BY <1>10, Zenon DEF Unpause
  <2> QED BY <2>1, <2>2, CountFrame, Zenon
<1>11. ASSUME NEW v \in Vcpus, Fail(v) PROVE CountedOnce'
  <2>1. \A u \in Vcpus : state'[u] = "terminated" <=> state[u] = "terminated"
    BY <1>11, Zenon DEF Fail, PhaseInv
  <2>2. UNCHANGED <<total, cnt, claims, counted>> BY <1>11, Zenon DEF Fail
  <2> QED BY <2>1, <2>2, CountFrame, Zenon
<1>12. ASSUME NEW x \in Actors, NEW v \in Vcpus, Kick(x, v) PROVE CountedOnce'
  <2>1. \A u \in Vcpus : state'[u] = "terminated" <=> state[u] = "terminated"
    BY <1>12, Zenon DEF Kick, PutReady, LateKickHalts, PhaseInv
  <2>2. UNCHANGED <<total, cnt, claims, counted>> BY <1>12, Zenon DEF Kick
  <2> QED BY <2>1, <2>2, CountFrame, Zenon
<1>13. ASSUME NEW r \in Destroyers, Destroy(r) PROVE CountedOnce'
  <2>1. \A u \in Vcpus : state'[u] = "terminated" <=> state[u] = "terminated"
    BY <1>13, Zenon DEF Destroy
  <2>2. UNCHANGED <<total, cnt, claims, counted>> BY <1>13, Zenon DEF Destroy
  <2> QED BY <2>1, <2>2, CountFrame, Zenon
<1>14. ASSUME NEW x \in Actors, Get(x) PROVE CountedOnce'
  <2>1. \A u \in Vcpus : state'[u] = "terminated" <=> state[u] = "terminated"
    BY <1>14, Zenon DEF Get
  <2>2. UNCHANGED <<total, cnt, claims, counted>> BY <1>14, Zenon DEF Get
  <2> QED BY <2>1, <2>2, CountFrame, Zenon
<1>15. ASSUME NEW x \in Actors, Visit(x) PROVE CountedOnce'
  <2> DEFINE v == idx[x]
  <2>1. CASE ~Terminates(x, v)
    BY <1>15, <2>1, CountFrame, Zenon DEF Visit
  <2>2. CASE Terminates(x, v)
    <3>1. /\ v \in Vcpus /\ state[v] # "terminated"
          /\ v \notin counted /\ \A y \in Actors : v \notin claims[y]
      BY SMTT(30), <1>15, <2>2, VisitVcpu DEF Visit, CountedOnce
    <3>2. /\ state' = [state EXCEPT ![v] = "terminated"]
          /\ claims' = [claims EXCEPT ![x] = @ \cup {v}]
          /\ cnt' = [cnt EXCEPT ![x] = @ + 1]
          /\ UNCHANGED <<total, counted>>
      BY <1>15, <2>2, Zenon DEF Visit
    <3> HIDE DEF v
    <3>3. Cardinality(claims[x] \cup {v}) = Cardinality(claims[x]) + 1
      BY <3>1, VcpuSets, FS_AddElement, Zenon
    <3> QED BY SMTT(30), <3>1, <3>2, <3>3 DEF CountedOnce
  <2> QED BY <2>1, <2>2, Zenon
<1>16. ASSUME NEW x \in Actors, Put(x) PROVE CountedOnce'
  <2>1. \A u \in Vcpus : state'[u] = "terminated" <=> state[u] = "terminated"
    BY <1>16, Zenon DEF Put
  <2>2. UNCHANGED <<total, cnt, claims, counted>> BY <1>16, Zenon DEF Put
  <2> QED BY <2>1, <2>2, CountFrame, Zenon
<1>17. ASSUME NEW x \in Actors, Recover(x) PROVE CountedOnce'
  <2> DEFINE v == IF x = Creator THEN idx[x] ELSE x
  <2>1. /\ v \in Vcpus /\ state[v] # "terminated"
        /\ v \notin counted /\ \A y \in Actors : v \notin claims[y]
    BY SMTT(30), <1>17, RecoverVcpu DEF Recover, CountedOnce
  <2>2. /\ state' = [state EXCEPT ![v] = "terminated"]
        /\ claims' = [claims EXCEPT ![x] = {v}]
        /\ cnt' = [cnt EXCEPT ![x] = 1]
        /\ UNCHANGED <<total, counted>>
    BY <1>17, Zenon DEF Recover
  <2>3. claims[x] = {}
    BY <1>17, Zenon DEF Recover, ClaimInv
  <2> HIDE DEF v
  <2>4. Cardinality({v}) = 1
    BY Zenon, FS_Singleton
  <2> QED BY SMTT(30), <2>1, <2>2, <2>3, <2>4 DEF CountedOnce
<1>18. ASSUME NEW x \in Actors, Count(x) PROVE CountedOnce'
  <2>1. /\ IsFiniteSet(counted) /\ IsFiniteSet(claims[x])
        /\ Cardinality(counted) \in Nat /\ Cardinality(claims[x]) \in Nat
        /\ counted \cap claims[x] = {}
    BY SMTT(30), VcpuSets DEF CountedOnce
  <2>2. Cardinality(counted \cup claims[x])
            = Cardinality(counted) + Cardinality(claims[x])
    <3>1. Cardinality(counted \cap claims[x]) = 0
      BY Zenon, <2>1, FS_EmptySet
    <3>2. Cardinality(counted \cup claims[x])
              = Cardinality(counted) + Cardinality(claims[x])
                - Cardinality(counted \cap claims[x])
      BY SMTT(30), <2>1, FS_Union
    <3> QED BY SMTT(30), <2>1, <3>1, <3>2
  <2>3. Cardinality({}) = 0
    BY FS_EmptySet, Zenon
  <2>4. /\ total' = total + cnt[x] /\ cnt' = [cnt EXCEPT ![x] = 0]
        /\ counted' = counted \cup claims[x] /\ claims' = [claims EXCEPT ![x] = {}]
        /\ UNCHANGED state
    BY <1>18, Zenon DEF Count
  <2> QED BY <2>2, <2>3, <2>4 DEF CountedOnce
<1>19. ASSUME NEW x \in Actors, Compare(x) PROVE CountedOnce'
  <2>1. \A u \in Vcpus : state'[u] = "terminated" <=> state[u] = "terminated"
    BY <1>19, Zenon DEF Compare, Done
  <2>2. UNCHANGED <<total, cnt, claims, counted>> BY <1>19, Zenon DEF Compare
  <2> QED BY <2>1, <2>2, CountFrame, Zenon
<1>20. ASSUME NEW x \in Actors, Finalize(x) PROVE CountedOnce'
  <2>1. \A u \in Vcpus : state'[u] = "terminated" <=> state[u] = "terminated"
    BY <1>20, Zenon DEF Finalize
  <2>2. UNCHANGED <<total, cnt, claims, counted>> BY <1>20, Zenon DEF Finalize
  <2> QED BY <2>1, <2>2, CountFrame, Zenon
<1>21. ASSUME NEW x \in Actors, Notify(x) PROVE CountedOnce'
  <2>1. \A u \in Vcpus : state'[u] = "terminated" <=> state[u] = "terminated"
    BY <1>21, Zenon DEF Notify, Done
  <2>2. UNCHANGED <<total, cnt, claims, counted>> BY <1>21, Zenon DEF Notify
  <2> QED BY <2>1, <2>2, CountFrame, Zenon
<1>22. ASSUME UNCHANGED vars PROVE CountedOnce'
  BY <1>22, CountFrame, Zenon DEF vars
<1>23. ASSUME NEW v \in Vcpus, FrameSet(v) PROVE CountedOnce'
  BY <1>23, CountFrame, Zenon DEF FrameSet
<1>24. ASSUME NEW v \in Vcpus, FrameUnset(v) PROVE CountedOnce'
  BY <1>24, CountFrame, Zenon DEF FrameUnset
<1> QED BY SMTT(60), <1>1, <1>2, <1>3, <1>4, <1>5, <1>6, <1>7, <1>8, <1>9, <1>10, <1>11,
   <1>12, <1>13, <1>14, <1>15, <1>16, <1>17, <1>18, <1>19, <1>20, <1>21, <1>22, <1>23, <1>24
   DEF Next, TeardownStep

\* The count only grows, and only its last step finalizes.
LEMMA FinalStep ==
    ASSUME LateKickHalts, LInv, [Next]_vars
    PROVE  FinalInv'
<1> USE ActorKinds, VcpuNumbers, ActorsAssumption DEF LInv, ShapeInv, PcInv,
   FinalInv
<1> USE DEF tableVars, localVars, histVars, Goto, SetState
<1>1. ASSUME Place PROVE FinalInv'
  BY SMTT(30), <1>1 DEF Place
<1>2. ASSUME Push PROVE FinalInv'
  <2>1. idx[Creator] \in Vcpus
    BY <1>2, LoopVcpu, Zenon DEF Push
  <2> QED BY SMTT(30), <1>2, <2>1 DEF Push, PutReady, PutPaused
<1>3. ASSUME NEW v \in Vcpus, Dispatch(v) PROVE FinalInv'
  BY <1>3, Zenon DEF Dispatch
<1>4. ASSUME NEW v \in Vcpus, Enter(v) PROVE FinalInv'
  BY SMTT(30), <1>4 DEF Enter
<1>5. ASSUME NEW v \in Vcpus, Exit(v) PROVE FinalInv'
  BY <1>5, Zenon DEF Exit
<1>6. ASSUME NEW v \in Vcpus, ExitCheck(v) PROVE FinalInv'
  BY <1>6, Zenon DEF ExitCheck
<1>7. ASSUME NEW v \in Vcpus, Reschedule(v) PROVE FinalInv'
  BY SMTT(30), <1>7 DEF Reschedule, PutReady
<1>8. ASSUME NEW v \in Vcpus, Pause(v) PROVE FinalInv'
  BY SMTT(30), <1>8 DEF Pause, PutPaused
<1>9. ASSUME NEW v \in Vcpus, SpinPause(v) PROVE FinalInv'
  BY SMTT(30), <1>9 DEF SpinPause
<1>10. ASSUME NEW v \in Vcpus, Unpause(v) PROVE FinalInv'
  BY SMTT(30), <1>10 DEF Unpause, PutReady
<1>11. ASSUME NEW v \in Vcpus, Fail(v) PROVE FinalInv'
  BY SMTT(30), <1>11 DEF Fail
<1>12. ASSUME NEW x \in Actors, NEW v \in Vcpus, Kick(x, v) PROVE FinalInv'
  BY SMTT(30), <1>12 DEF Kick, PutReady, LateKickHalts
<1>13. ASSUME NEW r \in Destroyers, Destroy(r) PROVE FinalInv'
  BY <1>13, Zenon DEF Destroy
<1>14. ASSUME NEW x \in Actors, Get(x) PROVE FinalInv'
  BY SMTT(30), <1>14 DEF Get
<1>15. ASSUME NEW x \in Actors, Visit(x) PROVE FinalInv'
  <2>1. idx[x] \in Vcpus
    BY SMTT(30), <1>15, LoopVcpu DEF Visit
  <2> QED BY SMTT(30), <1>15, <2>1 DEF Visit, Terminates
<1>16. ASSUME NEW x \in Actors, Put(x) PROVE FinalInv'
  BY <1>16, Zenon DEF Put
<1>17. ASSUME NEW x \in Actors, Recover(x) PROVE FinalInv'
  BY SMTT(30), <1>17 DEF Recover
<1>18. ASSUME NEW x \in Actors, Count(x) PROVE FinalInv'
  BY SMTT(30), <1>18 DEF Count
<1>19. ASSUME NEW x \in Actors, Compare(x) PROVE FinalInv'
  BY SMTT(30), <1>19 DEF Compare, Done
<1>20. ASSUME NEW x \in Actors, Finalize(x) PROVE FinalInv'
  <2>1. counted = Vcpus
    BY SMTT(30), <1>20, AllCounted DEF Finalize
  <2> QED BY SMTT(30), <1>20, <2>1 DEF Finalize
<1>21. ASSUME NEW x \in Actors, Notify(x) PROVE FinalInv'
  <2>1. counted = Vcpus
    BY SMTT(30), <1>21, AllCounted DEF Notify
  <2> QED BY SMTT(30), <1>21, <2>1 DEF Notify, Done
<1>22. ASSUME UNCHANGED vars PROVE FinalInv'
  BY <1>22, Zenon DEF vars
<1>23. ASSUME NEW v \in Vcpus, FrameSet(v) PROVE FinalInv'
  BY SMTT(30), <1>23 DEF FrameSet
<1>24. ASSUME NEW v \in Vcpus, FrameUnset(v) PROVE FinalInv'
  BY SMTT(30), <1>24 DEF FrameUnset
<1> QED BY ZenonT(60), <1>1, <1>2, <1>3, <1>4, <1>5, <1>6, <1>7, <1>8, <1>9, <1>10, <1>11,
   <1>12, <1>13, <1>14, <1>15, <1>16, <1>17, <1>18, <1>19, <1>20, <1>21, <1>22, <1>23, <1>24
   DEF Next, TeardownStep

\* What TerminatedStays says of one step.
Stays ==
    \A u \in Vcpus : state[u] = "terminated" => state'[u] = "terminated"

\* No step brings a terminated vcpu back.
LEMMA StayStep ==
    ASSUME LateKickHalts, LInv, [Next]_vars
    PROVE  Stays
<1> USE ActorKinds DEF LInv, ShapeInv, PhaseInv, Stays
<1> USE DEF tableVars, localVars, histVars, Goto, SetState
<1>1. ASSUME Place PROVE Stays
  BY SMTT(30), <1>1 DEF Place
<1>2. ASSUME Push PROVE Stays
  <2>1. idx[Creator] \in Vcpus /\ state[idx[Creator]] = "initializing"
    BY <1>2, LoopVcpu, Zenon DEF Push, CreatorInv
  <2> QED BY SMTT(30), <1>2, <2>1 DEF Push, PutReady, PutPaused
<1>3. ASSUME NEW v \in Vcpus, Dispatch(v) PROVE Stays
  BY <1>3, PoppableIsReady, Zenon DEF Dispatch
<1>4. ASSUME NEW v \in Vcpus, Enter(v) PROVE Stays
  BY <1>4, Zenon DEF Enter
<1>5. ASSUME NEW v \in Vcpus, Exit(v) PROVE Stays
  BY <1>5, Zenon DEF Exit
<1>6. ASSUME NEW v \in Vcpus, ExitCheck(v) PROVE Stays
  BY <1>6, Zenon DEF ExitCheck
<1>7. ASSUME NEW v \in Vcpus, Reschedule(v) PROVE Stays
  BY <1>7, Zenon DEF Reschedule, PutReady
<1>8. ASSUME NEW v \in Vcpus, Pause(v) PROVE Stays
  BY SMTT(30), <1>8 DEF Pause, PutPaused
<1>9. ASSUME NEW v \in Vcpus, SpinPause(v) PROVE Stays
  BY <1>9, Zenon DEF SpinPause
<1>10. ASSUME NEW v \in Vcpus, Unpause(v) PROVE Stays
  BY <1>10, Zenon DEF Unpause, PutReady
<1>11. ASSUME NEW v \in Vcpus, Fail(v) PROVE Stays
  BY SMTT(30), <1>11 DEF Fail
<1>12. ASSUME NEW x \in Actors, NEW v \in Vcpus, Kick(x, v) PROVE Stays
  BY <1>12, Zenon DEF Kick, PutReady, LateKickHalts
<1>13. ASSUME NEW r \in Destroyers, Destroy(r) PROVE Stays
  BY <1>13, Zenon DEF Destroy
<1>14. ASSUME NEW x \in Actors, Get(x) PROVE Stays
  BY SMTT(30), <1>14 DEF Get
<1>15. ASSUME NEW x \in Actors, Visit(x) PROVE Stays
  BY <1>15 DEF Visit
<1>16. ASSUME NEW x \in Actors, Put(x) PROVE Stays
  BY <1>16, Zenon DEF Put
<1>17. ASSUME NEW x \in Actors, Recover(x) PROVE Stays
  BY <1>17, Zenon DEF Recover
<1>18. ASSUME NEW x \in Actors, Count(x) PROVE Stays
  BY <1>18, Zenon DEF Count
<1>19. ASSUME NEW x \in Actors, Compare(x) PROVE Stays
  BY <1>19, Zenon DEF Compare, Done
<1>20. ASSUME NEW x \in Actors, Finalize(x) PROVE Stays
  BY SMTT(30), <1>20 DEF Finalize
<1>21. ASSUME NEW x \in Actors, Notify(x) PROVE Stays
  BY <1>21, Zenon DEF Notify, Done
<1>22. ASSUME UNCHANGED vars PROVE Stays
  BY <1>22, Zenon DEF vars
<1>23. ASSUME NEW v \in Vcpus, FrameSet(v) PROVE Stays
  BY <1>23, Zenon DEF FrameSet
<1>24. ASSUME NEW v \in Vcpus, FrameUnset(v) PROVE Stays
  BY <1>24, Zenon DEF FrameUnset
<1> QED BY ZenonT(60), <1>1, <1>2, <1>3, <1>4, <1>5, <1>6, <1>7, <1>8, <1>9, <1>10, <1>11,
   <1>12, <1>13, <1>14, <1>15, <1>16, <1>17, <1>18, <1>19, <1>20, <1>21, <1>22, <1>23, <1>24
   DEF Next, TeardownStep

-----------------------------------------------------------------------------
(* Theorems *)

\* The invariant that counting, finalizing and failing rest on: every state of
\* vrecovery.c's protocol satisfies it, for any number of vcpus and roots.
THEOREM LifecycleInvariant ==
    ASSUME LateKickHalts
    PROVE  Spec => []LInv
<1>1. Init => LInv
  <2> SUFFICES ASSUME Init PROVE LInv
    BY Zenon
  <2> USE ActorKinds, VcpuNumbers, ActorsAssumption DEF Init
  <2>1. ShapeInv
    <3>1. \A x \in Actors : pc[x] \in Pcs
      BY Zenon DEF Pcs, VcpuPcs, RootPcs, CreatorPcs
    <3>2. pc \in [Actors -> Pcs]
      BY <3>1, Zenon
    <3>3. /\ idx \in [Actors -> 1..(N + 1)]
          /\ cnt \in [Actors -> Nat] /\ sum \in [Actors -> Nat]
      OBVIOUS
    <3>4. /\ state \in [Vcpus -> States] /\ terminate \in [Vcpus -> BOOLEAN]
          /\ spin \in [Vcpus -> {"NONE", "KICKED", "PAUSED"}]
      BY Zenon DEF States
    <3>5. claims \in [Actors -> SUBSET Vcpus] /\ counted \subseteq Vcpus
      BY Zenon
    <3>6. /\ queued \subseteq Vcpus /\ kicked \subseteq Vcpus
          /\ holder \in Actors \cup {NULL}
      BY Zenon
    <3>7. total \in Nat
      BY Zenon
    <3>8. valid \in BOOLEAN /\ notified \in BOOLEAN
      BY Zenon
    <3> HIDE DEF Init
    <3> QED BY <3>2, <3>3, <3>4, <3>5, <3>6, <3>7, <3>8, Zenon DEF ShapeInv
  <2>2. PcInv
    BY Zenon DEF PcInv, VcpuPcs, RootPcs, CreatorPcs
  <2>3. PhaseInv
    BY Zenon DEF PhaseInv, EndPcs
  <2>4. CreatorInv
    BY Zenon DEF CreatorInv
  <2>5. ClaimInv /\ FinalInv
    BY DEF ClaimInv, FinalInv
  <2>6. CountedOnce
    BY FS_EmptySet, Zenon DEF CountedOnce
  <2> QED BY <2>1, <2>2, <2>3, <2>4, <2>5, <2>6, Zenon DEF LInv
<1>2. LInv /\ [Next]_vars => LInv'
  BY ShapeStep, PcStep, PhaseStep, CreatorStep, ClaimStep, CountStep, FinalStep, Zenon
     DEF LInv
<1> QED BY <1>1, <1>2, PTL DEF Spec

\* Types are kept; num_terminated never exceeds the number of vcpus.
THEOREM TypeCorrect ==
    ASSUME LateKickHalts
    PROVE  Spec => []TypeOK
<1>1. LInv => TypeOK
  <2> SUFFICES ASSUME LInv PROVE TypeOK
    BY Zenon
  <2>1. total \in 0..N
    BY VcpuSets, Zenon DEF LInv, ShapeInv, CountedOnce
  <2>2. \A x \in Actors : cnt[x] \in 0..N
    BY VcpuSets DEF LInv, ShapeInv, CountedOnce
  <2>3. \A x \in Actors : sum[x] \in 0..N
    BY SMTT(30), <2>1, ActorsAssumption DEF LInv, ShapeInv, FinalInv
  <2> QED BY <2>1, <2>2, <2>3, Zenon DEF LInv, ShapeInv, TypeOK
<1> QED BY <1>1, LifecycleInvariant, PTL

\* vteardown, vfailure_recover and vdo_transitioning_recover together count
\* every vcpu once, whoever of them gets to it.
THEOREM CountedOnceHolds ==
    ASSUME LateKickHalts
    PROVE  Spec => []CountedOnce
<1>1. LInv => CountedOnce
  BY Zenon DEF LInv
<1> QED BY <1>1, LifecycleInvariant, PTL

\* vdo_finalize_teardown begins when all vcpus of the partition are terminated and
\* no scheduler can take one of them, under MCFS by a frame that was left to it or
\* under MCQS from the queue of the lowest criticality.
THEOREM FinalizedWhenAllTerminatedHolds ==
    ASSUME LateKickHalts
    PROVE  Spec => []FinalizedWhenAllTerminated
<1>1. LInv => FinalizedWhenAllTerminated
  <2> SUFFICES ASSUME LInv, \/ \E x \in Actors : pc[x] \in {"final", "notify"}
                            \/ notified
               PROVE  \A v \in Vcpus : state[v] = "terminated" /\ ~Poppable(v)
    BY Zenon DEF FinalizedWhenAllTerminated
  <2>1. counted = Vcpus
    BY AllCounted, Zenon DEF LInv, FinalInv
  <2>2. \A v \in Vcpus : state[v] = "terminated"
    BY <2>1, Zenon DEF LInv, CountedOnce
  <2>3. \A v \in Vcpus : ~Poppable(v)
    BY <2>2, PoppableIsReady, Zenon
  <2> QED BY <2>2, <2>3, Zenon
<1> QED BY <1>1, LifecycleInvariant, PTL

\* The assertion of vfailure_recover holds: the partition of a vcpu that fails
\* is in the table.
THEOREM FailureFindsPartitionHolds ==
    ASSUME LateKickHalts
    PROVE  Spec => []FailureFindsPartition
<1>1. LInv => FailureFindsPartition
  BY FailureFinds, Zenon
<1> QED BY <1>1, LifecycleInvariant, PTL

\* A terminated vcpu is never made ready, paused or running again, whatever frames
\* it has (MCFS) and as long as MCQS serves the queue of the lowest criticality.
THEOREM TerminatedStaysHolds ==
    ASSUME LateKickHalts
    PROVE  Spec => TerminatedStays
<1>1. LInv /\ [Next]_vars =>
      [\A v \in Vcpus : state[v] = "terminated" => state'[v] = "terminated"]_vars
  BY StayStep, Zenon DEF Stays
<1> QED BY <1>1, LifecycleInvariant, PTL DEF Spec, TerminatedStays
=============================================================================
