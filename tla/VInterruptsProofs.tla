------------------------- MODULE VInterruptsProofs -------------------------
(* VInterrupts for every set of vcpus, cpus and vectors: no interrupt is      *)
(* missed, the window bits agree, subscribers are heard and what is injected  *)
(* fits.                                                                      *)
EXTENDS VInterrupts, WellFoundedInduction, TLAPS

Entered == {"injected", "guest"}

\* Where the flow of control of a vcpu is decides whether it has its cpu, which
\* state others see, whose vmcs is loaded and whether a vector is chosen.
Placed ==
    \A v \in Vcpu :
        /\ pc[v] # "off" <=> current[CpuOf[v]] = v
        /\ pc[v] = "off" => preempted[v] /\ state[v] \in {"READY", "PAUSED"}
        /\ pc[v] \in {"hv", "handler"} => state[v] = "TRANSITIONING"
        /\ pc[v] \in {"entering", "injected", "guest", "exited"} => state[v] = "RUNNING"
        /\ pc[v] \notin {"off", "hv"} => ~preempted[v]
        /\ ~preempted[v] => loaded[CpuOf[v]] = v
        /\ chosen[v] # NULL => pc[v] = "injected"

\* NoInterruptIsMissed, from the moment the event of the entry is chosen.
Announced ==
    \A v \in Vcpu : pc[v] \in Entered =>
        /\ NMI \in pending[v] => window[v] = "nmi" \/ ipi[CpuOf[v]]
        /\ Deliverable(v, Best(v)) => window[v] # "none" \/ ipi[CpuOf[v]]

\* InjectedFits, with the level of the interrupt that is being delivered.
Nested ==
    /\ InjectedFits
    /\ \A v \in Vcpu : pc[v] \in Entered /\ event[v] \in Vector =>
                         Intl(event[v]) \in inIntl[v]

IInv == /\ InterruptAssumption /\ TypeOK /\ Placed /\ WindowsAgree /\ Announced
        /\ SubscribersHear /\ Nested

-----------------------------------------------------------------------------
(* Vectors and levels.                                                        *)

\* fls32 and bmp256_fls find the highest bit that is set.
LEMMA HighestIsMax ==
    ASSUME NEW S, S \subseteq 0..255
    PROVE  /\ Highest(S) \in Int
           /\ S # {} => Highest(S) \in S
           /\ S = {} => Highest(S) = -1
           /\ \A y \in S : y <= Highest(S)
  <1>1. CASE S = {} BY <1>1 DEF Highest, None
  <1>2. CASE S # {}
    <2> DEFINE Below == {p \in Nat \X Nat : p[1] < p[2]}
               T == {255 - x : x \in S}
    <2>1. \A x, y \in Nat : y < x => <<y, x>> \in Below BY Zenon
    <2>2. IsWellFoundedOn(Below, Nat) BY NatLessThanWellFounded, Zenon DEF OpToRel
    <2>3. T \subseteq Nat /\ T # {}
      <3>1. \A x \in S : x \in Nat /\ x <= 255 /\ 255 - x \in Nat OBVIOUS
      <3>2. T \subseteq Nat BY <3>1, ZenonT(60)
      <3>3. PICK x \in S : TRUE BY <1>2, Zenon
      <3>4. 255 - x \in T BY Zenon
      <3> QED BY <3>2, <3>4, Zenon
    <2> HIDE DEF Below
    <2>4. PICK t \in T : \A y \in T : ~(<<y, t>> \in Below) BY <2>2, <2>3, WFMin, Zenon
    <2>5. PICK m \in S : t = 255 - m BY Zenon
    <2>6. ASSUME NEW y \in S PROVE m >= y
      <3>1. 255 - y \in T BY Zenon
      <3>2. ~(255 - y < t) BY <2>1, <2>3, <2>4, <3>1, Zenon
      <3> QED BY <2>5, <3>2
    <2>7. Max(S) \in S /\ \A y \in S : Max(S) >= y BY <2>6, Zenon DEF Max
    <2>8. Highest(S) = Max(S) BY <1>2, Zenon DEF Highest
    <2>9. \A y \in S : y \in Int
      <3>1. \A i \in 0..255 : i \in Int OBVIOUS
      <3> QED BY <3>1, Zenon
    <2>10. Highest(S) \in S /\ Highest(S) \in Int BY <2>7, <2>8, <2>9, Zenon
    <2>11. \A y \in S : Highest(S) >= y BY <2>7, <2>8, Zenon
    <2>12. \A y \in S : y <= Highest(S) BY <2>9, <2>10, <2>11, SMT
    <2> QED BY <1>2, <2>10, <2>12, Zenon
  <1> QED BY <1>1, <1>2, Zenon

\* A level is a number, and a higher vector has no lower level.
LEMMA LevelOrder ==
    ASSUME InterruptAssumption
    PROVE  /\ Levels \subseteq 0..255
           /\ \A x \in Vector : Intl(x) \in Levels
           /\ \A x, y \in Vector : x <= y => Intl(x) <= Intl(y)
  <1>1. PerLevel \in Nat \ {0} /\ Vector \subseteq 0..255 BY Zenon DEF InterruptAssumption
  <1>2. ASSUME NEW x \in Vector PROVE Intl(x) \in 0..255
    <2>1. x \in Nat /\ x <= 255 BY <1>1
    <2>2. x \div PerLevel \in 0..x BY <1>1, <2>1
    <2> QED BY <2>1, <2>2 DEF Intl
  <1>3. ASSUME NEW x \in Vector, NEW y \in Vector, x <= y PROVE Intl(x) <= Intl(y)
    <2>1. x \in Nat /\ y \in Nat BY <1>1
    <2>2. x \div PerLevel <= y \div PerLevel BY <1>1, <1>3, <2>1
    <2> QED BY <2>2, Zenon DEF Intl
  <1> QED BY <1>2, <1>3, Zenon DEF Levels

\* The best of a set of events is a vector of it.
LEMMA BestOf ==
    ASSUME InterruptAssumption, NEW S \in SUBSET Events
    PROVE  /\ Highest(S \ {NMI}) \in Int
           /\ Highest(S \ {NMI}) # None => /\ Highest(S \ {NMI}) \in S \ {NMI}
                                           /\ Highest(S \ {NMI}) \in Vector
           /\ \A y \in S \ {NMI} : y \in Int /\ y <= Highest(S \ {NMI})
  <1>1. S \ {NMI} \subseteq Vector BY Zenon DEF Events
  <1>2. S \ {NMI} \subseteq 0..255 BY <1>1, Zenon DEF InterruptAssumption
  <1>3. \A y \in S \ {NMI} : y \in Int BY <1>2
  <1> QED BY <1>1, <1>2, <1>3, HighestIsMax, Zenon DEF None

\* The best vector of a vcpu is one of those pending.
LEMMA BestIsPending ==
    ASSUME InterruptAssumption, TypeOK, NEW v \in Vcpu
    PROVE  /\ Best(v) \in Int
           /\ Best(v) # None => Best(v) \in pending[v] \ {NMI} /\ Best(v) \in Vector
           /\ \A y \in pending[v] \ {NMI} : y \in Int /\ y <= Best(v)
  <1>1. pending[v] \in SUBSET Events BY Zenon DEF TypeOK
  <1> QED BY <1>1, BestOf, Zenon DEF Best

-----------------------------------------------------------------------------
(* Types.                                                                     *)

\* What __venter chooses is an event.
LEMMA ChoiceIsEvent ==
    ASSUME InterruptAssumption, TypeOK, NEW v \in Vcpu
    PROVE  /\ IntFits(v) => Best(v) \in Vector /\ Intl(Best(v)) \in Levels
           /\ (IF NmiFits(v) THEN NMI ELSE IF IntFits(v) THEN Best(v) ELSE NULL)
                \in Events \cup {NULL}
           /\ NewWindow(v) \in Windows
  <1>1. IntFits(v) => Best(v) \in Vector
    BY BestIsPending, Zenon DEF IntFits, Deliverable
  <1>2. IntFits(v) => Intl(Best(v)) \in Levels BY <1>1, LevelOrder, Zenon
  <1>3. NewWindow(v) \in Windows BY Zenon DEF NewWindow, Windows
  <1> QED BY <1>1, <1>2, <1>3, Zenon DEF Events

\* Every step keeps the types.
LEMMA NextTypeOK == IInv /\ [Next]_vars => TypeOK'
  <1> SUFFICES ASSUME IInv, [Next]_vars PROVE TypeOK'
    BY Zenon
  <1> USE DEF cpuVars, entryVars, dispatchVars, guestVars
  <1>0. InterruptAssumption /\ TypeOK BY Zenon DEF IInv
  <1>t. Allowed \subseteq Events /\ NMI \in Events /\ Vector \subseteq Events
    BY <1>0, Zenon DEF InterruptAssumption, Events
  <1>1. ASSUME NEW v \in Vcpu, Dispatch(v) PROVE TypeOK'
    <2>1. CpuOf[v] \in Cpu BY <1>0, Zenon DEF InterruptAssumption
    <2> QED BY <1>0, <1>1, <2>1, Zenon DEF TypeOK, Dispatch, Goto
  <1>2. ASSUME NEW v \in Vcpu, Reschedule(v) PROVE TypeOK'
    BY <1>0, <1>2, Zenon DEF TypeOK, Reschedule, PutCpu, Goto
  <1>3. ASSUME NEW v \in Vcpu, GuestDeliver(v) PROVE TypeOK'
    <2>1. handlers' \in [Vcpu -> SUBSET Levels]
      BY <1>0, <1>3, LevelOrder DEF TypeOK, GuestDeliver
    <2>2. blocked' \in [Vcpu -> SUBSET {"if", "ss", "nmi"}]
      BY <1>0, <1>3, Zenon DEF TypeOK, GuestDeliver
    <2>3. event' \in [Vcpu -> Events \cup {EXC, NULL}]
      BY <1>0, <1>3, Zenon DEF TypeOK, GuestDeliver
    <2> QED BY <1>0, <1>3, <2>1, <2>2, <2>3, Zenon DEF TypeOK, GuestDeliver
  <1>4. ASSUME NEW v \in Vcpu, GuestBlock(v) PROVE TypeOK'
    <2>1. blocked' \in [Vcpu -> SUBSET {"if", "ss", "nmi"}]
      BY <1>0, <1>4 DEF TypeOK, GuestBlock
    <2> QED BY <1>0, <1>4, <2>1, Zenon DEF TypeOK, GuestBlock
  <1>5. ASSUME NEW v \in Vcpu, Exit(v) PROVE TypeOK'
    BY <1>0, <1>5, Zenon DEF TypeOK, Exit, Goto
  <1>6. ASSUME NEW v \in Vcpu, Leave(v) PROVE TypeOK'
    BY <1>0, <1>6, Zenon DEF TypeOK, Leave, Goto
  <1>d. ASSUME NEW c \in Cpu, NEW x \in Events, Dispatched(c, x)
        PROVE  /\ pending' \in [Vcpu -> SUBSET Events]
               /\ queued' \in [Vcpu -> SUBSET Allowed]
    BY <1>0, <1>d, Zenon DEF TypeOK, Dispatched
  <1>7. ASSUME NEW v \in Vcpu, Handle(v) PROVE TypeOK'
    <2>c. CpuOf[v] \in Cpu BY <1>0 DEF InterruptAssumption
    <2>1. /\ pending' \in [Vcpu -> SUBSET Events]
          /\ inIntl' \in [Vcpu -> SUBSET Levels]
          /\ intl' \in [Vcpu -> Levels \cup {0}]
          /\ exception' \in [Vcpu -> BOOLEAN]
          /\ allowed' \in [Vcpu -> SUBSET Allowed]
          /\ subscribed' \in [Vcpu -> SUBSET Allowed]
          /\ queued' \in [Vcpu -> SUBSET Allowed]
          /\ handlers' \in [Vcpu -> SUBSET Levels]
      <3>1. CASE HandleNop(v) BY <1>0, <3>1, Zenon DEF TypeOK, HandleNop
      <3>2. CASE HandleExternal(v)
        BY <1>0, <1>d, <2>c, <3>2, Zenon DEF TypeOK, HandleExternal
      <3>3. CASE HandleFault(v) BY <1>0, <3>3, Zenon DEF TypeOK, HandleFault
      <3>4. CASE HandleCr8(v) BY <1>0, <3>4 DEF TypeOK, HandleCr8
      <3>5. CASE HandleSelfIpi(v)
        BY <1>0, <3>5 DEF TypeOK, HandleSelfIpi, SetPending
      <3>6. CASE Subscribe(v) BY <1>0, <3>6 DEF TypeOK, Subscribe
      <3>7. CASE Unsubscribe(v) BY <1>0, <3>7 DEF TypeOK, Unsubscribe
      <3>8. CASE Veoi(v) BY <1>0, <3>8, Zenon DEF TypeOK, Veoi
      <3>9. CASE Requeue(v) BY <1>0, <3>9 DEF TypeOK, Requeue, SetPending
      <3> QED BY <1>7, <3>1, <3>2, <3>3, <3>4, <3>5, <3>6, <3>7, <3>8, <3>9, Zenon DEF Handle
    <2>2. /\ event' \in [Vcpu -> Events \cup {EXC, NULL}]
          /\ pc' \in [Vcpu -> {"off", "hv", "entering", "injected", "guest", "exited",
                               "handler"}]
      BY <1>0, <1>7, Zenon DEF TypeOK, Handle, Goto
    <2>3. UNCHANGED <<state, current, loaded, preempted, window, vmcsWindow, chosen,
                      ipi, blocked>>
      BY <1>7, Zenon DEF Handle
    <2> QED BY <1>0, <2>1, <2>2, <2>3, Zenon DEF TypeOK
  <1>8. ASSUME NEW v \in Vcpu, Pause(v) PROVE TypeOK'
    BY <1>0, <1>8, Zenon DEF TypeOK, Pause, PutCpu, Goto
  <1>9. ASSUME NEW v \in Vcpu, Enter(v) PROVE TypeOK'
    BY <1>0, <1>9 DEF TypeOK, Enter, Goto
  <1>10. ASSUME NEW v \in Vcpu, InjectPending(v) PROVE TypeOK'
    <2>1. chosen' \in [Vcpu -> Events \cup {NULL}]
      BY <1>0, <1>10, ChoiceIsEvent, Zenon DEF TypeOK, InjectPending
    <2>2. event' \in [Vcpu -> Events \cup {EXC, NULL}]
      BY <1>0, <1>10, <2>1, Zenon DEF TypeOK, InjectPending
    <2>3. inIntl' \in [Vcpu -> SUBSET Levels]
      BY <1>0, <1>10, ChoiceIsEvent DEF TypeOK, InjectPending
    <2>4. window' \in [Vcpu -> Windows] /\ vmcsWindow' \in [Vcpu -> Windows]
      BY <1>0, <1>10, ChoiceIsEvent DEF TypeOK, InjectPending
    <2>5. pending' \in [Vcpu -> SUBSET Events] /\ exception' \in [Vcpu -> BOOLEAN]
      BY <1>0, <1>10, Zenon DEF TypeOK, InjectPending
    <2>6. pc' \in [Vcpu -> {"off", "hv", "entering", "injected", "guest", "exited",
                            "handler"}]
      BY <1>0, <1>10, Zenon DEF TypeOK, InjectPending, Goto
    <2>7. UNCHANGED <<state, current, loaded, preempted, intl, allowed, subscribed,
                      queued, ipi, blocked, handlers>>
      BY <1>10, Zenon DEF InjectPending
    <2> QED BY <1>0, <2>1, <2>2, <2>3, <2>4, <2>5, <2>6, <2>7, Zenon DEF TypeOK
  <1>11. ASSUME NEW v \in Vcpu, Resume(v) PROVE TypeOK'
    BY <1>0, <1>11 DEF TypeOK, Resume, Requeued, Goto
  <1>12. ASSUME NEW v \in Vcpu, NEW x \in Events, Inject(v, x) PROVE TypeOK'
    <2>1. ipi' \in [Cpu -> BOOLEAN] BY <1>0, <1>12, Zenon DEF TypeOK, Inject, NeedsExit
    <2> QED BY <1>0, <1>12, <2>1, Zenon DEF TypeOK, Inject, SetPending
  <1>13. ASSUME NEW v \in Vcpu, NEW x \in Events, Unpause(v, x) PROVE TypeOK'
    BY <1>0, <1>13 DEF TypeOK, Unpause, SetPending
  <1>14. ASSUME NEW v \in Vcpu, NEW x \in Allowed, SetPerm(v, x) PROVE TypeOK'
    BY <1>0, <1>14 DEF TypeOK, SetPerm
  <1>15. ASSUME NEW c \in Cpu, NEW x \in Events, HostInterrupt(c, x) PROVE TypeOK'
    BY <1>0, <1>15, <1>d, Zenon DEF TypeOK, HostInterrupt
  <1>16. ASSUME NEW c \in Cpu, HostIpi(c) PROVE TypeOK'
    BY <1>0, <1>16, Zenon DEF TypeOK, HostIpi
  <1>17. ASSUME NEW c \in Cpu, OthersRun(c) PROVE TypeOK'
    BY <1>0, <1>17, Zenon DEF TypeOK, OthersRun
  <1>18. CASE UNCHANGED vars BY <1>0, <1>18, Zenon DEF TypeOK, vars
  <1> QED
    BY <1>1, <1>2, <1>3, <1>4, <1>5, <1>6, <1>7, <1>8, <1>9, <1>10, <1>11, <1>12,
       <1>13, <1>14, <1>15, <1>16, <1>17, <1>18, Zenon DEF Next

-----------------------------------------------------------------------------
(* Who has the cpu, and whose vmcs is loaded.                                 *)

\* A step that leaves the flow of control, the cpus and the choice alone keeps
\* them where they are.
LEMMA PlacedStays ==
    ASSUME Placed, UNCHANGED <<state, pc, current, loaded, preempted, chosen>>
    PROVE  Placed'
  BY Zenon DEF Placed

\* Vcpus have a cpu each, and none is NULL.
LEMMA HasCpu ==
    ASSUME InterruptAssumption
    PROVE  \A v \in Vcpu : CpuOf[v] \in Cpu /\ v # NULL
  BY Zenon DEF InterruptAssumption

\* Every step keeps the vcpus in place: the vcpu that runs on a cpu is the one
\* that the scheduler chose, and its own vmcs is loaded from its entry on.
LEMMA NextPlaced == IInv /\ [Next]_vars => Placed'
  <1> SUFFICES ASSUME IInv, [Next]_vars PROVE Placed'
    OBVIOUS
  <1> USE DEF cpuVars, entryVars, dispatchVars, guestVars
  <1>0. InterruptAssumption /\ TypeOK /\ Placed BY Zenon DEF IInv
  <1>c. \A v \in Vcpu : CpuOf[v] \in Cpu /\ v # NULL BY <1>0, HasCpu, Zenon
  <1>1. ASSUME NEW v \in Vcpu, Dispatch(v) PROVE Placed'
    BY <1>0, <1>c, <1>1 DEF TypeOK, Placed, Dispatch, Goto
  <1>2. ASSUME NEW v \in Vcpu, Reschedule(v) PROVE Placed'
    BY <1>0, <1>c, <1>2 DEF TypeOK, Placed, Reschedule, PutCpu, Goto
  <1>3. ASSUME NEW v \in Vcpu, GuestDeliver(v) PROVE Placed'
    BY <1>0, <1>3, PlacedStays, Zenon DEF GuestDeliver
  <1>4. ASSUME NEW v \in Vcpu, GuestBlock(v) PROVE Placed'
    BY <1>0, <1>4, PlacedStays, Zenon DEF GuestBlock
  <1>5. ASSUME NEW v \in Vcpu, Exit(v) PROVE Placed'
    BY <1>0, <1>5 DEF TypeOK, Placed, Exit, Goto
  <1>6. ASSUME NEW v \in Vcpu, Leave(v) PROVE Placed'
    BY <1>0, <1>6 DEF TypeOK, Placed, Leave, Goto
  <1>7. ASSUME NEW v \in Vcpu, Handle(v) PROVE Placed'
    <2>1. /\ pc[v] = "handler" /\ pc' = [pc EXCEPT ![v] = "hv"]
          /\ UNCHANGED <<state, current, loaded, preempted, chosen>>
      BY <1>7, Zenon DEF Handle, Goto
    <2> QED BY <1>0, <2>1 DEF TypeOK, Placed
  <1>8. ASSUME NEW v \in Vcpu, Pause(v) PROVE Placed'
    BY <1>0, <1>c, <1>8 DEF TypeOK, Placed, Pause, PutCpu, Goto
  <1>9. ASSUME NEW v \in Vcpu, Enter(v) PROVE Placed'
    BY <1>0, <1>c, <1>9 DEF TypeOK, Placed, Enter, Goto
  <1>10. ASSUME NEW v \in Vcpu, InjectPending(v) PROVE Placed'
    <2>1. /\ pc[v] = "entering" /\ pc' = [pc EXCEPT ![v] = "injected"]
          /\ UNCHANGED <<state, current, loaded, preempted>>
          /\ \A u \in Vcpu : u # v => chosen'[u] = chosen[u]
      BY <1>0, <1>10, Zenon DEF InjectPending, Goto, TypeOK
    <2> QED BY <1>0, <2>1 DEF TypeOK, Placed
  <1>11. ASSUME NEW v \in Vcpu, Resume(v) PROVE Placed'
    <2>1. /\ pc[v] = "injected" /\ pc' = [pc EXCEPT ![v] = "guest"]
          /\ UNCHANGED <<state, current, loaded, preempted>>
          /\ chosen' = [chosen EXCEPT ![v] = NULL]
      BY <1>11, Zenon DEF Resume, Goto
    <2> QED BY <1>0, <2>1 DEF TypeOK, Placed
  <1>12. ASSUME NEW v \in Vcpu, NEW x \in Events, Inject(v, x) PROVE Placed'
    BY <1>0, <1>12, PlacedStays, Zenon DEF Inject
  <1>13. ASSUME NEW v \in Vcpu, NEW x \in Events, Unpause(v, x) PROVE Placed'
    BY <1>0, <1>13 DEF TypeOK, Placed, Unpause
  <1>14. ASSUME NEW v \in Vcpu, NEW x \in Allowed, SetPerm(v, x) PROVE Placed'
    BY <1>0, <1>14, PlacedStays, Zenon DEF SetPerm
  <1>15. ASSUME NEW c \in Cpu, NEW x \in Events, HostInterrupt(c, x) PROVE Placed'
    BY <1>0, <1>15, PlacedStays, Zenon DEF HostInterrupt
  <1>16. ASSUME NEW c \in Cpu, HostIpi(c) PROVE Placed'
    BY <1>0, <1>16, PlacedStays, Zenon DEF HostIpi
  <1>17. ASSUME NEW c \in Cpu, OthersRun(c) PROVE Placed'
    BY <1>0, <1>c, <1>17, Zenon DEF TypeOK, Placed, OthersRun
  <1>18. CASE UNCHANGED vars BY <1>0, <1>18, PlacedStays, Zenon DEF vars
  <1> QED
    BY <1>1, <1>2, <1>3, <1>4, <1>5, <1>6, <1>7, <1>8, <1>9, <1>10, <1>11, <1>12,
       <1>13, <1>14, <1>15, <1>16, <1>17, <1>18, Zenon DEF Next

\* __venter writes the window bits into the vmcs that is loaded, which is the
\* vcpu's own.
LEMMA NextWindows == IInv /\ [Next]_vars => WindowsAgree'
  <1> SUFFICES ASSUME IInv, [Next]_vars PROVE WindowsAgree'
    OBVIOUS
  <1> USE DEF cpuVars, entryVars, dispatchVars, guestVars
  <1>0. TypeOK /\ Placed /\ WindowsAgree BY Zenon DEF IInv
  <1>1. ASSUME NEW v \in Vcpu, InjectPending(v) PROVE WindowsAgree'
    <2>1. loaded[CpuOf[v]] = v BY <1>0, <1>1, Zenon DEF Placed, InjectPending
    <2>2. window' = [window EXCEPT ![v] = NewWindow(v)] BY <1>1, Zenon DEF InjectPending
    <2>3. CASE NewWindow(v) = window[v]
      BY <1>0, <1>1, <2>2, <2>3 DEF WindowsAgree, InjectPending, TypeOK
    <2>4. CASE NewWindow(v) # window[v]
      <3>1. vmcsWindow' = [u \in Vcpu |-> IF u = v THEN NewWindow(v) ELSE vmcsWindow[u]]
        BY <1>1, <2>1, <2>4, Zenon DEF InjectPending
      <3> QED BY <1>0, <2>2, <3>1, Zenon DEF WindowsAgree, TypeOK
    <2> QED BY <2>3, <2>4, Zenon
  <1>2. ASSUME UNCHANGED <<window, vmcsWindow>> PROVE WindowsAgree'
    BY <1>0, <1>2, Zenon DEF WindowsAgree
  <1>3. \A v \in Vcpu : InjectPending(v) => WindowsAgree' BY <1>1, Zenon
  <1> HIDE DEF WindowsAgree
  <1> QED
    BY <1>2, <1>3, Zenon
    DEF Next, vars, Dispatch, Reschedule, GuestDeliver, GuestBlock, Exit, Leave,
        Handle, Pause, Enter, Resume, Inject, Unpause, SetPerm, HostInterrupt,
        HostIpi, OthersRun

-----------------------------------------------------------------------------
(* Subscriptions.                                                             *)

\* What SubscribersHear asks of one vcpu.
Hears(v) ==
    /\ queued[v] \subseteq subscribed[v] /\ subscribed[v] \subseteq allowed[v]
    /\ \A x \in subscribed[v] :
         x \in queued[v] \/ x \in pending[v] \/ chosen[v] = x

\* A step that leaves the permissions alone, and takes no vector back.
LEMMA HearsStays ==
    ASSUME NEW v \in Vcpu, Hears(v),
           allowed'[v] = allowed[v], subscribed'[v] = subscribed[v],
           queued'[v] = queued[v], chosen'[v] = chosen[v],
           pending[v] \subseteq pending'[v]
    PROVE  Hears(v)'
  BY Zenon DEF Hears

\* vdispatch_interrupt moves a vector from the queue to the pending ones.
LEMMA DispatchedHears ==
    ASSUME NEW v \in Vcpu, Hears(v), NEW c, NEW x, Dispatched(c, x),
           allowed'[v] = allowed[v], subscribed'[v] = subscribed[v],
           chosen'[v] = chosen[v]
    PROVE  Hears(v)'
  BY Zenon DEF Hears, Dispatched

\* Every step keeps the subscribers in the queue, or the vector with them.
LEMMA NextHears == IInv /\ [Next]_vars => SubscribersHear'
  <1> SUFFICES ASSUME IInv, [Next]_vars, NEW v \in Vcpu PROVE Hears(v)'
    BY Zenon DEF SubscribersHear, Hears
  <1> USE DEF cpuVars, entryVars, dispatchVars, guestVars
  <1>0. InterruptAssumption /\ TypeOK /\ Placed BY Zenon DEF IInv
  <1>h. Hears(v) BY Zenon DEF IInv, SubscribersHear, Hears
  <1>1. ASSUME NEW w \in Vcpu, Handle(w) PROVE Hears(v)'
    <2>1. chosen'[v] = chosen[v] BY <1>1, Zenon DEF Handle
    <2>2. CASE HandleNop(w) \/ HandleFault(w) \/ HandleCr8(w) \/ Veoi(w)
      BY <1>h, <2>1, <2>2, HearsStays, Zenon DEF HandleNop, HandleFault, HandleCr8, Veoi
    <2>3. CASE HandleExternal(w)
      BY <1>h, <2>1, <2>3, DispatchedHears, Zenon DEF HandleExternal
    <2>4. CASE HandleSelfIpi(w) \/ Requeue(w)
      <3>1. pending[v] \subseteq pending'[v]
        BY <1>0, <2>4 DEF HandleSelfIpi, Requeue, SetPending, TypeOK
      <3> QED BY <1>h, <2>1, <2>4, <3>1, HearsStays, Zenon DEF HandleSelfIpi, Requeue
    <2>5. CASE Subscribe(w)
      <3>1. PICK x \in allowed[w] :
              /\ subscribed' = [subscribed EXCEPT ![w] = @ \cup {x}]
              /\ queued' = [queued EXCEPT ![w] = IF x \in pending[w] THEN @
                                                 ELSE @ \cup {x}]
        BY <2>5, Zenon DEF Subscribe
      <3>2. UNCHANGED <<allowed, pending>> BY <2>5, Zenon DEF Subscribe
      <3>3. CASE v = w
        BY <1>0, <1>h, <2>1, <3>1, <3>2, <3>3, Zenon DEF TypeOK, Hears
      <3>4. CASE v # w
        BY <1>0, <1>h, <2>1, <3>1, <3>2, <3>4, HearsStays, Zenon DEF TypeOK
      <3> QED BY <3>3, <3>4, Zenon
    <2>6. CASE Unsubscribe(w)
      <3>1. PICK x \in allowed[w] :
              /\ subscribed' = [subscribed EXCEPT ![w] = @ \ {x}]
              /\ queued' = [queued EXCEPT ![w] = @ \ {x}]
        BY <2>6, Zenon DEF Unsubscribe
      <3>2. UNCHANGED <<allowed, pending>> BY <2>6, Zenon DEF Unsubscribe
      <3> QED BY <1>0, <1>h, <2>1, <3>1, <3>2, Zenon DEF TypeOK, Hears
    <2> QED BY <1>1, <2>2, <2>3, <2>4, <2>5, <2>6, Zenon DEF Handle
  <1>2. ASSUME NEW w \in Vcpu, InjectPending(w) PROVE Hears(v)'
    <2>1. chosen[w] = NULL BY <1>0, <1>2, Zenon DEF Placed, InjectPending
    <2>2. UNCHANGED <<allowed, subscribed, queued>> BY <1>2, Zenon DEF InjectPending
    <2>3. /\ v # w => chosen'[v] = chosen[v] /\ pending'[v] = pending[v]
          /\ pending'[w] = pending[w] \ {chosen'[w]}
      BY <1>0, <1>2, Zenon DEF InjectPending, TypeOK
    <2>4. CASE v # w BY <1>h, <2>2, <2>3, <2>4, HearsStays, Zenon
    <2>5. CASE v = w
      <3>1. NULL \notin subscribed[v]
        BY <1>0, Zenon DEF TypeOK, InterruptAssumption
      <3> QED BY <1>h, <2>1, <2>2, <2>3, <2>5, <3>1, Zenon DEF Hears
    <2> QED BY <2>4, <2>5, Zenon
  <1>3. ASSUME NEW w \in Vcpu, Resume(w) PROVE Hears(v)'
    <2>1. /\ queued' = [queued EXCEPT ![w] = Requeued(w, chosen[w])]
          /\ chosen' = [chosen EXCEPT ![w] = NULL]
          /\ UNCHANGED <<pending, allowed, subscribed>>
      BY <1>3, Zenon DEF Resume
    <2>2. CASE v # w BY <1>0, <1>h, <2>1, <2>2, HearsStays, Zenon DEF TypeOK
    <2>3. CASE v = w BY <1>0, <1>h, <2>1, <2>3, Zenon DEF TypeOK, Hears, Requeued
    <2> QED BY <2>2, <2>3
  <1>4. ASSUME NEW w \in Vcpu, NEW x \in Events, Inject(w, x) \/ Unpause(w, x)
        PROVE  Hears(v)'
    <2>1. pending[v] \subseteq pending'[v]
      BY <1>0, <1>4 DEF Inject, Unpause, SetPending, TypeOK
    <2> QED BY <1>h, <1>4, <2>1, HearsStays, Zenon DEF Inject, Unpause
  <1>5. ASSUME NEW w \in Vcpu, NEW x \in Allowed, SetPerm(w, x) PROVE Hears(v)'
    BY <1>0, <1>h, <1>5 DEF SetPerm, TypeOK, Hears
  <1>6. ASSUME NEW c \in Cpu, NEW x \in Events, HostInterrupt(c, x) PROVE Hears(v)'
    BY <1>h, <1>6, DispatchedHears, Zenon DEF HostInterrupt
  <1>7. ASSUME UNCHANGED <<pending, allowed, subscribed, queued, chosen>>
        PROVE  Hears(v)'
    BY <1>h, <1>7, HearsStays, Zenon
  <1>8. ASSUME NEW w \in Vcpu, Dispatch(w) \/ Reschedule(w) \/ GuestDeliver(w)
                  \/ GuestBlock(w) \/ Exit(w) \/ Leave(w) \/ Pause(w) \/ Enter(w)
        PROVE  Hears(v)'
    BY <1>7, <1>8, Zenon
    DEF Dispatch, Reschedule, GuestDeliver, GuestBlock, Exit, Leave, Pause, Enter
  <1>9. ASSUME NEW c \in Cpu, HostIpi(c) \/ OthersRun(c) PROVE Hears(v)'
    BY <1>7, <1>9, Zenon DEF HostIpi, OthersRun
  <1>10. CASE UNCHANGED vars BY <1>7, <1>10, Zenon DEF vars
  <1> QED
    BY <1>1, <1>2, <1>3, <1>4, <1>5, <1>6, <1>8, <1>9, <1>10, Zenon DEF Next

-----------------------------------------------------------------------------
(* No interrupt is missed.                                                    *)

\* What Announced asks of one vcpu.
Told(v) ==
    pc[v] \in Entered =>
        /\ NMI \in pending[v] => window[v] = "nmi" \/ ipi[CpuOf[v]]
        /\ Deliverable(v, Best(v)) => window[v] # "none" \/ ipi[CpuOf[v]]

\* A cpu has one vcpu.
LEMMA OneEach ==
    ASSUME Placed, NEW v \in Vcpu, NEW w \in Vcpu, CpuOf[v] = CpuOf[w],
           pc[v] # "off", pc[w] # "off"
    PROVE  v = w
  BY DEF Placed

\* A vcpu comes to its entry by __venter's choice of the event only.
LEMMA PcMoves ==
    ASSUME TypeOK, NEW v \in Vcpu, NEW w \in Vcpu,
           \/ Dispatch(w) \/ Reschedule(w) \/ Exit(w) \/ Leave(w) \/ Pause(w)
           \/ Enter(w) \/ Resume(w)
    PROVE  pc'[v] \in Entered => pc[v] \in Entered
  <1>1. CASE Resume(w)
    <2>1. pc[w] = "injected" /\ pc' = [pc EXCEPT ![w] = "guest"]
      BY <1>1, Zenon DEF Resume, Goto
    <2> QED BY <2>1, Zenon DEF TypeOK, Entered
  <1>2. CASE Dispatch(w) \/ Reschedule(w) \/ Exit(w) \/ Leave(w) \/ Pause(w) \/ Enter(w)
    <2>1. \E to \in {"hv", "off", "exited", "handler", "entering"} :
            pc' = [pc EXCEPT ![w] = to]
      BY <1>2, Zenon DEF Dispatch, Reschedule, Exit, Leave, Pause, Enter, PutCpu, Goto
    <2> QED BY <2>1, Zenon DEF TypeOK, Entered
  <1> QED BY <1>1, <1>2, Zenon

\* A step that leaves the vcpu's interrupts alone, and takes no ipi back.
LEMMA ToldStays ==
    ASSUME NEW v \in Vcpu, Told(v), pc'[v] \in Entered => pc[v] \in Entered,
           pending'[v] = pending[v], inIntl'[v] = inIntl[v], intl'[v] = intl[v],
           window'[v] = window[v], ipi[CpuOf[v]] => ipi'[CpuOf[v]]
    PROVE  Told(v)'
  BY Zenon DEF Told, Deliverable, Best

\* The interrupts of a vcpu that is in the guest do not reach the hypervisor on
\* its cpu, so vdispatch_interrupt does not reach its pending ones there.
LEMMA DispatchedElsewhere ==
    ASSUME NEW v \in Vcpu, NEW c, NEW x, Dispatched(c, x), CpuOf[v] # c
    PROVE  pending'[v] = pending[v]
  BY Zenon DEF Dispatched

\* __vemu_inject_external_interrupt: the sender arms what the window does not.
LEMMA InjectTells ==
    ASSUME InterruptAssumption, TypeOK, TypeOK', Placed, NEW v \in Vcpu, Told(v),
           NEW w \in Vcpu, NEW x \in Events, Inject(w, x)
    PROVE  Told(v)'
  <1>1. UNCHANGED <<state, pc, inIntl, intl, window>>
    BY Zenon DEF Inject, entryVars
  <1>2. ASSUME NEW c \in Cpu, ipi[c] PROVE ipi'[c]
    <2>1. ipi' = [ipi EXCEPT ![CpuOf[w]] = ipi[CpuOf[w]] \/ NeedsExit(w, x)]
      BY Zenon DEF Inject
    <2>2. ipi \in [Cpu -> BOOLEAN] BY Zenon DEF TypeOK
    <2> QED BY <1>2, <2>1, <2>2, Zenon
  <1>3. CpuOf[v] \in Cpu BY HasCpu, Zenon
  <1>4. CASE v # w
    <2>1. pending'[v] = pending[v] BY <1>4, Zenon DEF Inject, SetPending, TypeOK
    <2> QED BY <1>1, <1>2, <1>3, <2>1, ToldStays, Zenon
  <1>5. CASE v = w
    <2> SUFFICES ASSUME pc[v] \in Entered
                 PROVE  /\ NMI \in pending'[v] => window[v] = "nmi" \/ ipi'[CpuOf[v]]
                        /\ Deliverable(v, Best(v))' =>
                             window[v] # "none" \/ ipi'[CpuOf[v]]
      BY <1>1, Zenon DEF Told
    <2>1. state[v] = "RUNNING" BY Zenon DEF Placed, Entered
    <2>2. pending'[v] = pending[v] \cup {x}
      BY <1>5, Zenon DEF Inject, SetPending, TypeOK
    <2>3. NeedsExit(v, x) => ipi'[CpuOf[v]] BY <1>3, <1>5, Zenon DEF Inject, TypeOK
    <2>4. NMI \in pending'[v] => window[v] = "nmi" \/ ipi'[CpuOf[v]]
      BY <1>2, <1>3, <2>1, <2>2, <2>3, Zenon DEF Told, NeedsExit
    <2>5. ASSUME Deliverable(v, Best(v))' PROVE window[v] # "none" \/ ipi'[CpuOf[v]]
      <3> DEFINE b == Best(v)'
      <3>1. b # None /\ Intl(b) > Highest(inIntl[v]) /\ Intl(b) >= intl[v]
        BY <1>1, <2>5, Zenon DEF Deliverable
      <3>2. /\ b \in Int /\ b \in pending'[v] \ {NMI}
            /\ \A y \in pending'[v] \ {NMI} : y \in Int /\ y <= b
        <4>1. pending'[v] \in SUBSET Events BY Zenon DEF TypeOK
        <4>2. b = Highest(pending'[v] \ {NMI}) BY Zenon DEF Best
        <4> QED BY <3>1, <4>1, <4>2, BestOf, Zenon
      <3>3. CASE b = x
        <4>1. Deliverable(v, x) /\ x # NMI BY <3>1, <3>2, <3>3, Zenon DEF Deliverable
        <4> QED BY <2>1, <2>3, <4>1, Zenon DEF NeedsExit
      <3>4. CASE b # x
        <4>1. b = Best(v)
          <5> HIDE DEF b
          <5>1. b \in pending[v] \ {NMI} BY <2>2, <3>2, <3>4, Zenon
          <5>2. b <= Best(v) /\ Best(v) \in Int BY <5>1, BestIsPending, Zenon
          <5>3. Best(v) # None
            <6>1. b \in 0..255 BY <5>1 DEF TypeOK, Events, InterruptAssumption
            <6> QED BY <5>2, <6>1 DEF None
          <5>4. Best(v) \in pending'[v] \ {NMI} BY <2>2, <5>3, BestIsPending, Zenon
          <5>5. Best(v) <= b BY <3>2, <5>4, Zenon
          <5> QED BY <3>2, <5>2, <5>5
        <4>2. Deliverable(v, Best(v)) BY <3>1, <4>1, Zenon DEF Deliverable
        <4> QED BY <1>2, <1>3, <4>2, Zenon DEF Told
      <3> QED BY <3>3, <3>4, Zenon
    <2> QED BY <2>4, <2>5, Zenon
  <1> QED BY <1>4, <1>5, Zenon

\* __venter leaves nothing behind without a window: what it injects goes into
\* service and blocks the rest of its level, what it does not inject has one.
LEMMA EntryTells ==
    ASSUME InterruptAssumption, TypeOK, TypeOK', Placed, NEW v \in Vcpu, Told(v),
           NEW w \in Vcpu, InjectPending(w)
    PROVE  Told(v)'
  <1>1. UNCHANGED <<intl, ipi>> BY Zenon DEF InjectPending
  <1>2. CASE v # w
    <2>1. /\ pending'[v] = pending[v] /\ inIntl'[v] = inIntl[v]
          /\ window'[v] = window[v] /\ pc'[v] = pc[v]
      BY <1>2 DEF InjectPending, Goto, TypeOK
    <2> QED BY <1>1, <2>1, ToldStays, Zenon
  <1>3. CASE v = w
    <2>1. window'[v] = NewWindow(v) BY <1>3 DEF InjectPending, TypeOK
    <2>2. pending'[v] = pending[v] \ {chosen'[v]} BY <1>3 DEF InjectPending, TypeOK
    <2>3. chosen'[v] = IF NmiFits(v) THEN NMI ELSE IF IntFits(v) THEN Best(v) ELSE NULL
      BY <1>3 DEF InjectPending, TypeOK
    <2>4. inIntl'[v] = IF IntFits(v) THEN inIntl[v] \cup {Intl(Best(v))} ELSE inIntl[v]
      BY <1>3 DEF InjectPending, TypeOK
    <2>5. CASE NmiFits(v)
      <3>1. NMI \in pending[v] /\ BehindNmi(v) /\ ~IntFits(v)
        BY <2>5, Zenon DEF NmiFits, BehindNmi, IntFits
      <3>2. pending'[v] = pending[v] \ {NMI} /\ inIntl'[v] = inIntl[v]
        BY <2>2, <2>3, <2>4, <2>5, <3>1, Zenon
      <3>3. pending'[v] \ {NMI} = pending[v] \ {NMI} BY <3>2, Zenon
      <3>4. Deliverable(v, Best(v))' => Deliverable(v, Best(v))
        BY <1>1, <3>2, <3>3, Zenon DEF Deliverable, Best
      <3>5. Deliverable(v, Best(v)) => NewWindow(v) = "nmi" BY <3>1, Zenon DEF NewWindow
      <3> QED BY <2>1, <3>2, <3>4, <3>5, Zenon DEF Told
    <2>6. CASE IntFits(v)
      <3>1. NMI \notin pending[v] /\ ~NmiFits(v)
        BY <2>6, Zenon DEF IntFits, BehindNmi, NmiFits
      <3>2. /\ pending'[v] = pending[v] \ {Best(v)}
            /\ inIntl'[v] = inIntl[v] \cup {Intl(Best(v))}
        BY <2>2, <2>3, <2>4, <2>6, <3>1, Zenon
      <3>3. ~Deliverable(v, Best(v))'
        <4> SUFFICES ASSUME Deliverable(v, Best(v))' PROVE FALSE
          BY Zenon
        <4> DEFINE b == Highest(pending'[v] \ {NMI})
        <4>1. b # None /\ Intl(b) > Highest(inIntl'[v]) BY Zenon DEF Deliverable, Best
        <4>2. pending'[v] \in SUBSET Events BY Zenon DEF TypeOK
        <4>3. b \in pending'[v] \ {NMI} /\ b \in Vector BY <4>1, <4>2, BestOf, Zenon
        <4> HIDE DEF b
        <4>4. b \in pending[v] \ {NMI} BY <3>2, <4>3, Zenon
        <4>5. b <= Best(v) BY <4>4, BestIsPending, Zenon
        <4>6. Best(v) \in Vector /\ Intl(Best(v)) \in Levels BY <2>6, ChoiceIsEvent, Zenon
        <4>7. Intl(b) <= Intl(Best(v)) BY <4>3, <4>5, <4>6, LevelOrder, Zenon
        <4>8. Intl(Best(v)) <= Highest(inIntl'[v]) /\ Highest(inIntl'[v]) \in Int
          <5>1. inIntl'[v] \subseteq 0..255 BY LevelOrder, Zenon DEF TypeOK
          <5> QED BY <3>2, <5>1, HighestIsMax, Zenon
        <4>9. Intl(b) \in Int /\ Intl(Best(v)) \in Int BY <4>3, <4>6, LevelOrder
        <4> QED BY <4>1, <4>7, <4>8, <4>9
      <3> QED BY <3>1, <3>2, <3>3 DEF Told
    <2>7. CASE ~NmiFits(v) /\ ~IntFits(v)
      <3>1. NULL \notin pending[v] BY Zenon DEF TypeOK, InterruptAssumption
      <3>2. pending'[v] = pending[v] /\ inIntl'[v] = inIntl[v]
        BY <2>2, <2>3, <2>4, <2>7, <3>1, Zenon
      <3>3. Deliverable(v, Best(v))' => Deliverable(v, Best(v))
        BY <1>1, <3>2, Zenon DEF Deliverable, Best
      <3>4. NMI \in pending[v] => NewWindow(v) = "nmi" BY <2>7, Zenon DEF NewWindow, NmiWaits
      <3>5. Deliverable(v, Best(v)) => NewWindow(v) # "none" BY <2>7, Zenon DEF NewWindow
      <3> QED BY <2>1, <3>2, <3>3, <3>4, <3>5, Zenon DEF Told
    <2> QED BY <2>5, <2>6, <2>7, Zenon
  <1> QED BY <1>2, <1>3, Zenon

\* Every step keeps the pending interrupts of a guest announced.
LEMMA NextAnnounced == IInv /\ TypeOK' /\ [Next]_vars => Announced'
  <1> SUFFICES ASSUME IInv, TypeOK', [Next]_vars, NEW v \in Vcpu PROVE Told(v)'
    BY Zenon DEF Announced, Told
  <1> USE DEF cpuVars, entryVars, dispatchVars, guestVars
  <1>0. InterruptAssumption /\ TypeOK /\ Placed BY Zenon DEF IInv
  <1>a. Told(v) BY Zenon DEF IInv, Announced, Told
  <1>c. CpuOf[v] \in Cpu /\ v # NULL BY <1>0, HasCpu, Zenon
  <1>e. ASSUME pc'[v] \notin Entered PROVE Told(v)' BY <1>e, Zenon DEF Told
  <1>s. ASSUME UNCHANGED <<pending, inIntl, intl, window, ipi>>,
               pc'[v] \in Entered => pc[v] \in Entered
        PROVE  Told(v)'
    BY <1>a, <1>s, ToldStays, Zenon
  <1>1. ASSUME NEW w \in Vcpu, Handle(w) PROVE Told(v)'
    <2>1. pc[w] = "handler" /\ pc' = [pc EXCEPT ![w] = "hv"] BY <1>1, Zenon DEF Handle, Goto
    <2>2. UNCHANGED <<window, ipi>> BY <1>1, Zenon DEF Handle
    <2>3. CASE v = w
      <3>1. pc'[v] = "hv" BY <1>0, <2>1, <2>3 DEF TypeOK
      <3> QED BY <1>e, <3>1, Zenon DEF Entered
    <2>4. CASE v # w /\ pc[v] \in Entered
      <3>1. CpuOf[v] # CpuOf[w]
        BY <1>0, <2>1, <2>4, OneEach, Zenon DEF Entered
      <3>2. pending'[v] = pending[v] /\ inIntl'[v] = inIntl[v] /\ intl'[v] = intl[v]
        <4>1. CASE HandleExternal(w)
          BY <3>1, <4>1, DispatchedElsewhere, Zenon DEF HandleExternal
        <4>2. CASE \/ HandleNop(w) \/ HandleFault(w) \/ HandleCr8(w)
                   \/ Subscribe(w) \/ Unsubscribe(w)
          BY <1>0, <2>4, <4>2, Zenon
          DEF HandleNop, HandleFault, HandleCr8, Subscribe, Unsubscribe, TypeOK
        <4>3. CASE HandleSelfIpi(w) \/ Veoi(w) \/ Requeue(w)
          BY <1>0, <2>4, <4>3 DEF HandleSelfIpi, Veoi, Requeue, SetPending, TypeOK
        <4> QED BY <1>1, <4>1, <4>2, <4>3, Zenon DEF Handle
      <3> QED BY <1>a, <2>2, <2>4, <3>2, ToldStays, Zenon
    <2>5. CASE v # w /\ pc[v] \notin Entered
      BY <1>0, <1>e, <2>1, <2>5 DEF TypeOK
    <2> QED BY <2>3, <2>4, <2>5, Zenon
  <1>2. ASSUME NEW w \in Vcpu, Leave(w) PROVE Told(v)'
    <2>1. /\ pc[w] = "exited" /\ pc' = [pc EXCEPT ![w] = "handler"]
          /\ UNCHANGED <<pending, inIntl, intl, window>>
      BY <1>2, Zenon DEF Leave, Goto
    <2>2. pc'[v] \in Entered => pc[v] \in Entered /\ v # w
      BY <1>0, <2>1, Zenon DEF TypeOK, Entered
    <2>3. CASE pc'[v] \in Entered
      <3>1. CpuOf[v] # CpuOf[w] BY <1>0, <2>1, <2>2, <2>3, OneEach, Zenon DEF Entered
      <3>2. ipi'[CpuOf[v]] = ipi[CpuOf[v]]
        <4>1. ipi' = ipi \/ ipi' = [ipi EXCEPT ![CpuOf[w]] = FALSE] BY <1>2, Zenon DEF Leave
        <4>2. ipi \in [Cpu -> BOOLEAN] BY <1>0, Zenon DEF TypeOK
        <4> QED BY <1>c, <3>1, <4>1, <4>2, SMT
      <3> QED BY <1>a, <2>1, <2>2, <3>2, ToldStays, Zenon
    <2> QED BY <1>e, <2>3, Zenon
  <1>3. ASSUME NEW w \in Vcpu, NEW x \in Events, Unpause(w, x)
        PROVE  Told(v)'
    <2>1. pc' = pc /\ state[w] = "PAUSED" /\ UNCHANGED <<inIntl, intl, window, ipi>>
      BY <1>3, Zenon DEF Unpause
    <2>2. pc[w] \notin Entered BY <1>0, <2>1, Zenon DEF Placed, Entered
    <2>3. v # w => pending'[v] = pending[v]
      <3>1. pending' = [pending EXCEPT ![w] = pending[w] \cup {x}]
        BY <1>3, Zenon DEF Unpause, SetPending
      <3>2. pending \in [Vcpu -> SUBSET Events] BY <1>0, Zenon DEF TypeOK
      <3> QED BY <3>1, <3>2, SMT
    <2>4. CASE v = w BY <1>e, <2>1, <2>2, <2>4, Zenon
    <2>5. CASE v # w BY <1>a, <2>1, <2>3, <2>5, ToldStays, Zenon
    <2> QED BY <2>4, <2>5, Zenon
  <1>h. ASSUME NEW c \in Cpu, IntsEnabled(c), pc[v] \in Entered PROVE CpuOf[v] # c
    BY <1>0, <1>h DEF IntsEnabled, Placed, Entered
  <1>4. ASSUME NEW c \in Cpu, NEW x \in Events, HostInterrupt(c, x) PROVE Told(v)'
    <2>1. /\ IntsEnabled(c) /\ Dispatched(c, x)
          /\ UNCHANGED <<pc, inIntl, intl, window, ipi>>
      BY <1>4, Zenon DEF HostInterrupt
    <2>2. CASE pc[v] \in Entered
      <3>1. pending'[v] = pending[v] BY <1>h, <2>1, <2>2, DispatchedElsewhere, Zenon
      <3> QED BY <1>a, <2>1, <3>1, ToldStays, Zenon
    <2> QED BY <1>e, <2>1, <2>2, Zenon
  <1>5. ASSUME NEW c \in Cpu, HostIpi(c) PROVE Told(v)'
    <2>1. /\ IntsEnabled(c) /\ ipi' = [ipi EXCEPT ![c] = FALSE]
          /\ UNCHANGED <<pc, pending, inIntl, intl, window>>
      BY <1>5, Zenon DEF HostIpi
    <2>2. CASE pc[v] \in Entered
      <3>1. ipi'[CpuOf[v]] = ipi[CpuOf[v]]
        BY <1>0, <1>c, <1>h, <2>1, <2>2, Zenon DEF TypeOK
      <3> QED BY <1>a, <2>1, <3>1, ToldStays, Zenon
    <2> QED BY <1>e, <2>1, <2>2, Zenon
  <1>6. ASSUME NEW w \in Vcpu, Dispatch(w) \/ Reschedule(w) \/ Exit(w) \/ Pause(w)
                                 \/ Enter(w) \/ Resume(w)
        PROVE  Told(v)'
    <2>1. pc'[v] \in Entered => pc[v] \in Entered BY <1>0, <1>6, PcMoves, Zenon
    <2>2. UNCHANGED <<pending, inIntl, intl, window, ipi>>
      BY <1>6, Zenon DEF Dispatch, Reschedule, Exit, Pause, Enter, Resume
    <2> QED BY <1>s, <2>1, <2>2, Zenon
  <1>7. ASSUME NEW w \in Vcpu, GuestDeliver(w) \/ GuestBlock(w) PROVE Told(v)'
    BY <1>7, <1>s, Zenon DEF GuestDeliver, GuestBlock
  <1>8. ASSUME NEW w \in Vcpu, NEW x \in Allowed, SetPerm(w, x) PROVE Told(v)'
    BY <1>8, <1>s, Zenon DEF SetPerm
  <1>9. ASSUME NEW c \in Cpu, OthersRun(c) PROVE Told(v)'
    BY <1>9, <1>s, Zenon DEF OthersRun
  <1>10. CASE UNCHANGED vars BY <1>10, <1>s, Zenon DEF vars
  <1>11. ASSUME NEW w \in Vcpu, InjectPending(w) PROVE Told(v)'
    BY <1>0, <1>a, <1>11, EntryTells, Zenon
  <1>12. ASSUME NEW w \in Vcpu, NEW x \in Events, Inject(w, x) PROVE Told(v)'
    BY <1>0, <1>a, <1>12, InjectTells, Zenon
  <1> QED
    BY <1>1, <1>2, <1>3, <1>4, <1>5, <1>6, <1>7, <1>8, <1>9, <1>10, <1>11, <1>12,
       Zenon DEF Next

-----------------------------------------------------------------------------
(* What is injected fits.                                                     *)

\* What Nested asks of one vcpu.
Fits(v) ==
    /\ handlers[v] \subseteq inIntl[v]
    /\ pc[v] \in Entered /\ event[v] \in Vector =>
         /\ ~IntsBlocked(v) /\ Intl(event[v]) >= intl[v]
         /\ \A l \in handlers[v] : l < Intl(event[v])
         /\ Intl(event[v]) \in inIntl[v]
    /\ pc[v] \in Entered /\ event[v] = NMI => ~NmisBlocked(v)

\* Nested is Fits of every vcpu.
LEMMA NestedIsFits == Nested <=> \A v \in Vcpu : Fits(v)
  BY Zenon DEF Nested, InjectedFits, Fits, Entered

\* A step that leaves the guest, its levels and its event alone.
LEMMA FitsStays ==
    ASSUME NEW v \in Vcpu, Fits(v), pc'[v] \in Entered => pc[v] \in Entered,
           handlers'[v] = handlers[v], inIntl'[v] = inIntl[v], intl'[v] = intl[v],
           event'[v] = event[v], blocked'[v] = blocked[v]
    PROVE  Fits(v)'
  BY Zenon DEF Fits, IntsBlocked, NmisBlocked

\* veoi takes the highest level out of service, and the guest out of its handler.
LEMMA VeoiNests ==
    ASSUME InterruptAssumption, TypeOK, NEW v \in Vcpu,
           handlers[v] \subseteq inIntl[v]
    PROVE  handlers[v] \ {Highest(handlers[v])} \subseteq inIntl[v] \ {Highest(inIntl[v])}
  <1>1. inIntl[v] \subseteq 0..255 /\ handlers[v] \subseteq 0..255
    BY LevelOrder, Zenon DEF TypeOK
  <1>2. ASSUME NEW l \in handlers[v], l # Highest(handlers[v]) PROVE l # Highest(inIntl[v])
    <2>1. Highest(handlers[v]) \in handlers[v] /\ l <= Highest(handlers[v])
      BY <1>1, HighestIsMax
    <2>2. Highest(handlers[v]) <= Highest(inIntl[v]) BY <1>1, <2>1, HighestIsMax, Zenon
    <2>3. l \in Int /\ Highest(handlers[v]) \in Int /\ Highest(inIntl[v]) \in Int
      BY <1>1, HighestIsMax
    <2> QED BY <1>2, <2>1, <2>2, <2>3
  <1> QED BY <1>2, Zenon

\* __venter injects an interrupt above every level in service into a guest that
\* does not block it, and no interrupt behind an exception or an nmi.
LEMMA EntryFits ==
    ASSUME InterruptAssumption, TypeOK, NEW v \in Vcpu, Fits(v), InjectPending(v)
    PROVE  Fits(v)'
  <1>1. UNCHANGED <<intl, blocked, handlers>> BY Zenon DEF InjectPending, guestVars
  <1>2. inIntl'[v] = IF IntFits(v) THEN inIntl[v] \cup {Intl(Best(v))} ELSE inIntl[v]
    BY Zenon DEF InjectPending, TypeOK
  <1>3. event'[v] = IF exception[v] THEN EXC
                    ELSE IF NmiFits(v) THEN NMI ELSE IF IntFits(v) THEN Best(v) ELSE NULL
    BY Zenon DEF InjectPending, TypeOK
  <1>n. NMI \notin Vector /\ EXC \notin Vector /\ EXC # NMI /\ NULL \notin Vector /\ NULL # NMI
    BY Zenon DEF InterruptAssumption, Events
  <1>4. handlers'[v] \subseteq inIntl'[v] BY <1>1, <1>2, Zenon DEF Fits
  <1>5. ASSUME event'[v] \in Vector
        PROVE  /\ ~IntsBlocked(v)' /\ Intl(event'[v]) >= intl'[v]
               /\ \A l \in handlers'[v] : l < Intl(event'[v])
               /\ Intl(event'[v]) \in inIntl'[v]
    <2>1. IntFits(v) /\ event'[v] = Best(v) BY <1>3, <1>5, <1>n, Zenon
    <2>2. Deliverable(v, Best(v)) /\ ~IntsBlocked(v) BY <2>1, Zenon DEF IntFits
    <2>3. Intl(Best(v)) > Highest(inIntl[v]) /\ Intl(Best(v)) >= intl[v]
      BY <2>2, Zenon DEF Deliverable
    <2>4. ASSUME NEW l \in handlers[v] PROVE l < Intl(Best(v))
      <3>1. inIntl[v] \subseteq 0..255 BY LevelOrder, Zenon DEF TypeOK
      <3>2. l \in inIntl[v] BY Zenon DEF Fits
      <3>3. l <= Highest(inIntl[v]) /\ l \in Int /\ Highest(inIntl[v]) \in Int
        <4>1. Highest(inIntl[v]) \in Int /\ \A y \in inIntl[v] : y <= Highest(inIntl[v])
          BY <3>1, HighestIsMax, Zenon
        <4>2. l \in Int BY <3>1, <3>2, SMT
        <4> QED BY <3>2, <4>1, <4>2, Zenon
      <3>4. Intl(Best(v)) \in Int
        <4>1. Intl(Best(v)) \in Levels BY <2>1, ChoiceIsEvent, Zenon
        <4>2. Levels \subseteq 0..255 BY LevelOrder, Zenon
        <4>3. \A i \in 0..255 : i \in Int OBVIOUS
        <4> QED BY <4>1, <4>2, <4>3, Zenon
      <3> QED BY <2>3, <3>3, <3>4
    <2>5. ~IntsBlocked(v)' BY <1>1, <2>2 DEF IntsBlocked
    <2>6. Intl(event'[v]) \in inIntl'[v] BY <1>2, <2>1
    <2> QED BY <1>1, <2>1, <2>3, <2>4, <2>5, <2>6, Zenon
  <1>6. ASSUME event'[v] = NMI PROVE ~NmisBlocked(v)'
    <2>1. NmiFits(v)
      <3>1. IntFits(v) => Best(v) \in Vector BY ChoiceIsEvent, Zenon
      <3> QED BY <1>3, <1>6, <1>n, <3>1, Zenon
    <2> QED BY <1>1, <2>1 DEF NmiFits, NmisBlocked
  <1> QED BY <1>4, <1>5, <1>6, Zenon DEF Fits

\* Every step keeps the levels of a guest nested.
LEMMA NextNested == IInv /\ [Next]_vars => Nested'
  <1> SUFFICES ASSUME IInv, [Next]_vars PROVE Nested'
    OBVIOUS
  <1>n. Nested' <=> \A v \in Vcpu : Fits(v)'
    BY Zenon DEF Nested, InjectedFits, Fits, Entered, IntsBlocked, NmisBlocked
  <1> SUFFICES ASSUME NEW v \in Vcpu PROVE Fits(v)'
    BY <1>n, Zenon
  <1> USE DEF cpuVars, entryVars, dispatchVars, guestVars
  <1>0. InterruptAssumption /\ TypeOK BY Zenon DEF IInv
  <1>f. Fits(v) BY NestedIsFits, Zenon DEF IInv
  <1>s. ASSUME UNCHANGED <<handlers, inIntl, intl, event, blocked>>,
               pc'[v] \in Entered => pc[v] \in Entered
        PROVE  Fits(v)'
    BY <1>f, <1>s, FitsStays, Zenon
  <1>1. ASSUME NEW w \in Vcpu, Handle(w) PROVE Fits(v)'
    <2>1. pc' = [pc EXCEPT ![w] = "hv"] /\ event' = [event EXCEPT ![w] = NULL]
      BY <1>1, Zenon DEF Handle, Goto
    <2>2. blocked' = blocked BY <1>1, Zenon DEF Handle
    <2>3. /\ v # w => /\ inIntl'[v] = inIntl[v] /\ intl'[v] = intl[v]
                      /\ handlers'[v] = handlers[v]
          /\ handlers'[w] \subseteq inIntl'[w] \/ v # w
      <3>1. CASE Veoi(w)
        <4>1. v = w => handlers'[w] \subseteq inIntl'[w]
          <5> SUFFICES ASSUME v = w PROVE handlers'[w] \subseteq inIntl'[w]
            BY Zenon
          <5>1. /\ handlers'[w] = handlers[w] \ {Highest(handlers[w])}
                /\ inIntl'[w] = inIntl[w] \ {Highest(inIntl[w])}
            BY <1>0, <3>1 DEF Veoi, TypeOK
          <5>2. handlers[w] \subseteq inIntl[w] BY <1>f, Zenon DEF Fits
          <5> QED BY <1>0, <5>1, <5>2, VeoiNests, Zenon
        <4> QED BY <1>0, <3>1, <4>1, Zenon DEF Veoi, TypeOK
      <3>2. CASE HandleCr8(w) BY <1>0, <1>f, <3>2, Zenon DEF HandleCr8, TypeOK, Fits
      <3>3. CASE \/ HandleNop(w) \/ HandleExternal(w) \/ HandleFault(w)
                 \/ HandleSelfIpi(w) \/ Subscribe(w) \/ Unsubscribe(w) \/ Requeue(w)
        <4>1. UNCHANGED <<inIntl, intl, handlers>>
          BY <3>3, Zenon DEF HandleNop, HandleExternal, HandleFault, HandleSelfIpi,
                      Subscribe, Unsubscribe, Requeue
        <4> QED BY <1>f, <4>1, Zenon DEF Fits
      <3> QED BY <1>1, <3>1, <3>2, <3>3, Zenon DEF Handle
    <2>4. CASE v # w
      <3>1. pc'[v] = pc[v] /\ event'[v] = event[v] BY <1>0, <2>1, <2>4, Zenon DEF TypeOK
      <3> QED BY <1>f, <2>2, <2>3, <2>4, <3>1, FitsStays, Zenon
    <2>5. CASE v = w
      <3>1. pc'[v] \notin Entered BY <1>0, <2>1, <2>5, Zenon DEF TypeOK, Entered
      <3> QED BY <2>3, <2>5, <3>1, Zenon DEF Fits
    <2> QED BY <2>4, <2>5
  <1>2. ASSUME NEW w \in Vcpu, GuestDeliver(w) PROVE Fits(v)'
    <2>1. /\ pc[w] = "guest" /\ UNCHANGED <<pc, inIntl, intl>>
          /\ event' = [event EXCEPT ![w] = NULL]
          /\ handlers' = [handlers EXCEPT ![w] =
                            @ \cup IF event[w] \in Vector THEN {Intl(event[w])} ELSE {}]
          /\ \A u \in Vcpu : u # w => blocked'[u] = blocked[u]
      BY <1>0, <1>2, Zenon DEF GuestDeliver, TypeOK
    <2>2. CASE v # w BY <1>0, <1>f, <2>1, <2>2, FitsStays, Zenon DEF TypeOK
    <2>3. CASE v = w
      <3>1. event'[v] = NULL BY <1>0, <2>1, <2>3, Zenon DEF TypeOK
      <3>2. event'[v] \notin Vector /\ event'[v] # NMI
        BY <1>0, <3>1, Zenon DEF InterruptAssumption, Events
      <3>3. handlers'[v] \subseteq inIntl'[v]
        BY <1>0, <1>f, <2>1, <2>3, Zenon DEF TypeOK, Fits, Entered
      <3> QED BY <3>2, <3>3, Zenon DEF Fits
    <2> QED BY <2>2, <2>3
  <1>3. ASSUME NEW w \in Vcpu, GuestBlock(w) PROVE Fits(v)'
    <2>1. /\ event[w] = NULL /\ UNCHANGED <<pc, inIntl, intl, event, handlers>>
          /\ \A u \in Vcpu : u # w => blocked'[u] = blocked[u]
      BY <1>0, <1>3 DEF GuestBlock, TypeOK
    <2>2. CASE v # w BY <1>f, <2>1, <2>2, FitsStays, Zenon
    <2>3. CASE v = w
      <3>1. event'[v] \notin Vector /\ event'[v] # NMI
        BY <1>0, <2>1, <2>3, Zenon DEF InterruptAssumption, Events
      <3> QED BY <1>f, <2>1, <3>1, Zenon DEF Fits
    <2> QED BY <2>2, <2>3
  <1>4. ASSUME NEW w \in Vcpu, InjectPending(w) PROVE Fits(v)'
    <2>1. CASE v # w
      <3>1. /\ pc'[v] = pc[v] /\ event'[v] = event[v] /\ inIntl'[v] = inIntl[v]
            /\ UNCHANGED <<intl, blocked, handlers>>
        BY <1>0, <1>4, <2>1, Zenon DEF InjectPending, Goto, TypeOK
      <3> QED BY <1>f, <3>1, FitsStays, Zenon
    <2>2. CASE v = w BY <1>0, <1>f, <1>4, <2>2, EntryFits, Zenon
    <2> QED BY <2>1, <2>2
  <1>5. ASSUME NEW w \in Vcpu, Dispatch(w) \/ Reschedule(w) \/ Exit(w) \/ Leave(w)
                                 \/ Pause(w) \/ Enter(w) \/ Resume(w)
        PROVE  Fits(v)'
    <2>1. pc'[v] \in Entered => pc[v] \in Entered BY <1>0, <1>5, PcMoves, Zenon
    <2>2. UNCHANGED <<handlers, inIntl, intl, event, blocked>>
      BY <1>5, Zenon DEF Dispatch, Reschedule, Exit, Leave, Pause, Enter, Resume
    <2> QED BY <1>s, <2>1, <2>2, Zenon
  <1>6. ASSUME NEW w \in Vcpu, NEW x \in Events, Inject(w, x) \/ Unpause(w, x)
        PROVE  Fits(v)'
    BY <1>6, <1>s, Zenon DEF Inject, Unpause
  <1>7. ASSUME NEW w \in Vcpu, NEW x \in Allowed, SetPerm(w, x) PROVE Fits(v)'
    BY <1>7, <1>s DEF SetPerm
  <1>8. ASSUME NEW c \in Cpu, NEW x \in Events, HostInterrupt(c, x) PROVE Fits(v)'
    BY <1>8, <1>s, Zenon DEF HostInterrupt
  <1>9. ASSUME NEW c \in Cpu, HostIpi(c) \/ OthersRun(c) PROVE Fits(v)'
    BY <1>9, <1>s, Zenon DEF HostIpi, OthersRun
  <1>10. CASE UNCHANGED vars BY <1>10, <1>s, Zenon DEF vars
  <1> QED
    BY <1>1, <1>2, <1>3, <1>4, <1>5, <1>6, <1>7, <1>8, <1>9, <1>10, Zenon DEF Next

-----------------------------------------------------------------------------
(* The theorems.                                                              *)

\* The initial state satisfies the inductive invariant.
LEMMA InitIInv == ASSUME InterruptAssumption, Init PROVE IInv
  <1>c. \A v \in Vcpu : CpuOf[v] \in Cpu /\ v # NULL BY HasCpu, Zenon
  <1>1. TypeOK BY DEF Init, TypeOK, Windows, InterruptAssumption
  <1>2. Placed BY <1>c, Zenon DEF Init, Placed
  <1>3. WindowsAgree BY Zenon DEF Init, WindowsAgree
  <1>4. Announced BY Zenon DEF Init, Announced, Entered
  <1>5. SubscribersHear BY Zenon DEF Init, SubscribersHear
  <1>6. Nested BY Zenon DEF Init, Nested, InjectedFits, Entered
  <1> QED BY <1>1, <1>2, <1>3, <1>4, <1>5, <1>6, Zenon DEF IInv

\* Each step keeps the inductive invariant.
LEMMA NextIInv == ASSUME IInv, [Next]_vars PROVE IInv'
  <1>1. InterruptAssumption' BY Zenon DEF IInv, InterruptAssumption
  <1>2. TypeOK' BY NextTypeOK, Zenon
  <1> QED BY <1>1, <1>2, NextPlaced, NextWindows, NextAnnounced, NextHears, NextNested, Zenon
      DEF IInv

\* The inductive invariant says what the properties do.
LEMMA IInvHolds ==
    ASSUME IInv
    PROVE  TypeOK /\ NoInterruptIsMissed /\ WindowsAgree /\ SubscribersHear /\ InjectedFits
  <1>1. NoInterruptIsMissed
    BY Zenon DEF IInv, Announced, WindowsAgree, NoInterruptIsMissed, Entered
  <1> QED BY <1>1, Zenon DEF IInv, Nested

\* The inductive invariant holds throughout, for any vcpus on any cpus, any
\* vectors of a byte and any levels.
THEOREM InterruptInvariant == ASSUME InterruptAssumption PROVE Spec => []IInv
  <1>1. Init => IInv BY InitIInv, Zenon
  <1>2. IInv /\ [Next]_vars => IInv' BY NextIInv, Zenon
  <1> QED BY <1>1, <1>2, PTL DEF Spec

\* No guest runs on past an interrupt it could take, whatever the order in which
\* __vemu_inject_external_interrupt and __venter read each other's state.
THEOREM NoInterruptIsMissedHolds ==
    ASSUME InterruptAssumption PROVE Spec => []NoInterruptIsMissed
  <1>1. IInv => NoInterruptIsMissed BY IInvHolds, Zenon
  <1> QED BY <1>1, InterruptInvariant, PTL

\* The cached window bits are those of the vcpu's vmcs, however many vcpus share
\* its cpu and load theirs in between.
THEOREM WindowsAgreeHolds ==
    ASSUME InterruptAssumption PROVE Spec => []WindowsAgree
  <1>1. IInv => WindowsAgree BY IInvHolds, Zenon
  <1> QED BY <1>1, InterruptInvariant, PTL

\* No subscriber falls out of the dispatch queue for good (vdispatch_interrupt,
\* __venter, the subscription calls and permissions).
THEOREM SubscribersHearHolds ==
    ASSUME InterruptAssumption PROVE Spec => []SubscribersHear
  <1>1. IInv => SubscribersHear BY IInvHolds, Zenon
  <1> QED BY <1>1, InterruptInvariant, PTL

\* What __venter injects fits the guest, and its handlers nest by level.
THEOREM InjectedFitsHolds ==
    ASSUME InterruptAssumption PROVE Spec => []InjectedFits
  <1>1. IInv => InjectedFits BY IInvHolds, Zenon
  <1> QED BY <1>1, InterruptInvariant, PTL
=============================================================================
