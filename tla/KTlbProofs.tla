----------------------------- MODULE KTlbProofs -----------------------------
(* Kernel IPIs and page windows, for any number of cpus, tasks and windows:   *)
(* a mapping that has returned is fresh on every cpu, and no request between  *)
(* cpus is lost, overwritten or run twice.  First the inductive invariant and *)
(* what each step of a task, a sender and a handler does to the state it      *)
(* speaks of.                                                                 *)
EXTENDS KTlb, WellFoundedInduction, TLAPS

\* A task has filled its slot and not yet seen it free again.
Asks(t) == task[t].pc \in {"send", "ack"}

\* One task of a cpu sends at a time (ipi_run_func disables preemption), to
\* another cpu, and its slot is free or holds its request; a mapping waits for
\* its requests.
Sends(t) ==
    /\ task[t].pc \in Sending => task[t].to # CpuOf[t]
    /\ task[t].pc = "assert" => Mine(t) = NULL
    /\ Asks(t) => Mine(t) \in {NULL, [win |-> task[t].win, wait |-> task[t].wait]}
    /\ task[t].pc = "ack" => task[t].wait
    /\ task[t].then = "mapped" => task[t].wait /\ task[t].pc # "idle"
    /\ task[t].pc = "mapped" => task[t].then = "mapped"
SendInv ==
    /\ \A t, u \in Task : t # u /\ CpuOf[t] = CpuOf[u] =>
          ~(task[t].pc \in Sending /\ task[u].pc \in Sending)
    /\ \A t \in Task : Sends(t)

\* No cpu sends to itself, and a request that is waited for stays in its slot
\* until ipi_handler has run it.
SlotInv ==
    \A c \in Cpu :
        /\ slot[c][c] = NULL
        /\ isr[c].req # NULL => isr[c].on
        /\ isr[c].req # NULL /\ isr[c].wait =>
              slot[c][isr[c].i] = [win |-> isr[c].req, wait |-> TRUE]

\* IpiIsNotLost made inductive: a slot filled anew behind a request that was
\* acknowledged before it runs has an interrupt of its own.
ServedInv ==
    \A c, s \in Cpu : slot[c][s] # NULL =>
        \/ irr[c]
        \/ isr[c].on /\ isr[c].i < s
        \/ isr[c].on /\ isr[c].i = s /\ (isr[c].req = NULL \/ isr[c].wait)
        \/ \E t \in Task : CpuOf[t] = s /\ task[t].to = c /\ task[t].pc = "send"

\* The windows a task has mapped, or is mapping.
Owns(t) == IF task[t].then = "mapped" THEN task[t].win ELSE {}

\* A window has one owner, is not free and is present.
OwnInv ==
    /\ \A t \in Task : \A w \in Owns(t) : w \notin free /\ pde[w] # NULL
    /\ \A t, u \in Task : t # u => Owns(t) \cap Owns(u) = {}

\* The cpus t has already had flush its windows.
Flushed(t, c) ==
    \/ task[t].pc = "mapped"
    \/ task[t].pc \in Sending /\ (c = CpuOf[t] \/ c < task[t].to)
    \/ Asks(t) /\ Mine(t) = NULL /\ c = task[t].to

\* They have no old translation: nobody else writes the entries, and what a cpu
\* caches after the flush is the present one.
FreshInv ==
    \A t \in Task, c \in Cpu : Flushed(t, c) =>
        \A w \in Owns(t) : tlb[c][w] \subseteq {pde[w]}

IInv == TypeOK /\ SendInv /\ SlotInv /\ ServedInv /\ RequestsRunOnce /\ OwnInv /\ FreshInv

-----------------------------------------------------------------------------
\* The lowest bit that bmp512_ffs or a loop over the cpus finds is one of them.
LEMMA LeastIsLeast ==
    ASSUME NEW S, S \subseteq Nat, S # {}
    PROVE  Least(S) \in S /\ \A y \in S : Least(S) <= y
  <1> DEFINE Below == {p \in Nat \X Nat : p[1] < p[2]}
  <1>1. \A x, y \in Nat : y < x => <<y, x>> \in Below OBVIOUS
  <1>2. IsWellFoundedOn(Below, Nat) BY NatLessThanWellFounded DEF OpToRel
  <1> HIDE DEF Below
  <1>3. PICK x \in S : \A y \in S : ~(<<y, x>> \in Below) BY <1>2, WFMin, Zenon
  <1>4. ASSUME NEW y \in S PROVE x <= y
    <2>1. x \in Nat /\ y \in Nat OBVIOUS
    <2>2. ~(<<y, x>> \in Below) BY <1>3
    <2>3. ~(y < x) BY <1>1, <2>1, <2>2, Zenon
    <2> QED BY <2>1, <2>3, SMT
  <1> QED BY <1>4, Zenon DEF Least

\* The windows a mapping takes are free ones.
LEMMA TakesFree ==
    ASSUME NEW S \in SUBSET Window
    PROVE  Ffs(S) \subseteq S /\ Ffs2(S) \subseteq S
  <1>1. S \subseteq Nat BY MapperAssumption DEF Window
  <1>2. Ffs(S) \subseteq S BY <1>1, LeastIsLeast, Zenon DEF Ffs
  <1> DEFINE hit == {w \in S : w + 1 \in S /\ Cardinality({x \in S : x < w}) % 2 = 0}
  <1>3. hit # {} => Least(hit) \in hit BY <1>1, LeastIsLeast, Zenon
  <1>4. Ffs2(S) = IF hit = {} THEN {} ELSE {Least(hit), Least(hit) + 1} BY DEF Ffs2
  <1> QED BY <1>2, <1>3, <1>4

\* Cpus are numbered.
LEMMA CpuIsNumber == \A c \in Cpu : c \in Nat /\ c + 1 \in Nat
  BY MapperAssumption DEF Cpu

TaskType ==
    [pc : {"idle", "local", "mapped"} \cup Sending, win : SUBSET Window, to : Cpu,
     then : {"idle", "mapped"}, wait : BOOLEAN]
IsrType == [on : BOOLEAN, i : Cpu, req : (SUBSET Window) \cup {NULL}, wait : BOOLEAN]

\* ipi_run_func_others goes on to the next other cpu and ends behind the last.
LEMMA FromStep ==
    ASSUME TypeOK, NEW t \in Task, NEW i \in Nat
    PROVE  /\ From(t, i) \in TaskType
           /\ \/ /\ From(t, i) = Idle /\ task[t].then = "idle"
                 /\ \A c \in Cpu : c >= i => c = CpuOf[t]
              \/ /\ From(t, i) = [task[t] EXCEPT !.pc = "mapped", !.to = 0]
                 /\ task[t].then = "mapped"
                 /\ \A c \in Cpu : c >= i => c = CpuOf[t]
              \/ \E to \in Cpu : /\ From(t, i) = [task[t] EXCEPT !.pc = "wait", !.to = to]
                                 /\ to >= i /\ to # CpuOf[t]
                                 /\ \A c \in Cpu : i <= c /\ c < to => c = CpuOf[t]
  <1> DEFINE others == {c \in Cpu : c >= i /\ c # CpuOf[t]}
  <1>1. task[t] \in TaskType BY DEF TypeOK, TaskType
  <1>2. 0 \in Cpu BY MapperAssumption DEF Cpu
  <1>3. CASE others # {}
    <2>1. others \subseteq Nat BY MapperAssumption DEF Cpu
    <2>2. Least(others) \in others /\ \A y \in others : Least(others) <= y
      BY <1>3, <2>1, LeastIsLeast
    <2>3. From(t, i) = [task[t] EXCEPT !.pc = "wait", !.to = Least(others)]
      BY <1>3 DEF From
    <2>4. From(t, i) \in TaskType BY <1>1, <2>2, <2>3, Zenon DEF TaskType, Sending
    <2>5. \A c \in Cpu : i <= c /\ c < Least(others) => c = CpuOf[t]
      BY <2>1, <2>2
    <2> QED BY <2>2, <2>3, <2>4, <2>5, Zenon
  <1>4. CASE others = {}
    <2>1. Idle \in TaskType BY <1>2 DEF Idle, TaskType
    <2>2. [task[t] EXCEPT !.pc = "mapped", !.to = 0] \in TaskType BY <1>1, <1>2, Zenon DEF TaskType
    <2>3. task[t].then \in {"idle", "mapped"} BY <1>1 DEF TaskType
    <2>4. From(t, i) = IF task[t].then = "idle" THEN Idle
                       ELSE [task[t] EXCEPT !.pc = "mapped", !.to = 0]
      BY <1>4 DEF From
    <2> QED BY <1>4, <2>1, <2>2, <2>3, <2>4, Zenon
  <1> QED BY <1>3, <1>4, Zenon

\* ipi_handler goes on to the next other sender and ends behind the last.
LEMMA SenderStep ==
    ASSUME NEW c \in Cpu, NEW i \in Nat
    PROVE  /\ AtSender(c, i) \in IsrType
           /\ AtSender(c, i).req = NULL /\ AtSender(c, i).wait = FALSE
           /\ \A s \in Cpu : s >= i /\ s # c => AtSender(c, i).on /\ AtSender(c, i).i <= s
  <1> DEFINE others == {s \in Cpu : s >= i /\ s # c}
  <1>1. 0 \in Cpu BY MapperAssumption DEF Cpu
  <1>2. NoIsr \in IsrType BY <1>1 DEF NoIsr, IsrType
  <1>3. CASE others # {}
    <2>1. others \subseteq Nat BY MapperAssumption DEF Cpu
    <2>2. Least(others) \in others /\ \A y \in others : Least(others) <= y
      BY <1>3, <2>1, LeastIsLeast
    <2>3. AtSender(c, i) = [on |-> TRUE, i |-> Least(others), req |-> NULL, wait |-> FALSE]
      BY <1>3, Zenon DEF AtSender, NoIsr
    <2> QED BY <2>2, <2>3 DEF IsrType
  <1>4. CASE others = {}
    <2>1. AtSender(c, i) = NoIsr BY <1>4 DEF AtSender
    <2> QED BY <1>2, <1>4, <2>1 DEF NoIsr
  <1> QED BY <1>3, <1>4, Zenon

\* A write to the page table shows up in every cpu that may walk it.
LEMMA WriteEffect ==
    ASSUME TypeOK, NEW win \in SUBSET Window, NEW f \in Frame \cup {NULL}, Write(win, f)
    PROVE  /\ pde' \in [Window -> Frame \cup {NULL}]
           /\ tlb' \in [Cpu -> [Window -> SUBSET Frame]]
           /\ \A w \in Window : pde'[w] = IF w \in win THEN f ELSE pde[w]
           /\ \A c \in Cpu, w \in Window : tlb'[c][w] = tlb[c][w] \cup ({pde'[w]} \ {NULL})
  <1>1. /\ pde' \in [Window -> Frame \cup {NULL}]
        /\ \A w \in Window : pde'[w] = IF w \in win THEN f ELSE pde[w]
    BY DEF Write, TypeOK
  <1>2. \A c \in Cpu, w \in Window : tlb'[c][w] = tlb[c][w] \cup ({pde'[w]} \ {NULL})
    BY DEF Write, Present
  <1>3. \A c \in Cpu, w \in Window :
          tlb[c][w] \cup ({pde'[w]} \ {NULL}) \in SUBSET Frame
    BY <1>1 DEF TypeOK
  <1>4. tlb' \in [Cpu -> [Window -> SUBSET Frame]]
    BY <1>2, <1>3 DEF Write, Present
  <1> QED BY <1>1, <1>2, <1>4

\* A flush leaves what the cpu would walk to now.
Refills(k, win) ==
    \A c \in Cpu, w \in Window :
        tlb'[c][w] = IF c = k /\ w \in win THEN {pde[w]} \ {NULL} ELSE tlb[c][w]
LEMMA FlushEffect ==
    ASSUME TypeOK, NEW k \in Cpu, NEW win \in SUBSET Window, Flush(k, win)
    PROVE  /\ tlb' \in [Cpu -> [Window -> SUBSET Frame]]
           /\ Refills(k, win)
  <1>1. \A w \in Window : {pde[w]} \ {NULL} \in SUBSET Frame BY DEF TypeOK
  <1>2. [w \in Window |-> IF w \in win THEN {pde[w]} \ {NULL} ELSE tlb[k][w]]
            \in [Window -> SUBSET Frame]
    BY <1>1 DEF TypeOK
  <1>3. tlb' = [tlb EXCEPT ![k] = [w \in Window |-> IF w \in win THEN {pde[w]} \ {NULL}
                                                   ELSE tlb[k][w]]]
    BY DEF Flush, Present
  <1>4. tlb' \in [Cpu -> [Window -> SUBSET Frame]] BY <1>2, <1>3 DEF TypeOK
  <1>5. ASSUME NEW c \in Cpu, NEW w \in Window
        PROVE  tlb'[c][w] = IF c = k /\ w \in win THEN {pde[w]} \ {NULL} ELSE tlb[c][w]
    BY <1>3 DEF TypeOK
  <1> QED BY <1>4, <1>5, Zenon DEF Refills

-----------------------------------------------------------------------------
\* The steps of a task, by what they do to it; the rest of the state is left to
\* the lemmas that need it.
LEMMA TaskEffect ==
    ASSUME TypeOK, NEW t \in Task, NEW r \in TaskType, task' = [task EXCEPT ![t] = r]
    PROVE  /\ task' \in [Task -> TaskType]
           /\ task'[t] = r
           /\ \A u \in Task \ {t} : task'[u] = task[u]
  BY DEF TypeOK, TaskType

\* A task's label, or its label and what it does next, may be replaced.
LEMMA TaskMoves ==
    ASSUME TypeOK, NEW t \in Task, NEW l \in {"local", "mapped"} \cup Sending,
           NEW h \in {"idle", "mapped"}
    PROVE  /\ task[t] \in TaskType /\ Idle \in TaskType
           /\ [task[t] EXCEPT !.pc = l] \in TaskType
           /\ [task[t] EXCEPT !.pc = l, !.then = h] \in TaskType
  <1>1. task[t] \in TaskType BY DEF TypeOK, TaskType
  <1>2. 0 \in Cpu BY MapperAssumption DEF Cpu
  <1>3. Idle \in TaskType BY <1>2 DEF Idle, TaskType
  <1>4. [task[t] EXCEPT !.pc = l] \in TaskType BY <1>1 DEF TaskType
  <1>5. [task[t] EXCEPT !.pc = l, !.then = h] \in TaskType BY <1>1, Zenon DEF TaskType
  <1> QED BY <1>1, <1>3, <1>4, <1>5

\* The steps, the two mapping functions as one.
LEMMA Steps ==
    ASSUME TypeOK, [Next]_vars
    PROVE  \/ UNCHANGED vars
           \/ \E t \in Task, f \in Frame, win \in SUBSET free : MapNoflush(t, f, win)
           \/ \E t \in Task, f \in Frame : Remap(t, f)
           \/ \E t \in Task : Unmap(t) \/ FlushNoWait(t) \/ TaskStep(t)
           \/ \E c \in Cpu : IsrStep(c)
  <1>1. Ffs(free) \in SUBSET free /\ Ffs2(free) \in SUBSET free
    BY TakesFree DEF TypeOK
  <1>2. ASSUME NEW t \in Task, NEW f \in Frame, MapPfn(t, f) \/ MapPhysPg(t, f)
        PROVE  \E win \in SUBSET free : MapNoflush(t, f, win)
    BY <1>1, <1>2 DEF MapPfn, MapPhysPg
  <1> QED BY <1>2 DEF Next

\* The types are kept; a slot never has more than two requests outstanding.
LEMMA NextTypeOK == ASSUME IInv, [Next]_vars PROVE TypeOK'
  <1> USE DEF IInv
  <1>1. CASE UNCHANGED vars BY <1>1 DEF vars, TypeOK
  <1>2. ASSUME NEW t \in Task, NEW f \in Frame, NEW win \in SUBSET free,
               MapNoflush(t, f, win)
        PROVE  TypeOK'
    <2>1. win \in SUBSET Window BY DEF TypeOK
    <2>2. /\ pde' \in [Window -> Frame \cup {NULL}]
          /\ tlb' \in [Cpu -> [Window -> SUBSET Frame]]
      BY SMTT(60), <1>2, <2>1, WriteEffect DEF MapNoflush
    <2>3. [Idle EXCEPT !.pc = "local", !.win = win,
                       !.then = IF win = {} THEN "idle" ELSE "mapped"] \in TaskType
      <3>1. Idle \in TaskType BY TaskMoves, Zenon DEF Sending
      <3> QED BY <2>1, <3>1, Zenon DEF TaskType
    <2>4. task' \in [Task -> TaskType] BY <1>2, <2>3, TaskEffect, Zenon DEF MapNoflush
    <2> QED BY <1>2, <2>2, <2>4, Zenon DEF MapNoflush, TypeOK, TaskType
  <1>3. ASSUME NEW t \in Task, NEW f \in Frame, Remap(t, f) PROVE TypeOK'
    <2>1. task[t].win \in SUBSET Window BY DEF TypeOK
    <2>2. /\ pde' \in [Window -> Frame \cup {NULL}]
          /\ tlb' \in [Cpu -> [Window -> SUBSET Frame]]
      BY <1>3, <2>1, WriteEffect, Zenon DEF Remap
    <2>3. task' \in [Task -> TaskType] BY <1>3, TaskMoves, TaskEffect, Zenon DEF Remap
    <2> QED BY <1>3, <2>2, <2>3 DEF Remap, TypeOK, TaskType
  <1>4. ASSUME NEW t \in Task, Unmap(t) PROVE TypeOK'
    <2>1. task[t].win \in SUBSET Window BY DEF TypeOK
    <2>2. /\ pde' \in [Window -> Frame \cup {NULL}]
          /\ tlb' \in [Cpu -> [Window -> SUBSET Frame]]
      BY <1>4, <2>1, WriteEffect, Zenon DEF Unmap
    <2>3. task' \in [Task -> TaskType] BY <1>4, TaskMoves, TaskEffect, Zenon DEF Unmap
    <2> QED BY <1>4, <2>1, <2>2, <2>3 DEF Unmap, TypeOK, TaskType
  <1>5. ASSUME NEW t \in Task, FlushNoWait(t) PROVE TypeOK'
    <2>1. [Idle EXCEPT !.pc = "local", !.win = Window, !.wait = FALSE] \in TaskType
      <3>1. Idle \in TaskType BY TaskMoves, Zenon DEF Sending
      <3> QED BY <3>1, Zenon DEF TaskType
    <2>2. task' \in [Task -> TaskType] BY <1>5, <2>1, TaskEffect, Zenon DEF FlushNoWait
    <2> QED BY <1>5, <2>2 DEF FlushNoWait, TypeOK, TaskType
  <1>6. ASSUME NEW t \in Task, FlushLocal(t) PROVE TypeOK'
    <2>1. task[t].win \in SUBSET Window /\ CpuOf[t] \in Cpu BY MapperAssumption DEF TypeOK
    <2>2. tlb' \in [Cpu -> [Window -> SUBSET Frame]]
      BY <1>6, <2>1, FlushEffect DEF FlushLocal
    <2>3. task' \in [Task -> TaskType] BY <1>6, FromStep, TaskEffect, Zenon DEF FlushLocal
    <2> QED BY <1>6, <2>2, <2>3 DEF FlushLocal, TypeOK, TaskType
  <1>7. ASSUME NEW t \in Task, WaitSlot(t) PROVE TypeOK'
    <2>1. task' \in [Task -> TaskType] BY <1>7, TaskMoves, TaskEffect, Zenon DEF WaitSlot, Goto, Sending
    <2> QED BY <1>7, <2>1 DEF WaitSlot, TypeOK, TaskType
  <1>8. ASSUME NEW t \in Task, AssertSlot(t) PROVE TypeOK'
    <2>1. task' \in [Task -> TaskType] BY <1>8, TaskMoves, TaskEffect, Zenon DEF AssertSlot, Goto, Sending
    <2>2. /\ task[t].to \in Cpu /\ CpuOf[t] \in Cpu
          /\ [win |-> task[t].win, wait |-> task[t].wait] \in Request
      BY MapperAssumption DEF TypeOK, Request
    <2>3. slot' \in [Cpu -> [Cpu -> Request \cup {NULL}]] BY <1>8, <2>2 DEF AssertSlot, TypeOK
    <2>4. due[task[t].to][CpuOf[t]] \in 0..1
      <3>1. slot[task[t].to][CpuOf[t]] = NULL BY <1>8, Zenon DEF AssertSlot, At, SendInv, Sends, Mine
      <3> QED BY <2>2, <3>1 DEF RequestsRunOnce
    <2>5. due' \in [Cpu -> [Cpu -> 0..2]] BY <1>8, <2>2, <2>4 DEF AssertSlot, TypeOK
    <2> QED BY <1>8, <2>1, <2>3, <2>5 DEF AssertSlot, TypeOK, TaskType
  <1>9. ASSUME NEW t \in Task, Send(t) PROVE TypeOK'
    <2>0. task[t].to \in Cpu BY DEF TypeOK
    <2>1. task[t].to \in Cpu /\ task[t].to + 1 \in Nat BY <2>0, CpuIsNumber, Zenon
    <2>2. [task[t] EXCEPT !.pc = "ack"] \in TaskType BY TaskMoves, Zenon DEF Sending
    <2>3. task' \in [Task -> TaskType]
      BY <1>9, <2>1, <2>2, FromStep, TaskEffect, Zenon DEF Send
    <2> QED BY <1>9, <2>1, <2>3, Zenon DEF Send, TypeOK, TaskType
  <1>10. ASSUME NEW t \in Task, WaitAck(t) PROVE TypeOK'
    <2>0. task[t].to \in Cpu BY DEF TypeOK
    <2>1. task[t].to \in Cpu /\ task[t].to + 1 \in Nat BY <2>0, CpuIsNumber, Zenon
    <2>2. task' \in [Task -> TaskType] BY <1>10, <2>1, FromStep, TaskEffect, Zenon DEF WaitAck
    <2> QED BY <1>10, <2>2 DEF WaitAck, TypeOK, TaskType
  <1>11. ASSUME NEW c \in Cpu, Interrupt(c) PROVE TypeOK'
    <2>1. AtSender(c, 0) \in IsrType BY SenderStep, Zenon
    <2> QED BY <1>11, <2>1 DEF Interrupt, TypeOK, IsrType
  <1>12. ASSUME NEW c \in Cpu, Scan(c) PROVE TypeOK'
    <2>0. isr[c].i \in Cpu BY DEF TypeOK
    <2>1. isr[c].i \in Cpu /\ isr[c].i + 1 \in Nat BY <2>0, CpuIsNumber, Zenon
    <2>2. AtSender(c, isr[c].i + 1) \in IsrType BY <2>1, SenderStep, Zenon
    <2>3. isr[c] \in IsrType /\ slot[c][isr[c].i] \in Request \cup {NULL}
      BY <2>1 DEF TypeOK, IsrType
    <2>4. ASSUME NEW r \in Request
          PROVE  [isr[c] EXCEPT !.req = r.win, !.wait = r.wait] \in IsrType
      BY <2>3, Zenon DEF IsrType, Request
    <2>5. isr \in [Cpu -> IsrType] /\ slot \in [Cpu -> [Cpu -> Request \cup {NULL}]]
      BY DEF TypeOK, IsrType
    <2>6. CASE slot[c][isr[c].i] = NULL
      <3>1. isr' = [isr EXCEPT ![c] = AtSender(c, isr[c].i + 1)] /\ slot' = slot
        BY <1>12, <2>6 DEF Scan
      <3>2. isr' \in [Cpu -> IsrType] BY <2>2, <2>5, <3>1
      <3> QED BY <1>12, <3>1, <3>2 DEF Scan, TypeOK, IsrType
    <2>7. CASE slot[c][isr[c].i] # NULL
      <3>1. isr' = [isr EXCEPT ![c] = [isr[c] EXCEPT !.req = slot[c][isr[c].i].win,
                                                     !.wait = slot[c][isr[c].i].wait]]
        BY <1>12, <2>7, Zenon DEF Scan
      <3>2. isr' \in [Cpu -> IsrType] BY <2>3, <2>4, <2>5, <2>7, <3>1, Zenon
      <3>3. slot' = slot \/ slot' = [slot EXCEPT ![c][isr[c].i] = NULL]
        BY <1>12, <2>7 DEF Scan
      <3>4. slot' \in [Cpu -> [Cpu -> Request \cup {NULL}]] BY <2>1, <2>5, <3>3
      <3> QED BY <1>12, <3>2, <3>4 DEF Scan, TypeOK, IsrType
    <2> QED BY <2>6, <2>7
  <1>13. ASSUME NEW c \in Cpu, Run(c) PROVE TypeOK'
    <2>0. isr[c].i \in Cpu /\ isr[c].req \in SUBSET Window BY <1>13 DEF Run, TypeOK
    <2>1. /\ isr[c].i \in Cpu /\ isr[c].i + 1 \in Nat /\ isr[c].req \in SUBSET Window
      BY <2>0, CpuIsNumber
    <2>2. AtSender(c, isr[c].i + 1) \in IsrType BY <2>1, SenderStep, Zenon
    <2>3. isr' \in [Cpu -> IsrType] BY <1>13, <2>2 DEF Run, TypeOK, IsrType
    <2>4. slot' = slot \/ slot' = [slot EXCEPT ![c][isr[c].i] = NULL] BY <1>13 DEF Run
    <2>9. slot \in [Cpu -> [Cpu -> Request \cup {NULL}]] BY DEF TypeOK
    <2>8. slot' \in [Cpu -> [Cpu -> Request \cup {NULL}]] BY <2>1, <2>4, <2>9
    <2>5. tlb' \in [Cpu -> [Window -> SUBSET Frame]] BY <1>13, <2>1, FlushEffect DEF Run
    <2>6. due[c][isr[c].i] \in 1..2
      BY <1>13, <2>1 DEF Run, RequestsRunOnce, Taken, TypeOK
    <2>7. due' \in [Cpu -> [Cpu -> 0..2]] BY <1>13, <2>1, <2>6 DEF Run, TypeOK
    <2> QED BY <1>13, <2>3, <2>5, <2>7, <2>8 DEF Run, TypeOK, IsrType
  <1> QED
    BY <1>1, <1>2, <1>3, <1>4, <1>5, <1>6, <1>7, <1>8, <1>9, <1>10, <1>11, <1>12, <1>13, Steps
    DEF TaskStep, IsrStep

-----------------------------------------------------------------------------
\* The fields of a task that maps, unmaps, remaps or starts to flush.
LEMMA StartEffect ==
    ASSUME TypeOK, NEW t \in Task
    PROVE  /\ \A f \in Frame, win \in SUBSET free : MapNoflush(t, f, win) =>
                 /\ task[t].pc = "idle" /\ task'[t].pc = "local" /\ task'[t].win = win
                 /\ task'[t].wait /\ task'[t].then = IF win = {} THEN "idle" ELSE "mapped"
                 /\ \A u \in Task \ {t} : task'[u] = task[u]
           /\ \A f \in Frame : Remap(t, f) =>
                 /\ task[t].pc = "mapped" /\ task'[t].pc = "local"
                 /\ task'[t].win = task[t].win
                 /\ task'[t].wait = task[t].wait /\ task'[t].then = "mapped"
                 /\ \A u \in Task \ {t} : task'[u] = task[u]
           /\ Unmap(t) =>
                 /\ task[t].pc = "mapped" /\ task'[t].pc = "local" /\ task'[t].then = "idle"
                 /\ \A u \in Task \ {t} : task'[u] = task[u]
           /\ FlushNoWait(t) =>
                 /\ task[t].pc = "idle" /\ task'[t].pc = "local" /\ task'[t].then = "idle"
                 /\ \A u \in Task \ {t} : task'[u] = task[u]
  <1> USE DEF At
  <1>0. task \in [Task -> TaskType] BY DEF TypeOK, TaskType
  <1>i. Idle \in TaskType BY TaskMoves, Zenon DEF Sending
  <1>1. ASSUME NEW f \in Frame, NEW win \in SUBSET free, MapNoflush(t, f, win)
        PROVE  /\ task[t].pc = "idle" /\ task'[t].pc = "local" /\ task'[t].win = win
               /\ task'[t].wait /\ task'[t].then = IF win = {} THEN "idle" ELSE "mapped"
               /\ \A u \in Task \ {t} : task'[u] = task[u]
    <2> DEFINE h == IF win = {} THEN "idle" ELSE "mapped"
               r == [Idle EXCEPT !.pc = "local", !.win = win, !.then = h]
    <2>1. Idle.wait = TRUE BY DEF Idle
    <2>2. r.pc = "local" /\ r.win = win /\ r.then = h /\ r.wait = TRUE
      BY <1>i, <2>1 DEF TaskType
    <2>3. task' = [task EXCEPT ![t] = r] BY <1>1 DEF MapNoflush
    <2> HIDE DEF r
    <2>4. task'[t] = r /\ \A u \in Task \ {t} : task'[u] = task[u] BY <1>0, <2>3
    <2>5. task[t].pc = "idle" BY <1>1 DEF MapNoflush
    <2> QED BY <2>2, <2>4, <2>5
  <1>2. ASSUME NEW f \in Frame, Remap(t, f)
        PROVE  /\ task[t].pc = "mapped" /\ task'[t].pc = "local"
               /\ task'[t].win = task[t].win
               /\ task'[t].wait = task[t].wait /\ task'[t].then = "mapped"
               /\ \A u \in Task \ {t} : task'[u] = task[u]
    BY <1>0, <1>2 DEF Remap, TaskType
  <1>3. ASSUME Unmap(t)
        PROVE  /\ task[t].pc = "mapped" /\ task'[t].pc = "local" /\ task'[t].then = "idle"
               /\ \A u \in Task \ {t} : task'[u] = task[u]
    BY <1>0, <1>3 DEF Unmap, TaskType
  <1>4. ASSUME FlushNoWait(t)
        PROVE  /\ task[t].pc = "idle" /\ task'[t].pc = "local" /\ task'[t].then = "idle"
               /\ \A u \in Task \ {t} : task'[u] = task[u]
    <2> DEFINE r == [Idle EXCEPT !.pc = "local", !.win = Window, !.wait = FALSE]
    <2>1. Idle.then = "idle" BY DEF Idle
    <2>2. r.pc = "local" /\ r.then = "idle" BY <1>i, <2>1 DEF TaskType
    <2>3. task' = [task EXCEPT ![t] = r] BY <1>4 DEF FlushNoWait
    <2> HIDE DEF r
    <2>4. task'[t] = r /\ \A u \in Task \ {t} : task'[u] = task[u] BY <1>0, <2>3
    <2>5. task[t].pc = "idle" BY <1>4 DEF FlushNoWait
    <2> QED BY <2>2, <2>4, <2>5
  <1> QED BY <1>1, <1>2, <1>3, <1>4

\* The fields of a task that goes on to the next cpu from i on.
GoesOn(t, i) ==
    /\ \A u \in Task \ {t} : task'[u] = task[u]
    /\ \/ task'[t].pc = "idle" /\ task'[t].then = "idle"
       \/ /\ task'[t].pc = "mapped" /\ task'[t].then = "mapped" /\ task[t].then = "mapped"
          /\ task'[t].win = task[t].win /\ task'[t].wait = task[t].wait
          /\ \A c \in Cpu : c >= i => c = CpuOf[t]
       \/ /\ task'[t].pc = "wait" /\ task'[t].then = task[t].then
          /\ task'[t].win = task[t].win /\ task'[t].wait = task[t].wait
          /\ task'[t].to \in Cpu /\ task'[t].to # CpuOf[t]
          /\ \A c \in Cpu : i <= c /\ c < task'[t].to => c = CpuOf[t]
LEMMA FromEffect ==
    ASSUME TypeOK, NEW t \in Task, NEW i \in Nat, task' = [task EXCEPT ![t] = From(t, i)]
    PROVE  GoesOn(t, i)
  <1>0. task \in [Task -> TaskType] BY DEF TypeOK, TaskType
  <1>1. task'[t] = From(t, i) /\ \A u \in Task \ {t} : task'[u] = task[u] BY <1>0
  <1>2. CASE From(t, i) = Idle /\ task[t].then = "idle"
    <2>1. Idle.pc = "idle" /\ Idle.then = "idle" BY DEF Idle
    <2> QED BY <1>1, <1>2, <2>1 DEF GoesOn
  <1>3. CASE /\ From(t, i) = [task[t] EXCEPT !.pc = "mapped", !.to = 0]
             /\ task[t].then = "mapped"
             /\ \A c \in Cpu : c >= i => c = CpuOf[t]
    BY <1>0, <1>1, <1>3 DEF TaskType, GoesOn
  <1>4. ASSUME NEW to \in Cpu, From(t, i) = [task[t] EXCEPT !.pc = "wait", !.to = to],
               to # CpuOf[t], \A c \in Cpu : i <= c /\ c < to => c = CpuOf[t]
        PROVE  GoesOn(t, i)
    BY <1>0, <1>1, <1>4 DEF TaskType, GoesOn
  <1> QED BY <1>2, <1>3, <1>4, FromStep, Zenon

-----------------------------------------------------------------------------
\* A task that only moves on in __ipi_run_func.
Moves(t, l) ==
    /\ \A u \in Task \ {t} : task'[u] = task[u]
    /\ task'[t].pc = l /\ task'[t].to = task[t].to /\ task'[t].win = task[t].win
    /\ task'[t].then = task[t].then /\ task'[t].wait = task[t].wait
LEMMA MovesEffect ==
    ASSUME TypeOK, NEW t \in Task, NEW l, task' = [task EXCEPT ![t] = [@ EXCEPT !.pc = l]]
    PROVE  Moves(t, l)
  <1>1. task \in [Task -> TaskType] BY DEF TypeOK, TaskType
  <1> QED BY <1>1 DEF Moves, TaskType

\* The steps of a sender, and of ipi_handler, on the slots.
LEMMA SenderEffect ==
    ASSUME TypeOK, NEW t \in Task
    PROVE  /\ task[t].to \in Cpu /\ CpuOf[t] \in Cpu /\ task[t].to + 1 \in Nat
           /\ WaitSlot(t) => Moves(t, "assert")
           /\ AssertSlot(t) =>
                 /\ Moves(t, "send")
                 /\ \A c, s \in Cpu : slot'[c][s] =
                       IF c = task[t].to /\ s = CpuOf[t]
                       THEN [win |-> task[t].win, wait |-> task[t].wait] ELSE slot[c][s]
                 /\ \A c, s \in Cpu : due'[c][s] =
                       IF c = task[t].to /\ s = CpuOf[t] THEN due[c][s] + 1 ELSE due[c][s]
           /\ Send(t) =>
                 \/ task[t].wait /\ Moves(t, "ack")
                 \/ ~task[t].wait /\ GoesOn(t, task[t].to + 1)
           /\ WaitAck(t) => GoesOn(t, task[t].to + 1)
           /\ FlushLocal(t) => GoesOn(t, 0)
  <1>0. task \in [Task -> TaskType] BY DEF TypeOK, TaskType
  <1>1. task[t].to \in Cpu /\ CpuOf[t] \in Cpu /\ task[t].to + 1 \in Nat
    <2>1. task[t].to \in Cpu BY DEF TypeOK
    <2>2. CpuOf[t] \in Cpu BY MapperAssumption
    <2> QED BY <2>1, <2>2, CpuIsNumber, Zenon
  <1>2. WaitSlot(t) => Moves(t, "assert") BY MovesEffect, Zenon DEF WaitSlot, Goto
  <1>3. ASSUME AssertSlot(t)
        PROVE  /\ Moves(t, "send")
               /\ \A c, s \in Cpu : slot'[c][s] =
                     IF c = task[t].to /\ s = CpuOf[t]
                     THEN [win |-> task[t].win, wait |-> task[t].wait] ELSE slot[c][s]
               /\ \A c, s \in Cpu : due'[c][s] =
                     IF c = task[t].to /\ s = CpuOf[t] THEN due[c][s] + 1 ELSE due[c][s]
    <2>1. Moves(t, "send") BY <1>3, MovesEffect, Zenon DEF AssertSlot, Goto
    <2> DEFINE r == [win |-> task[t].win, wait |-> task[t].wait]
               k == task[t].to
    <2>2. /\ slot' = [slot EXCEPT ![k][CpuOf[t]] = r]
          /\ due' = [due EXCEPT ![k][CpuOf[t]] = @ + 1]
      BY <1>3 DEF AssertSlot
    <2>3. /\ slot \in [Cpu -> [Cpu -> Request \cup {NULL}]]
          /\ due \in [Cpu -> [Cpu -> 0..2]]
      BY DEF TypeOK
    <2> HIDE DEF r
    <2>4. \A c, s \in Cpu : slot'[c][s] = IF c = k /\ s = CpuOf[t] THEN r ELSE slot[c][s]
      BY <1>1, <2>2, <2>3
    <2>5. \A c, s \in Cpu : due'[c][s] =
              IF c = k /\ s = CpuOf[t] THEN due[c][s] + 1 ELSE due[c][s]
      BY <1>1, <2>2, <2>3
    <2> QED BY <2>1, <2>4, <2>5 DEF r
  <1>4. ASSUME Send(t)
        PROVE  \/ task[t].wait /\ Moves(t, "ack")
               \/ ~task[t].wait /\ GoesOn(t, task[t].to + 1)
    <2>1. CASE task[t].wait
      <3>1. task' = [task EXCEPT ![t] = [@ EXCEPT !.pc = "ack"]] BY <1>4, <2>1 DEF Send
      <3> QED BY <2>1, <3>1, MovesEffect, Zenon
    <2>2. CASE ~task[t].wait
      <3>1. task' = [task EXCEPT ![t] = From(t, task[t].to + 1)] BY <1>4, <2>2 DEF Send
      <3> QED BY <1>1, <2>2, <3>1, FromEffect, Zenon
    <2> QED BY <2>1, <2>2
  <1>5. WaitAck(t) => GoesOn(t, task[t].to + 1) BY <1>1, FromEffect, Zenon DEF WaitAck
  <1>6. FlushLocal(t) => GoesOn(t, 0) BY FromEffect, Zenon DEF FlushLocal
  <1> QED BY <1>1, <1>2, <1>3, <1>4, <1>5, <1>6

\* One task of a cpu moves at a time, and no other is sending then.
LEMMA OneMoves ==
    ASSUME TypeOK, [Next]_vars
    PROVE  \/ task' = task
           \/ \E t \in Task : Runs(t) /\ \A u \in Task \ {t} : task'[u] = task[u]
  <1>1. ASSUME NEW t \in Task, NEW f \in Frame, NEW win \in SUBSET free,
               MapNoflush(t, f, win)
        PROVE  Runs(t) /\ \A u \in Task \ {t} : task'[u] = task[u]
    BY <1>1, StartEffect, Zenon DEF MapNoflush, At
  <1>2. ASSUME NEW t \in Task, NEW f \in Frame, Remap(t, f)
        PROVE  Runs(t) /\ \A u \in Task \ {t} : task'[u] = task[u]
    BY <1>2, StartEffect, Zenon DEF Remap, At
  <1>3. ASSUME NEW t \in Task, Unmap(t) \/ FlushNoWait(t)
        PROVE  Runs(t) /\ \A u \in Task \ {t} : task'[u] = task[u]
    BY <1>3, StartEffect, Zenon DEF Unmap, FlushNoWait, At
  <1>4. ASSUME NEW t \in Task, TaskStep(t)
        PROVE  Runs(t) /\ \A u \in Task \ {t} : task'[u] = task[u]
    <2>1. Runs(t)
      BY <1>4 DEF TaskStep, FlushLocal, WaitSlot, AssertSlot, Send, WaitAck, At
    <2> QED BY <1>4, <2>1, SenderEffect, Zenon DEF TaskStep, GoesOn, Moves
  <1>5. ASSUME NEW c \in Cpu, IsrStep(c) PROVE task' = task
    BY <1>5 DEF IsrStep, Interrupt, Scan, Run
  <1> QED BY <1>1, <1>2, <1>3, <1>4, <1>5, Steps DEF vars

\* What ipi_handler takes and clears.
Skips(c) ==
    /\ isr[c].on /\ isr[c].req = NULL /\ slot[c][isr[c].i] = NULL
    /\ isr'[c] = AtSender(c, isr[c].i + 1) /\ UNCHANGED slot
Takes(c) ==
    /\ isr[c].on /\ isr[c].req = NULL /\ slot[c][isr[c].i] \in Request
    /\ isr'[c].on /\ isr'[c].i = isr[c].i /\ isr'[c].req = slot[c][isr[c].i].win
    /\ isr'[c].req # NULL /\ isr'[c].wait = slot[c][isr[c].i].wait
    /\ \A k, s \in Cpu : slot'[k][s] =
          IF k = c /\ s = isr[c].i /\ ~isr'[c].wait THEN NULL ELSE slot[k][s]
Finishes(c) ==
    /\ isr[c].req # NULL /\ isr'[c] = AtSender(c, isr[c].i + 1)
    /\ \A k, s \in Cpu : slot'[k][s] =
          IF k = c /\ s = isr[c].i /\ isr[c].wait THEN NULL ELSE slot[k][s]
    /\ \A k, s \in Cpu : due'[k][s] =
          IF k = c /\ s = isr[c].i THEN due[k][s] - 1 ELSE due[k][s]
LEMMA HandlerEffect ==
    ASSUME TypeOK, NEW c \in Cpu
    PROVE  /\ isr[c].i \in Cpu /\ isr[c].i + 1 \in Nat
           /\ IsrStep(c) => \A k \in Cpu \ {c} : isr'[k] = isr[k]
           /\ Interrupt(c) => /\ isr'[c] = AtSender(c, 0)
                              /\ \A k \in Cpu \ {c} : irr'[k] = irr[k]
           /\ Scan(c) => Skips(c) \/ Takes(c)
           /\ Run(c) => Finishes(c)
  <1>0. /\ isr \in [Cpu -> IsrType] /\ slot \in [Cpu -> [Cpu -> Request \cup {NULL}]]
        /\ due \in [Cpu -> [Cpu -> 0..2]] /\ irr \in [Cpu -> BOOLEAN]
    BY DEF TypeOK, IsrType
  <1>1. isr[c].i \in Cpu /\ isr[c].i + 1 \in Nat
    <2>1. isr[c].i \in Cpu BY DEF TypeOK
    <2> QED BY <2>1, CpuIsNumber, Zenon
  <1>2. Interrupt(c) => /\ isr'[c] = AtSender(c, 0)
                        /\ \A k \in Cpu \ {c} : irr'[k] = irr[k] /\ isr'[k] = isr[k]
    BY <1>0 DEF Interrupt
  <1>3. ASSUME Scan(c)
        PROVE  (Skips(c) \/ Takes(c)) /\ \A k \in Cpu \ {c} : isr'[k] = isr[k]
    <2>1. CASE slot[c][isr[c].i] = NULL
      <3>1. isr' = [isr EXCEPT ![c] = AtSender(c, isr[c].i + 1)] /\ slot' = slot
            /\ isr[c].on /\ isr[c].req = NULL
        BY <1>3, <2>1 DEF Scan
      <3> QED BY <1>0, <2>1, <3>1 DEF Skips
    <2>2. CASE slot[c][isr[c].i] # NULL
      <3> DEFINE q == slot[c][isr[c].i]
                 r == [isr[c] EXCEPT !.req = q.win, !.wait = q.wait]
      <3>1. /\ isr' = [isr EXCEPT ![c] = r] /\ isr[c].on /\ isr[c].req = NULL
            /\ slot' = IF q.wait THEN slot ELSE [slot EXCEPT ![c][isr[c].i] = NULL]
        BY <1>3, <2>2, Zenon DEF Scan
      <3>2. q \in Request BY <1>0, <1>1, <2>2
      <3>3. isr[c] \in IsrType BY <1>0
      <3>4. q.win # NULL BY <3>2, MapperAssumption DEF Request
      <3> HIDE DEF q
      <3>5. r.on = isr[c].on /\ r.i = isr[c].i /\ r.req = q.win /\ r.wait = q.wait
        BY <3>3 DEF IsrType
      <3> HIDE DEF r
      <3>6. isr'[c] = r /\ \A k \in Cpu \ {c} : isr'[k] = isr[k] BY <1>0, <3>1
      <3>7. \A k, s \in Cpu : slot'[k][s] =
              IF k = c /\ s = isr[c].i /\ ~q.wait THEN NULL ELSE slot[k][s]
        BY <1>0, <1>1, <3>1
      <3>8. slot[c][isr[c].i] = q BY DEF q
      <3>9. isr'[c].on /\ isr'[c].i = isr[c].i /\ isr'[c].req = q.win /\ isr'[c].wait = q.wait
        BY <3>1, <3>5, <3>6, Zenon
      <3> QED BY <3>1, <3>2, <3>4, <3>6, <3>7, <3>8, <3>9 DEF Takes
    <2> QED BY <2>1, <2>2
  <1>4. ASSUME Run(c) PROVE Finishes(c) /\ \A k \in Cpu \ {c} : isr'[k] = isr[k]
    <2>1. /\ isr' = [isr EXCEPT ![c] = AtSender(c, isr[c].i + 1)] /\ isr[c].req # NULL
          /\ slot' = IF isr[c].wait THEN [slot EXCEPT ![c][isr[c].i] = NULL] ELSE slot
          /\ due' = [due EXCEPT ![c][isr[c].i] = @ - 1]
      BY <1>4 DEF Run
    <2>2. isr'[c] = AtSender(c, isr[c].i + 1) /\ \A k \in Cpu \ {c} : isr'[k] = isr[k]
      BY <1>0, <2>1
    <2>3. \A k, s \in Cpu : slot'[k][s] =
            IF k = c /\ s = isr[c].i /\ isr[c].wait THEN NULL ELSE slot[k][s]
      BY <1>0, <1>1, <2>1
    <2>4. \A k, s \in Cpu : due'[k][s] =
            IF k = c /\ s = isr[c].i THEN due[k][s] - 1 ELSE due[k][s]
      BY <1>0, <1>1, <2>1
    <2> QED BY <2>1, <2>2, <2>3, <2>4 DEF Finishes
  <1> QED BY <1>1, <1>2, <1>3, <1>4 DEF IsrStep

\* The handler only ever empties a slot, and one of its own cpu.
LEMMA HandlerSlots ==
    ASSUME TypeOK, NEW c \in Cpu, IsrStep(c), NEW k \in Cpu
    PROVE  \A s \in Cpu : /\ slot'[k][s] = slot[k][s] \/ slot'[k][s] = NULL
                          /\ k # c => slot'[k][s] = slot[k][s]
  <1>1. Interrupt(c) \/ Skips(c) \/ Takes(c) \/ Finishes(c)
    BY HandlerEffect, Zenon DEF IsrStep
  <1>2. CASE Interrupt(c) BY <1>2, Zenon DEF Interrupt
  <1>3. CASE Skips(c) BY <1>3, Zenon DEF Skips
  <1>4. CASE Takes(c) BY <1>4, Zenon DEF Takes
  <1>5. CASE Finishes(c) BY <1>5, Zenon DEF Finishes
  <1> QED BY <1>1, <1>2, <1>3, <1>4, <1>5, Zenon

\* A sender that does not move stays right while its slot is only cleared.
LEMMA SendsFrame ==
    ASSUME NEW t \in Task, Sends(t), task'[t] = task[t],
           task[t].pc \in Sending => slot'[task[t].to][CpuOf[t]] \in {Mine(t), NULL}
    PROVE  Sends(t)'
  BY DEF Sends, Mine, Asks, Sending

\* So is a step of a task that leaves the slots alone.
LEMMA SendsStep ==
    ASSUME IInv, NEW t \in Task, Sends(t)', slot' = slot,
           \A u \in Task \ {t} : task'[u] = task[u]
    PROVE  \A u \in Task : Sends(u)'
  <1>1. ASSUME NEW u \in Task, u # t PROVE Sends(u)'
    BY <1>1, SendsFrame DEF IInv, SendInv, Mine
  <1> QED BY <1>1

\* One task of a cpu sends at a time, and its slot is its own.
LEMMA NextSend == ASSUME IInv, [Next]_vars PROVE SendInv'
  <1> USE DEF IInv
  <1>a. ASSUME NEW t \in Task, NEW u \in Task, t # u, CpuOf[t] = CpuOf[u]
        PROVE  ~(task'[t].pc \in Sending /\ task'[u].pc \in Sending)
    BY <1>a, OneMoves DEF SendInv, Runs
  <1>0. \A t \in Task : Sends(t) BY SMTT(60) DEF SendInv
  <1>1. CASE UNCHANGED vars BY <1>0, <1>1 DEF vars, SendInv, Sends, Mine, Asks
  <1>2. ASSUME NEW t \in Task, NEW f \in Frame, NEW win \in SUBSET free,
               MapNoflush(t, f, win)
        PROVE  \A u \in Task : Sends(u)'
    <2>1. Sends(t)' BY <1>2, StartEffect DEF Sends, Asks, Sending
    <2> QED BY <1>2, <2>1, StartEffect, SendsStep, Zenon DEF MapNoflush
  <1>3. ASSUME NEW t \in Task, NEW f \in Frame, Remap(t, f) PROVE \A u \in Task : Sends(u)'
    <2>1. Sends(t)' BY <1>0, <1>3, StartEffect DEF Sends, Asks, Sending
    <2> QED BY <1>3, <2>1, StartEffect, SendsStep, Zenon DEF Remap
  <1>4. ASSUME NEW t \in Task, Unmap(t) \/ FlushNoWait(t) PROVE \A u \in Task : Sends(u)'
    <2>1. Sends(t)' BY <1>4, StartEffect DEF Sends, Asks, Sending
    <2> QED BY <1>4, <2>1, StartEffect, SendsStep, Zenon DEF Unmap, FlushNoWait
  <1>g. ASSUME NEW t \in Task, NEW i \in Nat, GoesOn(t, i), slot' = slot
        PROVE  \A u \in Task : Sends(u)'
    <2>1. Sends(t)' BY <1>0, <1>g DEF GoesOn, Sends, Asks, Sending
    <2> QED BY SMTT(60), <1>g, <2>1, SendsStep DEF GoesOn
  <1>5. ASSUME NEW t \in Task, FlushLocal(t) \/ WaitAck(t) PROVE \A u \in Task : Sends(u)'
    <2>1. slot' = slot BY <1>5 DEF FlushLocal, WaitAck
    <2>2. task[t].to + 1 \in Nat BY SenderEffect, Zenon
    <2>3. GoesOn(t, 0) \/ GoesOn(t, task[t].to + 1) BY <1>5, SenderEffect, Zenon
    <2> QED BY <2>1, <2>2, <2>3, <1>g
  <1>6. ASSUME NEW t \in Task, WaitSlot(t) PROVE \A u \in Task : Sends(u)'
    <2>1. Moves(t, "assert") BY <1>6, SenderEffect, Zenon
    <2>2. task[t].pc = "wait" /\ Mine(t) = NULL /\ slot' = slot BY <1>6 DEF WaitSlot, At
    <2>3. Sends(t)' BY <1>0, <2>1, <2>2, Zenon DEF Moves, Sends, Asks, Sending, Mine
    <2> QED BY <2>1, <2>2, <2>3, SendsStep DEF Moves
  <1>7. ASSUME NEW t \in Task, AssertSlot(t) PROVE \A u \in Task : Sends(u)'
    <2> DEFINE r == [win |-> task[t].win, wait |-> task[t].wait]
    <2>1. Moves(t, "send") /\ task[t].pc = "assert" /\ Runs(t)
      BY <1>7, SenderEffect, Zenon DEF AssertSlot, At
    <2>2. \A c, s \in Cpu : slot'[c][s] =
              IF c = task[t].to /\ s = CpuOf[t] THEN r ELSE slot[c][s]
      BY <1>7, SenderEffect
    <2>3. Mine(t)' = [win |-> task'[t].win, wait |-> task'[t].wait]
      BY <2>1, <2>2, SenderEffect, ZenonT(60) DEF Mine, Moves
    <2>4. Sends(t)' BY <1>0, <2>1, <2>3 DEF Moves, Sends, Asks, Sending
    <2>5. ASSUME NEW u \in Task, u # t PROVE Sends(u)'
      <3>1. task'[u] = task[u] BY <2>1, <2>5 DEF Moves
      <3>2. task[u].pc \in Sending => CpuOf[u] # CpuOf[t] BY <2>1, <2>5 DEF Runs
      <3>3. task[u].pc \in Sending => slot'[task[u].to][CpuOf[u]] = Mine(u)
        <4>1. task[u].to \in Cpu /\ CpuOf[u] \in Cpu BY SenderEffect, Zenon
        <4> QED BY <2>2, <3>2, <4>1 DEF Mine
      <3> QED BY <1>0, <3>1, <3>3, SendsFrame
    <2> QED BY <2>4, <2>5
  <1>8. ASSUME NEW t \in Task, Send(t) PROVE \A u \in Task : Sends(u)'
    <2>0. slot' = slot /\ task[t].pc = "send" BY <1>8 DEF Send, At
    <2>1. CASE task[t].wait /\ Moves(t, "ack")
      <3>1. Sends(t)' BY <1>0, <2>0, <2>1, Zenon DEF Moves, Sends, Asks, Sending, Mine
      <3> QED BY <2>0, <2>1, <3>1, SendsStep DEF Moves
    <2>2. CASE GoesOn(t, task[t].to + 1)
      <3>1. task[t].to + 1 \in Nat BY SenderEffect, Zenon
      <3> QED BY <2>0, <2>2, <3>1, <1>g
    <2> QED BY <1>8, <2>1, <2>2, SenderEffect, Zenon
  <1>9. ASSUME NEW c \in Cpu, IsrStep(c) PROVE \A u \in Task : Sends(u)'
    <2>1. task' = task BY SMTT(60), <1>9 DEF IsrStep, Interrupt, Scan, Run
    <2>2. ASSUME NEW k \in Cpu, NEW s \in Cpu PROVE slot'[k][s] \in {slot[k][s], NULL}
      BY <1>9, HandlerEffect DEF IsrStep, Interrupt, Skips, Takes, Finishes
    <2>3. ASSUME NEW u \in Task PROVE slot'[task[u].to][CpuOf[u]] \in {Mine(u), NULL}
      BY <2>2, SenderEffect, Zenon DEF Mine
    <2> QED BY <1>0, <2>1, <2>3, SendsFrame
  <1>10. \A u \in Task : Sends(u)'
    BY <1>0, <1>1, <1>2, <1>3, <1>4, <1>5, <1>6, <1>7, <1>8, <1>9, Steps DEF TaskStep, SendInv
  <1> QED BY <1>a, <1>10 DEF SendInv

-----------------------------------------------------------------------------
\* Only AssertSlot of a sender touches the slots and the handlers' state; the
\* slot it fills was free.
LEMMA SlotsStay ==
    ASSUME TypeOK, [Next]_vars
    PROVE  \/ UNCHANGED <<slot, isr, due>>
           \/ \E t \in Task : AssertSlot(t)
           \/ \E c \in Cpu : IsrStep(c)
  BY Steps, Zenon DEF vars, MapNoflush, Remap, Unmap, FlushNoWait, TaskStep, FlushLocal, WaitSlot,
               Send, WaitAck
LEMMA RequestIsOne ==
    ASSUME NEW win \in SUBSET Window, NEW b \in BOOLEAN
    PROVE  [win |-> win, wait |-> b] # NULL
  <1>1. [win |-> win, wait |-> b] \in Request BY Zenon DEF Request
  <1> QED BY <1>1, MapperAssumption, Zenon
LEMMA AssertsFree ==
    ASSUME TypeOK, SendInv, NEW t \in Task, AssertSlot(t)
    PROVE  /\ task[t].to \in Cpu /\ CpuOf[t] \in Cpu /\ task[t].to # CpuOf[t]
           /\ slot[task[t].to][CpuOf[t]] = NULL
           /\ [win |-> task[t].win, wait |-> task[t].wait] # NULL
           /\ isr' = isr /\ irr' = irr
  <1>1. task[t].to \in Cpu /\ CpuOf[t] \in Cpu BY SenderEffect, Zenon
  <1>2. task[t].to # CpuOf[t] /\ slot[task[t].to][CpuOf[t]] = NULL
    BY Zenon DEF AssertSlot, At, SendInv, Sends, Mine, Sending
  <1>3. [win |-> task[t].win, wait |-> task[t].wait] # NULL
    BY MapperAssumption DEF TypeOK, Request
  <1> QED BY <1>1, <1>2, <1>3, Zenon DEF AssertSlot

\* A request that is waited for stays in its slot until ipi_handler has run it.
LEMMA NextSlot == ASSUME IInv, [Next]_vars PROVE SlotInv'
  <1> USE DEF IInv
  <1>1. CASE UNCHANGED <<slot, isr, due>> BY <1>1, Zenon DEF SlotInv
  <1>2. ASSUME NEW t \in Task, AssertSlot(t), NEW k \in Cpu
        PROVE  /\ slot'[k][k] = NULL
               /\ isr'[k].req # NULL => isr'[k].on
               /\ isr'[k].req # NULL /\ isr'[k].wait =>
                     slot'[k][isr'[k].i] = [win |-> isr'[k].req, wait |-> TRUE]
    <2>1. /\ task[t].to # CpuOf[t] /\ slot[task[t].to][CpuOf[t]] = NULL
          /\ isr' = isr
      BY <1>2, AssertsFree, Zenon
    <2>2. \A s \in Cpu : slot'[k][s] =
              IF k = task[t].to /\ s = CpuOf[t]
              THEN [win |-> task[t].win, wait |-> task[t].wait] ELSE slot[k][s]
      BY <1>2, SenderEffect
    <2>3. slot'[k][k] = NULL BY <2>1, <2>2, Zenon DEF SlotInv
    <2>4. isr[k].i \in Cpu BY HandlerEffect, Zenon
    <2>5. ASSUME isr[k].req # NULL, isr[k].wait
          PROVE  slot'[k][isr[k].i] = [win |-> isr[k].req, wait |-> TRUE]
      <3>1. slot[k][isr[k].i] = [win |-> isr[k].req, wait |-> TRUE] BY <2>5, Zenon DEF SlotInv
      <3>2. [win |-> isr[k].req, wait |-> TRUE] # NULL
        <4>1. isr[k].req \in SUBSET Window BY <2>5, Zenon DEF TypeOK
        <4> QED BY <4>1, RequestIsOne, Zenon
      <3>3. ~(k = task[t].to /\ isr[k].i = CpuOf[t]) BY <2>1, <3>1, <3>2, Zenon
      <3> QED BY <2>2, <2>4, <3>1, <3>3, Zenon
    <2>6. isr[k].req # NULL => isr[k].on BY Zenon DEF SlotInv
    <2> QED BY <2>1, <2>3, <2>5, <2>6, Zenon
  <1>3. ASSUME NEW c \in Cpu, IsrStep(c), NEW k \in Cpu
        PROVE  /\ slot'[k][k] = NULL
               /\ isr'[k].req # NULL => isr'[k].on
               /\ isr'[k].req # NULL /\ isr'[k].wait =>
                     slot'[k][isr'[k].i] = [win |-> isr'[k].req, wait |-> TRUE]
    <2>0. \A s \in Cpu : slot'[k][s] = slot[k][s] \/ slot'[k][s] = NULL
      BY <1>3, HandlerSlots, Zenon
    <2>1. slot'[k][k] = NULL BY <2>0, Zenon DEF SlotInv
    <2>2. CASE k # c
      <3>1. isr'[k] = isr[k] /\ isr[k].i \in Cpu BY <1>3, <2>2, HandlerEffect, Zenon
      <3>2. \A s \in Cpu : slot'[k][s] = slot[k][s]
        BY <1>3, <2>2, HandlerSlots, Zenon
      <3> QED BY <2>1, <3>1, <3>2 DEF SlotInv
    <2>3. CASE k = c /\ isr'[k].req = NULL BY <2>1, <2>3, Zenon
    <2>4. CASE k = c /\ Takes(c)
      <3>1. isr[c].i \in Cpu BY HandlerEffect, Zenon
      <3>2. ASSUME isr'[c].wait PROVE slot'[c][isr'[c].i] = [win |-> isr'[c].req, wait |-> TRUE]
        <4>1. slot[c][isr[c].i] \in Request /\ slot'[c][isr'[c].i] = slot[c][isr[c].i]
          BY <2>4, <3>1, <3>2 DEF Takes
        <4>2. slot[c][isr[c].i].wait = TRUE BY <2>4, <3>2, <4>1, Zenon DEF Takes, Request
        <4>3. isr'[c].req = slot[c][isr[c].i].win BY <2>4, Zenon DEF Takes
        <4> QED BY <4>1, <4>2, <4>3, Zenon DEF Request
      <3> QED BY <2>1, <2>4, <3>2, Zenon DEF Takes
    <2>5. AtSender(c, 0).req = NULL /\ AtSender(c, isr[c].i + 1).req = NULL
      BY HandlerEffect, SenderStep, Zenon
    <2> QED BY <1>3, <2>2, <2>3, <2>4, <2>5, HandlerEffect DEF IsrStep, Skips, Finishes
  <1> QED BY <1>1, <1>2, <1>3, SlotsStay, Zenon DEF SlotInv

\* No request is overwritten, dropped or run a second time.
LEMMA NextRequests == ASSUME IInv, [Next]_vars PROVE RequestsRunOnce'
  <1> USE DEF IInv
  <1> DEFINE Owed(c, s) ==
        due[c][s] = (IF slot[c][s] # NULL /\ ~(Taken(c, s) /\ isr[c].wait) THEN 1 ELSE 0)
                  + (IF Taken(c, s) THEN 1 ELSE 0)
  <1>d. \A c, s \in Cpu : due[c][s] \in Nat
    <2>1. due \in [Cpu -> [Cpu -> 0..2]] BY Zenon DEF TypeOK
    <2> QED BY <2>1
  <1>0. /\ \A c, s \in Cpu : Owed(c, s)
        /\ \A c, s \in Cpu : due[c][s] \in Nat
    BY <1>d, Zenon DEF RequestsRunOnce
  <1>1. CASE UNCHANGED <<slot, isr, due>> BY <1>1 DEF RequestsRunOnce, Taken
  <1>2. ASSUME NEW t \in Task, AssertSlot(t), NEW c \in Cpu, NEW s \in Cpu PROVE Owed(c, s)'
    <2>1. /\ slot[task[t].to][CpuOf[t]] = NULL /\ isr' = isr
          /\ [win |-> task[t].win, wait |-> task[t].wait] # NULL
      BY <1>2, AssertsFree, Zenon
    <2>2. /\ slot'[c][s] = IF c = task[t].to /\ s = CpuOf[t]
                           THEN [win |-> task[t].win, wait |-> task[t].wait] ELSE slot[c][s]
          /\ due'[c][s] = IF c = task[t].to /\ s = CpuOf[t] THEN due[c][s] + 1 ELSE due[c][s]
      BY <1>2, SenderEffect
    <2>3. Taken(c, s) /\ isr[c].wait => slot[c][s] # NULL
      <3>1. ASSUME Taken(c, s), isr[c].wait PROVE slot[c][s] # NULL
        <4>1. slot[c][s] = [win |-> isr[c].req, wait |-> TRUE] BY <3>1, Zenon DEF SlotInv, Taken
        <4>2. isr[c].req \in SUBSET Window BY <3>1, Zenon DEF TypeOK, Taken
        <4> QED BY <4>1, <4>2, RequestIsOne, Zenon
      <3> QED BY <3>1, Zenon
    <2>4. Taken(c, s)' = Taken(c, s) BY <2>1, Zenon DEF Taken
    <2> QED BY <1>0, <2>1, <2>2, <2>3, <2>4
  <1>3. ASSUME NEW c \in Cpu, IsrStep(c), NEW k \in Cpu, NEW s \in Cpu PROVE Owed(k, s)'
    <2>0. isr[c].i \in Cpu /\ isr[c].i + 1 \in Nat BY HandlerEffect, Zenon
    <2>n. AtSender(c, 0).req = NULL /\ AtSender(c, isr[c].i + 1).req = NULL BY <2>0, SenderStep, Zenon
    <2>1. CASE k # c
      <3>1. isr'[k] = isr[k] BY <1>3, <2>1, HandlerEffect, Zenon
      <3>2. slot'[k][s] = slot[k][s] /\ due'[k][s] = due[k][s]
        <4>1. CASE Interrupt(c) BY <4>1, Zenon DEF Interrupt
        <4>2. CASE Scan(c)
          <5>1. due'[k][s] = due[k][s] BY <4>2, Zenon DEF Scan
          <5> QED BY <2>1, <4>2, <5>1, HandlerEffect DEF Skips, Takes
        <4>3. CASE Run(c) BY SMTT(60), <2>1, <4>3, HandlerEffect DEF Finishes
        <4> QED BY <1>3, <4>1, <4>2, <4>3, Zenon DEF IsrStep
      <3> QED BY <1>0, <3>1, <3>2 DEF Taken
    <2>2. CASE k = c /\ Interrupt(c)
      <3>1. isr[c].req = NULL BY <2>2, Zenon DEF Interrupt, SlotInv
      <3>2. isr'[c].req = NULL BY <2>2, <2>n, HandlerEffect, Zenon
      <3>3. slot'[c][s] = slot[c][s] /\ due'[c][s] = due[c][s] BY <2>2, Zenon DEF Interrupt
      <3> QED BY <1>0, <2>2, <3>1, <3>2, <3>3 DEF Taken
    <2>3. CASE k = c /\ Scan(c) /\ Skips(c)
      <3>1. isr'[c].req = NULL BY <2>3, <2>n, Zenon DEF Skips
      <3>2. slot'[c][s] = slot[c][s] /\ due'[c][s] = due[c][s] BY <2>3, Zenon DEF Scan, Skips
      <3> QED BY <1>0, <2>3, <3>1, <3>2, Zenon DEF Taken, Skips
    <2>4. CASE k = c /\ Scan(c) /\ Takes(c)
      <3>1. due'[c][s] = due[c][s] /\ slot[c][isr[c].i] # NULL
        BY <2>4, MapperAssumption, Zenon DEF Scan, Takes
      <3> QED BY <1>0, <2>4, <3>1 DEF Taken, Takes
    <2>5. CASE k = c /\ Run(c)
      <3>1. Finishes(c) /\ isr'[c].req = NULL BY <2>5, <2>n, HandlerEffect, Zenon DEF Finishes
      <3>2. isr[c].wait => slot[c][isr[c].i] # NULL
        <4>1. isr[c].req \in SUBSET Window BY <3>1 DEF TypeOK, Finishes
        <4>2. [win |-> isr[c].req, wait |-> TRUE] # NULL BY <4>1, RequestIsOne, Zenon
        <4> QED BY <3>1, <4>2, Zenon DEF Finishes, SlotInv
      <3> QED BY <1>0, <2>5, <3>1, <3>2 DEF Taken, Finishes
    <2> QED BY <1>3, <2>1, <2>2, <2>3, <2>4, <2>5, HandlerEffect, Zenon DEF IsrStep
  <1> QED BY <1>1, <1>2, <1>3, SlotsStay, Zenon DEF RequestsRunOnce

\* A filled slot has an interrupt to come, or a handler that has not passed it.
LEMMA NextServed == ASSUME IInv, [Next]_vars PROVE ServedInv'
  <1>i. ServedInv BY Zenon DEF IInv
  <1> DEFINE Waiting(c, s) == \E t \in Task : CpuOf[t] = s /\ task[t].to = c /\ task[t].pc = "send"
             Ahead(c, s) ==
               \/ isr[c].on /\ isr[c].i < s
               \/ isr[c].on /\ isr[c].i = s /\ (isr[c].req = NULL \/ isr[c].wait)
  <1>0. \A c, s \in Cpu : slot[c][s] # NULL => irr[c] \/ Ahead(c, s) \/ Waiting(c, s)
    <2> TAKE c, s \in Cpu
    <2> QED BY <1>i DEF ServedInv
  <1> USE DEF IInv
  <1>s. SUFFICES ASSUME NEW k \in Cpu, NEW s \in Cpu, slot'[k][s] # NULL
                 PROVE  irr'[k] \/ Ahead(k, s)' \/ Waiting(k, s)'
    BY DEF ServedInv
  <1>a. ASSUME UNCHANGED <<slot, isr, irr>>, \A t \in Task : task[t].pc = "send" => task'[t] = task[t]
        PROVE  irr'[k] \/ Ahead(k, s)' \/ Waiting(k, s)'
    <2>1. irr[k] \/ Ahead(k, s) \/ Waiting(k, s) BY <1>0, <1>s, <1>a, ZenonT(60)
    <2>2. irr'[k] = irr[k] BY <1>a, Zenon
    <2>3. Ahead(k, s) => Ahead(k, s)' BY <1>a, Zenon
    <2>4. Waiting(k, s) => Waiting(k, s)' BY <1>a, Zenon
    <2> QED BY <2>1, <2>2, <2>3, <2>4, Zenon
  <1>1. CASE UNCHANGED vars BY <1>a, <1>1, Zenon DEF vars
  <1>2. ASSUME NEW t \in Task, NEW f \in Frame, NEW win \in SUBSET free,
               MapNoflush(t, f, win)
        PROVE  irr'[k] \/ Ahead(k, s)' \/ Waiting(k, s)'
    <2>1. task[t].pc = "idle" /\ \A u \in Task \ {t} : task'[u] = task[u] BY <1>2, StartEffect, Zenon
    <2>2. UNCHANGED <<slot, isr, irr>> BY <1>2, Zenon DEF MapNoflush
    <2> QED BY <2>1, <2>2, <1>a, Zenon
  <1>3. ASSUME NEW t \in Task, NEW f \in Frame, Remap(t, f)
        PROVE  irr'[k] \/ Ahead(k, s)' \/ Waiting(k, s)'
    <2>1. task[t].pc = "mapped" /\ \A u \in Task \ {t} : task'[u] = task[u] BY <1>3, StartEffect, Zenon
    <2>2. UNCHANGED <<slot, isr, irr>> BY <1>3, Zenon DEF Remap
    <2> QED BY <2>1, <2>2, <1>a, Zenon
  <1>4. ASSUME NEW t \in Task, Unmap(t) \/ FlushNoWait(t)
        PROVE  irr'[k] \/ Ahead(k, s)' \/ Waiting(k, s)'
    <2>1. task[t].pc \in {"idle", "mapped"} /\ \A u \in Task \ {t} : task'[u] = task[u]
      BY <1>4, StartEffect, Zenon
    <2>2. UNCHANGED <<slot, isr, irr>> BY <1>4, Zenon DEF Unmap, FlushNoWait
    <2> QED BY <2>1, <2>2, <1>a, Zenon
  <1>5. ASSUME NEW t \in Task, FlushLocal(t) \/ WaitSlot(t) \/ WaitAck(t)
        PROVE  irr'[k] \/ Ahead(k, s)' \/ Waiting(k, s)'
    <2>1. task[t].pc \in {"local", "wait", "ack"} BY <1>5, Zenon DEF FlushLocal, WaitSlot, WaitAck, At
    <2>2. \A u \in Task \ {t} : task'[u] = task[u] BY <1>5, SenderEffect, Zenon DEF GoesOn, Moves
    <2>3. UNCHANGED <<slot, isr, irr>> BY <1>5, Zenon DEF FlushLocal, WaitSlot, WaitAck
    <2> QED BY <2>1, <2>2, <2>3, <1>a, Zenon
  <1>6. ASSUME NEW t \in Task, AssertSlot(t)
        PROVE  irr'[k] \/ Ahead(k, s)' \/ Waiting(k, s)'
    <2>1. Moves(t, "send") /\ task[t].pc = "assert" BY <1>6, SenderEffect, Zenon DEF AssertSlot, At
    <2>2. isr' = isr /\ irr' = irr BY <1>6, Zenon DEF AssertSlot
    <2>3. CASE k = task[t].to /\ s = CpuOf[t] BY <2>1, <2>3, Zenon DEF Moves
    <2>4. CASE ~(k = task[t].to /\ s = CpuOf[t])
      <3>0. slot'[k][s] = slot[k][s]
        <4> DEFINE r == [win |-> task[t].win, wait |-> task[t].wait]
        <4>1. \A a, b \in Cpu : slot'[a][b] =
                IF a = task[t].to /\ b = CpuOf[t] THEN r ELSE slot[a][b]
          BY <1>6, SenderEffect, Zenon
        <4> HIDE DEF r
        <4> QED BY <2>4, <4>1, Zenon
      <3>1. slot[k][s] # NULL BY <1>s, <3>0, Zenon
      <3>2. Waiting(k, s) => Waiting(k, s)' BY <2>1, Zenon DEF Moves
      <3> QED BY <1>0, <2>2, <3>1, <3>2
    <2> QED BY <2>3, <2>4, Zenon
  <1>7. ASSUME NEW t \in Task, Send(t) PROVE irr'[k] \/ Ahead(k, s)' \/ Waiting(k, s)'
    <2>1. \A u \in Task \ {t} : task'[u] = task[u] BY <1>7, SenderEffect, Zenon DEF GoesOn, Moves
    <2>2. slot' = slot /\ isr' = isr BY <1>7, Zenon DEF Send
    <2>3. irr'[k] = (k = task[t].to \/ irr[k])
      <3>1. irr \in [Cpu -> BOOLEAN] /\ irr' = [irr EXCEPT ![task[t].to] = TRUE]
        BY <1>7, Zenon DEF Send, TypeOK
      <3>2. CASE k = task[t].to BY <3>1, <3>2, Zenon
      <3>3. CASE k # task[t].to BY <3>1, <3>3, Zenon
      <3> QED BY <3>2, <3>3, Zenon
    <2>4. CASE k # task[t].to
      <3>1. Waiting(k, s) => Waiting(k, s)' BY <2>1, <2>4, Zenon
      <3>2. Ahead(k, s)' <=> Ahead(k, s) BY <2>2, Zenon
      <3>3. slot[k][s] # NULL BY <1>s, <2>2, Zenon
      <3>4. irr'[k] = irr[k] BY <1>7, <2>4, Zenon DEF Send, TypeOK
      <3> HIDE DEF Ahead, Waiting
      <3> QED BY <1>0, <3>1, <3>2, <3>3, <3>4, Zenon
    <2> QED BY <2>3, <2>4, Zenon
  <1>8. ASSUME NEW c \in Cpu, IsrStep(c) PROVE irr'[k] \/ Ahead(k, s)' \/ Waiting(k, s)'
    <2>0. isr[c].i \in Cpu /\ isr[c].i + 1 \in Nat BY HandlerEffect, Zenon
    <2>1. task' = task /\ slot[k][s] # NULL
      <3>1. task' = task BY <1>8, Zenon DEF IsrStep, Interrupt, Scan, Run
      <3>2. slot[k][s] # NULL
        BY <1>8, <1>s, HandlerEffect DEF IsrStep, Interrupt, Skips, Takes, Finishes
      <3> QED BY <3>1, <3>2, Zenon
    <2>w. Waiting(k, s) => Waiting(k, s)' BY <2>1, Zenon
    <2>2. k = c => s # c BY <2>1, Zenon DEF SlotInv
    <2>3. CASE Interrupt(c)
      <3>1. isr'[c] = AtSender(c, 0) /\ \A j \in Cpu \ {c} : irr'[j] = irr[j] /\ isr'[j] = isr[j]
        BY <1>8, <2>3, HandlerEffect, Zenon
      <3>2. CASE k = c
        <4>1. /\ isr'[c].req = NULL /\ isr'[c].on /\ isr'[c].i <= s /\ isr'[c].i \in Cpu
          <5>1. s >= 0 BY MapperAssumption DEF Cpu
          <5> QED BY <2>2, <3>1, <3>2, <5>1, SenderStep, Zenon DEF IsrType
        <4>2. isr'[c].i < s \/ isr'[c].i = s BY SMTT(60), <4>1, MapperAssumption DEF Cpu
        <4> QED BY <3>2, <4>1, <4>2, Zenon
      <3>3. CASE k # c BY <1>0, <2>1, <2>w, <3>1, <3>3
      <3> QED BY <3>2, <3>3, Zenon
    <2>4. CASE Scan(c) \/ Run(c)
      <3>1. irr' = irr /\ \A j \in Cpu \ {c} : isr'[j] = isr[j]
        BY <1>8, <2>4, HandlerEffect, Zenon DEF Scan, Run
      <3>2. CASE k # c BY SMTT(60), <1>0, <2>1, <2>w, <3>1, <3>2
      <3>3. CASE k = c /\ Takes(c)
        <4>1. Ahead(c, s) => Ahead(c, s)'
          BY <1>s, <3>3, Zenon DEF Takes
        <4> QED BY <1>0, <2>1, <2>w, <3>1, <3>3, <4>1
      <3>4. CASE k = c /\ isr'[c] = AtSender(c, isr[c].i + 1) /\ (Skips(c) \/ Finishes(c))
        <4>1. Ahead(c, s) => isr[c].i < s
          BY <1>s, <2>1, <3>4 DEF Skips, Finishes
        <4>2. isr[c].i < s => Ahead(c, s)'
          <5>1. ASSUME isr[c].i < s
                PROVE  isr'[c].req = NULL /\ isr'[c].on /\ isr'[c].i <= s /\ isr'[c].i \in Cpu
            <6>1. s >= isr[c].i + 1 BY <2>0, <5>1, MapperAssumption DEF Cpu
            <6>2. AtSender(c, isr[c].i + 1) \in IsrType BY <2>0, SenderStep, Zenon
            <6>3. AtSender(c, isr[c].i + 1).i \in Cpu BY <6>2, Zenon DEF IsrType
            <6>4. /\ AtSender(c, isr[c].i + 1).req = NULL /\ AtSender(c, isr[c].i + 1).on
                  /\ AtSender(c, isr[c].i + 1).i <= s
              BY <2>0, <2>2, <3>4, <6>1, SenderStep, Zenon
            <6> QED BY <3>4, <6>3, <6>4, Zenon
          <5>2. isr'[c].i \in Cpu /\ isr'[c].i <= s => isr'[c].i < s \/ isr'[c].i = s
            BY MapperAssumption DEF Cpu
          <5> QED BY <5>1, <5>2, Zenon
        <4> QED BY SMTT(60), <1>0, <2>1, <2>w, <3>1, <3>4, <4>1, <4>2
      <3> QED BY <2>4, <3>2, <3>3, <3>4, HandlerEffect, Zenon DEF Skips, Finishes
    <2> QED BY <1>8, <2>3, <2>4, Zenon DEF IsrStep
  <1> QED BY <1>1, <1>2, <1>3, <1>4, <1>5, <1>6, <1>7, <1>8, Steps, Zenon DEF TaskStep

-----------------------------------------------------------------------------
\* Who owns a window changes only when it is mapped or unmapped: a task that
\* goes on keeps its windows, or has given them up before.
LEMMA OwnsEffect ==
    ASSUME IInv, NEW t \in Task
    PROVE  /\ Owns(t) \in SUBSET Window
           /\ task[t].pc = "mapped" => Owns(t) = task[t].win
           /\ \A i \in Nat : GoesOn(t, i) => \A u \in Task : Owns(u)' \subseteq Owns(u)
           /\ \A l : Moves(t, l) => \A u \in Task : Owns(u)' = Owns(u)
  <1> USE DEF IInv
  <1>1. Owns(t) \in SUBSET Window BY Zenon DEF Owns, TypeOK
  <1>2. task[t].pc = "mapped" => Owns(t) = task[t].win BY Zenon DEF SendInv, Sends, Owns
  <1>3. ASSUME NEW i \in Nat, GoesOn(t, i) PROVE \A u \in Task : Owns(u)' \subseteq Owns(u)
    <2>1. Owns(t)' \subseteq Owns(t) BY <1>3, Zenon DEF GoesOn, Owns
    <2> QED BY <1>3, <2>1, Zenon DEF GoesOn, Owns
  <1>4. ASSUME NEW l, Moves(t, l) PROVE \A u \in Task : Owns(u)' = Owns(u)
    BY <1>4, Zenon DEF Moves, Owns
  <1> QED BY <1>1, <1>2, <1>3, <1>4, Zenon

\* The effect of the three writes to the page table: the writer's windows are
\* its own or free ones, and no one else's.
Writes(t, win) ==
    /\ task'[t].pc = "local" /\ slot' = slot
    /\ \A u \in Task \ {t} : task'[u] = task[u] /\ Owns(u)' = Owns(u)
    /\ \A u \in Task \ {t} : Owns(u) \cap win = {}
    /\ \A w \in Window \ win : pde'[w] = pde[w]
    /\ \A c \in Cpu, w \in Window \ win : tlb'[c][w] \subseteq tlb[c][w] \cup {pde[w]}
LEMMA WritesEffect ==
    ASSUME IInv, NEW t \in Task, NEW win \in SUBSET Window, NEW f \in Frame \cup {NULL},
           Write(win, f), task'[t].pc = "local", slot' = slot,
           \A u \in Task \ {t} : task'[u] = task[u],
           \A u \in Task \ {t} : Owns(u) \cap win = {}
    PROVE  Writes(t, win) /\ \A w \in win : pde'[w] = f
  <1>1. /\ \A w \in Window : pde'[w] = IF w \in win THEN f ELSE pde[w]
        /\ \A c \in Cpu, w \in Window : tlb'[c][w] = tlb[c][w] \cup ({pde'[w]} \ {NULL})
    BY WriteEffect, Zenon DEF IInv
  <1>2. \A u \in Task \ {t} : Owns(u)' = Owns(u) BY Zenon DEF Owns
  <1>3. \A c \in Cpu, w \in Window \ win : tlb'[c][w] \subseteq tlb[c][w] \cup {pde[w]}
    BY <1>1
  <1> QED BY <1>1, <1>2, <1>3, Zenon DEF Writes
LEMMA MapWrites ==
    ASSUME IInv, NEW t \in Task, NEW f \in Frame, NEW win \in SUBSET free,
           MapNoflush(t, f, win)
    PROVE  Writes(t, win) /\ (\A w \in win : pde'[w] = f) /\ Owns(t)' = win /\ free' = free \ win
  <1>1. win \in SUBSET Window BY Zenon DEF IInv, TypeOK
  <1>2. \A u \in Task \ {t} : Owns(u) \cap win = {} BY Zenon DEF IInv, OwnInv
  <1>3. /\ task'[t].pc = "local" /\ task'[t].win = win
        /\ task'[t].then = IF win = {} THEN "idle" ELSE "mapped"
        /\ \A u \in Task \ {t} : task'[u] = task[u]
    BY StartEffect DEF IInv
  <1>4. Owns(t)' = win BY <1>3, Zenon DEF Owns
  <1>5. Write(win, f) /\ slot' = slot /\ free' = free \ win BY Zenon DEF MapNoflush
  <1> QED BY <1>1, <1>2, <1>3, <1>4, <1>5, WritesEffect
LEMMA RemapWrites ==
    ASSUME IInv, NEW t \in Task, NEW f \in Frame, Remap(t, f)
    PROVE  /\ Writes(t, Owns(t)) /\ (\A w \in Owns(t) : pde'[w] = f)
           /\ Owns(t)' = Owns(t) /\ free' = free
  <1>1. /\ task[t].pc = "mapped" /\ task'[t].pc = "local" /\ task'[t].then = "mapped"
        /\ task'[t].win = task[t].win /\ \A u \in Task \ {t} : task'[u] = task[u]
    BY StartEffect, Zenon DEF IInv
  <1>2. Owns(t) = task[t].win /\ Owns(t) \in SUBSET Window BY <1>1, OwnsEffect, Zenon
  <1>3. \A u \in Task \ {t} : Owns(u) \cap Owns(t) = {} BY Zenon DEF IInv, OwnInv
  <1>4. Owns(t)' = Owns(t) BY <1>1, <1>2, Zenon DEF Owns
  <1>5. Write(Owns(t), f) /\ slot' = slot /\ free' = free BY <1>2, Zenon DEF Remap
  <1> QED BY <1>1, <1>2, <1>3, <1>4, <1>5, WritesEffect, Zenon
LEMMA UnmapWrites ==
    ASSUME IInv, NEW t \in Task, Unmap(t)
    PROVE  Writes(t, Owns(t)) /\ Owns(t)' = {} /\ free' = free \cup Owns(t)
  <1>1. /\ task[t].pc = "mapped" /\ task'[t].pc = "local" /\ task'[t].then = "idle"
        /\ \A u \in Task \ {t} : task'[u] = task[u]
    BY StartEffect, Zenon DEF IInv
  <1>2. Owns(t) = task[t].win /\ Owns(t) \in SUBSET Window BY <1>1, OwnsEffect, Zenon
  <1>3. \A u \in Task \ {t} : Owns(u) \cap Owns(t) = {} BY Zenon DEF IInv, OwnInv
  <1>4. Owns(t)' = {} BY <1>1, Zenon DEF Owns
  <1>5. Write(Owns(t), NULL) /\ slot' = slot /\ free' = free \cup Owns(t) BY <1>2, Zenon DEF Unmap
  <1> QED BY <1>1, <1>2, <1>3, <1>4, <1>5, WritesEffect, Zenon

\* The other steps leave the page table and the bitmap alone.
LEMMA OwnersStay ==
    ASSUME IInv, \/ \E t \in Task : FlushNoWait(t) \/ TaskStep(t)
                 \/ \E c \in Cpu : IsrStep(c)
                 \/ UNCHANGED vars
    PROVE  free' = free /\ pde' = pde /\ \A u \in Task : Owns(u)' \subseteq Owns(u)
  <1>1. ASSUME NEW t \in Task, FlushNoWait(t) PROVE \A u \in Task : Owns(u)' \subseteq Owns(u)
    BY <1>1, StartEffect DEF Owns, IInv
  <1>2. ASSUME NEW t \in Task, TaskStep(t) PROVE \A u \in Task : Owns(u)' \subseteq Owns(u)
    <2>1. task[t].to + 1 \in Nat BY SenderEffect, Zenon DEF IInv
    <2>2. \/ GoesOn(t, 0) \/ GoesOn(t, task[t].to + 1)
          \/ \E l \in {"assert", "send", "ack"} : Moves(t, l)
      BY <1>2, SenderEffect, Zenon DEF IInv, TaskStep
    <2> QED BY <2>1, <2>2, OwnsEffect, Zenon
  <1>3. ASSUME \/ \E c \in Cpu : IsrStep(c)
               \/ UNCHANGED vars
        PROVE  \A u \in Task : Owns(u)' \subseteq Owns(u)
    BY <1>3, Zenon DEF IsrStep, Interrupt, Scan, Run, vars, Owns
  <1>4. free' = free /\ pde' = pde
    BY Zenon DEF FlushNoWait, TaskStep, FlushLocal, WaitSlot, AssertSlot, Send, WaitAck, IsrStep,
           Interrupt, Scan, Run, vars
  <1> QED BY <1>1, <1>2, <1>3, <1>4, ZenonT(60)

\* A window that is mapped has one owner, and its entry is present.
LEMMA NextOwn == ASSUME IInv, [Next]_vars PROVE OwnInv'
  <1>0. OwnInv /\ \A t \in Task : Owns(t) \in SUBSET Window BY OwnsEffect, Zenon DEF IInv
  <1>1. ASSUME NEW t \in Task, NEW f \in Frame, NEW win \in SUBSET free, MapNoflush(t, f, win)
        PROVE  OwnInv'
    <2>1. /\ Writes(t, win) /\ (\A w \in win : pde'[w] = f) /\ Owns(t)' = win
          /\ free' = free \ win
      BY <1>1, MapWrites, Zenon
    <2>2. ASSUME NEW u \in Task, NEW w \in Owns(u)' PROVE w \notin free' /\ pde'[w] # NULL
      <3>1. CASE u = t BY <2>1, <2>2, <3>1, MapperAssumption, Zenon
      <3>2. CASE u # t
        <4>1. w \in Owns(u) /\ w \notin win /\ w \in Window
          BY <1>0, <2>1, <2>2, <3>2, Zenon DEF Writes
        <4> QED BY <1>0, <2>1, <4>1, Zenon DEF OwnInv, Writes
      <3> QED BY <3>1, <3>2, Zenon
    <2>3. ASSUME NEW u \in Task, NEW v \in Task, u # v PROVE Owns(u)' \cap Owns(v)' = {}
      BY <1>0, <2>1, <2>3 DEF OwnInv, Writes
    <2> QED BY <2>2, <2>3, Zenon DEF OwnInv
  <1>2. ASSUME NEW t \in Task, NEW f \in Frame, Remap(t, f) PROVE OwnInv'
    <2>1. /\ Writes(t, Owns(t)) /\ (\A w \in Owns(t) : pde'[w] = f)
          /\ Owns(t)' = Owns(t) /\ free' = free
      BY <1>2, RemapWrites, Zenon
    <2>2. \A u \in Task : Owns(u)' = Owns(u) BY <2>1, Zenon DEF Writes
    <2>3. ASSUME NEW u \in Task, NEW w \in Owns(u)' PROVE w \notin free' /\ pde'[w] # NULL
      <3>1. w \in Owns(u) BY <2>2, <2>3, Zenon
      <3>2. CASE u = t BY <1>0, <2>1, <3>1, <3>2, MapperAssumption, Zenon DEF OwnInv
      <3>3. CASE u # t
        <4>1. w \notin Owns(t) /\ w \in Window BY <1>0, <3>1, <3>3, Zenon DEF OwnInv
        <4> QED BY <1>0, <2>1, <3>1, <4>1, Zenon DEF OwnInv, Writes
      <3> QED BY <3>2, <3>3, Zenon
    <2>4. \A u, v \in Task : u # v => Owns(u)' \cap Owns(v)' = {} BY <1>0, <2>2, Zenon DEF OwnInv
    <2> QED BY <2>3, <2>4, Zenon DEF OwnInv
  <1>3. ASSUME NEW t \in Task, Unmap(t) PROVE OwnInv'
    <2>1. Writes(t, Owns(t)) /\ Owns(t)' = {} /\ free' = free \cup Owns(t)
      BY <1>3, UnmapWrites, Zenon
    <2>2. ASSUME NEW u \in Task, NEW w \in Owns(u)' PROVE w \notin free' /\ pde'[w] # NULL
      <3>1. u # t BY <2>1, <2>2, Zenon
      <3>2. w \in Owns(u) /\ w \notin Owns(t) /\ w \in Window
        BY <1>0, <2>1, <2>2, <3>1, Zenon DEF Writes
      <3> QED BY <1>0, <2>1, <3>2, Zenon DEF OwnInv, Writes
    <2>3. ASSUME NEW u \in Task, NEW v \in Task, u # v PROVE Owns(u)' \cap Owns(v)' = {}
      BY <1>0, <2>1, <2>3 DEF OwnInv, Writes
    <2> QED BY <2>2, <2>3, Zenon DEF OwnInv
  <1>4. ASSUME free' = free, pde' = pde, \A u \in Task : Owns(u)' \subseteq Owns(u)
        PROVE  OwnInv'
    <2>1. \A u \in Task : \A w \in Owns(u)' : w \notin free' /\ pde'[w] # NULL
      BY <1>0, <1>4, Zenon DEF OwnInv
    <2>2. ASSUME NEW u \in Task, NEW v \in Task, u # v PROVE Owns(u)' \cap Owns(v)' = {}
      <3>1. Owns(u) \cap Owns(v) = {} BY <1>0, <2>2, Zenon DEF OwnInv
      <3>2. Owns(u)' \subseteq Owns(u) /\ Owns(v)' \subseteq Owns(v) BY <1>4, Zenon
      <3> QED BY <3>1, <3>2, Zenon
    <2> QED BY <2>1, <2>2, Zenon DEF OwnInv
  <1> QED BY <1>1, <1>2, <1>3, <1>4, OwnersStay, Steps, Zenon DEF IInv

\* What was fresh stays fresh while its entry stays: a walk adds the present
\* translation only.
LEMMA FreshFrame ==
    ASSUME IInv, NEW t \in Task, NEW c \in Cpu, Flushed(t, c), Owns(t)' \subseteq Owns(t),
           \A w \in Owns(t) : pde'[w] = pde[w] /\ tlb'[c][w] \subseteq tlb[c][w] \cup {pde[w]}
    PROVE  \A w \in Owns(t)' : tlb'[c][w] \subseteq {pde'[w]}
  <1>1. \A w \in Owns(t) : tlb[c][w] \subseteq {pde[w]} BY Zenon DEF IInv, FreshInv
  <1> QED BY <1>1, Zenon

\* A cpu that has flushed a window for its owner does not see an old
\* translation again.
LEMMA NextFresh == ASSUME IInv, [Next]_vars PROVE FreshInv'
  <1> DEFINE Fresh(t, c) == \A w \in Owns(t) : tlb[c][w] \subseteq {pde[w]}
  <1>0. /\ TypeOK /\ SendInv /\ SlotInv
        /\ \A t \in Task : Owns(t) \in SUBSET Window /\ CpuOf[t] \in Cpu /\ task[t].to \in Cpu
        /\ \A t \in Task : Sends(t)
    BY OwnsEffect, SenderEffect, Zenon DEF IInv, SendInv
  <1>s. SUFFICES ASSUME NEW t \in Task, NEW c \in Cpu, Flushed(t, c)' PROVE Fresh(t, c)'
    BY Zenon DEF FreshInv
  <1>n. Cpu \subseteq Nat BY MapperAssumption DEF Cpu
  <1>t. TypeOK BY <1>0, Zenon
  <1>w. ASSUME NEW u \in Task, NEW win, Writes(u, win) PROVE Fresh(t, c)'
    <2>1. t # u BY <1>s, <1>w, Zenon DEF Writes, Flushed, Asks, Sending
    <2>2. Flushed(t, c) BY <1>s, <1>w, <2>1, Zenon DEF Writes, Flushed, Asks, Mine
    <2>3. Owns(t)' = Owns(t) /\ Owns(t) \subseteq Window \ win BY <1>0, <1>w, <2>1, Zenon DEF Writes
    <2>4. \A w \in Owns(t) : pde'[w] = pde[w] /\ tlb'[c][w] \subseteq tlb[c][w] \cup {pde[w]}
      BY <1>w, <2>3, Zenon DEF Writes
    <2> QED BY <2>2, <2>3, <2>4, FreshFrame, Zenon
  <1>1. CASE UNCHANGED vars
    <2>1. Flushed(t, c) BY <1>1, <1>s, Zenon DEF vars, Flushed, Asks, Mine
    <2> QED BY <1>1, <2>1, FreshFrame, Zenon DEF vars, Owns
  <1>2. ASSUME NEW u \in Task, NEW f \in Frame, NEW win \in SUBSET free, MapNoflush(u, f, win)
        PROVE  Fresh(t, c)'
    BY <1>2, <1>w, MapWrites, Zenon
  <1>3. ASSUME NEW u \in Task, NEW f \in Frame, Remap(u, f) PROVE Fresh(t, c)'
    BY <1>3, <1>w, RemapWrites, Zenon
  <1>4. ASSUME NEW u \in Task, Unmap(u) PROVE Fresh(t, c)'
    BY <1>4, <1>w, UnmapWrites, Zenon
  \* a step that leaves the page table alone
  <1>q. ASSUME pde' = pde, Flushed(t, c), Owns(t)' \subseteq Owns(t),
               \A w \in Window : tlb'[c][w] \subseteq tlb[c][w] \cup {pde[w]}
        PROVE  Fresh(t, c)'
    BY <1>0, <1>q, FreshFrame, Zenon
  <1>5. ASSUME NEW u \in Task, FlushNoWait(u) PROVE Fresh(t, c)'
    <2>1. /\ task'[u].pc = "local" /\ \A v \in Task \ {u} : task'[v] = task[v]
          /\ slot' = slot /\ tlb' = tlb
      BY <1>0, <1>5, StartEffect, Zenon DEF FlushNoWait
    <2>2. t # u BY <1>s, <2>1, Zenon DEF Flushed, Asks, Sending
    <2>3. Flushed(t, c) BY <1>s, <2>1, <2>2, Zenon DEF Flushed, Asks, Mine
    <2>4. pde' = pde /\ Owns(t)' \subseteq Owns(t) BY <1>5, OwnersStay, Zenon
    <2> QED BY <1>q, <2>1, <2>3, <2>4, Zenon
  <1>6. ASSUME NEW u \in Task, FlushLocal(u) PROVE Fresh(t, c)'
    <2>1. GoesOn(u, 0) /\ slot' = slot BY <1>0, <1>6, SenderEffect, Zenon DEF FlushLocal
    <2>2. pde' = pde /\ Owns(t)' \subseteq Owns(t) BY <1>6, OwnersStay, Zenon DEF TaskStep
    <2>3. \A w \in Window : tlb'[c][w] = IF c = CpuOf[u] /\ w \in task[u].win
                                         THEN {pde[w]} \ {NULL} ELSE tlb[c][w]
      <3>1. task[u].win \in SUBSET Window BY <1>0, Zenon DEF TypeOK
      <3>2. Flush(CpuOf[u], task[u].win) BY <1>6, Zenon DEF FlushLocal
      <3>3. Refills(CpuOf[u], task[u].win)
        <4>1. CpuOf[u] \in Cpu BY <1>0, Zenon
        <4> QED BY <1>t, <3>1, <3>2, <4>1, FlushEffect, Zenon
      <3> QED BY <3>3, Zenon DEF Refills
    <2>4. CASE t # u
      <3>1. Flushed(t, c) BY <1>s, <2>1, <2>4, Zenon DEF GoesOn, Flushed, Asks, Mine
      <3> QED BY <1>q, <2>2, <2>3, <3>1, Zenon
    <2>5. CASE t = u
      <3>1. c = CpuOf[t]
        <4>1. c >= 0 BY <1>n
        <4> QED BY <1>s, <2>1, <2>5, <4>1, Zenon DEF GoesOn, Flushed, Asks, Sending
      <3>2. Owns(t) \subseteq task[t].win BY Zenon DEF Owns
      <3> QED BY <1>0, <2>2, <2>3, <2>5, <3>1, <3>2, Zenon
    <2> QED BY <2>4, <2>5, Zenon
  <1>m. ASSUME NEW u \in Task, NEW l, Moves(u, l), l \in Sending, task[u].pc \in Sending,
               Asks(u) <=> l \in {"send", "ack"}, slot' = slot, tlb' = tlb, pde' = pde
        PROVE  Fresh(t, c)'
    <2>1. Flushed(t, c)
      <3>1. CASE t = u BY <1>s, <1>m, <3>1, Zenon DEF Moves, Flushed, Asks, Mine, Sending
      <3>2. CASE t # u BY <1>s, <1>m, <3>2, Zenon DEF Moves, Flushed, Asks, Mine
      <3> QED BY <3>1, <3>2, Zenon
    <2>2. Owns(t)' = Owns(t) BY <1>m, OwnsEffect, Zenon
    <2> QED BY <1>m, <1>q, <2>1, <2>2, Zenon
  <1>7. ASSUME NEW u \in Task, WaitSlot(u) PROVE Fresh(t, c)'
    <2>1. Moves(u, "assert") BY <1>0, <1>7, SenderEffect, Zenon
    <2>2. task[u].pc = "wait" /\ UNCHANGED <<slot, tlb, pde>> BY <1>7, Zenon DEF WaitSlot, At
    <2> QED BY <1>m, <2>1, <2>2, Zenon DEF Sending, Asks
  <1>8. ASSUME NEW u \in Task, AssertSlot(u) PROVE Fresh(t, c)'
    <2> DEFINE r == [win |-> task[u].win, wait |-> task[u].wait]
    <2>1. /\ Moves(u, "send") /\ task[u].pc = "assert" /\ Runs(u)
          /\ tlb' = tlb /\ pde' = pde
      BY <1>0, <1>8, SenderEffect, Zenon DEF AssertSlot, At
    <2>2. \A k, s \in Cpu : slot'[k][s] =
              IF k = task[u].to /\ s = CpuOf[u] THEN r ELSE slot[k][s]
      BY <1>0, <1>8, SenderEffect, Zenon
    <2>3. r # NULL BY <1>0, <1>8, AssertsFree, Zenon
    <2> HIDE DEF r
    <2>4. CASE t = u
      <3>1. Mine(t)' # NULL BY <1>0, <2>1, <2>2, <2>3, <2>4, Zenon DEF Mine, Moves
      <3>2. Flushed(t, c) BY <1>s, <2>1, <2>4, <3>1, Zenon DEF Flushed, Moves, Sending, Asks
      <3> QED BY <1>q, <2>1, <2>4, <3>2, OwnsEffect, Zenon
    <2>5. CASE t # u
      <3>1. task'[t] = task[t] BY <2>1, <2>5, Zenon DEF Moves
      <3>2. Asks(t) => CpuOf[t] # CpuOf[u] BY <2>1, <2>5, Zenon DEF Runs, Asks, Sending
      <3>3. Asks(t) => Mine(t)' = Mine(t) BY <1>0, <2>2, <3>1, <3>2 DEF Mine
      <3>4. Flushed(t, c) BY <1>s, <3>1, <3>3, Zenon DEF Flushed, Asks
      <3> QED BY <1>q, <2>1, <3>4, OwnsEffect, Zenon
    <2> QED BY <2>4, <2>5, Zenon
  <1>g. ASSUME NEW u \in Task, NEW i \in Nat, GoesOn(u, i), t # u,
               slot' = slot, tlb' = tlb, pde' = pde
        PROVE  Fresh(t, c)'
    <2>1. Flushed(t, c) BY <1>s, <1>g, Zenon DEF GoesOn, Flushed, Asks, Mine
    <2> QED BY <1>g, <1>q, <2>1, OwnsEffect, Zenon
  <1>9. ASSUME NEW u \in Task, Send(u) PROVE Fresh(t, c)'
    <2>1. task[u].pc = "send" /\ UNCHANGED <<slot, tlb, pde>> BY <1>9, Zenon DEF Send, At
    <2>2. CASE Moves(u, "ack") BY <1>m, <2>1, <2>2, Zenon DEF Sending, Asks
    <2>3. CASE ~task[u].wait /\ GoesOn(u, task[u].to + 1)
      <3>0. task[u].to + 1 \in Nat BY <1>0, SenderEffect, Zenon
      <3>1. CASE t = u
        <4>1. Owns(t) = {} BY <1>0, <2>3, <3>1, Zenon DEF Sends, Owns
        <4>2. Owns(t)' \subseteq Owns(t) BY <2>3, <3>0, <3>1, OwnsEffect, Zenon
        <4> QED BY <4>1, <4>2, Zenon
      <3> QED BY <1>g, <2>1, <2>3, <3>0, <3>1, Zenon
    <2> QED BY <1>0, <1>9, <2>2, <2>3, SenderEffect, Zenon
  <1>10. ASSUME NEW u \in Task, WaitAck(u) PROVE Fresh(t, c)'
    <2>1. task[u].pc = "ack" /\ Mine(u) = NULL /\ UNCHANGED <<slot, tlb, pde>>
      BY <1>10, Zenon DEF WaitAck, At
    <2>2. GoesOn(u, task[u].to + 1) /\ task[u].to + 1 \in Nat BY <1>0, <1>10, SenderEffect, Zenon
    <2>3. CASE t = u
      <3>1. c = CpuOf[t] \/ c < task[t].to + 1
        <4>1. c >= task[t].to + 1 \/ c < task[t].to + 1 BY <1>0, <1>n
        <4>2. CASE task'[t].pc = "wait" BY <1>0, <1>s, <2>2, <2>3, <4>1, <4>2, Zenon DEF GoesOn, Flushed, Asks, Sending
        <4>3. CASE task'[t].pc = "mapped" BY <2>2, <2>3, <4>1, <4>3, Zenon DEF GoesOn
        <4>4. task'[t].pc # "idle" BY <1>s, Zenon DEF Flushed, Asks, Sending
        <4> QED BY <2>2, <2>3, <4>2, <4>3, <4>4, Zenon DEF GoesOn
      <3>2. c = CpuOf[t] \/ c < task[t].to \/ c = task[t].to
        <4>1. c \in Nat /\ task[t].to \in Nat BY <1>0, <1>n, Zenon
        <4> QED BY <3>1, <4>1
      <3>3. Flushed(t, c) BY <2>1, <2>3, <3>2, Zenon DEF Flushed, Asks, Sending
      <3>4. Owns(t)' \subseteq Owns(t) BY <2>2, <2>3, OwnsEffect, Zenon
      <3> QED BY <1>q, <2>1, <3>3, <3>4, Zenon
    <2> QED BY <1>g, <2>1, <2>2, <2>3, Zenon
  <1>11. ASSUME NEW k \in Cpu, IsrStep(k) PROVE Fresh(t, c)'
    <2>0. isr[k].i \in Cpu /\ task' = task /\ pde' = pde /\ Owns(t)' = Owns(t)
      <3>1. task' = task /\ pde' = pde BY <1>11, Zenon DEF IsrStep, Interrupt, Scan, Run
      <3> QED BY <1>0, <3>1, HandlerEffect, Zenon DEF Owns
    <2>1. \A w \in Window : tlb'[c][w] \subseteq tlb[c][w] \cup {pde[w]}
      <3>1. CASE Run(k)
        <4>1. isr[k].req \in SUBSET Window BY <1>0, <3>1, Zenon DEF Run, TypeOK
        <4>2. \A w \in Window : tlb'[c][w] = IF c = k /\ w \in isr[k].req
                                             THEN {pde[w]} \ {NULL} ELSE tlb[c][w]
          <5>1. Flush(k, isr[k].req) BY <3>1, Zenon DEF Run
          <5>2. Refills(k, isr[k].req) BY <1>t, <4>1, <5>1, FlushEffect, Zenon
          <5> QED BY <5>2, Zenon DEF Refills
        <4> QED BY <4>2, Zenon
      <3>2. CASE tlb' = tlb BY <3>2, Zenon
      <3> QED BY <1>11, <3>1, <3>2, Zenon DEF IsrStep, Interrupt, Scan
    <2>2. CASE Flushed(t, c) BY <1>q, <2>0, <2>1, <2>2, Zenon
    <2>3. CASE ~Flushed(t, c)
      <3>1. /\ Asks(t) /\ Mine(t) # NULL /\ c = task[t].to
            /\ slot'[task[t].to][CpuOf[t]] = NULL
        BY <1>s, <2>0, <2>3, Zenon DEF Flushed, Asks, Mine
      <3>2. Mine(t) = [win |-> task[t].win, wait |-> task[t].wait] BY <1>0, <3>1, Zenon DEF Sends
      <3>3. CASE ~task[t].wait
        <4>1. Owns(t) = {} BY <1>0, <3>3, Zenon DEF Sends, Owns
        <4> QED BY <2>0, <4>1, Zenon
      <3>4. CASE task[t].wait
        <4>1. slot[c][CpuOf[t]] = [win |-> task[t].win, wait |-> task[t].wait]
          BY <3>1, <3>2, Zenon DEF Mine
        <4>2. ~Takes(k)
          <5>1. SUFFICES ASSUME Takes(k) PROVE FALSE BY Zenon
          <5>2. k = c /\ isr[k].i = CpuOf[t] /\ ~isr'[k].wait
            BY <1>0, <3>1, <5>1, Zenon DEF Takes, Mine
          <5>3. isr'[k].wait = task[t].wait
            <6>1. isr'[k].wait = slot[k][isr[k].i].wait BY <5>1, Zenon DEF Takes
            <6>2. slot[k][isr[k].i] = [win |-> task[t].win, wait |-> task[t].wait]
              BY <4>1, <5>2, Zenon
            <6> QED BY <6>1, <6>2
          <5> QED BY <3>4, <5>2, <5>3, Zenon
        <4>3. Run(k) BY <1>0, <1>11, <3>1, <4>2, HandlerEffect, Zenon DEF IsrStep, Interrupt, Skips, Mine
        <4>4. k = c /\ isr[k].i = CpuOf[t] /\ isr[k].wait /\ isr[k].req # NULL
          <5>1. Finishes(k) BY <1>t, <4>3, HandlerEffect, Zenon
          <5>2. slot'[c][CpuOf[t]] = NULL /\ slot[c][CpuOf[t]] # NULL BY <3>1, Zenon DEF Mine
          <5>3. CpuOf[t] \in Cpu BY <1>0, Zenon
          <5> QED BY <5>1, <5>2, <5>3, Zenon DEF Finishes
        <4>5. slot[c][CpuOf[t]] = [win |-> isr[k].req, wait |-> TRUE] BY <1>0, <4>4, Zenon DEF SlotInv
        <4>6. isr[k].req = task[t].win BY <4>1, <4>5
        <4>7. isr[k].req \in SUBSET Window BY <1>0, <4>4, Zenon DEF TypeOK
        <4>8. \A w \in task[t].win : tlb'[c][w] \subseteq {pde[w]}
          <5>1. Flush(k, isr[k].req) BY <4>3, Zenon DEF Run
          <5>2. Refills(k, isr[k].req) BY <1>t, <4>7, <5>1, FlushEffect
          <5> QED BY <4>4, <4>6, <4>7, <5>2, Zenon DEF Refills
        <4>9. Owns(t) \subseteq task[t].win BY Zenon DEF Owns
        <4> QED BY <2>0, <4>8, <4>9, Zenon
      <3> QED BY <3>3, <3>4, Zenon
    <2> QED BY <2>2, <2>3, Zenon
  <1> QED
    BY <1>0, <1>1, <1>2, <1>3, <1>4, <1>5, <1>6, <1>7, <1>8, <1>9, <1>10, <1>11, Steps, Zenon DEF TaskStep

-----------------------------------------------------------------------------
\* init_mappers: nothing is mapped, nobody sends.
LEMMA InitIInv == Init => IInv
  <1> SUFFICES ASSUME Init PROVE IInv BY Zenon
  <1>0. 0 \in Cpu /\ Cpu \subseteq Nat BY MapperAssumption DEF Cpu
  <1>1. Idle \in TaskType /\ NoIsr \in IsrType BY <1>0, Zenon DEF Idle, NoIsr, TaskType, IsrType
  <1>2. task \in [Task -> TaskType] /\ isr \in [Cpu -> IsrType] BY <1>1, Zenon DEF Init
  <1>3. /\ \A t \in Task : task[t].pc = "idle" /\ task[t].then = "idle"
        /\ \A c \in Cpu : isr[c].on = FALSE /\ isr[c].req = NULL
        /\ \A c, s \in Cpu : slot[c][s] = NULL /\ due[c][s] = 0
    BY Zenon DEF Init, Idle, NoIsr
  <1>4. TypeOK
    <2>1. /\ free \subseteq Window /\ pde \in [Window -> Frame \cup {NULL}]
          /\ tlb \in [Cpu -> [Window -> SUBSET Frame]]
          /\ slot \in [Cpu -> [Cpu -> Request \cup {NULL}]]
          /\ due \in [Cpu -> [Cpu -> 0..2]] /\ irr \in [Cpu -> BOOLEAN]
      BY DEF Init
    <2> QED BY <1>2, <2>1, Zenon DEF TypeOK, TaskType, IsrType
  <1>5. SendInv BY <1>3, Zenon DEF SendInv, Sends, Asks, Sending
  <1>6. SlotInv /\ ServedInv BY <1>3, Zenon DEF SlotInv, ServedInv
  <1>r. RequestsRunOnce BY <1>3 DEF RequestsRunOnce, Taken
  <1>7. OwnInv /\ FreshInv BY <1>3, Zenon DEF OwnInv, FreshInv, Owns
  <1> QED BY <1>4, <1>5, <1>6, <1>7, <1>r, Zenon DEF IInv

\* The invariant of the kernel's IPIs and of the page windows they flush.
THEOREM MapperInvariant == Spec => []IInv
  <1>1. IInv /\ [Next]_vars => IInv'
    BY NextTypeOK, NextSend, NextSlot, NextServed, NextRequests, NextOwn, NextFresh, Zenon DEF IInv
  <1> QED BY <1>1, InitIInv, PTL DEF Spec

\* map_pfn, map_phys_pg and remap_pfn return with the windows fresh on every
\* cpu, for any number of cpus, tasks and windows.
THEOREM WindowIsFreshHolds == Spec => []WindowIsFresh
  <1>1. IInv => WindowIsFresh
    BY Zenon DEF IInv, OwnInv, FreshInv, Flushed, Owns, SendInv, Sends, WindowIsFresh
  <1> QED BY <1>1, MapperInvariant, PTL

\* __ipi_run_func loses no request: its target has an interrupt to come or a
\* handler that has not passed the slot.
THEOREM IpiIsNotLostHolds == Spec => []IpiIsNotLost
  <1>1. IInv => IpiIsNotLost
    <2> SUFFICES ASSUME IInv PROVE IpiIsNotLost BY Zenon
    <2>1. ASSUME NEW c \in Cpu, NEW s \in Cpu, isr[c].i < s \/ isr[c].i = s
          PROVE  isr[c].i <= s
      <3>1. isr[c].i \in Cpu BY HandlerEffect, Zenon DEF IInv
      <3> QED BY <2>1, <3>1, MapperAssumption DEF Cpu
    <2> QED BY <2>1 DEF IInv, ServedInv, IpiIsNotLost
  <1> QED BY <1>1, MapperInvariant, PTL

\* ipi_handler runs every request once: no sender overwrites one that has not
\* run, and the handler takes none twice.
THEOREM RequestsRunOnceHolds == Spec => []RequestsRunOnce
  <1>1. IInv => RequestsRunOnce BY Zenon DEF IInv
  <1> QED BY <1>1, MapperInvariant, PTL

=============================================================================
