-------------------------------- MODULE KTlb --------------------------------
(* Kernel IPIs (kernel/kapi, kernel/isr) and their main client, the mapper of *)
(* page windows (kernel/mem/mmu): a window is mapped under the mapper's lock  *)
(* and flushed on every cpu after it.  Tasks stay on their cpu; a task in     *)
(* ipi_run_func has preemption disabled; tasks run with interrupts enabled.   *)
EXTENDS Naturals, FiniteSets

CONSTANTS Cpus, Task, CpuOf, Windows, Frame, NULL,
          Mapper    \* the tasks that map windows; the others only send requests

Cpu == 0..(Cpus - 1)
Window == 0..(Windows - 1)
Request == [win : SUBSET Window, wait : BOOLEAN]

\* Every task has a cpu; NULL is no frame and no request.
ASSUME MapperAssumption ==
    /\ Cpus \in Nat \ {0} /\ Windows \in Nat
    /\ CpuOf \in [Task -> Cpu] /\ Mapper \subseteq Task
    /\ NULL \notin Frame /\ NULL \notin Request /\ \A win \in SUBSET Window : NULL # win

VARIABLES
    free,     \* mapper.bmp: the windows that are not mapped
    pde,      \* the page table entries of the windows
    tlb,      \* the translations every cpu may have cached: a cpu may cache the
              \* current one at any time and keeps it until it flushes
    task,     \* where a task is, its windows, the cpu it sends to, and where
              \* it goes after the flush
    slot,     \* ipi_table[target][sender]: the request (windows) or NULL when
              \* its signal is unlocked
    irr,      \* the ipi vector is pending
    isr,      \* ipi_handler: the next sender, the request it took and if it
              \* acknowledges after it
    due       \* history: requests sent and not yet run

vars == <<free, pde, tlb, task, slot, irr, isr, due>>

Idle == [pc |-> "idle", win |-> {}, to |-> 0, then |-> "idle", wait |-> TRUE]
NoIsr == [on |-> FALSE, i |-> 0, req |-> NULL, wait |-> FALSE]

\* init_mappers, and the state of a cpu that runs tasks.
Init ==
    /\ free = Window /\ pde = [w \in Window |-> NULL]
    /\ tlb = [c \in Cpu |-> [w \in Window |-> {}]]
    /\ task = [t \in Task |-> Idle]
    /\ slot = [c \in Cpu |-> [s \in Cpu |-> NULL]] /\ due = [c \in Cpu |-> [s \in Cpu |-> 0]]
    /\ irr = [c \in Cpu |-> FALSE] /\ isr = [c \in Cpu |-> NoIsr]

\* The cpu runs t: no interrupt handler, no other task with preemption disabled.
Sending == {"wait", "assert", "send", "ack"}
Runs(t) ==
    /\ ~isr[CpuOf[t]].on
    /\ \A u \in Task \ {t} : CpuOf[u] = CpuOf[t] => task[u].pc \notin Sending
At(t, l) == task[t].pc = l /\ Runs(t)
Goto(t, l) == task' = [task EXCEPT ![t].pc = l]

\* vma_partition_remap, vma_partition_unmap; invlpg, flush_this_tlb_range.
Present(p, w) == {p[w]} \ {NULL}
Write(win, f) ==
    /\ pde' = [w \in Window |-> IF w \in win THEN f ELSE pde[w]]
    /\ tlb' = [c \in Cpu |-> [w \in Window |-> tlb[c][w] \cup Present(pde', w)]]
FlushFirst(c, win) ==          \* a mutant: the first window only
    tlb' = [tlb EXCEPT ![c] = [w \in Window |-> IF w \in win /\ \A x \in win : w <= x
                                                THEN Present(pde, w) ELSE @[w]]]
Flush(c, win) ==
    tlb' = [tlb EXCEPT ![c] = [w \in Window |-> IF w \in win THEN Present(pde, w) ELSE @[w]]]

Least(S) == CHOOSE x \in S : \A y \in S : x <= y

-----------------------------------------------------------------------------
(* The mapper.                                                                *)
\* bmp512_ffs_unset and bmp512_ffs2_unset2: the second looks at the free
\* windows two by two.
Ffs(S) == IF S = {} THEN {} ELSE {Least(S)}
Ffs2(S) ==
    LET hit == {w \in S : w + 1 \in S /\ Cardinality({x \in S : x < w}) % 2 = 0}
    IN  IF hit = {} THEN {} ELSE {Least(hit), Least(hit) + 1}

\* __map_pfn_noflush and __map_phys_pg_noflush of an address inside a page, under
\* the mapper's lock; the flush comes after it.
MapNoflush(t, f, win) ==
    /\ At(t, "idle") /\ t \in Mapper
    /\ free' = free \ win
    /\ Write(win, f)
    /\ task' = [task EXCEPT ![t] = [Idle EXCEPT !.pc = "local", !.win = win,
                                        !.then = IF win = {} THEN "idle" ELSE "mapped"]]
    /\ UNCHANGED <<slot, irr, isr, due>>
MapPfn(t, f) == MapNoflush(t, f, Ffs(free))
MapPhysPg(t, f) == Ffs2(free) # {} /\ MapNoflush(t, f, Ffs2(free))

\* unmap_pfn, unmap_phys_pg.
Unmap(t) ==
    /\ At(t, "mapped")
    /\ Write(task[t].win, NULL)
    /\ free' = free \cup task[t].win
    /\ task' = [task EXCEPT ![t] = [@ EXCEPT !.pc = "local", !.then = "idle"]]
    /\ UNCHANGED <<slot, irr, isr, due>>

\* remap_pfn.
Remap(t, f) ==
    /\ At(t, "mapped") /\ Cardinality(task[t].win) = 1
    /\ Write(task[t].win, f)
    /\ task' = [task EXCEPT ![t] = [@ EXCEPT !.pc = "local", !.then = "mapped"]]
    /\ UNCHANGED <<free, slot, irr, isr, due>>

\* A request to all others that nobody waits for: flush_tlb_global(false).
FlushNoWait(t) ==
    /\ At(t, "idle") /\ t \notin Mapper
    /\ task' = [task EXCEPT ![t] = [Idle EXCEPT !.pc = "local", !.win = Window, !.wait = FALSE]]
    /\ UNCHANGED <<free, pde, tlb, slot, irr, isr, due>>

\* ipi_run_func_others: the task at the first cpu from i on that is not its
\* own, or at the end.
From(t, i) ==
    LET r == task[t]
        others == {c \in Cpu : c >= i /\ c # CpuOf[t]}
    IN  IF others # {} THEN [r EXCEPT !.pc = "wait", !.to = Least(others)]
        ELSE IF r.then = "idle" THEN Idle ELSE [r EXCEPT !.pc = "mapped", !.to = 0]

\* flush_tlb_page_global and flush_tlb_range_global: this cpu first.
FlushLocal(t) ==
    /\ At(t, "local")
    /\ Flush(CpuOf[t], task[t].win)
    /\ task' = [task EXCEPT ![t] = From(t, 0)]
    /\ UNCHANGED <<free, pde, slot, irr, isr, due>>

-----------------------------------------------------------------------------
(* Sending.                                                                   *)
Mine(t) == slot[task[t].to][CpuOf[t]]

\* __ipi_run_func: wait until the slot is free, fill it and lock its signal,
\* send the vector, wait for the acknowledgement.
WaitSlot(t) ==
    /\ At(t, "wait") /\ Mine(t) = NULL
    /\ Goto(t, "assert")
    /\ UNCHANGED <<free, pde, tlb, slot, irr, isr, due>>
AssertSlot(t) ==
    /\ At(t, "assert")
    /\ slot' = [slot EXCEPT ![task[t].to][CpuOf[t]] = [win |-> task[t].win, wait |-> task[t].wait]]
    /\ due' = [due EXCEPT ![task[t].to][CpuOf[t]] = @ + 1]
    /\ Goto(t, "send")
    /\ UNCHANGED <<free, pde, tlb, irr, isr>>
Send(t) ==
    /\ At(t, "send")
    /\ irr' = [irr EXCEPT ![task[t].to] = TRUE]
    /\ task' = [task EXCEPT ![t] = IF @.wait THEN [@ EXCEPT !.pc = "ack"] ELSE From(t, @.to + 1)]
    /\ UNCHANGED <<free, pde, tlb, slot, isr, due>>
WaitAck(t) ==
    /\ At(t, "ack") /\ Mine(t) = NULL
    /\ task' = [task EXCEPT ![t] = From(t, @.to + 1)]
    /\ UNCHANGED <<free, pde, tlb, slot, irr, isr, due>>

-----------------------------------------------------------------------------
(* Receiving.                                                                 *)
\* ipi_handler past the senders before i; after the last one __isr_dispatcher
\* acknowledges the vector, which is not delivered again before.
AtSender(c, i) ==
    LET others == {s \in Cpu : s >= i /\ s # c} IN
    IF others = {} THEN NoIsr ELSE [NoIsr EXCEPT !.on = TRUE, !.i = Least(others)]

Interrupt(c) ==
    /\ irr[c] /\ ~isr[c].on
    /\ irr' = [irr EXCEPT ![c] = FALSE]
    /\ isr' = [isr EXCEPT ![c] = AtSender(c, 0)]
    /\ UNCHANGED <<free, pde, tlb, task, slot, due>>

\* The slot of a sender; a request nobody waits for is acknowledged before it
\* runs.
Scan(c) ==
    LET i == isr[c].i IN
    /\ isr[c].on /\ isr[c].req = NULL
    /\ IF slot[c][i] = NULL
       THEN isr' = [isr EXCEPT ![c] = AtSender(c, i + 1)] /\ UNCHANGED slot
       ELSE /\ isr' = [isr EXCEPT ![c].req = slot[c][i].win, ![c].wait = slot[c][i].wait]
            /\ slot' = IF slot[c][i].wait THEN slot ELSE [slot EXCEPT ![c][i] = NULL]
    /\ UNCHANGED <<free, pde, tlb, task, irr, due>>

\* The function: flush_tlb_ipi, flush_tlb_page_ipi, flush_tlb_range_ipi.
Run(c) ==
    /\ isr[c].req # NULL
    /\ Flush(c, isr[c].req)
    /\ due' = [due EXCEPT ![c][isr[c].i] = @ - 1]
    /\ isr' = [isr EXCEPT ![c] = AtSender(c, @.i + 1)]
    /\ slot' = IF isr[c].wait THEN [slot EXCEPT ![c][isr[c].i] = NULL] ELSE slot
    /\ UNCHANGED <<free, pde, task, irr>>

TaskStep(t) ==
    \/ FlushLocal(t) \/ WaitSlot(t) \/ AssertSlot(t) \/ Send(t) \/ WaitAck(t)
IsrStep(c) == Interrupt(c) \/ Scan(c) \/ Run(c)

Next ==
    \/ \E t \in Task : \/ \E f \in Frame : MapPfn(t, f) \/ MapPhysPg(t, f) \/ Remap(t, f)
                       \/ Unmap(t) \/ FlushNoWait(t) \/ TaskStep(t)
    \/ \E c \in Cpu : IsrStep(c)

Spec == Init /\ [][Next]_vars

-----------------------------------------------------------------------------
\* The state is of the right shape.
TypeOK ==
    /\ free \subseteq Window /\ pde \in [Window -> Frame \cup {NULL}]
    /\ tlb \in [Cpu -> [Window -> SUBSET Frame]]
    /\ task \in [Task -> [pc : {"idle", "local", "mapped"} \cup Sending, win : SUBSET Window,
                          to : Cpu, then : {"idle", "mapped"}, wait : BOOLEAN]]
    /\ slot \in [Cpu -> [Cpu -> Request \cup {NULL}]]
    /\ isr \in [Cpu -> [on : BOOLEAN, i : Cpu, req : (SUBSET Window) \cup {NULL},
                        wait : BOOLEAN]]
    /\ due \in [Cpu -> [Cpu -> 0..2]] /\ irr \in [Cpu -> BOOLEAN]

\* Once a mapping function has returned, no cpu has another translation for
\* its windows: the ones left by the earlier owner, whose flush may still be
\* on its way when the window is taken again, are gone.
WindowIsFresh ==
    \A t \in Task : task[t].pc = "mapped" =>
        \A w \in task[t].win : /\ w \notin free /\ pde[w] # NULL
                               /\ \A c \in Cpu : tlb[c][w] \subseteq {pde[w]}

\* A request that is waited for is served: as long as its slot is locked the
\* interrupt is still to be sent, pending, or its handler has not passed the
\* slot.
IpiIsNotLost ==
    \A c \in Cpu, s \in Cpu : slot[c][s] # NULL =>
        \/ irr[c] \/ (isr[c].on /\ isr[c].i <= s)
        \/ \E t \in Task : CpuOf[t] = s /\ task[t].to = c /\ task[t].pc = "send"

\* No request is overwritten or run twice: those sent and not yet run are the
\* one in the slot or the one the handler has taken from it.
Taken(c, s) == isr[c].req # NULL /\ isr[c].i = s
RequestsRunOnce ==
    \A c \in Cpu, s \in Cpu :
        due[c][s] = (IF slot[c][s] # NULL /\ ~(Taken(c, s) /\ isr[c].wait) THEN 1 ELSE 0)
                  + (IF Taken(c, s) THEN 1 ELSE 0)
=============================================================================
