-------------------------------- MODULE RwLock --------------------------------
(* The phase-fair reader-writer lock of src/src/subsys/sync/rwlock.c, as the  *)
(* hypervisor takes it around its partition table: rwlock_isr, with           *)
(* interrupts disabled from the request to the release.  Writers queue by     *)
(* ticket (win, wout); a writer that has its turn marks itself in the low     *)
(* bits of rin, in the colour of its ticket's parity, and waits for the       *)
(* readers that came before; a reader that finds a mark waits until the mark  *)
(* has changed.                                                               *)
EXTENDS Naturals, FiniteSets

CONSTANTS Ctx,         \* contexts, one per physical cpu
          ReaderMod,   \* reader counts are taken modulo this (2^24)
          TicketMod    \* writer tickets are taken modulo this (2^32)

\* Tickets alternate in colour across the wrap-around.
ASSUME ModAssumption ==
    /\ ReaderMod \in Nat \ {0}
    /\ TicketMod \in Nat \ {0}
    /\ TicketMod % 2 = 0

\* There are far fewer cpus than values of either counter.
ASSUME CtxAssumption ==
    /\ IsFiniteSet(Ctx)
    /\ Cardinality(Ctx) < ReaderMod
    /\ Cardinality(Ctx) < TicketMod

VARIABLES
    rinReaders,    \* lock->rin / PF_READER_INC: readers that asked
    rinWriter,     \* lock->rin % PF_READER_INC: 0, or the mark of a writer
    rout,          \* lock->rout / PF_READER_INC: readers that left
    win, wout,     \* tickets given to writers, and whose turn it is
    pc,            \* where each context is
    wp,            \* reader's local: the mark it found
    ticket,        \* writer's local: its ticket
    before,        \* writer's local: rin as it found it (readers, mark)
    saved,         \* __flags: the interrupt flag as the request found it
    flags,         \* lock->flags, which all users of the lock share
    param,         \* the flags argument of the unlock routine
    passed         \* history: writers that entered since the reader asked

lockVars == <<rinReaders, rinWriter, rout, win, wout>>
flagVars == <<saved, flags, param>>
vars == <<rinReaders, rinWriter, rout, win, wout, pc, wp, ticket, before,
          saved, flags, param, passed>>

Pcs == {"idle", "rwait", "rsave", "reading", "rleave",
        "wturn", "wdrain", "wsave", "writing", "wclear", "wnext"}

NoMark == 0

-----------------------------------------------------------------------------
Init ==
    /\ rinReaders = 0 /\ rinWriter = NoMark /\ rout = 0
    /\ win = 0 /\ wout = 0
    /\ pc = [c \in Ctx |-> "idle"]
    /\ wp = [c \in Ctx |-> NoMark]
    /\ ticket = [c \in Ctx |-> 0]
    /\ before = [c \in Ctx |-> <<0, NoMark>>]
    /\ saved = [c \in Ctx |-> FALSE]
    /\ flags = FALSE
    /\ param = [c \in Ctx |-> FALSE]
    /\ passed = [c \in Ctx |-> 0]

Goto(c, label) == pc' = [pc EXCEPT ![c] = label]

\* read_flags_and_disable_interrupts, called with interrupts on or off.
DisableInterrupts(c) ==
    \E on \in BOOLEAN : saved' = [saved EXCEPT ![c] = on]

\* write_flags(flags): the end of either unlock routine.
RestoreInterrupts(c) ==
    /\ saved' = [saved EXCEPT ![c] = FALSE]
    /\ param' = [param EXCEPT ![c] = FALSE]

-----------------------------------------------------------------------------
(* Readers *)

\* A reader that looks at the mark before it counts itself in.
ReadArriveLate(c) ==
    /\ pc[c] = "idle"
    /\ DisableInterrupts(c)
    /\ wp' = [wp EXCEPT ![c] = rinWriter]
    /\ rinReaders' = IF rinWriter = NoMark THEN (rinReaders + 1) % ReaderMod
                     ELSE rinReaders
    /\ passed' = [passed EXCEPT ![c] = 0]
    /\ Goto(c, IF rinWriter = NoMark THEN "rsave" ELSE "rwait")
    /\ UNCHANGED <<rinWriter, rout, win, wout, ticket, before, flags, param>>

\* Interrupts off; wp = fetch_and_add(&lock->rin, PF_READER_INC) & PF_WRITER_BITS.
ReadArrive(c) ==
    /\ pc[c] = "idle"
    /\ DisableInterrupts(c)
    /\ wp' = [wp EXCEPT ![c] = rinWriter]
    /\ rinReaders' = (rinReaders + 1) % ReaderMod
    /\ passed' = [passed EXCEPT ![c] = 0]
    /\ Goto(c, IF rinWriter = NoMark THEN "rsave" ELSE "rwait")
    /\ UNCHANGED <<rinWriter, rout, win, wout, ticket, before, flags, param>>

\* spin_until((rin & PF_WRITER_BITS) != wp)
ReadWait(c) ==
    /\ pc[c] = "rwait"
    /\ rinWriter # wp[c]
    /\ Goto(c, "rsave")
    /\ UNCHANGED <<lockVars, wp, ticket, before, flagVars, passed>>

\* *flags = __flags
ReadSave(c) ==
    /\ pc[c] = "rsave"
    /\ flags' = saved[c]
    /\ wp' = [wp EXCEPT ![c] = NoMark]
    /\ passed' = [passed EXCEPT ![c] = 0]
    /\ Goto(c, "reading")
    /\ UNCHANGED <<lockVars, ticket, before, saved, param>>

\* The caller passes lock->flags to the unlock routine.
ReadPass(c) ==
    /\ pc[c] = "reading"
    /\ param' = [param EXCEPT ![c] = flags]
    /\ Goto(c, "rleave")
    /\ UNCHANGED <<lockVars, wp, ticket, before, saved, flags, passed>>

\* atomic32_add(&lock->rout, PF_READER_INC), then the cpu's own flag.
ReadLeave(c) ==
    /\ pc[c] = "rleave"
    /\ rout' = (rout + 1) % ReaderMod
    /\ RestoreInterrupts(c)
    /\ Goto(c, "idle")
    /\ UNCHANGED <<rinReaders, rinWriter, win, wout, wp, ticket, before, flags, passed>>

-----------------------------------------------------------------------------
(* Writers *)

\* Interrupts off; ticket = fetch_and_add(&lock->win, 1).
WriteArrive(c) ==
    /\ pc[c] = "idle"
    /\ DisableInterrupts(c)
    /\ ticket' = [ticket EXCEPT ![c] = win]
    /\ win' = (win + 1) % TicketMod
    /\ Goto(c, "wturn")
    /\ UNCHANGED <<rinReaders, rinWriter, rout, wout, wp, before, flags, param, passed>>

\* spin_until(ticket == wout), which stays so, and
\* fetch_and_add(&lock->rin, (ticket & PF_PHASE_ID) | PF_WRITER_PRESENT).
WriteMark(c) ==
    /\ pc[c] = "wturn" /\ ticket[c] = wout
    /\ before' = [before EXCEPT ![c] = <<rinReaders, rinWriter>>]
    /\ rinWriter' = rinWriter + 2 + (ticket[c] % 2)
    /\ Goto(c, "wdrain")
    /\ UNCHANGED <<rinReaders, rout, win, wout, wp, ticket, flagVars, passed>>

\* spin_until(ticket == rout), ticket being rin as the mark found it.
WriteDrain(c) ==
    /\ pc[c] = "wdrain"
    /\ before[c] = <<rout, NoMark>>
    /\ Goto(c, "wsave")
    /\ UNCHANGED <<lockVars, wp, ticket, before, flagVars, passed>>

\* A writer that does not publish the flag it saved.
WriteSaveNot(c) ==
    /\ pc[c] = "wsave"
    /\ Goto(c, "writing")
    /\ UNCHANGED <<lockVars, wp, ticket, before, flagVars, passed>>

\* *flags = __flags.  The history counts the writers a waiting reader sees enter.
WriteSave(c) ==
    /\ pc[c] = "wsave"
    /\ flags' = saved[c]
    /\ passed' = [d \in Ctx |-> IF pc[d] = "rwait" /\ passed[d] < 2
                                THEN passed[d] + 1 ELSE passed[d]]
    /\ Goto(c, "writing")
    /\ UNCHANGED <<lockVars, wp, ticket, before, saved, param>>

\* The caller passes lock->flags to the unlock routine.
WritePass(c) ==
    /\ pc[c] = "writing"
    /\ param' = [param EXCEPT ![c] = flags]
    /\ Goto(c, "wclear")
    /\ UNCHANGED <<lockVars, wp, ticket, before, saved, flags, passed>>

\* An unlock that leaves the mark for the next writer to overwrite.
WriteClearNot(c) ==
    /\ pc[c] = "wclear"
    /\ Goto(c, "wnext")
    /\ UNCHANGED <<lockVars, wp, ticket, before, flagVars, passed>>

\* fetch_and_and(&lock->rin, PF_LSB)
WriteClear(c) ==
    /\ pc[c] = "wclear"
    /\ rinWriter' = NoMark
    /\ Goto(c, "wnext")
    /\ UNCHANGED <<rinReaders, rout, win, wout, wp, ticket, before, flagVars, passed>>

\* atomic32_inc(&lock->wout), then the cpu's own flag.
WriteNext(c) ==
    /\ pc[c] = "wnext"
    /\ wout' = (wout + 1) % TicketMod
    /\ ticket' = [ticket EXCEPT ![c] = 0]
    /\ before' = [before EXCEPT ![c] = <<0, NoMark>>]
    /\ RestoreInterrupts(c)
    /\ Goto(c, "idle")
    /\ UNCHANGED <<rinReaders, rinWriter, rout, win, wp, flags, passed>>

-----------------------------------------------------------------------------
\* What a context does once it has asked for the lock.
Continue(c) ==
    \/ ReadWait(c) \/ ReadSave(c) \/ ReadPass(c) \/ ReadLeave(c)
    \/ WriteMark(c) \/ WriteDrain(c) \/ WriteSave(c)
    \/ WritePass(c) \/ WriteClear(c) \/ WriteNext(c)

Next == \E c \in Ctx : ReadArrive(c) \/ WriteArrive(c) \/ Continue(c)

Spec == Init /\ [][Next]_vars

\* Each context runs on a cpu of its own with interrupts off: it goes on
\* whenever it can.
Fairness == \A c \in Ctx : WF_vars(Continue(c))

FairSpec == Spec /\ Fairness

-----------------------------------------------------------------------------
(* Properties *)

Reading(c) == pc[c] \in {"rsave", "reading", "rleave"}
Writing(c) == pc[c] \in {"wsave", "writing", "wclear"}

\* Every variable has the type of the field or local it stands for; the mark
\* fits the bits below PF_READER_INC and is one that PF_LSB clears.
TypeOK ==
    /\ rinReaders \in 0..(ReaderMod - 1)
    /\ rinWriter \in {NoMark, 2, 3}
    /\ rout \in 0..(ReaderMod - 1)
    /\ win \in 0..(TicketMod - 1) /\ wout \in 0..(TicketMod - 1)
    /\ pc \in [Ctx -> Pcs]
    /\ wp \in [Ctx -> {NoMark, 2, 3}]
    /\ ticket \in [Ctx -> 0..(TicketMod - 1)]
    /\ before \in [Ctx -> (0..(ReaderMod - 1)) \X {NoMark, 2, 3}]
    /\ saved \in [Ctx -> BOOLEAN] /\ flags \in BOOLEAN /\ param \in [Ctx -> BOOLEAN]
    /\ passed \in [Ctx -> 0..2]

\* From the return of rw_lock_write to the clearing of its mark a writer is
\* alone in the lock.
WriterIsAlone ==
    \A c, d \in Ctx : Writing(c) /\ c # d => ~Reading(d) /\ ~Writing(d)

\* Phase fairness: a reader that finds a writer waits for that writer only, and
\* enters before the next one, although the colours repeat.
ReadersWaitForOneWriter == \A c \in Ctx : passed[c] <= 1

\* rw_unlock_write_isr_restore leaves the interrupt flag as the request found
\* it: nobody overwrites lock->flags while a writer is in.
WriterFlagsRestored ==
    \A c \in Ctx : pc[c] \in {"wclear", "wnext"} => param[c] = saved[c]

\* Everyone who asks for the lock gets it: the counters never drift apart, and
\* neither readers nor writers starve the other.
EveryoneEnters ==
    \A c \in Ctx : /\ pc[c] = "rwait" ~> Reading(c)
                   /\ pc[c] = "wturn" ~> Writing(c)

\* A reader that came with interrupts enabled leaves with interrupts enabled:
\* what vemu_tlb_invalidate asserts after vpartition_put.
ReaderFlagsRestored ==
    \A c \in Ctx : pc[c] = "rleave" /\ saved[c] => param[c]
=============================================================================
