----------------------------- MODULE RwLockProofs -----------------------------
(* The safety of the phase-fair lock of rwlock.c for any number of cpus below *)
(* the range of its two counters.                                             *)
(*                                                                            *)
(* The counters wrap, so the argument is about how far one is ahead of the    *)
(* other: win is ahead of wout by the number of writers, which hold distinct  *)
(* tickets between the two, and rin is ahead of rout by the number of readers *)
(* that asked and have not left.  A writer that waits for the readers before  *)
(* it waits for as many as are not waiting for its own mark; when it enters,  *)
(* all others wait for that mark.                                             *)
EXTENDS RwLock, TLAPS, FiniteSetTheorems

\* How far a is ahead of b, both counted modulo m.
Ahead(a, b, m) == IF a >= b THEN a - b ELSE (a + m) - b

\* The mark of the writer that has the ticket t.
MarkOf(t) == 2 + (t % 2)

Counted(c) == pc[c] \in {"rwait", "rsave", "reading", "rleave"}
Marked(c) == pc[c] \in {"wdrain", "wsave", "writing", "wclear"}
Entered(c) == pc[c] \in {"wsave", "writing", "wclear", "wnext"}
HasTurn(c) == Marked(c) \/ pc[c] = "wnext"
Asked(c) == pc[c] = "wturn" \/ HasTurn(c)

Readers == {c \in Ctx : Counted(c)}
Writers == {c \in Ctx : Asked(c)}

\* The readers that do not wait for the writer whose turn it is.
Early == {c \in Readers : ~(pc[c] = "rwait" /\ wp[c] = MarkOf(wout))}

-----------------------------------------------------------------------------
(* The inductive invariant *)

\* Writers hold distinct tickets from wout up to win.
TicketInv ==
    /\ Ahead(win, wout, TicketMod) = Cardinality(Writers)
    /\ \A c \in Writers :
         Ahead(ticket[c], wout, TicketMod) < Cardinality(Writers)
    /\ \A c, d \in Writers : c # d => ticket[c] # ticket[d]
    /\ \A c \in Ctx : HasTurn(c) => ticket[c] = wout

\* The mark in rin is that of the writer whose turn it is.
MarkInv ==
    /\ \A c \in Ctx : Marked(c) => rinWriter = MarkOf(wout)
    /\ rinWriter # NoMark => \E c \in Ctx : Marked(c)

\* rin and rout count the readers, and before and rout the early ones.
CountInv ==
    /\ Ahead(rinReaders, rout, ReaderMod) = Cardinality(Readers)
    /\ \A c \in Ctx : pc[c] = "wdrain" =>
         /\ before[c][2] = NoMark
         /\ Ahead(before[c][1], rout, ReaderMod) = Cardinality(Early)

\* Whom a waiting reader waits for.
WaitInv ==
    /\ \A c, d \in Ctx : pc[d] = "rwait" /\ Entered(c) => wp[d] = MarkOf(wout)
    /\ \A d \in Ctx : pc[d] = "rwait" /\ (\A c \in Ctx : ~HasTurn(c))
                        => wp[d] = MarkOf(wout + 1)

\* While a writer is in, no reader is.
AloneInv == \A c, d \in Ctx : Writing(c) => ~Reading(d)

\* A reader that waits for a writer has seen none enter before that one.
PassedInv ==
    /\ \A c \in Ctx : passed[c] <= 1
    /\ \A c, d \in Ctx : /\ pc[c] \in {"wdrain", "wsave"}
                         /\ pc[d] = "rwait" /\ wp[d] = MarkOf(wout)
                         => passed[d] = 0

\* lock->flags is the writer's own while it is in.
FlagInv ==
    /\ \A c \in Ctx : pc[c] = "writing" => flags = saved[c]
    /\ \A c \in Ctx : pc[c] \in {"wclear", "wnext"} => param[c] = saved[c]

IInv == TypeOK /\ TicketInv /\ MarkInv /\ CountInv /\ WaitInv /\ AloneInv
            /\ PassedInv /\ FlagInv

-----------------------------------------------------------------------------
(* Counting modulo m *)

\* One more, modulo m.
LEMMA Succ ==
    ASSUME NEW m \in Nat \ {0}, NEW x \in 0..(m - 1)
    PROVE  (x + 1) % m = IF x + 1 = m THEN 0 ELSE x + 1
  <1>1. CASE x + 1 = m BY <1>1
  <1>2. CASE x + 1 # m BY <1>2
  <1> QED BY <1>1, <1>2, Zenon

\* The counter in front counts one more: rin and win.
LEMMA AheadUp ==
    ASSUME NEW m \in Nat \ {0}, NEW a \in 0..(m - 1), NEW b \in 0..(m - 1),
           Ahead(a, b, m) + 1 < m
    PROVE  /\ (a + 1) % m \in 0..(m - 1)
           /\ Ahead((a + 1) % m, b, m) = Ahead(a, b, m) + 1
  <1>1. PICK s \in Nat : s = (a + 1) % m /\ s = IF a + 1 = m THEN 0 ELSE a + 1
    BY Succ
  <1>2. s \in 0..(m - 1) /\ Ahead(s, b, m) = Ahead(a, b, m) + 1
    <2>1. s = IF a + 1 = m THEN 0 ELSE a + 1 BY <1>1, Zenon
    <2> QED BY <2>1 DEF Ahead
  <1> QED BY <1>1, <1>2, Zenon

\* The counter behind counts one more: rout and wout.
LEMMA AheadDown ==
    ASSUME NEW m \in Nat \ {0}, NEW a \in 0..(m - 1), NEW b \in 0..(m - 1),
           Ahead(a, b, m) > 0
    PROVE  /\ (b + 1) % m \in 0..(m - 1)
           /\ Ahead(a, (b + 1) % m, m) = Ahead(a, b, m) - 1
  <1>1. PICK s \in Nat : s = (b + 1) % m /\ s = IF b + 1 = m THEN 0 ELSE b + 1
    BY Succ
  <1>2. s \in 0..(m - 1) /\ Ahead(a, s, m) = Ahead(a, b, m) - 1
    <2>1. s = IF b + 1 = m THEN 0 ELSE b + 1 BY <1>1, Zenon
    <2> QED BY <2>1 DEF Ahead
  <1> QED BY <1>1, <1>2, Zenon

\* The distance determines the counter in front.
LEMMA AheadSame ==
    ASSUME NEW m \in Nat \ {0}, NEW a \in 0..(m - 1), NEW b \in 0..(m - 1),
           NEW d \in 0..(m - 1)
    PROVE  /\ Ahead(a, b, m) \in 0..(m - 1)
           /\ Ahead(a, b, m) = 0 <=> a = b
           /\ Ahead(a, b, m) = Ahead(d, b, m) => a = d
  BY DEF Ahead

\* Two writers in a row have different marks, also where tickets wrap.
LEMMA Colours ==
    ASSUME NEW t \in 0..(TicketMod - 1)
    PROVE  /\ MarkOf(t) \in {2, 3} /\ MarkOf(t + 1) \in {2, 3}
           /\ MarkOf(t) # MarkOf(t + 1)
           /\ (t + 1) % TicketMod \in 0..(TicketMod - 1)
           /\ MarkOf(((t + 1) % TicketMod) + 1) = MarkOf(t)
  <1>1. t % 2 \in {0, 1} /\ (t + 1) % 2 = 1 - (t % 2) OBVIOUS
  <1>2. (t + 1) % TicketMod = IF t + 1 = TicketMod THEN 0 ELSE t + 1
    BY ZenonT(60), Succ, ModAssumption
  <1>3. CASE t + 1 = TicketMod
    <2>1. t % 2 = 1 BY <1>3, <1>1, ModAssumption
    <2> QED BY <1>1, <1>2, <1>3, <2>1, ModAssumption DEF MarkOf
  <1>4. CASE t + 1 # TicketMod
    <2>1. (t + 1) + 1 = t + 2 /\ (t + 2) % 2 = t % 2 OBVIOUS
    <2> QED BY <1>1, <1>2, <1>4, <2>1, ModAssumption DEF MarkOf
  <1> QED BY <1>3, <1>4, Zenon

-----------------------------------------------------------------------------
(* Sets of contexts *)

\* A set of contexts is smaller than either modulus.
LEMMA Finite ==
    ASSUME NEW S \in SUBSET Ctx
    PROVE  /\ IsFiniteSet(S) /\ Cardinality(S) \in Nat
           /\ Cardinality(S) < ReaderMod /\ Cardinality(S) < TicketMod
           /\ Cardinality(S) = 0 <=> S = {}
  <1>1. IsFiniteSet(S) /\ Cardinality(S) <= Cardinality(Ctx)
    BY FS_Subset, CtxAssumption, Zenon
  <1>2. Cardinality(S) \in Nat /\ Cardinality(Ctx) \in Nat
    BY <1>1, FS_CardinalityType, CtxAssumption, Zenon
  <1>3. Cardinality(S) = 0 <=> S = {} BY <1>1, FS_EmptySet, Zenon
  <1> QED BY <1>1, <1>2, <1>3, CtxAssumption, ModAssumption

\* One context joins a set.
LEMMA Joins ==
    ASSUME NEW S \in SUBSET Ctx, NEW c \in Ctx, c \notin S
    PROVE  /\ Cardinality(S \cup {c}) = Cardinality(S) + 1
           /\ Cardinality(S) + 1 < ReaderMod
           /\ Cardinality(S) + 1 < TicketMod
  <1>1. Cardinality(S \cup {c}) = Cardinality(S) + 1 BY Finite, FS_AddElement, Zenon
  <1>2. S \cup {c} \in SUBSET Ctx BY Zenon
  <1> QED BY <1>1, <1>2, Finite, Zenon

\* One context leaves a set.
LEMMA Leaves ==
    ASSUME NEW S \in SUBSET Ctx, NEW c \in S
    PROVE  /\ Cardinality(S) > 0
           /\ Cardinality(S \ {c}) = Cardinality(S) - 1
  <1>1. Cardinality(S \ {c}) = Cardinality(S) - 1 BY Finite, FS_RemoveElement, Zenon
  <1> QED BY <1>1, Finite

-----------------------------------------------------------------------------
(* The initial state, and what one step leaves alone *)

\* rwlock_isr_init: nobody has asked, and the counters agree.
LEMMA InitIInv == Init => IInv
  <1> SUFFICES ASSUME Init PROVE IInv BY Zenon
  <1>1. TypeOK
    <2>1. 0 \in 0..(ReaderMod - 1) /\ 0 \in 0..(TicketMod - 1) /\ 0 \in 0..2
      BY ModAssumption
    <2>2. <<0, NoMark>> \in (0..(ReaderMod - 1)) \X {NoMark, 2, 3} BY <2>1, Zenon
    <2> QED BY ZenonT(60), <2>1, <2>2 DEF Init, TypeOK, Pcs
  <1>2. \A c \in Ctx : pc[c] = "idle" BY Zenon DEF Init
  <1>3. Readers = {} /\ Writers = {} /\ Early = {}
    BY <1>2, Zenon DEF Readers, Writers, Early, Counted, Asked, HasTurn, Marked
  <1>4. Cardinality({}) = 0 BY FS_EmptySet, Zenon
  <1>5. TicketInv
    BY <1>2, <1>3, <1>4 DEF Init, TicketInv, Ahead, HasTurn, Marked
  <1>6. CountInv
    <2>1. Ahead(0, 0, ReaderMod) = 0 BY DEF Ahead
    <2> QED BY <1>2, <1>3, <1>4, <2>1, Zenon DEF Init, CountInv
  <1>7. MarkInv BY <1>2, Zenon DEF Init, MarkInv, Marked
  <1>8. WaitInv /\ AloneInv BY <1>2, Zenon DEF WaitInv, AloneInv, Writing
  <1>9. PassedInv /\ FlagInv BY <1>2 DEF Init, PassedInv, FlagInv
  <1> QED BY <1>1, <1>5, <1>6, <1>7, <1>8, <1>9, Zenon DEF IInv

\* One writer at a time has its turn: two would hold the ticket wout.
LEMMA OneTurn ==
    ASSUME TicketInv, NEW c \in Ctx, NEW d \in Ctx, HasTurn(c),
           Asked(d), ticket[d] = wout
    PROVE  c = d
  BY Zenon DEF TicketInv, Writers, Asked

\* A step of a reader: what every reader action shares.
ReaderStep(c) ==
    /\ pc' \in [Ctx -> Pcs] /\ \A d \in Ctx : d # c => pc'[d] = pc[d]
    /\ ~Asked(c) /\ ~Asked(c)'
    /\ UNCHANGED <<rinWriter, win, wout, ticket, before>>

\* A step of a writer: what every writer action shares.
WriterStep(c) ==
    /\ pc' \in [Ctx -> Pcs] /\ \A d \in Ctx : d # c => pc'[d] = pc[d]
    /\ ~Counted(c) /\ ~Counted(c)'
    /\ UNCHANGED <<rinReaders, rout, wp>>

ReaderNext(c) ==
    ReadArrive(c) \/ ReadWait(c) \/ ReadSave(c) \/ ReadPass(c) \/ ReadLeave(c)
WriterNext(c) ==
    \/ WriteArrive(c) \/ WriteMark(c) \/ WriteDrain(c) \/ WriteSave(c)
    \/ WritePass(c) \/ WriteClear(c) \/ WriteNext(c)

\* The steps are the readers' and the writers'.
LEMMA Split ==
    Next => \E c \in Ctx : ReaderNext(c) \/ WriterNext(c)
  BY Zenon DEF Next, Continue, ReaderNext, WriterNext

\* Readers leave the writers' part alone.
LEMMA ReaderFrame ==
    ASSUME TypeOK, NEW c \in Ctx, ReaderNext(c)
    PROVE  /\ ReaderStep(c) /\ Writers' = Writers
           /\ \A d \in Ctx : /\ Asked(d)' = Asked(d) /\ HasTurn(d)' = HasTurn(d)
                             /\ Marked(d)' = Marked(d) /\ Entered(d)' = Entered(d)
                             /\ Writing(d)' = Writing(d)
                             /\ Asked(d) => d # c
  <1> USE DEF TypeOK, Asked, HasTurn, Marked, Goto, Pcs
  <1>1. ReaderStep(c)
    <2>1. CASE ReadArrive(c) BY <2>1, Zenon DEF ReadArrive, ReaderStep
    <2>2. CASE ReadWait(c) BY <2>2, Zenon DEF ReadWait, ReaderStep, lockVars
    <2>3. CASE ReadSave(c) BY <2>3, Zenon DEF ReadSave, ReaderStep, lockVars
    <2>4. CASE ReadPass(c) BY <2>4, Zenon DEF ReadPass, ReaderStep, lockVars
    <2>5. CASE ReadLeave(c) BY <2>5, Zenon DEF ReadLeave, ReaderStep
    <2> QED BY <2>1, <2>2, <2>3, <2>4, <2>5, Zenon DEF ReaderNext
  <1>2. \A d \in Ctx : /\ Asked(d)' = Asked(d) /\ HasTurn(d)' = HasTurn(d)
                       /\ Marked(d)' = Marked(d) /\ Entered(d)' = Entered(d)
                       /\ Writing(d)' = Writing(d)
                       /\ Asked(d) => d # c
    BY <1>1 DEF ReaderStep, Entered, Writing
  <1>3. Writers' = Writers BY <1>2, Zenon DEF Writers
  <1> QED BY <1>1, <1>2, <1>3, Zenon

\* Writers leave the readers' part alone.
LEMMA WriterFrame ==
    ASSUME TypeOK, NEW c \in Ctx, WriterNext(c)
    PROVE  /\ WriterStep(c) /\ Readers' = Readers
           /\ \A d \in Ctx : /\ Counted(d)' = Counted(d) /\ Reading(d)' = Reading(d)
                             /\ (pc'[d] = "rwait") = (pc[d] = "rwait")
                             /\ Counted(d) => d # c
  <1> USE DEF TypeOK, Counted, Goto, Pcs
  <1>1. WriterStep(c)
    <2>1. CASE WriteArrive(c) BY <2>1, Zenon DEF WriteArrive, WriterStep
    <2>2. CASE WriteMark(c) BY <2>2, Zenon DEF WriteMark, WriterStep
    <2>3. CASE WriteDrain(c) BY <2>3, Zenon DEF WriteDrain, WriterStep, lockVars
    <2>4. CASE WriteSave(c) BY <2>4, Zenon DEF WriteSave, WriterStep, lockVars
    <2>5. CASE WritePass(c) BY <2>5, Zenon DEF WritePass, WriterStep, lockVars
    <2>6. CASE WriteClear(c) BY <2>6, Zenon DEF WriteClear, WriterStep
    <2>7. CASE WriteNext(c) BY <2>7, Zenon DEF WriteNext, WriterStep
    <2> QED BY <2>1, <2>2, <2>3, <2>4, <2>5, <2>6, <2>7, Zenon DEF WriterNext
  <1>2. \A d \in Ctx : /\ Counted(d)' = Counted(d) /\ Reading(d)' = Reading(d)
                       /\ (pc'[d] = "rwait") = (pc[d] = "rwait")
                       /\ Counted(d) => d # c
    BY <1>1 DEF WriterStep, Reading
  <1>3. Readers' = Readers BY <1>2, Zenon DEF Readers
  <1> QED BY <1>1, <1>2, <1>3, Zenon

\* A writer that marks rin finds no mark there, and no other writer has its turn.
LEMMA Unmarked ==
    ASSUME IInv, NEW c \in Ctx, WriteMark(c)
    PROVE  rinWriter = NoMark /\ \A d \in Ctx : ~HasTurn(d)
  <1>1. Asked(c) /\ ticket[c] = wout /\ ~HasTurn(c)
    BY Zenon DEF WriteMark, Asked, HasTurn, Marked
  <1>2. \A d \in Ctx : ~HasTurn(d) BY <1>1, OneTurn, Zenon DEF IInv
  <1> QED BY <1>2, Zenon DEF IInv, MarkInv, HasTurn

\* A writer that has its turn is alone in having it.
LEMMA OnlyTurn ==
    ASSUME IInv, NEW c \in Ctx, HasTurn(c)
    PROVE  ticket[c] = wout /\ \A d \in Ctx : HasTurn(d) => d = c
  <1>1. \A d \in Ctx : HasTurn(d) => ticket[d] = wout /\ Asked(d)
    BY Zenon DEF IInv, TicketInv, Asked
  <1> QED BY <1>1, OneTurn, Zenon DEF IInv

\* Every step keeps the types: the mark is added to an unmarked rin.
LEMMA NextTypeOK == ASSUME IInv, [Next]_vars PROVE TypeOK'
  <1> USE DEF TypeOK, Goto, Pcs
  <1>0. TypeOK BY Zenon DEF IInv
  <1>1. CASE UNCHANGED vars BY <1>0, <1>1, Zenon DEF vars
  <1>m. /\ \A x \in 0..(ReaderMod - 1) : (x + 1) % ReaderMod \in 0..(ReaderMod - 1)
        /\ \A x \in 0..(TicketMod - 1) : (x + 1) % TicketMod \in 0..(TicketMod - 1)
    BY Succ, ModAssumption
  <1>0a. 0 \in 0..(TicketMod - 1) /\ 0 \in 0..(ReaderMod - 1) BY ModAssumption
  <1>2. ASSUME NEW c \in Ctx, ReadArrive(c) PROVE TypeOK'
    BY <1>0, <1>m, <1>2 DEF ReadArrive, DisableInterrupts
  <1>3. ASSUME NEW c \in Ctx, ReadWait(c) PROVE TypeOK'
    BY <1>0, <1>3, Zenon DEF ReadWait, lockVars, flagVars
  <1>4. ASSUME NEW c \in Ctx, ReadSave(c) PROVE TypeOK'
    BY <1>0, <1>4 DEF ReadSave, lockVars
  <1>5. ASSUME NEW c \in Ctx, ReadPass(c) PROVE TypeOK'
    BY <1>0, <1>5, Zenon DEF ReadPass, lockVars
  <1>6. ASSUME NEW c \in Ctx, ReadLeave(c) PROVE TypeOK'
    BY <1>0, <1>m, <1>6, Zenon DEF ReadLeave, RestoreInterrupts
  <1>7. ASSUME NEW c \in Ctx, WriteArrive(c) PROVE TypeOK'
    BY <1>0, <1>m, <1>7, Zenon DEF WriteArrive, DisableInterrupts
  <1>8. ASSUME NEW c \in Ctx, WriteMark(c) PROVE TypeOK'
    <2>1. rinWriter = NoMark BY <1>8, Unmarked, Zenon
    <2>2. rinWriter' \in {2, 3}
      <3>0. ticket[c] \in Nat BY <1>0, ModAssumption
      <3>1. ticket[c] % 2 \in {0, 1} BY <3>0
      <3> QED BY <1>8, <2>1, <3>1 DEF WriteMark, NoMark
    <2>3. <<rinReaders, rinWriter>> \in (0..(ReaderMod - 1)) \X {NoMark, 2, 3} BY <1>0, Zenon
    <2>4. before' \in [Ctx -> (0..(ReaderMod - 1)) \X {NoMark, 2, 3}]
      BY <1>0, <1>8, <2>3, Zenon DEF WriteMark
    <2> QED BY <1>0, <1>8, <2>2, <2>4, Zenon DEF WriteMark, flagVars
  <1>9. ASSUME NEW c \in Ctx, WriteDrain(c) PROVE TypeOK'
    BY <1>0, <1>9, Zenon DEF WriteDrain, lockVars, flagVars
  <1>10. ASSUME NEW c \in Ctx, WriteSave(c) PROVE TypeOK'
    <2>1. passed' \in [Ctx -> 0..2] BY <1>0, <1>10 DEF WriteSave
    <2> QED BY <1>0, <1>10, <2>1, Zenon DEF WriteSave, lockVars
  <1>11. ASSUME NEW c \in Ctx, WritePass(c) PROVE TypeOK'
    BY <1>0, <1>11, Zenon DEF WritePass, lockVars
  <1>12. ASSUME NEW c \in Ctx, WriteClear(c) PROVE TypeOK'
    BY <1>0, <1>12, Zenon DEF WriteClear, flagVars
  <1>13. ASSUME NEW c \in Ctx, WriteNext(c) PROVE TypeOK'
    <2>1. <<0, NoMark>> \in (0..(ReaderMod - 1)) \X {NoMark, 2, 3} BY <1>0a, Zenon
    <2>2. before' \in [Ctx -> (0..(ReaderMod - 1)) \X {NoMark, 2, 3}]
      BY <1>0, <1>13, <2>1, Zenon DEF WriteNext
    <2> QED BY <1>0, <1>m, <1>0a, <1>13, <2>2, Zenon DEF WriteNext, RestoreInterrupts
  <1> QED BY <1>1, <1>2, <1>3, <1>4, <1>5, <1>6, <1>7, <1>8, <1>9, <1>10, <1>11, <1>12, <1>13, Zenon
          DEF Next, Continue

-----------------------------------------------------------------------------
(* Tickets and marks *)

\* Every step keeps the tickets distinct and between wout and win.
LEMMA NextTicket == ASSUME IInv, [Next]_vars PROVE TicketInv'
  <1>0. TypeOK /\ TicketInv BY Zenon DEF IInv
  <1>t. /\ TicketMod \in Nat \ {0} /\ win \in 0..(TicketMod - 1)
        /\ wout \in 0..(TicketMod - 1)
        /\ \A c \in Ctx : ticket[c] \in 0..(TicketMod - 1)
    BY <1>0, ModAssumption, Zenon DEF TypeOK
  <1>w. Writers \in SUBSET Ctx BY Zenon DEF Writers
  <1>1. CASE UNCHANGED vars
    BY <1>0, <1>1 DEF vars, TicketInv, Writers, Asked, HasTurn, Marked
  <1>2. ASSUME NEW c \in Ctx, ReaderNext(c) PROVE TicketInv'
    BY <1>0, <1>2, ReaderFrame, Zenon DEF TicketInv, ReaderStep
  <1>3. ASSUME NEW c \in Ctx, WriteArrive(c) PROVE TicketInv'
    <2>1. c \notin Writers /\ Writers' = Writers \cup {c}
      BY <1>0, <1>3, Zenon DEF WriteArrive, Goto, Writers, Asked, HasTurn, Marked, TypeOK
    <2>2. /\ Cardinality(Writers') = Cardinality(Writers) + 1
          /\ Cardinality(Writers) + 1 < TicketMod
      BY <2>1, <1>w, Joins, Zenon
    <2>3. win' = (win + 1) % TicketMod /\ wout' = wout
          /\ ticket' = [ticket EXCEPT ![c] = win]
      BY <1>3, Zenon DEF WriteArrive
    <2>4. Ahead(win', wout', TicketMod) = Cardinality(Writers')
      BY <1>0, <1>t, <2>2, <2>3, AheadUp, Zenon DEF TicketInv
    <2>5. /\ ticket'[c] = win
          /\ \A d \in Writers : d # c /\ ticket'[d] = ticket[d]
      BY <1>0, <2>1, <2>3, Zenon DEF TypeOK, Writers
    <2>6. Cardinality(Writers) \in Nat BY <1>w, Finite, Zenon
    <2>7. \A d \in Writers' : Ahead(ticket'[d], wout', TicketMod) < Cardinality(Writers')
      <3>1. \A d \in Writers : Ahead(ticket[d], wout, TicketMod) \in 0..(TicketMod - 1)
        BY <1>t, AheadSame, Zenon DEF Writers
      <3> QED BY <1>0, <1>t, <2>1, <2>2, <2>3, <2>5, <2>6, <3>1 DEF TicketInv
    <2>8. \A d \in Writers : ticket[d] # win
      <3>1. \A d \in Writers : Ahead(ticket[d], wout, TicketMod) # Ahead(win, wout, TicketMod)
        <4>1. \A d \in Writers : Ahead(ticket[d], wout, TicketMod) \in 0..(TicketMod - 1)
          BY <1>t, AheadSame DEF Writers
        <4> QED BY <1>0, <2>6, <4>1 DEF TicketInv
      <3> QED BY <3>1, Zenon
    <2>9. \A d, e \in Writers' : d # e => ticket'[d] # ticket'[e]
      BY <1>0, <2>1, <2>5, <2>8 DEF TicketInv
    <2>10. \A d \in Ctx : HasTurn(d)' => ticket'[d] = wout'
      <3>1. \A d \in Ctx : HasTurn(d)' => HasTurn(d) /\ d # c
        BY <1>0, <1>3, Zenon DEF WriteArrive, Goto, HasTurn, Marked, TypeOK
      <3> QED BY <1>0, <2>3, <3>1, Zenon DEF TicketInv, TypeOK
    <2> QED BY <2>4, <2>7, <2>9, <2>10, Zenon DEF TicketInv
  <1>4. ASSUME NEW c \in Ctx,
               WriteMark(c) \/ WriteDrain(c) \/ WriteSave(c) \/ WritePass(c) \/ WriteClear(c)
        PROVE  TicketInv'
    <2>1. UNCHANGED <<win, wout, ticket>>
      BY <1>4, Zenon DEF WriteMark, WriteDrain, WriteSave, WritePass, WriteClear, lockVars
    <2>2. /\ \A d \in Ctx : Asked(d)' = Asked(d)
          /\ \A d \in Ctx : d # c => HasTurn(d)' = HasTurn(d)
          /\ ticket[c] = wout
      BY <1>0, <1>4 DEF WriteMark, WriteDrain, WriteSave, WritePass, WriteClear, Goto,
                  Asked, HasTurn, Marked, TypeOK, TicketInv
    <2>3. Writers' = Writers BY <2>2, Zenon DEF Writers
    <2> QED BY <1>0, <2>1, <2>2, <2>3, Zenon DEF TicketInv
  <1>5. ASSUME NEW c \in Ctx, WriteNext(c) PROVE TicketInv'
    <2>1. c \in Writers /\ Writers' = Writers \ {c} /\ HasTurn(c)
      BY <1>0, <1>5, Zenon DEF WriteNext, Goto, Writers, Asked, HasTurn, Marked, TypeOK
    <2>2. /\ Cardinality(Writers) > 0 /\ Cardinality(Writers) \in Nat
          /\ Cardinality(Writers') = Cardinality(Writers) - 1
      BY <2>1, <1>w, Leaves, Finite, Zenon
    <2>3. wout' = (wout + 1) % TicketMod /\ win' = win
          /\ \A d \in Ctx : d # c => ticket'[d] = ticket[d]
      BY <1>0, <1>5, Zenon DEF WriteNext, TypeOK
    <2>4. Ahead(win', wout', TicketMod) = Cardinality(Writers')
      BY <1>0, <1>t, <2>2, <2>3, AheadDown, Zenon DEF TicketInv
    <2>5. \A d \in Writers' : ticket'[d] = ticket[d] /\ ticket[d] # wout /\ d \in Writers
      BY <1>0, <2>1, <2>3, Zenon DEF TicketInv, Writers
    <2>6. \A d \in Writers' : Ahead(ticket'[d], wout', TicketMod) < Cardinality(Writers')
      <3> SUFFICES ASSUME NEW d \in Writers'
                   PROVE  Ahead(ticket'[d], wout', TicketMod) < Cardinality(Writers')
        BY Zenon
      <3>1. d \in Ctx /\ d \in Writers BY <2>1, <1>w, Zenon
      <3>2. /\ Ahead(ticket[d], wout, TicketMod) \in 0..(TicketMod - 1)
            /\ Ahead(ticket[d], wout, TicketMod) > 0
        BY <1>t, <2>5, <3>1, AheadSame
      <3>3. Ahead(ticket[d], (wout + 1) % TicketMod, TicketMod)
              = Ahead(ticket[d], wout, TicketMod) - 1
        BY <1>t, <3>1, <3>2, AheadDown, Zenon
      <3> QED BY <1>0, <2>2, <2>3, <2>5, <3>1, <3>2, <3>3 DEF TicketInv
    <2>7. \A d, e \in Writers' : d # e => ticket'[d] # ticket'[e]
      BY <1>0, <2>5, Zenon DEF TicketInv
    <2>8. \A d \in Ctx : ~HasTurn(d)'
      <3>1. \A d \in Ctx : HasTurn(d)' => HasTurn(d) /\ d # c
        BY <1>0, <1>5, Zenon DEF WriteNext, Goto, HasTurn, Marked, TypeOK
      <3> QED BY <2>1, <3>1, OnlyTurn, Zenon
    <2> QED BY <2>4, <2>6, <2>7, <2>8, Zenon DEF TicketInv
  <1> QED BY <1>1, <1>2, <1>3, <1>4, <1>5, Split, Zenon DEF WriterNext

\* Every step keeps the mark that of the writer whose turn it is.
LEMMA NextMark == ASSUME IInv, [Next]_vars PROVE MarkInv'
  <1>0. TypeOK /\ TicketInv /\ MarkInv BY Zenon DEF IInv
  <1>1. CASE UNCHANGED vars BY <1>0, <1>1, Zenon DEF vars, MarkInv, Marked
  <1>2. ASSUME NEW c \in Ctx, ReaderNext(c) PROVE MarkInv'
    BY <1>0, <1>2, ReaderFrame, Zenon DEF MarkInv, ReaderStep
  <1>3. ASSUME NEW c \in Ctx, WriteArrive(c) PROVE MarkInv'
    <2>1. \A d \in Ctx : Marked(d)' = Marked(d)
      BY <1>0, <1>3 DEF WriteArrive, Goto, Marked, TypeOK
    <2> QED BY <1>0, <1>3, <2>1, Zenon DEF WriteArrive, MarkInv
  <1>4. ASSUME NEW c \in Ctx, WriteMark(c) PROVE MarkInv'
    <2>1. rinWriter = NoMark /\ ticket[c] = wout /\ wout' = wout
      BY ZenonT(60), <1>4, Unmarked DEF WriteMark
    <2>2. rinWriter' = MarkOf(wout')
      <3>1. wout % 2 \in {0, 1} BY <1>0 DEF TypeOK
      <3> QED BY <1>4, <2>1, <3>1 DEF WriteMark, MarkOf, NoMark
    <2>3. Marked(c)' BY <1>0, <1>4, Zenon DEF WriteMark, Goto, Marked, TypeOK
    <2> QED BY <2>2, <2>3, Zenon DEF MarkInv
  <1>5. ASSUME NEW c \in Ctx, WriteDrain(c) \/ WriteSave(c) \/ WritePass(c)
        PROVE  MarkInv'
    <2>1. \A d \in Ctx : Marked(d)' = Marked(d)
      BY <1>0, <1>5 DEF WriteDrain, WriteSave, WritePass, Goto, Marked, TypeOK
    <2> QED BY <1>0, <1>5, <2>1, Zenon DEF WriteDrain, WriteSave, WritePass, lockVars, MarkInv
  <1>6. ASSUME NEW c \in Ctx, WriteClear(c) \/ WriteNext(c) PROVE MarkInv'
    <2>1. HasTurn(c) /\ pc[c] \in {"wclear", "wnext"}
      BY <1>6, Zenon DEF WriteClear, WriteNext, HasTurn, Marked
    <2>2. \A d \in Ctx : ~Marked(d)'
      <3>1. \A d \in Ctx : Marked(d)' => Marked(d) /\ d # c
        BY <1>0, <1>6, Zenon DEF WriteClear, WriteNext, Goto, Marked, TypeOK
      <3> QED BY <2>1, <3>1, OnlyTurn, Zenon DEF HasTurn
    <2>3. rinWriter' = NoMark
      <3>1. CASE WriteClear(c) BY <3>1, Zenon DEF WriteClear
      <3>2. CASE WriteNext(c)
        <4>1. ~Marked(c) /\ rinWriter' = rinWriter BY <3>2, Zenon DEF WriteNext, Marked
        <4>2. \A d \in Ctx : ~Marked(d) BY <2>1, <4>1, OnlyTurn, Zenon DEF HasTurn
        <4> QED BY <1>0, <4>1, <4>2, Zenon DEF MarkInv
      <3> QED BY <1>6, <3>1, <3>2, Zenon
    <2> QED BY <2>2, <2>3, Zenon DEF MarkInv
  <1> QED BY <1>1, <1>2, <1>3, <1>4, <1>5, <1>6, Split, Zenon DEF WriterNext

-----------------------------------------------------------------------------
(* Readers *)

\* rout reaches before when no reader is early any more.
LEMMA Drained ==
    ASSUME TypeOK, CountInv, NEW c \in Ctx, WriteDrain(c)
    PROVE  Early = {}
  <1>1. /\ before[c][1] = rout /\ rout \in 0..(ReaderMod - 1)
        /\ Ahead(before[c][1], rout, ReaderMod) = Cardinality(Early)
    BY DEF WriteDrain, TypeOK, CountInv
  <1>2. Cardinality(Early) = 0 BY <1>1, AheadSame, ModAssumption
  <1>3. Early \in SUBSET Ctx BY Zenon DEF Early, Readers
  <1> QED BY <1>2, <1>3, Finite, Zenon

\* Every step keeps what a waiting reader waits for: a writer enters only when
\* the readers of the writer before it have gone.
LEMMA NextWait == ASSUME IInv, [Next]_vars PROVE WaitInv'
  <1>0. TypeOK /\ TicketInv /\ MarkInv /\ CountInv /\ WaitInv BY Zenon DEF IInv
  <1>t. wout \in 0..(TicketMod - 1) BY <1>0, Zenon DEF TypeOK
  <1>1. CASE UNCHANGED vars BY <1>0, <1>1, Zenon DEF vars, WaitInv, Entered, HasTurn, Marked
  <1>2. ASSUME NEW c \in Ctx, ReadArrive(c) PROVE WaitInv'
    <2>f. /\ ReaderStep(c)
          /\ \A d \in Ctx : HasTurn(d)' = HasTurn(d) /\ Entered(d)' = Entered(d)
      BY <1>0, <1>2, ReaderFrame, Zenon DEF ReaderNext
    <2>1. \A d \in Ctx : d # c => wp'[d] = wp[d] /\ (pc'[d] = "rwait") = (pc[d] = "rwait")
      BY <1>0, <1>2, <2>f, Zenon DEF ReadArrive, TypeOK, ReaderStep
    <2>2. pc'[c] = "rwait" => wp'[c] = MarkOf(wout) /\ \E d \in Ctx : HasTurn(d)
      <3>1. pc'[c] = "rwait" => rinWriter # NoMark /\ wp'[c] = rinWriter
        BY <1>0, <1>2, Zenon DEF ReadArrive, Goto, TypeOK
      <3> QED BY <1>0, <3>1, Zenon DEF MarkInv, HasTurn
    <2> QED BY <1>0, <2>f, <2>1, <2>2, Zenon DEF WaitInv, ReaderStep
  <1>3. ASSUME NEW c \in Ctx, ReadWait(c) \/ ReadSave(c) \/ ReadPass(c) \/ ReadLeave(c)
        PROVE  WaitInv'
    <2>f. /\ ReaderStep(c)
          /\ \A d \in Ctx : HasTurn(d)' = HasTurn(d) /\ Entered(d)' = Entered(d)
      BY <1>0, <1>3, ReaderFrame, Zenon DEF ReaderNext
    <2>1. \A d \in Ctx : pc'[d] = "rwait" => d # c /\ wp'[d] = wp[d] /\ pc[d] = "rwait"
      BY <1>0, <1>3, <2>f, Zenon DEF ReadWait, ReadSave, ReadPass, ReadLeave, Goto, TypeOK, ReaderStep
    <2> QED BY <1>0, <2>f, <2>1, Zenon DEF WaitInv, ReaderStep
  <1>4. ASSUME NEW c \in Ctx, WriteArrive(c) \/ WriteSave(c) \/ WritePass(c) \/ WriteClear(c)
        PROVE  WaitInv'
    <2>f. /\ WriterStep(c) /\ wout' = wout
          /\ \A d \in Ctx : (pc'[d] = "rwait") = (pc[d] = "rwait")
      BY <1>0, <1>4, WriterFrame, Zenon
         DEF WriterNext, WriteArrive, WriteSave, WritePass, WriteClear, lockVars
    <2>1. \A d \in Ctx : HasTurn(d)' = HasTurn(d) /\ Entered(d)' = Entered(d)
      <3> USE <1>0 DEF Goto, HasTurn, Marked, Entered, TypeOK
      <3>1. CASE WriteArrive(c) BY <3>1 DEF WriteArrive
      <3>2. CASE WriteSave(c) BY <3>2 DEF WriteSave
      <3>3. CASE WritePass(c) BY <3>3 DEF WritePass
      <3>4. CASE WriteClear(c) BY <3>4 DEF WriteClear
      <3> QED BY <1>4, <3>1, <3>2, <3>3, <3>4, Zenon
    <2> QED BY <1>0, <2>f, <2>1, Zenon DEF WaitInv, WriterStep
  <1>5. ASSUME NEW c \in Ctx, WriteMark(c) PROVE WaitInv'
    <2>f. WriterStep(c) /\ \A d \in Ctx : (pc'[d] = "rwait") = (pc[d] = "rwait")
      BY <1>0, <1>5, WriterFrame, Zenon DEF WriterNext
    <2>1. HasTurn(c)' /\ \A d \in Ctx : ~Entered(d)'
      <3>1. \A d \in Ctx : Entered(d)' => Entered(d)
        BY <1>0, <1>5, Zenon DEF WriteMark, Goto, Entered, TypeOK
      <3>2. HasTurn(c)' BY <1>0, <1>5, Zenon DEF WriteMark, Goto, HasTurn, Marked, TypeOK
      <3> QED BY <1>5, <3>1, <3>2, Unmarked, Zenon DEF Entered, HasTurn, Marked
    <2> QED BY <2>1, Zenon DEF WaitInv
  <1>6. ASSUME NEW c \in Ctx, WriteDrain(c) PROVE WaitInv'
    <2>f. WriterStep(c) /\ \A d \in Ctx : (pc'[d] = "rwait") = (pc[d] = "rwait")
      BY <1>0, <1>6, WriterFrame, Zenon DEF WriterNext
    <2>1. HasTurn(c)' /\ wout' = wout
      BY <1>0, <1>6, Zenon DEF WriteDrain, Goto, HasTurn, Marked, lockVars, TypeOK
    <2>2. Early = {} BY <1>0, <1>6, Drained, Zenon
    <2>3. \A d \in Ctx : pc[d] = "rwait" => wp[d] = MarkOf(wout)
      BY <2>2, Zenon DEF Early, Readers, Counted
    <2> QED BY <2>f, <2>1, <2>3, Zenon DEF WaitInv, WriterStep
  <1>7. ASSUME NEW c \in Ctx, WriteNext(c) PROVE WaitInv'
    <2>f. WriterStep(c) /\ \A d \in Ctx : (pc'[d] = "rwait") = (pc[d] = "rwait")
      BY <1>0, <1>7, WriterFrame, Zenon DEF WriterNext
    <2>1. \A d \in Ctx : pc'[d] = "rwait" => wp'[d] = MarkOf(wout)
      BY <1>0, <1>7, <2>f DEF WriteNext, WaitInv, Entered, WriterStep
    <2>2. MarkOf(wout' + 1) = MarkOf(wout) BY <1>7, <1>t, Colours, Zenon DEF WriteNext
    <2>3. \A d \in Ctx : ~Entered(d)'
      <3>1. \A d \in Ctx : Entered(d)' => Entered(d) /\ d # c
        BY <1>0, <1>7, Zenon DEF WriteNext, Goto, Entered, TypeOK
      <3>2. HasTurn(c) BY <1>7, Zenon DEF WriteNext, HasTurn
      <3> QED BY <3>1, <3>2, OnlyTurn, Zenon DEF Entered, HasTurn, Marked
    <2> QED BY <2>1, <2>2, <2>3, Zenon DEF WaitInv
  <1> QED BY <1>1, <1>2, <1>3, <1>4, <1>5, <1>6, <1>7, Split, Zenon DEF WriterNext, ReaderNext

\* Every step keeps the counts: a reader that comes after the mark waits for it.
LEMMA NextCount == ASSUME IInv, [Next]_vars PROVE CountInv'
  <1>0. TypeOK /\ TicketInv /\ MarkInv /\ CountInv /\ WaitInv BY DEF IInv
  <1>t. /\ ReaderMod \in Nat \ {0} /\ rinReaders \in 0..(ReaderMod - 1)
        /\ rout \in 0..(ReaderMod - 1)
        /\ \A c \in Ctx : before[c][1] \in 0..(ReaderMod - 1)
    BY <1>0, ModAssumption, Zenon DEF TypeOK
  <1>w. Readers \in SUBSET Ctx /\ Early \in SUBSET Ctx BY Zenon DEF Readers, Early
  <1>d. \A d \in Ctx : pc[d] = "wdrain" => rinWriter = MarkOf(wout) /\ rinWriter # NoMark
    <2>1. MarkOf(wout) # NoMark BY <1>0, Colours DEF TypeOK, NoMark
    <2> QED BY <1>0, <2>1, Zenon DEF MarkInv, Marked
  <1>1. CASE UNCHANGED vars BY <1>0, <1>1, Zenon DEF vars, CountInv, Early, Readers, Counted
  <1>2. ASSUME NEW c \in Ctx, ReadArrive(c) PROVE CountInv'
    <2>f. ReaderStep(c) BY <1>0, <1>2, ReaderFrame, Zenon DEF ReaderNext
    <2>1. c \notin Readers /\ Readers' = Readers \cup {c}
      BY <1>0, <1>2, Zenon DEF ReadArrive, Goto, Readers, Counted, TypeOK
    <2>2. /\ Cardinality(Readers') = Cardinality(Readers) + 1
          /\ Cardinality(Readers) + 1 < ReaderMod
      BY <2>1, <1>w, Joins, Zenon
    <2>3. rinReaders' = (rinReaders + 1) % ReaderMod /\ rout' = rout
      BY <1>2, Zenon DEF ReadArrive
    <2>4. Ahead(rinReaders', rout', ReaderMod) = Cardinality(Readers')
      BY <1>0, <1>t, <2>2, <2>3, AheadUp, Zenon DEF CountInv
    <2>5. ASSUME NEW d \in Ctx, pc'[d] = "wdrain"
          PROVE  pc[d] = "wdrain" /\ Early' = Early
      <3>1. pc[d] = "wdrain"
        BY <1>0, <1>2, <2>5, Zenon DEF ReadArrive, Goto, TypeOK
      <3>2. pc'[c] = "rwait" /\ wp'[c] = MarkOf(wout)
        BY <1>0, <1>2, <1>d, <3>1, Zenon DEF ReadArrive, Goto, TypeOK
      <3>3. \A e \in Readers : pc'[e] = pc[e] /\ wp'[e] = wp[e]
        BY <1>0, <1>2, <2>1, <2>f, Zenon DEF ReadArrive, ReaderStep, TypeOK, Readers
      <3> QED BY <2>1, <2>f, <3>1, <3>2, <3>3, Zenon DEF Early, ReaderStep
    <2> QED BY <1>0, <2>f, <2>3, <2>4, <2>5, Zenon DEF CountInv, ReaderStep
  <1>3. ASSUME NEW c \in Ctx, ReadWait(c) \/ ReadSave(c) \/ ReadPass(c) PROVE CountInv'
    <2>f. ReaderStep(c) BY <1>0, <1>3, ReaderFrame, Zenon DEF ReaderNext
    <2>1. Readers' = Readers /\ c \in Readers
      BY <1>0, <1>3, Zenon DEF ReadWait, ReadSave, ReadPass, Goto, Readers, Counted, TypeOK
    <2>2. UNCHANGED <<rinReaders, rout>>
      BY <1>3, Zenon DEF ReadWait, ReadSave, ReadPass, lockVars
    <2>3. ASSUME NEW d \in Ctx, pc'[d] = "wdrain"
          PROVE  pc[d] = "wdrain" /\ Early' = Early
      <3>1. pc[d] = "wdrain"
        BY <1>0, <1>3, <2>3, Zenon DEF ReadWait, ReadSave, ReadPass, Goto, TypeOK
      <3>2. c \in Early
        BY <1>3, <1>d, <2>1, <3>1, Zenon DEF ReadWait, ReadSave, ReadPass, Early
      <3>3. pc'[c] # "rwait"
        BY <1>0, <1>3, Zenon DEF ReadWait, ReadSave, ReadPass, Goto, TypeOK
      <3>4. \A e \in Readers : e # c => pc'[e] = pc[e] /\ wp'[e] = wp[e]
        BY <1>0, <1>3, <2>f, Zenon DEF ReadWait, ReadSave, ReadPass, ReaderStep, TypeOK, Readers
      <3> QED BY <2>1, <2>f, <3>1, <3>2, <3>3, <3>4, Zenon DEF Early, ReaderStep
    <2> QED BY <1>0, <2>f, <2>1, <2>2, <2>3, Zenon DEF CountInv, ReaderStep
  <1>4. ASSUME NEW c \in Ctx, ReadLeave(c) PROVE CountInv'
    <2>f. ReaderStep(c) /\ wp' = wp BY <1>0, <1>4, ReaderFrame, Zenon DEF ReaderNext, ReadLeave
    <2>1. c \in Readers /\ c \in Early /\ Readers' = Readers \ {c}
      BY <1>0, <1>4, Zenon DEF ReadLeave, Goto, Readers, Counted, Early, TypeOK
    <2>2. Early' = Early \ {c}
      BY <2>1, <2>f, Zenon DEF Early, ReaderStep, Readers
    <2>3. /\ Cardinality(Readers) > 0 /\ Cardinality(Early) > 0
          /\ Cardinality(Readers') = Cardinality(Readers) - 1
          /\ Cardinality(Early') = Cardinality(Early) - 1
      BY <1>w, <2>1, <2>2, Leaves, Zenon
    <2>4. rinReaders' = rinReaders /\ rout' = (rout + 1) % ReaderMod
      BY <1>4, Zenon DEF ReadLeave
    <2>5. Ahead(rinReaders', rout', ReaderMod) = Cardinality(Readers')
      BY <1>0, <1>t, <2>3, <2>4, AheadDown, Zenon DEF CountInv
    <2>6. ASSUME NEW d \in Ctx, pc'[d] = "wdrain"
          PROVE  /\ before'[d][2] = NoMark
                 /\ Ahead(before'[d][1], rout', ReaderMod) = Cardinality(Early')
      <3>1. pc[d] = "wdrain" BY <1>0, <1>4, <2>6, Zenon DEF ReadLeave, Goto, TypeOK
      <3>2. before'[d] = before[d] BY <2>f, Zenon DEF ReaderStep
      <3> QED BY <1>0, <1>t, <2>3, <2>4, <3>1, <3>2, AheadDown DEF CountInv
    <2> QED BY <2>5, <2>6, Zenon DEF CountInv
  <1>5. ASSUME NEW c \in Ctx,
               \/ WriteArrive(c) \/ WriteDrain(c) \/ WriteSave(c)
               \/ WritePass(c) \/ WriteClear(c)
        PROVE  CountInv'
    <2>f. /\ WriterStep(c) /\ Readers' = Readers
          /\ \A d \in Ctx : (pc'[d] = "rwait") = (pc[d] = "rwait")
      BY <1>0, <1>5, WriterFrame, Zenon DEF WriterNext
    <2>1. UNCHANGED <<wout, before>>
      BY <1>5, Zenon DEF WriteArrive, WriteDrain, WriteSave, WritePass, WriteClear, lockVars
    <2>2. Early' = Early BY <2>f, <2>1, Zenon DEF Early, Readers, WriterStep
    <2>3. \A d \in Ctx : pc'[d] = "wdrain" => pc[d] = "wdrain"
      BY <1>0, <1>5, Zenon DEF WriteArrive, WriteDrain, WriteSave, WritePass, WriteClear, Goto, TypeOK
    <2> QED BY <1>0, <2>f, <2>1, <2>2, <2>3, Zenon DEF CountInv, WriterStep
  <1>6. ASSUME NEW c \in Ctx, WriteMark(c) PROVE CountInv'
    <2>f. /\ WriterStep(c) /\ Readers' = Readers
          /\ \A d \in Ctx : (pc'[d] = "rwait") = (pc[d] = "rwait")
      BY <1>0, <1>6, WriterFrame, Zenon DEF WriterNext
    <2>1. rinWriter = NoMark /\ \A d \in Ctx : ~HasTurn(d) BY <1>6, Unmarked, Zenon
    <2>2. \A d \in Ctx : pc'[d] = "wdrain" => d = c
      BY <1>0, <1>6, <2>1, Zenon DEF WriteMark, Goto, HasTurn, Marked, TypeOK
    <2>3. before'[c] = <<rinReaders, NoMark>> /\ wout' = wout
      BY <1>0, <1>6, <2>1, Zenon DEF WriteMark, TypeOK
    <2>4. Early' = Readers
      <3>1. \A d \in Readers : pc[d] = "rwait" => wp[d] # MarkOf(wout)
        <4>1. MarkOf(wout) # MarkOf(wout + 1) BY <1>0, Colours, Zenon DEF TypeOK
        <4> QED BY <1>0, <1>w, <2>1, <4>1, Zenon DEF WaitInv
      <3> QED BY <2>f, <2>3, <3>1, Zenon DEF Early, Readers, WriterStep
    <2>5. Ahead(rinReaders, rout, ReaderMod) = Cardinality(Readers) BY <1>0, Zenon DEF CountInv
    <2>6. UNCHANGED <<rinReaders, rout>> BY <2>f, Zenon DEF WriterStep
    <2>7. /\ before'[c][2] = NoMark
          /\ Ahead(before'[c][1], rout', ReaderMod) = Cardinality(Early')
      BY <2>3, <2>4, <2>5, <2>6
    <2> QED BY <2>f, <2>2, <2>5, <2>6, <2>7, Zenon DEF CountInv
  <1>7. ASSUME NEW c \in Ctx, WriteNext(c) PROVE CountInv'
    <2>f. WriterStep(c) /\ Readers' = Readers
      BY <1>0, <1>7, WriterFrame, Zenon DEF WriterNext
    <2>1. \A d \in Ctx : pc'[d] # "wdrain"
      <3>1. \A d \in Ctx : pc'[d] = "wdrain" => pc[d] = "wdrain" /\ d # c
        BY <1>0, <1>7, Zenon DEF WriteNext, Goto, TypeOK
      <3>2. HasTurn(c) BY <1>7 DEF WriteNext, HasTurn
      <3> QED BY <3>1, <3>2, OnlyTurn, Zenon DEF HasTurn, Marked
    <2> QED BY <1>0, <2>f, <2>1, Zenon DEF CountInv, WriterStep
  <1> QED BY <1>1, <1>2, <1>3, <1>4, <1>5, <1>6, <1>7, Split, Zenon DEF WriterNext, ReaderNext

\* Every step keeps a writer that is in alone.
LEMMA NextAlone == ASSUME IInv, [Next]_vars PROVE AloneInv'
  <1>0. TypeOK /\ MarkInv /\ CountInv /\ WaitInv /\ AloneInv BY Zenon DEF IInv
  <1>d. \A d \in Ctx : Writing(d) => rinWriter = MarkOf(wout) /\ rinWriter # NoMark
    <2>1. MarkOf(wout) # NoMark BY <1>0, Colours DEF TypeOK, NoMark
    <2> QED BY <1>0, <2>1, Zenon DEF MarkInv, Marked, Writing
  <1>1. CASE UNCHANGED vars BY <1>0, <1>1, Zenon DEF vars, AloneInv, Writing, Reading
  <1>2. ASSUME NEW c \in Ctx, ReaderNext(c) PROVE AloneInv'
    <2>f. /\ ReaderStep(c) /\ \A d \in Ctx : Writing(d)' = Writing(d)
      BY <1>0, <1>2, ReaderFrame, Zenon
    <2>1. \A d \in Ctx : d # c => Reading(d)' = Reading(d)
      BY <2>f, Zenon DEF ReaderStep, Reading
    <2>2. ASSUME NEW d \in Ctx, Writing(d), Reading(c)' PROVE FALSE
      <3>1. rinWriter = MarkOf(wout) /\ rinWriter # NoMark BY <1>d, <2>2, Zenon
      <3>2. pc[c] = "rwait" => wp[c] = MarkOf(wout)
        BY <1>0, <2>2, Zenon DEF WaitInv, Writing, Entered
      <3>3. CASE ReadArrive(c)
        BY <1>0, <2>2, <3>1, <3>3, Zenon DEF ReadArrive, Goto, Reading, TypeOK
      <3>4. CASE ReadWait(c) BY <3>1, <3>2, <3>4, Zenon DEF ReadWait
      <3>5. CASE ReadSave(c) \/ ReadPass(c)
        BY <1>0, <2>2, <3>5, Zenon DEF ReadSave, ReadPass, AloneInv, Reading
      <3>6. CASE ReadLeave(c)
        BY <1>0, <2>2, <3>6, Zenon DEF ReadLeave, Goto, Reading, TypeOK
      <3> QED BY <1>2, <3>3, <3>4, <3>5, <3>6, Zenon DEF ReaderNext
    <2> QED BY <1>0, <2>f, <2>1, <2>2, Zenon DEF AloneInv
  <1>3. ASSUME NEW c \in Ctx, WriteDrain(c) PROVE AloneInv'
    <2>f. \A d \in Ctx : Reading(d)' = Reading(d)
      BY <1>0, <1>3, WriterFrame, Zenon DEF WriterNext
    <2>1. Early = {} BY <1>0, <1>3, Drained, Zenon
    <2>2. \A d \in Ctx : ~Reading(d) BY <2>1, Zenon DEF Early, Readers, Counted, Reading
    <2> QED BY <2>f, <2>2, Zenon DEF AloneInv
  <1>4. ASSUME NEW c \in Ctx, WriterNext(c), ~WriteDrain(c) PROVE AloneInv'
    <2>f. \A d \in Ctx : Reading(d)' = Reading(d)
      BY <1>0, <1>4, WriterFrame, Zenon
    <2>1. \A d \in Ctx : Writing(d)' => Writing(d)
      BY <1>0, <1>4, Zenon DEF WriterNext, WriteArrive, WriteMark, WriteSave, WritePass,
                        WriteClear, WriteNext, Goto, Writing, TypeOK
    <2> QED BY <1>0, <2>f, <2>1, Zenon DEF AloneInv
  <1> QED BY <1>1, <1>2, <1>3, <1>4, Split, Zenon

\* Every step keeps the readers' history: those that wait when a writer enters
\* came after its mark.
LEMMA NextPassed == ASSUME IInv, [Next]_vars PROVE PassedInv'
  <1>0. TypeOK /\ TicketInv /\ MarkInv /\ WaitInv /\ PassedInv BY Zenon DEF IInv
  <1>1. CASE UNCHANGED vars BY <1>0, <1>1 DEF vars, PassedInv
  <1>2. ASSUME NEW c \in Ctx, ReaderNext(c) PROVE PassedInv'
    <2>f. ReaderStep(c) /\ wout' = wout BY <1>0, <1>2, ReaderFrame, Zenon DEF ReaderStep
    <2>1. /\ \A d \in Ctx : d # c => passed'[d] = passed[d] /\ wp'[d] = wp[d]
          /\ passed'[c] = 0 \/ (passed'[c] = passed[c] /\ pc'[c] # "rwait")
      BY <1>0, <1>2, Zenon DEF ReaderNext, ReadArrive, ReadWait, ReadSave, ReadPass, ReadLeave,
                        Goto, TypeOK
    <2>2. \A d \in Ctx : pc'[d] \in {"wdrain", "wsave"} => pc'[d] = pc[d] /\ d # c
      BY <2>f, Zenon DEF ReaderStep, Asked, HasTurn, Marked
    <2>3. \A d \in Ctx : passed'[d] <= 1 BY <1>0, <2>1 DEF PassedInv
    <2>4. \A d \in Ctx : d # c => pc'[d] = pc[d] BY <2>f, Zenon DEF ReaderStep
    <2> QED BY <1>0, <2>f, <2>1, <2>2, <2>3, <2>4 DEF PassedInv
  <1>3. ASSUME NEW c \in Ctx, WriteMark(c) PROVE PassedInv'
    <2>f. WriterStep(c) /\ \A d \in Ctx : (pc'[d] = "rwait") = (pc[d] = "rwait")
      BY <1>0, <1>3, WriterFrame DEF WriterNext
    <2>1. passed' = passed /\ wout' = wout BY <1>3, Zenon DEF WriteMark
    <2>2. \A d \in Ctx : pc[d] = "rwait" => wp[d] # MarkOf(wout)
      <3>1. MarkOf(wout) # MarkOf(wout + 1) BY <1>0, Colours DEF TypeOK
      <3>2. \A d \in Ctx : ~HasTurn(d) BY <1>3, Unmarked, Zenon
      <3> QED BY <1>0, <3>1, <3>2, Zenon DEF WaitInv
    <2> QED BY <1>0, <2>f, <2>1, <2>2, Zenon DEF PassedInv, WriterStep
  <1>4. ASSUME NEW c \in Ctx, WriteSave(c) PROVE PassedInv'
    <2>f. WriterStep(c) /\ \A d \in Ctx : (pc'[d] = "rwait") = (pc[d] = "rwait")
      BY <1>0, <1>4, WriterFrame DEF WriterNext
    <2>1. HasTurn(c) /\ Entered(c) /\ pc[c] = "wsave"
      BY <1>4, Zenon DEF WriteSave, HasTurn, Marked, Entered
    <2>2. \A d \in Ctx : pc[d] = "rwait" => passed[d] = 0
      BY <1>0, <2>1, Zenon DEF WaitInv, PassedInv
    <2>3. \A d \in Ctx : passed'[d] <= 1
      <3>1. \A d \in Ctx : passed'[d] = IF pc[d] = "rwait" /\ passed[d] < 2
                                        THEN passed[d] + 1 ELSE passed[d]
        BY <1>4, Zenon DEF WriteSave
      <3>2. \A d \in Ctx : passed[d] <= 1 BY <1>0, Zenon DEF PassedInv
      <3> QED BY <2>2, <3>1, <3>2
    <2>4. \A d \in Ctx : pc'[d] \notin {"wdrain", "wsave"}
      <3>1. \A d \in Ctx : pc'[d] \in {"wdrain", "wsave"} => HasTurn(d) /\ d # c
        BY <1>0, <1>4, Zenon DEF WriteSave, Goto, HasTurn, Marked, TypeOK
      <3> QED BY <2>1, <3>1, OnlyTurn, Zenon
    <2> QED BY <2>3, <2>4, Zenon DEF PassedInv
  <1>5. ASSUME NEW c \in Ctx,
               WriteArrive(c) \/ WriteDrain(c) \/ WritePass(c) \/ WriteClear(c)
        PROVE  PassedInv'
    <2>f. WriterStep(c) /\ \A d \in Ctx : (pc'[d] = "rwait") = (pc[d] = "rwait")
      BY <1>0, <1>5, WriterFrame, Zenon DEF WriterNext
    <2>1. passed' = passed /\ wout' = wout
      BY <1>5, Zenon DEF WriteArrive, WriteDrain, WritePass, WriteClear, lockVars
    <2>2. \A d \in Ctx : pc'[d] \in {"wdrain", "wsave"} => pc[d] \in {"wdrain", "wsave"}
      BY <1>0, <1>5, Zenon DEF WriteArrive, WriteDrain, WritePass, WriteClear, Goto, TypeOK
    <2> QED BY <1>0, <2>f, <2>1, <2>2, Zenon DEF PassedInv, WriterStep
  <1>6. ASSUME NEW c \in Ctx, WriteNext(c) PROVE PassedInv'
    <2>1. passed' = passed BY <1>6, Zenon DEF WriteNext
    <2>2. \A d \in Ctx : pc'[d] \notin {"wdrain", "wsave"}
      <3>1. \A d \in Ctx : pc'[d] \in {"wdrain", "wsave"} => HasTurn(d) /\ d # c
        BY <1>0, <1>6, Zenon DEF WriteNext, Goto, HasTurn, Marked, TypeOK
      <3>2. HasTurn(c) BY <1>6 DEF WriteNext, HasTurn
      <3> QED BY <3>1, <3>2, OnlyTurn, Zenon
    <2> QED BY <1>0, <2>1, <2>2, Zenon DEF PassedInv
  <1> QED BY <1>1, <1>2, <1>3, <1>4, <1>5, <1>6, Split, Zenon DEF WriterNext

\* Every step keeps the writer's flag: only those that are in write lock->flags.
LEMMA NextFlag == ASSUME IInv, [Next]_vars PROVE FlagInv'
  <1>0. TypeOK /\ AloneInv /\ FlagInv BY Zenon DEF IInv
  <1> USE DEF TypeOK, Goto
  <1>1. CASE UNCHANGED vars BY <1>0, <1>1, Zenon DEF vars, FlagInv
  <1>2. ASSUME NEW c \in Ctx, ReadArrive(c) PROVE FlagInv'
    BY <1>0, <1>2, Zenon DEF ReadArrive, DisableInterrupts, FlagInv
  <1>3. ASSUME NEW c \in Ctx, ReadWait(c) PROVE FlagInv'
    BY <1>0, <1>3, Zenon DEF ReadWait, flagVars, FlagInv
  <1>4. ASSUME NEW c \in Ctx, ReadSave(c) PROVE FlagInv'
    <2>1. \A d \in Ctx : pc'[d] # "writing"
      BY <1>0, <1>4, Zenon DEF ReadSave, AloneInv, Writing, Reading
    <2> QED BY <1>0, <1>4, <2>1, Zenon DEF ReadSave, FlagInv
  <1>5. ASSUME NEW c \in Ctx, ReadPass(c) PROVE FlagInv'
    BY <1>0, <1>5, Zenon DEF ReadPass, FlagInv
  <1>6. ASSUME NEW c \in Ctx, ReadLeave(c) PROVE FlagInv'
    BY ZenonT(60), <1>0, <1>6 DEF ReadLeave, RestoreInterrupts, FlagInv
  <1>7. ASSUME NEW c \in Ctx, WriteArrive(c) PROVE FlagInv'
    BY <1>0, <1>7, Zenon DEF WriteArrive, DisableInterrupts, FlagInv
  <1>8. ASSUME NEW c \in Ctx, WriteMark(c) \/ WriteDrain(c) PROVE FlagInv'
    BY <1>0, <1>8, Zenon DEF WriteMark, WriteDrain, flagVars, FlagInv
  <1>9. ASSUME NEW c \in Ctx, WriteSave(c) PROVE FlagInv'
    <2>1. HasTurn(c) BY <1>9, Zenon DEF WriteSave, HasTurn, Marked
    <2>2. \A d \in Ctx : pc'[d] = "writing" => d = c
      <3>1. \A d \in Ctx : pc'[d] = "writing" /\ d # c => HasTurn(d)
        BY <1>0, <1>9, Zenon DEF WriteSave, HasTurn, Marked
      <3> QED BY <2>1, <3>1, OnlyTurn, Zenon
    <2> QED BY <1>0, <1>9, <2>2, Zenon DEF WriteSave, FlagInv
  <1>10. ASSUME NEW c \in Ctx, WritePass(c) PROVE FlagInv'
    BY <1>0, <1>10, Zenon DEF WritePass, FlagInv
  <1>11. ASSUME NEW c \in Ctx, WriteClear(c) PROVE FlagInv'
    BY <1>0, <1>11, Zenon DEF WriteClear, flagVars, FlagInv
  <1>12. ASSUME NEW c \in Ctx, WriteNext(c) PROVE FlagInv'
    BY ZenonT(60), <1>0, <1>12 DEF WriteNext, RestoreInterrupts, FlagInv
  <1> QED BY <1>1, <1>2, <1>3, <1>4, <1>5, <1>6, <1>7, <1>8, <1>9, <1>10, <1>11, <1>12, Zenon
          DEF Next, Continue

-----------------------------------------------------------------------------
(* The theorems *)

\* The inductive invariant of rwlock.c: it holds of an initialized lock and every
\* step of a reader or a writer keeps it.
THEOREM RwLockInvariant == Spec => []IInv
  <1>1. IInv /\ [Next]_vars => IInv'
    BY NextTypeOK, NextTicket, NextMark, NextCount, NextWait, NextAlone, NextPassed,
       NextFlag, Zenon DEF IInv
  <1> QED BY InitIInv, <1>1, PTL DEF Spec

\* Types: the mark that rw_lock_write adds to rin stays below PF_READER_INC.
THEOREM TypeCorrect == Spec => []TypeOK
  <1>1. IInv => TypeOK BY Zenon DEF IInv
  <1> QED BY RwLockInvariant, <1>1, PTL

\* A writer is alone from the return of rw_lock_write to the clearing of its mark,
\* for any number of cpus and across the wrap-around of every counter.
THEOREM WriterIsAloneHolds == Spec => []WriterIsAlone
  <1>1. IInv => WriterIsAlone
    <2> SUFFICES ASSUME IInv, NEW c \in Ctx, NEW d \in Ctx, Writing(c), c # d
                 PROVE  ~Reading(d) /\ ~Writing(d)
      BY Zenon DEF WriterIsAlone
    <2>1. ~Reading(d) BY Zenon DEF IInv, AloneInv
    <2>2. ~Writing(d) BY OnlyTurn, Zenon DEF Writing, HasTurn, Marked
    <2> QED BY <2>1, <2>2, Zenon
  <1> QED BY RwLockInvariant, <1>1, PTL

\* Phase fairness: a waiting reader of rw_lock_read sees at most one writer enter.
THEOREM ReadersWaitForOneWriterHolds == Spec => []ReadersWaitForOneWriter
  <1>1. IInv => ReadersWaitForOneWriter
    BY Zenon DEF IInv, PassedInv, ReadersWaitForOneWriter
  <1> QED BY RwLockInvariant, <1>1, PTL

\* rw_unlock_write_isr_restore restores the interrupt flag its cpu came with.
THEOREM WriterFlagsRestoredHolds == Spec => []WriterFlagsRestored
  <1>1. IInv => WriterFlagsRestored BY Zenon DEF IInv, FlagInv, WriterFlagsRestored
  <1> QED BY RwLockInvariant, <1>1, PTL
=============================================================================
