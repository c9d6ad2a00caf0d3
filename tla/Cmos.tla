-------------------------------- MODULE Cmos --------------------------------
(* The CMOS real-time clock (cmos.c): a task reads the time, another sets and *)
(* disables the alarm, the alarm's interrupt calls back, and the device goes  *)
(* on meanwhile.  A register is reached through an address port and a data    *)
(* port, in two steps that nothing holds together.  The time is seconds and   *)
(* minutes; the other registers are read and compared in the same way.        *)
EXTENDS Naturals, Sequences

CONSTANTS Second,     \* bound: seconds in a minute
          MaxTime,    \* bound: seconds the clock runs for
          MaxCalls,   \* bound: calls of clock_set_alarm and clock_disable_alarm
          NULL

VARIABLES
    reg,       \* the device's registers, see Reg
    now,       \* the time, in seconds
    addr,      \* the address port
    irq,       \* the interrupt is pending
    lock,      \* alarm_lock's holder
    callback,  \* alarm_callback, named by the call that installed it
    pc,        \* per actor: the next access of its script
    out,       \* per actor: the address is written, the data not yet
    got,       \* what the reader has read
    af,        \* the interrupt's cmos_c.fields.af
    call,      \* the alarm call that runs, and how many there were
    called,    \* history: the callbacks called since the last disable returned
    shown,     \* history: the times shown, or under way, since clock_read began
    mixed      \* history: an access used an address another one wrote

vars == <<reg, now, addr, irq, lock, callback, pc, out, got, af, call, called,
          shown, mixed>>

Actor == {"read", "alarm", "isr"}
Time(t) == <<t % Second, t \div Second>>

\* cmos_clock_read: update_in_progress, the time, and both again.
ReadScript == <<"A", "sec", "min", "A", "sec", "min">>
\* cmos_clock_callback_set_alarm and cmos_clock_callback_disable_alarm.
SetScript == <<"B", "B", "secAlarm", "minAlarm", "B">>
DisableScript == <<"B", "B">>
Script(a) ==
    CASE a = "read" -> ReadScript
      [] a = "alarm" -> IF call.op = "set" THEN SetScript ELSE DisableScript
      [] a = "isr" -> <<"C">>

Init ==
    /\ reg = [A |-> 0, B |-> 0, C |-> 0, sec |-> 0, min |-> 0,
              secAlarm |-> 0, minAlarm |-> 0]
    /\ now = 0 /\ addr = "C" /\ irq = FALSE
    /\ lock = NULL /\ callback = NULL
    /\ pc = [a \in Actor |-> 0]
    /\ out = [a \in Actor |-> FALSE]
    /\ got = <<>> /\ af = FALSE
    /\ call = [op |-> NULL, n |-> 0, at |-> 0]
    /\ called = {} /\ shown = {} /\ mixed = FALSE

-----------------------------------------------------------------------------
(* The device: update_in_progress goes up, the registers change one after     *)
(* another, and at the end the alarm is compared.                             *)
Announce ==
    /\ reg.A = 0 /\ now < MaxTime
    /\ now' = now + 1
    /\ reg' = [reg EXCEPT !.A = 1]
    /\ shown' = IF pc["read"] = 0 THEN {} ELSE shown \cup {Time(now + 1)}
    /\ UNCHANGED <<addr, irq, lock, callback, pc, out, got, af, call, called, mixed>>
UpdateSeconds ==
    /\ reg.A = 1
    /\ reg' = [reg EXCEPT !.A = 2, !.sec = Time(now)[1]]
    /\ UNCHANGED <<now, addr, irq, lock, callback, pc, out, got, af, call, called,
                   shown, mixed>>
Update ==
    LET due == reg.B = 1 /\ reg.secAlarm = reg.sec /\ reg.minAlarm = Time(now)[2] IN
    /\ reg.A = 2
    /\ reg' = [reg EXCEPT !.A = 0, !.min = Time(now)[2],
                          !.C = IF due THEN 1 ELSE @]
    /\ irq' = (irq \/ due)
    /\ UNCHANGED <<now, addr, lock, callback, pc, out, got, af, call, called, shown,
                   mixed>>

-----------------------------------------------------------------------------
(* cmos_read and cmos_write: the address ...                                  *)
Address(a) ==
    /\ pc[a] \in DOMAIN Script(a) /\ ~out[a]
    /\ addr' = Script(a)[pc[a]]
    /\ out' = [out EXCEPT ![a] = TRUE]
    /\ UNCHANGED <<reg, now, irq, lock, callback, pc, got, af, call, called, shown,
                   mixed>>

\* ... and the data, of whichever register is addressed by now.
Data(a) ==
    /\ out[a]
    /\ out' = [out EXCEPT ![a] = FALSE]
    /\ mixed' = (mixed \/ addr # Script(a)[pc[a]])
Step(a) == pc' = [pc EXCEPT ![a] = @ + 1]

\* cmos_wait_for_update: again while an update is in progress; a mutant does not
\* wait.
ReadAtOnce ==
    /\ pc["read"] \in {1, 4} /\ Data("read") /\ Step("read")
    /\ UNCHANGED <<reg, now, addr, irq, lock, callback, got, af, call, called, shown>>
ReadUip ==
    /\ pc["read"] \in {1, 4} /\ Data("read")
    /\ IF reg[addr] # 0 THEN UNCHANGED pc ELSE Step("read")
    /\ UNCHANGED <<reg, now, addr, irq, lock, callback, got, af, call, called, shown>>
ReadTime ==
    /\ pc["read"] \in {2, 3, 5, 6} /\ Data("read") /\ Step("read")
    /\ got' = Append(got, reg[addr])
    /\ UNCHANGED <<reg, now, addr, irq, lock, callback, af, call, called, shown>>

\* clock_read begins, goes round again when the two readings differ, and
\* returns.
ClockRead ==
    /\ pc["read"] = 0
    /\ Step("read")
    /\ got' = <<>>
    /\ shown' = {Time(now)} \cup (IF reg.A = 0 THEN {} ELSE {Time(now - 1)})
    /\ UNCHANGED <<reg, now, addr, irq, lock, callback, out, af, call, called, mixed>>
Same == got[1] = got[3] /\ got[2] = got[4]
Compare ==
    /\ pc["read"] = 7 /\ ~Same
    /\ pc' = [pc EXCEPT !["read"] = 1]
    /\ got' = <<>>
    /\ UNCHANGED <<reg, now, addr, irq, lock, callback, out, af, call, called, shown,
                   mixed>>
ReadReturns ==
    /\ pc["read"] = 7 /\ Same
    /\ pc' = [pc EXCEPT !["read"] = 0]
    /\ got' = <<>> /\ shown' = {}
    /\ UNCHANGED <<reg, now, addr, irq, lock, callback, out, af, call, called, mixed>>

-----------------------------------------------------------------------------
(* clock_set_alarm and clock_disable_alarm, under alarm_lock.                 *)
AlarmCall(op, at) ==
    /\ pc["alarm"] = 0 /\ lock = NULL /\ call.n < MaxCalls
    /\ lock' = "alarm"
    /\ Step("alarm")
    /\ call' = [op |-> op, n |-> call.n + 1, at |-> at]
    /\ UNCHANGED <<reg, now, addr, irq, callback, out, got, af, called, shown, mixed>>

\* What an access of the script writes; the first one reads B.
Written ==
    CASE pc["alarm"] = 2 -> 0
      [] pc["alarm"] = 3 -> Time(call.at)[1]
      [] pc["alarm"] = 4 -> Time(call.at)[2]
      [] pc["alarm"] = 5 -> 1
AlarmAccess ==
    /\ Data("alarm") /\ Step("alarm")
    /\ reg' = IF pc["alarm"] = 1 THEN reg ELSE [reg EXCEPT ![addr] = Written]
    /\ callback' = IF pc["alarm"] = 2
                   THEN (IF call.op = "set" THEN call.n ELSE NULL) ELSE callback
    /\ UNCHANGED <<now, addr, irq, lock, got, af, call, called, shown>>
AlarmReturns ==
    /\ pc["alarm"] = Len(Script("alarm")) + 1
    /\ pc' = [pc EXCEPT !["alarm"] = 0]
    /\ lock' = NULL
    /\ called' = IF call.op = "disable" THEN {} ELSE called
    /\ UNCHANGED <<reg, now, addr, irq, callback, out, got, af, call, shown, mixed>>

-----------------------------------------------------------------------------
(* cmos_isr reads C, which acknowledges, before it takes the lock.            *)
Interrupt ==
    /\ irq /\ pc["isr"] = 0
    /\ irq' = FALSE
    /\ Step("isr")
    /\ UNCHANGED <<reg, now, addr, lock, callback, out, got, af, call, called, shown,
                   mixed>>
ReadC ==
    /\ pc["isr"] = 1 /\ Data("isr") /\ Step("isr")
    /\ af' = (reg[addr] # 0)
    /\ reg' = [reg EXCEPT !.C = IF addr = "C" THEN 0 ELSE @]
    /\ UNCHANGED <<now, addr, irq, lock, callback, got, call, called, shown>>
CallBack ==
    /\ pc["isr"] = 2 /\ lock = NULL
    /\ called' = IF af /\ callback # NULL THEN called \cup {callback} ELSE called
    /\ pc' = [pc EXCEPT !["isr"] = 0]
    /\ af' = FALSE
    /\ UNCHANGED <<reg, now, addr, irq, lock, callback, out, got, call, shown, mixed>>

\* Bound: once an access has used an address another access wrote, what has
\* begun goes on, and interrupts are handled, but no second, read or call begins.
Next ==
    \/ ~mixed /\ (Announce \/ ClockRead)
    \/ ~mixed /\ \E t \in 1..MaxTime : AlarmCall("set", t)
    \/ ~mixed /\ AlarmCall("disable", 0)
    \/ UpdateSeconds \/ Update
    \/ \E a \in Actor : Address(a)
    \/ ReadUip \/ ReadTime \/ Compare \/ ReadReturns
    \/ AlarmAccess \/ AlarmReturns
    \/ Interrupt \/ ReadC \/ CallBack

Spec == Init /\ [][Next]_vars

-----------------------------------------------------------------------------
\* What clock_read returns is a time the clock showed (or was about to show)
\* during the call, however the updates fall between the reads, unless another
\* access came between a cmos_read's two steps (cmos_isr and the alarm calls may:
\* no lock covers the port pair).
TimeWasShown ==
    pc["read"] = 7 /\ Same /\ ~mixed => <<got[3], got[4]>> \in shown

\* Once clock_disable_alarm has returned no callback is called until the next
\* alarm is set, although cmos_isr may have seen the alarm's flag before: the
\* callback is looked up under the lock.
NoCallAfterDisable == call.op = "disable" /\ pc["alarm"] = 0 => called = {}
=============================================================================
