-------------------------------- MODULE KBoot --------------------------------
(* The kernel's boot (__start_twan): memory found by multiboot, the cpus of    *)
(* the MADT woken one after another through one wakeup blob, then the late     *)
(* initcalls: the hpet, the hypervisor, its paravirtual timer and the CMOS     *)
(* clock, each acquiring what it needs step by step and giving it back when a  *)
(* step fails.                                                                 *)
EXTENDS Integers, Sequences, FiniteSetsExt

CONSTANTS Ap,          \* the processors other than the bsp, naturals above 0
          Top,         \* physical addresses 0 .. Top-1, see InitRange
          KernelEnd,   \* __kernel_end
          NULL

VARIABLES
    build,     \* CONFIG_SUBSYS_TWANVISOR and CONFIG_KDBG_KDYNAMIC_ASSERT
    first,     \* the bsp is processor 0
    pc,        \* where __start_twan is
    range,     \* the memory range being handed on, and what is left of it
    blob,      \* what lies at WAKEUP_ADDR: the blob, or what was there before
    rsp,       \* ap_rsp in the blob
    next,      \* the processors still to be woken
    ap,        \* per processor: how far its start is
    stack,     \* per processor: the stack it runs on
    on,        \* twanvisor_on
    iface,     \* who serves counter, clock, sleep and timeout
    left,      \* late initcalls that have not begun
    step,      \* the step the driver being initialised is at
    res        \* per driver: what it has acquired

vars == <<build, first, pc, range, blob, rsp, next, ap, stack, on, iface, left,
          step, res>>
aps == <<blob, rsp, next, ap, stack>>
drivers == <<on, iface, left, step, res>>

Driver == {"hpet", "twanvisor", "pv", "cmos"}
Order == [hpet |-> 0, twanvisor |-> 2, pv |-> 3, cmos |-> 3]
NoRange == [start |-> 0, size |-> 0, got |-> {}]

\* Another initcall of the board may have installed a clock, a sleep or a
\* timeout interface.
Init ==
    /\ build \in [twanvisor : BOOLEAN, asserts : BOOLEAN]
    /\ first \in BOOLEAN
    /\ pc = "early" /\ range = NoRange
    /\ blob = "old" /\ rsp = NULL /\ next = {}
    /\ ap = [a \in Ap |-> "off"]
    /\ stack = [a \in Ap |-> NULL]
    /\ on = FALSE
    /\ iface \in [counter : {NULL}, clock : {NULL, "other"}, sleep : {NULL, "other"},
                  timeout : {NULL, "other"}]
    /\ left = IF build.twanvisor THEN Driver ELSE {"hpet", "cmos"}
    /\ step = [d |-> NULL, at |-> 0]
    /\ res = [d \in Driver |-> {}]

Boot(from, to) == pc = from /\ pc' = to

-----------------------------------------------------------------------------
(* Early initcalls and multiboot.                                             *)

\* rdtsc_init; without a vma interface the kernel panics.
EarlyInitcalls ==
    /\ \E to \in {"multiboot", "panic"} : Boot("early", to)
    /\ \E c \in {NULL, "rdtsc"} : iface' = [iface EXCEPT !.counter = c]
    /\ UNCHANGED <<build, first, range, aps, on, left, step, res>>

\* What init_range hands to pma_init_range of an available range: what the
\* kernel occupies is cut off, and a range that wraps round is cut down.
Addresses(start, size) == {(start + i) % Top : i \in 0..(size - 1)}
InitRange(start, size) ==
    LET cut == KernelEnd - start
        low == start < KernelEnd
        s1 == IF low THEN KernelEnd ELSE start
        z1 == IF low THEN size - cut ELSE size
        end == (s1 + z1) % Top
        over == (Top - 1) - end
        z2 == IF end < KernelEnd THEN z1 - over ELSE z1
    IN IF z1 <= 0 \/ z2 <= 0 THEN {} ELSE Addresses(s1, z2)

ParseMultiboot ==
    /\ Boot("multiboot", "acpi")
    /\ \E s \in 0..(Top - 1), z \in 1..(Top - 1) :
          range' = [start |-> s, size |-> z, got |-> InitRange(s, z)]
    /\ UNCHANGED <<build, first, aps, drivers>>

\* The MADT says which processors are enabled, the bsp among them; a table that
\* is missing, too long or without the bsp ends in a panic.
ParseMadt ==
    /\ \/ Boot("acpi", "blob") /\ next' \in SUBSET Ap
       \/ Boot("acpi", "panic") /\ UNCHANGED next
    /\ range' = NoRange
    /\ UNCHANGED <<build, first, blob, rsp, ap, stack, drivers>>

CopyBlob ==
    /\ Boot("blob", "wake")
    /\ blob' = "wakeup"
    /\ UNCHANGED <<build, first, range, rsp, next, ap, stack, drivers>>

-----------------------------------------------------------------------------
(* Waking the other processors.                                               *)

\* INIT, and STARTUP twice: the second finds a processor that runs already.
LapicWakeupAp(a) == ap' = [ap EXCEPT ![a] = "started"]

WakeupAp ==
    LET a == Min(next) IN
    /\ next # {} /\ Boot("wake", "spin")
    /\ rsp' = a
    /\ LapicWakeupAp(a)
    /\ UNCHANGED <<build, first, range, blob, next, stack, drivers>>

SpinUntilActive ==
    /\ Boot("spin", "wake")
    /\ ap[Min(next)] = "active"
    /\ next' = next \ {Min(next)}
    /\ UNCHANGED <<build, first, range, blob, rsp, ap, stack, drivers>>

\* The blob's own code: the stack is read from it.
Wakeup(a) ==
    /\ ap[a] = "started" /\ blob = "wakeup"
    /\ stack' = [stack EXCEPT ![a] = rsp]
    /\ ap' = [ap EXCEPT ![a] = "setup"]
    /\ UNCHANGED <<build, first, pc, range, blob, rsp, next, drivers>>

\* __setup_ap: a processor that does not find its lapic id halts, and the bsp
\* waits for it for ever.
SetupAp(a) ==
    /\ ap[a] = "setup"
    /\ \E to \in {"active", "lost"} : ap' = [ap EXCEPT ![a] = to]
    /\ UNCHANGED <<build, first, pc, range, blob, rsp, next, stack, drivers>>

RestoreBlob ==
    /\ next = {} /\ Boot("wake", "ioapic")
    /\ blob' = "old"
    /\ UNCHANGED <<build, first, range, rsp, next, ap, stack, drivers>>

\* The overrides and the NMI sources of the MADT: see MapIrq for what is left.
IoapicConfig ==
    /\ \E to \in {"late", "panic"} : Boot("ioapic", to)
    /\ UNCHANGED <<build, first, range, aps, drivers>>

-----------------------------------------------------------------------------
(* The late initcalls, by their order.                                        *)

\* What a driver acquires one after another: its handler (register_isr), its
\* line (map_irq), the vector's subscription, the timer, the interfaces.
Steps(d) ==
    CASE d = "hpet" -> IF build.twanvisor THEN <<"counter">>
                       ELSE <<"counter", "isr", "line", "iface", "timer">>
      [] d = "pv" -> <<"isr", "timer", "iface">>
      [] d = "cmos" -> IF on THEN <<"isr", "line", "sub", "iface">>
                       ELSE <<"isr", "line", "iface">>
      [] d = "twanvisor" -> <<"start">>
\* What it gives back when a step fails; a mutant leaves the line.
UndoIsr(d, s) == IF s \in {"line", "sub", "iface"} THEN {"isr"} ELSE {}
Undo(d, s) ==
    CASE s \in {"isr", "counter", "start", "timer"} -> {}
      [] s = "line" -> {"isr"}
      [] s = "sub" -> {"line", "isr"}
      \* vunsubscribe_ipi, which another processor than the bsp runs, subscribes
      [] s = "iface" -> IF first THEN {"line", "isr", "sub", "timer"}
                        ELSE {"line", "isr", "timer"}

Begin(d) ==
    /\ pc = "late" /\ step.d = NULL /\ d \in left
    /\ \A e \in left : Order[d] <= Order[e]
    /\ left' = left \ {d}
    /\ step' = IF d = "pv" /\ ~on THEN step ELSE [d |-> d, at |-> 1]
    /\ UNCHANGED <<build, first, pc, range, aps, on, iface, res>>

At(d, s) == step.d = d /\ Steps(d)[step.at] = s
Advance(d) ==
    step' = IF step.at = Len(Steps(d)) THEN [d |-> NULL, at |-> 0]
            ELSE [step EXCEPT !.at = @ + 1]
Fail(d, s) ==
    /\ step' = [d |-> NULL, at |-> 0]
    /\ res' = [res EXCEPT ![d] = @ \ Undo(d, s)]

\* counter_init, clock_init, sleep_init and timeout_init: the first one wins.
Install(names, d) ==
    iface' = [n \in DOMAIN iface |->
                 IF n \in names /\ iface[n] = NULL THEN d ELSE iface[n]]
Names(d) == IF d = "cmos" THEN {"clock"} ELSE {"sleep", "timeout"}

Acquire(d, s) ==
    /\ At(d, s)
    /\ Advance(d)
    /\ res' = [res EXCEPT ![d] = @ \cup {s}]
    /\ UNCHANGED <<build, first, pc, range, aps, on, iface, left>>
Refused(d, s) ==
    /\ At(d, s)
    /\ Fail(d, s)
    /\ UNCHANGED <<build, first, pc, range, aps, on, iface, left>>

\* A vector that has a handler is refused, a line that no ioapic serves or that
\* the firmware uses, a vector the hypervisor keeps for itself.
RegisterIsr(d) == Acquire(d, "isr") \/ Refused(d, "isr")
MapIrq(d) == Acquire(d, "line") \/ Refused(d, "line")
Subscribe(d) == Acquire(d, "sub") \/ Refused(d, "sub")

\* The paravirtual driver arms its timer inside KDYNAMIC_ASSERT: nothing is done
\* without assertions, and a failure is only reported.
ArmTimer(d) ==
    /\ At(d, "timer") /\ Advance(d)
    /\ \/ /\ d = "hpet" \/ build.asserts
          /\ res' = [res EXCEPT ![d] = @ \cup {"timer"}]
       \/ d = "pv" /\ UNCHANGED res
    /\ UNCHANGED <<build, first, pc, range, aps, on, iface, left>>

\* The interfaces: one of them being free is enough.
InstallIface(d) ==
    /\ At(d, "iface")
    /\ IF \E n \in Names(d) : iface[n] = NULL
       THEN /\ Advance(d) /\ Install(Names(d), d)
            /\ res' = [res EXCEPT ![d] = @ \cup {"iface"}]
       ELSE Fail(d, "iface") /\ UNCHANGED iface
    /\ UNCHANGED <<build, first, pc, range, aps, on, left>>

\* hpet_init: the counter, if it counts and none is there, and then the timer,
\* if there is one to use.
HpetCounter ==
    /\ At("hpet", "counter")
    /\ \/ Install({"counter"}, "hpet") \/ UNCHANGED iface
    /\ Advance("hpet") \/ step' = [d |-> NULL, at |-> 0]
    /\ UNCHANGED <<build, first, pc, range, aps, on, left, res>>

\* __start_twanvisor, see VBoot.
StartTwanvisor ==
    /\ At("twanvisor", "start") /\ Advance("twanvisor")
    /\ on' \in BOOLEAN
    /\ UNCHANGED <<build, first, pc, range, aps, iface, left, res>>

\* The interfaces the scheduler needs, or a panic.
SchedulerInit ==
    /\ left = {} /\ step.d = NULL
    /\ Boot("late", IF \A n \in {"counter", "sleep", "timeout"} : iface[n] # NULL
                    THEN "scheduler" ELSE "panic")
    /\ UNCHANGED <<build, first, range, aps, drivers>>

Next ==
    \/ EarlyInitcalls \/ ParseMultiboot \/ ParseMadt \/ CopyBlob
    \/ WakeupAp \/ SpinUntilActive \/ RestoreBlob \/ IoapicConfig
    \/ \E a \in Ap : Wakeup(a) \/ SetupAp(a)
    \/ \E d \in Driver : \/ Begin(d) \/ RegisterIsr(d) \/ MapIrq(d) \/ Subscribe(d)
                         \/ ArmTimer(d) \/ InstallIface(d)
    \/ HpetCounter \/ StartTwanvisor \/ SchedulerInit

Spec == Init /\ [][Next]_vars

-----------------------------------------------------------------------------
\* What init_range hands on is part of the range that was available, without the
\* addresses below __kernel_end, wherever it begins, and also if it wraps round,
\* as long as it ends below __kernel_end then (init_range tells a wrap by that).
RangesFit ==
    range.start + range.size < Top + KernelEnd =>
      /\ range.got \subseteq Addresses(range.start, range.size)
      /\ \A x \in range.got : x >= KernelEnd

\* No two processors run on one stack, although all of them read theirs from the
\* same place in the blob, and none is in the blob when it is taken away.
OwnStacks ==
    /\ \A a, b \in Ap : a # b /\ stack[a] # NULL => stack[a] # stack[b]
    /\ \A a \in Ap : stack[a] \in {NULL, a} /\ (ap[a] = "started" => blob = "wakeup")

\* A driver whose initialisation is over has all that it needs, or nothing is
\* left of it: no line is routed to a handler that is gone.  The two exceptions:
\* the timer of the paravirtual driver, which is armed inside an assertion, and a
\* subscription that is not withdrawn where the bsp is not processor 0.
DriversAreWhole ==
    \A d \in Driver \ left : step.d # d =>
        LET kept == res[d] \ {"timer"} IN
        \/ "iface" \in kept
           /\ {"isr"} \cup (IF d = "pv" THEN {} ELSE {"line"}) \subseteq kept
           /\ (d = "cmos" /\ on => "sub" \in kept)
        \/ kept = {}
        \/ kept = {"sub"} /\ ~first

\* Once the scheduler is started its sleepers are woken: whoever serves sleep has
\* a handler, and a timer unless the assertion that arms it is compiled out or
\* failed.
SleepIsServed ==
    pc = "scheduler" => \A d \in Driver : iface.sleep = d =>
        "isr" \in res[d] /\ (d = "hpet" => "timer" \in res[d])
=============================================================================
