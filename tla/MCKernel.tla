------------------------------ MODULE MCKernel ------------------------------
(* The components of the kernel, for TLC: the initial state chooses one of    *)
(* them, which then runs alone.  KTlb has its own variables; the state of any *)
(* other component is in x1 .. x14.                                           *)
EXTENDS Integers, TLC, KTlb

CONSTANTS k1, k2, k3, k4,    \* tasks, contexts, and nodes of a priority queue
          k0                 \* the idle task

VARIABLES part, x1, x2, x3, x4, x5, x6, x7, x8, x9, x10, x11, x12, x13, x14

Last14 == <<part, x14>>
Last12 == <<x12, x13, Last14>>
Last9 == <<x9, x10, x11, Last12>>
Last6 == <<x6, x7, x8, Last9>>
Last5 == <<x5, Last6>>
All == <<x1, x2, x3, x4, Last5>>

\* KTlb: two mappers on different cpus and a task that only sends requests.
TaskCpu == [k \in {k1, k2, k3} |-> IF k = k3 THEN 1 ELSE 0]

-----------------------------------------------------------------------------
\* Two tasks and the idle one, two priorities, two criticalities.
Sched == INSTANCE KSched WITH
    Task <- {k1, k2}, Worker <- k0, MaxPrio <- 1, MaxCrit <- 1, MaxTicks <- 1, MaxNest <- 1,
    state <- x1, prio <- x2, crit <- x3, bins <- x4, level <- x5, current <- x6,
    count <- x7, req <- x8, early <- x9, irq <- x10, pc <- x11, pending <- x12,
    chain <- x13, late <- x14

\* Three tasks that share one semaphore, or one mutex.
Sync(Object, MaxCount) == INSTANCE KSync WITH
    Task <- {k1, k2, k3}, MaxDepth <- 2,
    sem <- x1, holder <- x2, depth <- x3, last <- x4, wq <- x5, chain <- x6,
    timedOut <- x7, prio <- x8, call <- x9, leaked <- x10, nested <- x11

\* Arenas of four pages of two units; the last range is too small for a page.
Pages == INSTANCE Buddy WITH
    Task <- {k1}, Arenas <- 2, MaxOrder <- 2, PageSize <- 2, Sizes <- {1, 2, 3, 5},
    Memory <- {[phys |-> 3, size |-> 17], [phys |-> 21, size |-> 6],
               [phys |-> 30, size |-> 1]},
    arena <- x1, live <- x2, ranges <- x3, req <- x4

\* A heap of 28 units with headers of four.
Heap == INSTANCE Tlsf WITH
    HeapEnd <- 28, Header <- 4, BlockMin <- 2, SlShift <- 1, FlShift <- 4,
    Sizes <- {1, 3, 5, 6}, Alignments <- {1, 8}, AlignedHeader <- 2,
    blk <- x1, bins <- x2, live <- x3, grown <- x4, broken <- x5

\* A queue as an initializer makes it, and one of waitq_init.
Pq == INSTANCE FlatPq WITH
    Node <- {k1, k2, k3, k4}, Priority <- {1, 2}, Limits <- {0, 14},
    t <- x1, q <- x2, prio <- x3, mixed <- x4, missed <- x5

\* A task k1 and an interrupt handler k2 on one cpu: the task has a plain lock
\* in common with another cpu, and the handler a mcslock_isr with a third.
Locks == INSTANCE McsLock WITH
    Ctx <- {k1, k2, k3, k4}, Vcpu <- 1..3, Lock <- {1, 2},
    VcpuOf <- k1 :> 1 @@ k2 :> 1 @@ k3 :> 2 @@ k4 :> 3,
    LockOf <- k1 :> 1 @@ k2 :> 2 @@ k3 :> 1 @@ k4 :> 2,
    Isr <- {k2}, PvLocks <- {}, IsrLocks <- {2},
    tail <- x1, next <- x2, state <- x3, prev <- x4, succ <- x5, pc <- x6, vstate <- x7,
    pvSpin <- x8, intr <- x9, saved <- x10, flags <- x11, param <- x12, queue <- x13

\* A minute of two seconds; two seconds pass, and there are two calls.
Clock == INSTANCE Cmos WITH
    Second <- 2, MaxTime <- 2, MaxCalls <- 2,
    reg <- x1, now <- x2, addr <- x3, irq <- x4, lock <- x5, callback <- x6, pc <- x7,
    out <- x8, got <- x9, af <- x10, call <- x11, called <- x12, shown <- x13,
    mixed <- x14

Boot == INSTANCE KBoot WITH
    Ap <- {1, 2}, Top <- 16, KernelEnd <- 4,
    build <- x1, first <- x2, pc <- x3, range <- x4, blob <- x5, rsp <- x6, next <- x7,
    ap <- x8, stack <- x9, on <- x10, iface <- x11, left <- x12, step <- x13, res <- x14

-----------------------------------------------------------------------------
Off14 == x14 = NULL
Off12 == x12 = NULL /\ x13 = NULL /\ Off14
Off9 == x9 = NULL /\ x10 = NULL /\ x11 = NULL /\ Off12
Off6 == x6 = NULL /\ x7 = NULL /\ x8 = NULL /\ Off9
Off5 == x5 = NULL /\ Off6
Off1 == x1 = NULL /\ x2 = NULL /\ x3 = NULL /\ x4 = NULL /\ Off5

Choose ==
    \/ part = "sched" /\ Sched!Init
    \/ part = "sem" /\ Sync({"sem"}, 2)!Init /\ Off12
    \/ part = "mutex" /\ Sync({"mutex"}, 1)!Init /\ Off12
    \/ part = "tlb" /\ Off1
    \/ part = "pages" /\ Pages!Init /\ Off5
    \/ part = "heap" /\ Heap!Init /\ Off6
    \/ part = "pq" /\ Pq!Init /\ Off6
    \/ part = "locks" /\ Locks!Init /\ Off14
    \/ part = "clock" /\ Clock!Init
    \/ part = "boot" /\ Boot!Init

Step ==
    \/ part = "sched" /\ Sched!Next /\ UNCHANGED part
    \/ part = "sem" /\ Sync({"sem"}, 2)!Next /\ UNCHANGED Last12
    \/ part = "mutex" /\ Sync({"mutex"}, 1)!Next /\ UNCHANGED Last12
    \/ part = "pages" /\ Pages!Next /\ UNCHANGED Last5
    \/ part = "heap" /\ Heap!Next /\ UNCHANGED Last6
    \/ part = "pq" /\ Pq!Next /\ UNCHANGED Last6
    \/ part = "locks" /\ Locks!Next /\ UNCHANGED Last14
    \/ part = "clock" /\ Clock!Next /\ UNCHANGED part
    \/ part = "boot" /\ Boot!Next /\ UNCHANGED part

KInit == Init /\ Choose
KNext ==
    \/ part = "tlb" /\ Next /\ UNCHANGED All
    \/ Step /\ UNCHANGED vars

KSpec == KInit /\ [][KNext]_<<vars, All>>

-----------------------------------------------------------------------------
\* A task is in the run queues exactly while it is ready, a yield request made
\* while preemption was disabled is answered when it is enabled, and
\* preempted_early skips no tick but the one pending (sched.c, sched_yield.c; see
\* KSched).
RequestsAnswered ==
    part = "sched" => /\ Sched!TypeOK /\ Sched!ReadyIsQueued
                      /\ Sched!RequestsAnswered /\ Sched!EarlySkipsOneTick

\* A tick leaves the cpu to a task that no ready task should displace (see KSched).
TickPicksTheBest == [][part = "sched" => Sched!TickStep]_All

\* No wakeup of a semaphore is lost, a mutex is handed to a task that takes it,
\* and a timeout and a wakeup that race take the task off both queues once
\* (semaphore.c, mutex.c, waitq.c; see KSync).
NoLostWakeup ==
    /\ part = "sem" => /\ Sync({"sem"}, 2)!TypeOK /\ Sync({"sem"}, 2)!NoLostWakeup
                       /\ Sync({"sem"}, 2)!WaitsAgree
    /\ part = "mutex" => /\ Sync({"mutex"}, 1)!TypeOK /\ Sync({"mutex"}, 1)!WaitsAgree
                         /\ Sync({"mutex"}, 1)!HolderTakesIt

\* A task that has left the mutex has its own priority again, unless it took the
\* mutex while it held it (mutex.c; see KSync).
PriorityRestoredUnnested == part = "mutex" => Sync({"mutex"}, 1)!PriorityRestoredUnnested

\* mcs_unlock_isr_restore leaves the interrupt flag as mcs_lock_isr_save found it,
\* while handlers come and go (mcslock.c; see McsLock).
InterruptsRestored == [][part = "locks" => Locks!RestoreStep]_All

\* Both allocators account for all of their memory: no page or block is given
\* twice or lost.  Free pages are merged and can be found.  The heap is claimed
\* to be whole until a block with a stale flag is freed (see Buddy, Tlsf).
MemoryIsConserved ==
    /\ part = "pages" => Pages!PagesAreConserved /\ Pages!FreeIsFound
    /\ part = "heap" => Heap!BlocksTile /\ Heap!LiveIsKept

\* The priority queue loses no node but those that a queue of waitq_init has no
\* path for; it is a fifo of nodes of one priority, each of which can be taken
\* out (see FlatPq).
NothingIsLost ==
    part = "pq" => Pq!NothingIsLost /\ Pq!FifoOfEquals /\ Pq!FoundIfEqual

\* clock_read returns a time the clock showed, and no callback is called once
\* clock_disable_alarm has returned (cmos.c, clock.c; see Cmos).
TimeWasShown == part = "clock" => Clock!TimeWasShown /\ Clock!NoCallAfterDisable

\* The processors start on stacks of their own, memory is handed on without the
\* kernel's, a driver has all it needs or leaves nothing behind, and the
\* scheduler's sleepers are served (kmain.c, init.c, the drivers; see KBoot).
DriversAreWhole ==
    part = "boot" => /\ Boot!RangesFit /\ Boot!OwnStacks
                     /\ Boot!DriversAreWhole /\ Boot!SleepIsServed
=============================================================================
