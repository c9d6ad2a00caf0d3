# TLA+ models of TwanRTOS and Twanvisor

Twan is a real-time kernel (TwanRTOS, `src/src/kernel`, `src/src/subsys`) and a
partitioning hypervisor (Twanvisor, `src/src/subsys/twanvisor`) that can run it
as its root guest. This directory models the parts whose correctness depends on
the order in which cpus, vcpus, tasks and interrupt handlers take their steps,
and the algorithms they rest on. `PROJECT.json` maps every definition to the
lines it translates and lists the runs, mutants, theorems, findings and hazards.

## The system and its parts

| part | what is hard | models | checked by | proved in |
|---|---|---|---|---|
| MCS locks (`subsys/sync/mcslock.c`), with vcpus that block while they wait | lock-free hand-over, kick before pause, handlers on top of waiters | `McsLock`, `FifoLock` | `mcs_*`, `kernel` | `McsLockProofs` |
| rw locks (`subsys/sync/rwlock.c`) | colours and wrap-around, phase fairness, one flags field for all | `RwLock` | `rwlock*` | `RwLockProofs` |
| partitions and vcpus (`twanvisor/vportal`, `twanvisor/vsched`) | termination by several actors at once, counting, stale flags | `VLifecycle` | `lifecycle*`, `hypervisor` | `VLifecycleProofs` |
| TLB shootdown between vcpus (`visr_index.c`, `vemulate_utils.c`) | an exit acknowledges whatever is queued at its cpu | `VTlb` | `hypervisor`, `lifecycle_live` | `VPartitionProofs` |
| virtual interrupts (`vemulate_utils.c`, `venter.c`, `visr_dispatcher.c`) | a sender decides from a state the entry is about to change | `VInterrupts` | `hypervisor` | `VInterruptsProofs` |
| hypervisor scheduler (`vsched*.c`) | one vcpu linked in several queues, idle kick, end of a slice | `VSched`, `Dq` | `hypervisor` | `VSchedProofs` (slices) |
| virtual timers (`vcalls.c`, `vexit.c`) | one preemption timer for all | `VTimer`, `DeltaChain` | `hypervisor` | `VSchedProofs` |
| routes (`vemulate_utils.c`, `vrecovery.c`) | two partitions at once, reuse of a vid | `VRoutes` | `hypervisor` | `VPartitionProofs` |
| hypercalls (`vcalls.c`, `vexit.c`) | preemption enabled once on each path; permission read, then used | `VCalls` | `hypervisor` | `VSchedProofs` |
| exits that emulate (`vexit.c`, `vtrap.c`, `vinfo.c`) | the loaded vmcs after a preemption | `VEmulate` | `hypervisor` | `VPartitionProofs` |
| hypervisor boot and creation (`vmain.c`, `vcreate.c`) | cpus that differ or fail, concurrent creations | `VBoot` | `hypervisor` | `VPartitionProofs` |
| kernel scheduler (`kernel/sched`) | tick against yield, wakeup from other cpus | `KSched` | `kernel` | |
| semaphores, mutexes, timeouts (`subsys/sync`, `waitq.c`) | timeout against wakeup, priority ceilings | `KSync` | `kernel`, `mutex_nested` | |
| kernel IPIs and page windows (`kapi.c`, `tlb.c`, `paging.c`) | one slot per pair of cpus; a window reused while a flush is under way | `KTlb` | `kernel` | `KTlbProofs` |
| wait queue's AVL tree (`lib/dsa`) | equal keys, rotations | `FlatPq` | `kernel`, `waitq_highest` | |
| allocators (`buddy_alloc.c`, `tlsf_alloc.c`) | split, coalesce, aligned blocks | `Buddy`, `Tlsf` | `kernel` | |
| real-time clock (`cmos.c`) | two-step register access, the device goes on | `Cmos` | `kernel` | |
| kernel boot and drivers (`kmain.c`, `init.c`, `initcalls`) | a step of several fails | `KBoot` | `kernel` | |

How they interact: every hypervisor structure is guarded by an MCS isr lock
(`vsync.c`), the partition table by an rw isr lock plus one MCS lock per entry;
guests use the paravirtual MCS lock, whose pause and kick are vcalls that go
through the partition table into the hypervisor's scheduler. So the locks come
first, and the other modules take them as atomic steps: a step is what the code
does between taking and dropping a lock, or between two of its visible accesses
where it holds none. `RwLock`'s phase fairness is used once more in `VRoutes`,
where a reader waits for a writer that came before it.

## Modules

**`FifoLock`** is what a queue lock promises: a queue per lock, contexts enter
at its head.

**`McsLock`** models `mcslock.c` at the grain of its atomic accesses. A context
is a flow of control (a task, or a handler on the same vcpu) and owns one node.
`Xchg`, `Link`, `Spin`, `Query`, `TryPause`, `Pause` are `__pv_mcs_lock`;
`ReadNext`, `CasTail`, `WaitNext`, `Grant`, `Handoff`, `Kick` are
`__pv_mcs_unlock`; `SaveFlags` and `Restore` are the isr wrappers; `PauseVcpu`
and `KickVcpu` are the hypervisor's side (`vsched_put_paused`,
`__vemu_pv_spin_kick`). `Preempt` and `Dispatch` take the cpu away at any
point. A plain lock is one that is not in `PvLocks`. The iteration threshold
before `Query` is abstracted: a waiter may ask at any iteration. The trylocks are
left out: they hand a null pointer to the cmpxchg and nothing calls them.

**`RwLock`** models `rwlock.c` with one step per atomic access. `rin` is split
in its reader count and its writer bits; the counters wrap at `ReaderMod` and
`TicketMod`, and there are fewer users than either (`CtxAssumption`; the code
has 24 and 32 bits for `NUM_CPUS` cpus).

**`VLifecycle`** models one partition. Actors are its vcpus, the root vcpu that
creates it and root vcpus that destroy it. `Place`, `Push` are
`vpartition_push`; `Dispatch`, `Reschedule`, `Pause`, `SpinPause`, `Unpause`,
`Kick` the scheduler; `Enter`, `Exit`, `ExitCheck` are `__venter` and
`vexit_dispatcher`; `Get`, `Visit`, `Put`, `Count`, `Compare` are the common
course of `vteardown` and `vfailure_recover`; `Recover` is
`vdo_transitioning_recover`; `Finalize` and `Notify` are
`vdo_finalize_teardown`. `queued` is where a scheduler may find a vcpu: its run
queue under MCQS, some frame under MCFS (`FrameSet`, `FrameUnset`). A pop of MCQS
takes what is in the queue and does not look at its state, one of MCFS does
(`Poppable`); `vdo_transitioning_recover` leaves a vcpu its frames, and the model
does too. `claims` and `counted` are history variables. A failed
assertion stops the actor (`PanicOnBug`) or is only logged, as
`CONFIG_VDBG_PANIC_ON_BUG` says; a null pointer stops it in both builds.

**`VTlb`** models `vemu_tlb_invalidate`: the requester marks every vcpu of the
target partition (`Mark`, one scheduler lock each), queues itself for an ack of
the cpus that run one, and waits (`Done`). An exit acknowledges what is queued at
its cpu (`Exit`, `Ack`), the entry after it invalidates (`Enter`, `Resume`).
`asked`, `cached` and `returned` are history variables: the requests since a vcpu
last executed its invalidation, those since it lost what it had cached, and those
that have returned. `cached` is cleared by an entry without a vpid, and with one by
an `invvpid` of the vpid in the VMCS: `Resume` invalidates
`vpid.fields.vpid` (`VpidField`, `venter.c:72`), the VMCS holds `vpid.val`
(`VpidVal`, `vcreate.c:613`).

**`VInterrupts`** models how an interrupt becomes pending (a vipi, a device the
vcpu subscribed to, its own request), how `__venter` picks the event of an entry,
and how a running guest is made to exit. **`VSched`** models the scheduler of one
cpu with both policies: `MCQS`, whose queues are kept at the level of their links
(`Dq`), and `MCFS` with its frames. `strays` counts the pops of a queue above the
lowest, `silent` holds the vcpus made ready in a frame without a kick.
**`VTimer`** models the virtual timers of a vcpu over `DeltaChain`. **`VRoutes`**
models the maps of senders and receivers in two partitions, set by `VSET_ROUTE`
and unwound by a teardown. **`VCalls`** models the dispatcher of hypercalls, the
checks of every handler, and the handlers of the criticality levels in full;
`Emulate` stands for what all other handlers do, which is in the module of their
component. **`VEmulate`** models two vcpus on a cpu whose instructions exit and
are emulated at the next entry. Its reference for msrs is `MsrFeature`, the
feature an msr belongs to: an access that exits succeeds exactly if cpuid shows
the guest that feature. It is stated apart from the msr lists of `vtrap.c`, and
says nothing of an access that does not exit. **`VBoot`** models the start of the
hypervisor on every cpu and the creation of partitions.

**`KSched`** models one cpu of the kernel: bins by criticality, ticks, yields,
requests to yield, sleep and wakeup. **`KSync`** models a semaphore and a
priority-ceiling mutex, initialised statically, over wait queues with timeouts.
**`KTlb`** models the request slots between cpus, their interrupt, and the mapper
of page windows that flushes every cpu through them. **`FlatPq`**, **`Buddy`** and
**`Tlsf`** are the algorithms of `lib`, called in any order. `FlatPq` has the path
length of a queue as a field: 14 from the initializers, 0 from `waitq_init`, which
clears it (`waitq.c:12`); with 0 `avl_insert` finds no place for a second node,
and `flat_priorityq_insert` hangs it on the memory at address zero (`Low`). `Tlsf`
starts with either value of the flag that `__tlsf_init` leaves to the memory
(`tlsf_alloc.c:239`). **`Cmos`** models the clock, its device and the alarm's
interrupt; **`KBoot`** the memory map, the wakeup of the other cpus and the
initcalls of the drivers.

The `MC*` modules give the constants their values. `MCHypervisor`, `MCKernel` and
`MCLive` hold several components: the initial state chooses one (`part`), which
then runs alone. A component either has its own variables there (the module is
extended) or uses the common `x1, x2, ...` (the module is instantiated with
them); it never shares a behaviour with another.

## Runs

| run | instance | shows |
|---|---|---|
| `mcs_pv` | 3 vcpus, one context each, one pv lock, preemption anywhere | exclusion, live nodes, no lost kick, the hypervisor's assertions, FIFO refinement, no starvation |
| `mcs_nested_kick` | a task, a handler on top of it, two other vcpus; two pv locks | **violated**: two kicks of one vcpu fold into one (`mcslock.md:12`) |
| `rwlock` | 3 cpus, any mix of readers and writers, counters modulo 4 | writer alone, at most one writer overtakes a reader, writer's flag restored, no starvation |
| `rwlock_flags` | the same | **violated**: readers overwrite each other's saved interrupt flag |
| `lifecycle_live` | 3 vcpus on 2 cpus under MCQS, 1 creator, 1 destroyer; a shootdown between 2 vcpus | each vcpu counted once, finalization after all terminated, failing vcpu finds its partition, nobody revived; a teardown ends in the notification; a shootdown returns |
| `lifecycle_once` | 2 vcpus | **violated**: `vdo_finalize_teardown` may run twice |
| `lifecycle_unused` | 2 vcpus | **violated**: root notified while a cpu still uses a vcpu |
| `lifecycle_late_kick` | 2 vcpus, pv spin, assertions logged (the default build) | **violated**: a kick after the teardown's walk finds a terminated vcpu |
| `hypervisor` | the components of `MCHypervisor`, one at a time | `NoInterruptIsMissed`, `SubscribersHear` (`VInterrupts`); `ShootdownIsComplete` (`VTlb`); `TimersOnTime`; `RoutesAreGrants`; `QueuesHoldTheReady`, `SliceEnds` (`VSched`); `EmulatedOnce`; `EnteredAsAsked` (`VBoot`); `LevelsAreGranted` (`VCalls`); `TerminatedForGood` (`VLifecycle` with pv spin under MCQS, and with frames under MCFS) |
| `kernel` | the components of `MCKernel`, one at a time | `RequestsAnswered`, `TickPicksTheBest` (`KSched`); `NoLostWakeup`, `PriorityRestoredUnnested` (`KSync`); `InterruptsRestored` (`McsLock`: a task, a handler on top of it and two other cpus, a plain and an isr lock); `WindowIsFresh` (`KTlb`); `MemoryIsConserved` (`Buddy`, `Tlsf`); `NothingIsLost` (`FlatPq`); `TimeWasShown` (`Cmos`); `DriversAreWhole` (`KBoot`) |
| `mutex_nested` | 2 tasks, a mutex that nests twice | **violated**: the priority that the last unlock restores is the ceiling (`mutex.md:3`) |
| `waitq_highest` | 3 nodes, 3 priorities | **violated**: the next of a wait queue is not one of the highest priority (`mutex.md:3`) |

Exceptions. Some properties leave out a case in which the code does something
else and no comment, test or document says what it should do. Each is in the
property, or in a bound, with its place in the code:

- `NoLostWakeup`: a wait with a timeout that finds nothing in its second round
  gives the wait queue's node back twice and keeps the lock of the timeout chain
  (`waitq.h:81`), for which every later wakeup waits (`leaked`);
- `ShootdownIsComplete`: with a vpid only that the invalidation is executed, not
  what it removes, because `__venter` names another vpid than the VMCS
  (`venter.c:72`, `vcreate.c:613`);
- `QueuesHoldTheReady`, `TerminatedStays`, `TerminatedForGood`: under MCQS the
  queue of the lowest criticality. A pop of a higher one leaves the vcpu linked in
  the others (`vsched_dsa.c:69`), and from there on a vcpu that runs, pauses or has
  terminated may be popped;
- `IdleIsKicked` (in `QueuesHoldTheReady`): under MCFS a vcpu that is already in a
  frame when `vpartition_push` makes it ready sets no kick;
- `PriorityRestoredUnnested`: a nested `mutex_ipcp_lock` (`mutex.c:76`), which
  `mutex_nested` is about;
- `NothingIsLost`: nodes that `avl_remove` does not find behind overwritten keys
  (`avl_tree.h:41`), and those a queue of `waitq_init` has no path for; what
  `avl_remove` writes past the end of a path array of length 0 is not modelled;
- `MemoryIsConserved`: the heap up to the free of a block whose flag is wrong,
  because the block before it grew (`tlsf_alloc.c:408`) or because it is the
  first (`tlsf_alloc.c:239`); `broken` marks that free, and the model ends there;
- `RoutesAreGrants`: the loop over `ipi_senders` that never runs
  (`vrecovery.c:78`), for VIPI routes;
- `EmulatedOnce`: protection keys and moves from rsp (`vexit.c:460`,
  `vexit.c:414`);
- `SliceEnds`: a slice given to a vcpu inside a handler (`vemulate_utils.c:391`);
- `RequestsAnswered`: requests to yield made inside the last instructions that
  answer them (`sched_yield.c:17`).

Bounds. Three contexts give an MCS queue a holder, a waiter that has linked and
one that has not, which is every role the algorithm has. For the rw lock three
users suffice for a writer, a waiting reader and a second writer; modulo 4 is the
smallest even modulus at which counts of three users stay distinct, and it
makes every counter wrap. `passed`, the writers a waiting reader has seen, is
capped at 2, one past what the property allows. For the life cycle and the
shootdown three vcpus on two cpus is the smallest instance in which two share a
cpu while a third runs beside them. For these the proofs cover any number. The
other instances are in the comments of `MCHypervisor` and `MCKernel`: two levels
of two vectors and the NMI; three timers of up to three ticks, so that one is
before, between or behind others; two partitions beside root, so that a vid is
used again while another partition holds a route to it; two vcpus with two
criticalities or two frames; two tasks beside the idle one with two priorities
and two criticalities; three tasks on one semaphore or mutex; two windows, two
mappers on the two cpus and a task that sends requests nobody waits for (proved
for any number); four nodes in the tree, which takes each rotation; arenas of
four pages; a heap of up to five blocks.
`VSched` follows MCQS for `MaxStrays` pops of a queue above the lowest: one with
slices, two without (the part `strays`), so that what the first leaves behind is
pushed, popped and torn down once more. `KSync` bounds the count and the nesting,
`KSched` the ticks of a sleep, `Cmos` the time that passes; after a read of the
clock that mixes two times `Cmos` goes on with the calls under way and begins no
other. `FlatPq` and `Tlsf` stop where a node or a flag is lost.

Deadlock is checked for the locks. Elsewhere it is not: in the life cycle a
failed assertion stops the machine and a partition that is gone has nothing left
to do; `VRoutes` reaches the deadlock of the hazard at `vemulate_utils.c:483`;
`VBoot`, `KBoot` and `Cmos` come to an end.

Fairness. `McsLock`: a vcpu that is ready is dispatched again (the hypervisor's
queues are round robin), and a context takes a step if it is able to again and
again (strong fairness, since preemption may interrupt it any number of times).
No context need ask for a lock. `RwLock`: contexts run with interrupts off on
cpus of their own, so weak fairness of each one's next step. `VLifecycle`: the
hypervisor's own code goes on (weak fairness of entry, exit and push); steps of
a teardown that need the table are strongly fair, because its locks serve in
order of arrival, which `mcs_pv` and `rwlock` show. A guest need not exit by
itself, pause, fail or be dispatched; an ipi makes a running one exit. `VTlb`: the
hypervisor's code goes on, a guest with a pending ipi exits, a ready vcpu is
dispatched, and a requester that waits looks at the acks again and again.

## Proofs

Every proof is for all values of the constants that satisfy the named
assumptions of the component's module.

`McsLockProofs` begins with lemmas about the queue as a sequence and as a linked
list, and proves that `QueueInv` is inductive. Mutual exclusion alone is
not: it needs that the linked nodes spell out the history queue, that `tail` is
its last element, that only the head is past its wait, and that a node is
`UNLOCKED` for at most the context that now is the head. From it follow
`TypeCorrect`, `MutualExclusionHolds`, `NodesAliveHolds`,
`InterruptsAreRestored` and the refinement `ImplementsFifoLock`, for any sets of
contexts, vcpus and locks that satisfy `ConstantsAssumption` and
`LockDiscipline` (contexts of one vcpu use different locks, as the isr locks
ensure).

The second half of `McsLockProofs` pairs pauses with kicks: each context that has
committed to blocking has at most one kick, sent, coming or remembered. This holds
where each vcpu runs one context (`OneContextPerVcpu`), and `mcs_nested_kick`
shows that it fails otherwise.

`RwLockProofs` proves `IInv` inductive for any finite number of users below the
ranges of the counters (`ModAssumption`, `CtxAssumption`). That a writer is alone
follows only together with the arithmetic of the wrap-around: the tickets in use
are distinct and lie between `win` and `wout` going round (`TicketInv`, stated
with the distance `Ahead`); the writer bits in `rin` are those of the writer whose
turn it is (`MarkInv`); `rin` and `rout` differ by the number of readers inside,
and a waiting writer's copy of `rin` by those it still waits for (`CountInv`, which
counts with the cardinality lemmas `Joins` and `Leaves`); a reader waits on a mark
that is still there or has gone (`WaitInv`). `WriterIsAlone`,
`ReadersWaitForOneWriter` and `WriterFlagsRestored` follow from it with
`AloneInv`, `PassedInv` and `FlagInv`.

`VLifecycleProofs` proves `LInv` inductive for any number of vcpus, cpus and
destroyers: the state of a vcpu agrees with what its cpu does (`PhaseInv`), the
creator's remaining vcpus are untouched (`CreatorInv`), claims live only between
termination and count (`ClaimInv`), the claims and the counted set partition the
terminated vcpus (`CountedOnce`), and a full count is what finalization rests on
(`FinalInv`). That a terminated vcpu is not dispatched has a reason per policy:
under MCQS only ready vcpus are in the queue, under MCFS a pop looks at the state
(`PoppableIsReady`). The theorems assume `LateKickHalts`: the pv spin calls are
not used, or a failed assertion panics. Without it `CountedOnce`,
`TerminatedStays` and `FinalizedWhenAllTerminated` are false, because a late kick
puts a terminated vcpu back into its run queue.

`VPartitionProofs` has four invariants. `ShootdownInv` is that of `VTlb`, for any
number of vcpus and cpus and any placement (`TlbAssumption`): the state of a vcpu
agrees with its course (`VcpuPhases`), the requester's pass over the vcpus
(`PassInv`), every unanswered request has left its mark (`MarkInv`), and the
requester waits for each vcpu that may still use what it should forget (`AckInv`).
The last is the one that matters: an exit that began before the request empties
the ack queue, and this is right because the vcpu is then outside the guest with
its mark set. `CachedInv` carries it over to what a vcpu without a vpid has
cached. `EmulationInv` of `VEmulate` says at each step of a handler what has been
done of the instruction, on which vcpu's operand and into which vmcs, and that its
verdict is the reference's (`VerdictAgrees`, with `MsrVerdictAgrees` for an msr
access that exits). The other two are those of the boot with the creation of
partitions, and of the routes.

`VSchedProofs` has those of the timers (the chain adds up to the time each armed
timer has left), of the hypercalls (preemption balanced, the permission still
there when the level is written, because the partition's lock is held) and of the
time slices. `HypervisorProofs` carries all of these over to `MCHypervisor`, whose
invariants the run checks.

`VInterruptsProofs` proves `IInv` inductive for any vcpus on any cpus, any vectors
of a byte and any number of vectors per level (`InterruptAssumption`, which the
theorems have as a hypothesis and `MCHypervisor` checks of its instance).
`NoInterruptIsMissed` has to hold from the moment the event of the entry is chosen
and not only in the guest (`Announced`), because a sender may come between the two:
it then sees the state `RUNNING` and a window that is already the new one. Three
facts carry it. The vcpu that is entering has its cpu and its own vmcs loaded
(`Placed`), so no other vcpu's exit takes its ipi back and the window bits go to
the right vmcs, which gives `WindowsAgreeHolds`. What `__venter` injects goes into
service, and a vector that is no higher is not deliverable any more
(`EntryTells`, with the lemmas `HighestIsMax` and `LevelOrder` about bitmaps and
levels). And the sender's test covers what the window does not (`InjectTells`).
`InjectedFitsHolds` needs that the event under delivery is already in service
(`Nested`), and `SubscribersHearHolds` that a vector is chosen only between the
choice and the resumption (`Placed`).

`KTlbProofs` proves the invariant `IInv` of the kernel's mapper inductive for any
number of cpus, tasks and windows and any placement of the tasks
(`MapperAssumption`). It has two halves. The requests between cpus: one task of a
cpu sends at a time, and the slot it is about to fill is free (`SendInv`); a
request that is waited for stays in its slot until it has run (`SlotInv`); every
filled slot has an interrupt to come or a handler that has not passed it
(`ServedInv`). The last must say more than `IpiIsNotLost`: a request that nobody
waits for is acknowledged before it runs, so its sender may fill the slot again
while the handler is still at it, and that second request needs an interrupt of
its own. The windows: a window has one owner, and is neither free nor absent
(`OwnInv`), and the cpus its owner has already had flushed hold no old translation
of it (`FreshInv`), which uses `SlotInv` when an acknowledgement is taken for a
flush. From these follow `WindowIsFreshHolds`, `IpiIsNotLostHolds` and
`RequestsRunOnceHolds` (a slot is never overwritten, no request runs twice).

Only model-checked:

- the liveness properties (`EveryWaiterGetsTheLock`, `EveryoneEnters`,
  `TeardownCompletes`, `ShootdownReturns`), as the prover handles neither fairness
  nor ENABLED;
- `FlatPq`, `Buddy`, `Tlsf` and `VSched`'s queues: what recursive definitions over
  trees, bitmaps and links compute needs induction over data, which the prover
  cannot use;
- `TerminatedForGood`, whose parts are proved of `VLifecycle` itself;
- `KSched`, `KSync`, `Cmos` and `KBoot`, whose invariants have no proof.

## What the runs found

Seven disagreements between the code and what its comments, assertions or
documents say, each with a run that exhibits it and an entry under `findings`:
the coalesced kicks of nested waiters, the shared flags of readers, the second
finalization, the notification before the last use, the late kick, the priority
after a nested mutex, and the order of a wait queue.

## Not modelled

Spinlocks (one test-and-set; atomic where used), the watchdog, shutdown and debug
output (a call through one pointer, text), page and descriptor tables, APIC and
device register encodings, VMCS fields that no property tells apart, i/o port
exits, the recovery from host exceptions, aging and the global queue of the
kernel's scheduler (not compiled in by default), and the library headers
(constants and layouts). `components` in `PROJECT.json` gives the reason for each.
