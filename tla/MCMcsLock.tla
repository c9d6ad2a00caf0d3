------------------------------ MODULE MCMcsLock ------------------------------
(* Instances of McsLock for TLC.  The contexts of one group of Groups run,   *)
(* the others stay idle: the initial state chooses the group.                *)
EXTENDS McsLock, TLC

CONSTANTS Groups, c1, c2, c3, c4, c5, v1, v2, v3, l1, l2

\* Three vcpus that contend for one lock, one context each, or two of them
\* that contend for another.
FlatVcpuOf == c1 :> v1 @@ c2 :> v2 @@ c3 :> v3 @@ c4 :> v1 @@ c5 :> v2
FlatLockOf == [c \in Ctx |-> IF c \in {c4, c5} THEN l2 ELSE l1]

\* A task and an interrupt handler on v1, each contending with another vcpu
\* for a lock of its own.
CONSTANTS task, isr, other1, other2
NestedVcpuOf == task :> v1 @@ isr :> v1 @@ other1 :> v2 @@ other2 :> v3
NestedLockOf == task :> l1 @@ isr :> l2 @@ other1 :> l1 @@ other2 :> l2

VARIABLE running    \* the group that runs

GroupInit == Init /\ running \in Groups

\* The steps of McsLock's Next.  A caller changes the interrupt flag where the
\* group has a lock that saves it.
GroupNext ==
    \/ \E c \in Ctx : c \in running /\ Xchg(c) /\ UNCHANGED running
    \/ \E c \in Ctx : c \in running /\ SaveFlags(c) /\ UNCHANGED running
    \/ \E c \in Ctx : c \in running /\ Continue(c) /\ UNCHANGED running
    \/ \E v \in Vcpu : (Preempt(v) \/ Dispatch(v)) /\ UNCHANGED running
    \/ \E v \in Vcpu : /\ \E c \in running : LockOf[c] \in IsrLocks
                       /\ CallerSetsIntr(v)
                       /\ UNCHANGED running

GroupSpec == GroupInit /\ [][GroupNext]_<<vars, running>>

FairGroupSpec == GroupSpec /\ Fairness

=============================================================================
