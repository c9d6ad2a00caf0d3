SPECIFICATION GroupSpec
CONSTANTS
    c1 = c1
    c2 = c2
    c3 = c3
    c4 = c4
    c5 = c5
    v1 = v1
    v2 = v2
    v3 = v3
    l1 = l1
    l2 = l2
    task = task
    isr = isr
    other1 = other1
    other2 = other2
    NULL = NULL
    Ctx = {task, isr, other1, other2}
    Groups = {{task, isr, other1, other2}}
    Vcpu = {v1, v2, v3}
    Lock = {l1, l2}
    VcpuOf <- NestedVcpuOf
    LockOf <- NestedLockOf
    Isr = {isr}
    PvLocks = {l1, l2}
    IsrLocks = {l2}
INVARIANT
    HandedOverIsUnblocked
