SPECIFICATION Spec
CONSTANTS
    Task = {t1, t2}
    NULL = NULL
    Object = {"mutex"}
    MaxCount = 1
    MaxDepth = 2
INVARIANT
    PriorityRestored
CHECK_DEADLOCK FALSE
