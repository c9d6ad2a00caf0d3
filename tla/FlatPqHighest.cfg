SPECIFICATION Spec
CONSTANTS
    Node = {n1, n2, n3}
    Priority = {1, 2, 3}
    Limits = {14}
    NULL = NULL
CHECK_DEADLOCK FALSE
INVARIANT
    HighestIsNext
