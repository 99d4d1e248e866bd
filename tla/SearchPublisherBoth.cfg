SPECIFICATION Spec
CONSTANTS
    p1 = p1
    p2 = p2
    m1 = m1
    m2 = m2
    m3 = m3
    Procs = {p1}
    Requests = {m1}
    ProcOf <- MCProcOf
    MaxFaults = 1
INVARIANT
    BothQueuesServed
CHECK_DEADLOCK FALSE
