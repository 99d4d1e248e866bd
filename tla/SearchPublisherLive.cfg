SPECIFICATION FairSpec
CONSTANTS
    p1 = p1
    p2 = p2
    m1 = m1
    m2 = m2
    m3 = m3
    Procs = {p1}
    Requests = {m1, m2}
    ProcOf <- MCProcOf
    MaxFaults = 2
PROPERTIES
    PublishEnds
    CloseEnds
CHECK_DEADLOCK FALSE
