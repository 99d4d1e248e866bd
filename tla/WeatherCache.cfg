SPECIFICATION FairSpec
CONSTANTS
    p1 = p1
    p2 = p2
    g1 = g1
    g2 = g2
    g3 = g3
    Procs = {p1, p2}
    Requests = {g1, g2, g3}
    ProcOf <- MCProcOf
    MaxIssue = 1
    MaxLapses = 2
INVARIANTS
    TypeOK
    ReadsArePaidFor
PROPERTIES
    OwnWritesInOrder
    RequestEnds
CHECK_DEADLOCK FALSE
