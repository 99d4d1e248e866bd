SPECIFICATION Spec
CONSTANTS
    p1 = p1
    p2 = p2
    m1 = m1
    m2 = m2
    m3 = m3
    Procs = {p1, p2}
    Requests = {m1, m2, m3}
    ProcOf <- MCProcOf
    MaxFaults = 2
SYMMETRY Symmetry
INVARIANTS
    TypeOK
    ConfirmedIsQueued
    LegacyGetsNothing
    AtMostTwice
    ClosedForGood
CHECK_DEADLOCK FALSE
