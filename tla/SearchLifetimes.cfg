SPECIFICATION FairSpec
CONSTANTS
    c1 = c1
    c2 = c2
    q1 = q1
    u1 = u1
    Codes = {c1, c2}
    Queries = {q1}
    QueryOf <- MCQueryOf
    Users = {u1}
    TicketTTL = 3
    QueryTTL = 4
    ResultTTL = 3
    Limit = 2
    Window = 3
INVARIANTS
    TypeOK
    QueryOutlives
    BurstLimit
PROPERTIES
    LockoutEnds
CHECK_DEADLOCK FALSE
