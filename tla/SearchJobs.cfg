SPECIFICATION Spec
CONSTANTS
    c1 = c1
    c2 = c2
    q1 = q1
    w1 = w1
    w2 = w2
    r1 = r1
    r2 = r2
    a1 = a1
    a2 = a2
    Codes = {c1, c2}
    Queries = {q1}
    QueryOf <- MCQueryOf
    Workers = {w1, w2}
    Readers = {r1, r2}
    Answers = {a1, a2}
    NoCode = NoCode
    NoAnswer = NoAnswer
    QueryCoversTicket = TRUE
    MaxFaults = 1
SYMMETRY Symmetry
INVARIANTS
    TypeOK
    OneDelivery
    TicketBacked
    ReadIsCurrent
    NoLostJob
PROPERTIES
    ResultFinal
    ImplementsContract
CHECK_DEADLOCK FALSE
