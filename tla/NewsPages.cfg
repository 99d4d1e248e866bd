SPECIFICATION Spec
CONSTANTS
    p1 = p1
    p2 = p2
    Ids = {1, 2, 3, 4}
    Publishers = {p1, p2}
    Dates = {1, 2}
    NoDate = NoDate
    NoFilter = NoFilter
    NoCursor = NoCursor
    Sizes = {1, 2}
    MaxChanges = 2
SYMMETRY MCSymmetry
INVARIANTS
    TypeOK
    ReadOnce
CHECK_DEADLOCK FALSE
