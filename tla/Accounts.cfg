SPECIFICATION Spec
CONSTANTS
    u1 = u1
    u2 = u2
    b1 = b1
    b2 = b2
    r1 = r1
    r2 = r2
    Users = {u1, u2}
    NoUser = NoUser
    Browsers = {b1, b2}
    Requests = {r1, r2}
    NoRequest = NoRequest
    MaxFlows = 3
    MaxBlogs = 1
INVARIANTS
    TypeOK
    BlogsBelong
    OrphansAreKnown
    SessionsAreOwn
    WithdrawnIsGone
PROPERTIES
    OnlyOwnAccount
SYMMETRY MCSymmetry
CHECK_DEADLOCK FALSE
