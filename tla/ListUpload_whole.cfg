SPECIFICATION Spec
CONSTANTS
    u1 = u1
    u2 = u2
    u3 = u3
    c1 = c1
    c2 = c2
    Member <- Members
    Call <- Calls
    PutMax = 1
    ChunkSize = 1
    NoSession = NoSession
INVARIANTS
    TypeOK
    SessionsAreCleanedUp
PROPERTIES
    ImplementsListReplace
SYMMETRY Perms
CHECK_DEADLOCK FALSE
