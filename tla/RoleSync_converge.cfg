SPECIFICATION FairSpec
CONSTANTS
    w1 = w1
    w2 = w2
    any = any
    paid = paid
    AnyRelation = any
    Rule <- TwoRules
    Worker <- OneWorker
    SignedIn <- FirstSignedIn
    MaxMembers = 2
    Limit = 1
    MaxChanges = 2
    MaxFaults = 1
INVARIANTS
    TypeOK
    MirrorIsExact
PROPERTIES
    GrantsAreJustified
    RevocationsAreJustified
    LiveRowsFallToOldTokens
    ImplementsRoleList
    Converges
