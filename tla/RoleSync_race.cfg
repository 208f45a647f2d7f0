SPECIFICATION FairSpec
CONSTANTS
    w1 = w1
    w2 = w2
    any = any
    paid = paid
    AnyRelation = any
    Rule <- TwoRules
    Worker <- TwoWorkers
    SignedIn <- FirstSignedIn
    MaxMembers = 1
    Limit = 1
    MaxChanges = 2
    MaxFaults = 0
PROPERTIES
    DriftHeals
