SPECIFICATION FairSpec
CONSTANTS
    l1 = l1
    l2 = l2
    row1 = row1
    row2 = row2
    req1 = req1
    req2 = req2
    Account = account
    None = none
    Link <- Links
    Row <- Rows
    Requester <- Requests
    MaxAttempts = 2
    MaxStamp = 2
INVARIANTS
    TypeOK
    NoRequestIsSwallowed
PROPERTIES
    HeldIsLookedAtAgain
CHECK_DEADLOCK FALSE
