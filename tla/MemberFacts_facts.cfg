SPECIFICATION Spec
CONSTANTS
    c1 = c1
    c2 = c2
    s1 = s1
    s2 = s2
    None = None
    Ratio = 60
    CustomerId <- Customers
    SubId <- Subscriptions
    CustomerRow <- CustomerRows
    Subscription <- Subs
INVARIANTS
    TypeOK
    TestsAgree
    MrrIsAYearsTwelfth
PROPERTIES
    OrderDecidesTiesOnly
