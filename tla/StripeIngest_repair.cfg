SPECIFICATION FairSpec
CONSTANTS
    A = A
    i1 = i1
    i2 = i2
    None = None
    NoOne = None
    ClientRef = A
    Handler = {h1}
    Importer = {i1, i2}
    Did = {A}
    Case <- Cases
INVARIANTS
    TypeOK
    CountedOnce
    AckedIsApplied
PROPERTIES
    SubscribersAreSynced
