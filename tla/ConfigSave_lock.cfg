SPECIFICATION FairSpec
CONSTANTS
    a = a
    q = q
    r = r
    t1 = t1
    t2 = t2
    Tab = {t1, t2}
    Account = {a}
    Rule = {q, r}
    NoAccount = NoAccount
    NoRule = NoRule
    MaxVersion = 4
    MaxDeletes = 1
    MaxFailures = 1
INVARIANTS
    TypeOK
    BoundOrLate
PROPERTIES
    SavesReplaceWhatTheySaw
    SavedIsSynced
