SPECIFICATION FairSpec
CONSTANTS
    g1 = g1
    g2 = g2
    h1 = h1
    h2 = h2
    Guild = {g1, g2}
    Handler = {h1, h2}
    MaxEvents = 1
    MaxConnects = 2
    MaxSecrets = 2
    MaxErrors = 1
    MaxDeaths = 1
INVARIANTS
    TypeOK
    GoneAccountsStayEmpty
PROPERTIES
    MirrorsCatchUp
CHECK_DEADLOCK FALSE
