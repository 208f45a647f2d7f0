SPECIFICATION Spec
CONSTANTS
    Target <- MCTarget
    Text <- MCText
    Empty = ""
    Blank <- MCBlank
    BoolOf <- MCBoolOf
    IntOf <- MCIntOf
    Parts <- MCParts
    Written <- MCWritten
    Within <- MCWithin
    Compiles <- MCCompiles
    Matches <- MCMatches
    PgMatches <- MCPgMatches
    MaxGroups = 2
    MaxConditions = 2
    RawCondition <- MCRawCondition
    Body <- MCBody
    Row <- MCRow
    NULL = NULL
INVARIANTS
    TypeOK
    EvaluatorsAgree
    ResaveKeepsRule
