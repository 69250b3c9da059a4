SPECIFICATION Spec
CONSTANTS
    Cores = {c1, c2}
    Limit = 3
    Threshold = 1
    Width = 16
    MaxSessions = 2
    None = None
INVARIANTS
    TypeOK
    Conserved
    FetchedAll
    CopiesInBounds
    NotCutShort
CHECK_DEADLOCK FALSE
