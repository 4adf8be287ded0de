SPECIFICATION Spec
CONSTANTS
    Clients = {c1, c2}
    Names = {p1, p2}
    HandMade <- MCHandMade
    HistoryLimit = 1
    Payloads <- MCPayloads
    Slug <- MCSlug
    MaxJobs = 2
    NULL = NULL
SYMMETRY Symmetry
INVARIANTS
    BrokenConfigsHaveACause
    EditsAreNotUndone
    ExamplesAreNotDoubled
    HistoryIsNotMisattributed
PROPERTIES
    KeptHistorySurvives
    WatchComparesWithThePast
CHECK_DEADLOCK FALSE
