SPECIFICATION Spec
CONSTANTS
    Clients = {c1, c2}
    Names = {p1, p2}
    HandMade <- MCHandMade
    HistoryLimit = 1
    Payloads <- MCPayloads
    Slug <- MCSlug
    MaxJobs = 1
    NULL = NULL
SYMMETRY Symmetry
INVARIANT
    SavesLeaveOneFormat
CHECK_DEADLOCK FALSE
