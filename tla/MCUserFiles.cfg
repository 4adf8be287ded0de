SPECIFICATION Spec
CONSTANTS
    Clients = {c1, c2}
    Providers = {p1, p2}
    MaxEdits = 2
    MaxJobs = 3
SYMMETRY Symmetry
INVARIANTS
    SavesAreKept
    ReferencesHaveKeys
    EditsSurviveOneAtATime
CHECK_DEADLOCK FALSE
