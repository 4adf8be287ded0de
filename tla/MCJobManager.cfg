SPECIFICATION JobsSpec
CONSTANTS
    Clients = {c1, c2}
    Projects = {p1, p2}
    MaxRetained = 1
    MaxJobs = 3
    NoProject = NoProject
SYMMETRY Symmetry
INVARIANTS
    LiveJobsAreHeld
    IndexFindsTheNewest
    CancelledIsNeverDone
CHECK_DEADLOCK FALSE
