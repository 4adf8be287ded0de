SPECIFICATION JobsSpec
CONSTANTS
    Clients = {c1, c2}
    Projects = {p1, p2}
    MaxRetained = 1
    MaxJobs = 4
    NoProject = NoProject
SYMMETRY Symmetry
INVARIANT OneLiveRunPerProject
CHECK_DEADLOCK FALSE
