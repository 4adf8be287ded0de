SPECIFICATION Spec
CONSTANTS
    Models = {m1, m2}
    Tests = {t1, t2}
    Trials = 1
    Concurrency = 2
    Price = {0, 2, 3}
    MaxRunUSD = 4
    MaxModelUSD = 3
    OnExceed = "stop"
    FailFast = FALSE
    MaxStarts = 1
    NULL = NULL
SYMMETRY Symmetry
INVARIANTS
    UnstoppedRunCoversPlan
    NoCollectingOverBudget
    StoppedPoolIsStarved
CHECK_DEADLOCK FALSE
