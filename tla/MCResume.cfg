SPECIFICATION FairSpec
CONSTANTS
    Models = {m1, m2}
    Tests = {t1}
    Trials = 1
    Concurrency = 1
    Price = {0, 2}
    MaxRunUSD = 3
    MaxModelUSD <- NoLimit
    OnExceed = "stop"
    FailFast = TRUE
    MaxStarts = 3
    NULL = NULL
PROPERTIES
    NeverRepaid
    ImplementsLedger
    RunEnds
CHECK_DEADLOCK FALSE
