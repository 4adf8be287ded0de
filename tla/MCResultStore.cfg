SPECIFICATION StoreSpec
CONSTANTS
    Runs = {r1}
    Runners = {w1, w2}
    Users = {u1, u2}
    MaxRows = 2
    NoRun = NoRun
SYMMETRY Symmetry
INVARIANTS
    NothingRecordedIsLost
    LeftoversHaveACause
CHECK_DEADLOCK FALSE
