SPECIFICATION FairSpec
CONSTANTS
    Threads = {t1, t2, t3}
    Slots = 2
    Rate <- OneEach
    Capacity <- OneRequestAtOnce
    Cost <- TwoForARequest
    MaxRetries = 1
    MaxThrough = 3
    MaxIdle = 2
    Window = 3
    NotYet = NotYet
INVARIANTS
    GrantsWithinBucket
    RequestsAreBounded
PROPERTY
    EveryCallEnds
