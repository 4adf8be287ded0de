SPECIFICATION Spec
CONSTANTS
    w1 = w1
    w2 = w2
    pipeline = pipeline
    remote = remote
    Workers <- MCWorkers
    Targets <- MCTargets
    Remotes <- MCRemotes
    Failures <- MCFailures
    Scores <- MCScores
    CardPrice <- MCCardPrice
    Retries = 1
    MaxCalls = 2
    NaN = NaN
    None = None
INVARIANTS
    PaidAnswersAreCounted
    OnlyRejectionsAreFinal
    OneJudge
PROPERTY
    StarvedCallsNeedARace
CHECK_DEADLOCK FALSE
