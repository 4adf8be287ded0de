SPECIFICATION Spec
CONSTANTS
    Models = {0, 1, 2}
    Rows <- MCRows
    Full = 2
    Configs <- MCConfigs
    Cards <- MCCards
    MaxRows = 2
    None = None
INVARIANT OutsidersDoNotMatter
INVARIANT BetterIsNotBehind
INVARIANT GapsAreNotPunished
PROPERTY FailuresDoNotHelp
CHECK_DEADLOCK FALSE
