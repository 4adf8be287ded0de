SPECIFICATION Spec
CONSTANTS
    None = None
    Worlds <- MCWorlds
    Commands <- MCCommands
    Prefix <- MCPrefix
    Looser <- MCLooser
    Catalog <- MCCatalog
INVARIANTS
    TheRightKeyIsUsed
    SkippedModelsCouldNotRun
    StuckRowsHaveACause
    InlineCardsWin
CHECK_DEADLOCK FALSE
