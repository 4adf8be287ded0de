SPECIFICATION Spec
CONSTANTS
    Models = {0, 1, 2}
    Rows <- MCRows
    Full = 2
    Configs <- ZeroBudget
    Cards <- MCCards
    MaxRows = 2
    None = None
INVARIANT BudgetsAreCeilings
CHECK_DEADLOCK FALSE
