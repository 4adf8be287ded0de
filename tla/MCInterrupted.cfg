SPECIFICATION Spec
CONSTANTS
    Limit <- MCLimit
    Batches <- MCBatches
    Arguments <- MCArguments
    ByHand <- MCByHand
    Providers <- MCProviders
INVARIANT
    ManifestSurvivesACrash
CHECK_DEADLOCK FALSE
