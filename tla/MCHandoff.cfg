SPECIFICATION Spec
CONSTANTS
    Limit <- MCLimit
    Batches <- MCBatches
    Arguments <- MCArguments
    ByHand <- MCByHand
    Providers <- MCProviders
INVARIANTS
    TraceExplainsTheTickets
    OnlyWordingMisleadsTheBlame
    IncompleteWasCutOff
    SummaryAgreesWithTheReport
    ReadableManifestIsComplete
CHECK_DEADLOCK FALSE
