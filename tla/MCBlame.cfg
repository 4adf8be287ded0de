SPECIFICATION Spec
CONSTANTS
    Limit <- MCLimit
    Batches <- MCBatches
    Arguments <- MCArguments
    ByHand <- MCByHand
    Providers <- MCProviders
INVARIANT
    BlamedBoundariesLostTheHold
CHECK_DEADLOCK FALSE
