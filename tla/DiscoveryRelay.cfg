CONSTANTS
    a = a
    b = b
    c = c
    Node = {a, b, c}
    Watches <- ChainWatches
    Introduced <- Strangers
    MaxTick <- ChainTicks
    MaxEdition <- NoEditions
    MaxFailures = 0
    TornClock = TRUE
SPECIFICATION FairSpec
INVARIANT Durable
PROPERTY Convergence
CHECK_DEADLOCK FALSE
