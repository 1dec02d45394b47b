CONSTANTS
    a = a
    b = b
    c = c
    Node = {a, b}
    Watches <- PairWatches
    Introduced <- OneWay
    MaxTick <- PairTicks
    MaxEdition <- PairEditions
    MaxFailures = 1
    TornClock = FALSE
SPECIFICATION FairSpec
INVARIANTS TypeOK Backed Connected
PROPERTIES VersionGrows OwnFileKept SavedGrows ImplementsSingleSource Convergence
CHECK_DEADLOCK FALSE
