CONSTANTS
    a = a
    b = b
    c = c
    Node = {a, b}
    Watches <- PairWatches
    Introduced <- AllIntroduced
    MaxTick <- PairTicks
    MaxEdition <- PairEditions
    MaxFailures = 0
    TornClock = TRUE
SPECIFICATION Spec
PROPERTY VersionGrows
CHECK_DEADLOCK FALSE
