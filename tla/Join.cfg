CONSTANTS
    a = a
    b = b
    c = c
    Node = {a, b, c}
    Joins <- Chain
    MaxTick <- HubTwice
    MaxEdition <- Unedited
    MaxFailures = 1
SPECIFICATION Spec
INVARIANTS TypeOK Announced JoinLoaded
PROPERTY VersionsImplementSingleSource
CHECK_DEADLOCK FALSE
