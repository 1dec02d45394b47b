CONSTANTS
    a = a
    b = b
    c = c
    Node = {a, b}
    Joins <- Pair
    MaxTick <- BothTwice
    MaxEdition <- HubEdits
    MaxFailures = 0
SPECIFICATION Spec
INVARIANT SingleSourceContent
CHECK_DEADLOCK FALSE
