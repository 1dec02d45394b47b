CONSTANTS
    a = a
    b = b
    c = c
    Node = {a, b, c}
    Joins <- Star
    MaxTick <- Once
    MaxEdition <- HubEdits
    MaxFailures = 0
SPECIFICATION FairSpec
PROPERTY OneNetwork
CHECK_DEADLOCK FALSE
