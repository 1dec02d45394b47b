CONSTANTS
    net1 = net1
    ip1 = ip1
    Subnet = {net1}
    AddressOf <- JustOne
    MaxRuns = 2
    MaxLines = 1
SPECIFICATION FairSpec
PROPERTY RestartsOnFailure
CHECK_DEADLOCK FALSE
