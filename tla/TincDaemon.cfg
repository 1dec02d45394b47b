CONSTANTS
    net1 = net1
    ip1 = ip1
    Subnet = {net1}
    AddressOf <- JustOne
    MaxRuns = 3
    MaxLines = 2
SPECIFICATION FairSpec
INVARIANTS TypeOK OneRequester RoutedWatched
PROPERTIES HostsReachTincd Serves StopFinishes
CHECK_DEADLOCK FALSE
