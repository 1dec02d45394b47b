CONSTANTS
    pub = pub
    Name = {pub}
    Public = {pub}
    MaxWatches = 2
    MaxFailures = 1
SPECIFICATION FairSpec
INVARIANTS TypeOK NoLostIndex ExitClean
PROPERTIES Fetching PublicConnected StopFinishes
CHECK_DEADLOCK FALSE
