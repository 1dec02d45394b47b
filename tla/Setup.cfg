CONSTANTS
    p = p
    q = q
    NoFile = NoFile
    Peer = {p, q}
    Boot <- Both
    Here = p
    Public = {q}
    MaxIdentity = 3
    MaxRequests = 2
    MaxFaults = 2
SPECIFICATION Spec
INVARIANTS TypeOK NoDeadEnd Keyed OneIdentity Admitted GivesUp Introduced Installed
CHECK_DEADLOCK FALSE
