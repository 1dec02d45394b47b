CONSTANTS
    r1 = r1
    r2 = r2
    s1 = s1
    m1 = m1
    m2 = m2
    NoOne = NoOne
    Requester = {r1, r2}
    Server = {s1}
    Name = {m1, m2}
    MaxVersion = 1
    MaxFailures = 1
SYMMETRY Requesters
SPECIFICATION Spec
INVARIANTS TypeOK FileBeforeEntry NoLostSave
PROPERTIES SavedGrows ImplementsAtomicSSD
CHECK_DEADLOCK FALSE
