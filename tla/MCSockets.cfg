SPECIFICATION FairSpec
CONSTANTS
    t1 = t1
    t2 = t2
    c1 = c1
    c2 = c2
    NFDs = 3
    Conns = {c1, c2}
    NoConn = NoConn
    Threads = {t1, t2}
    MaxBytes = 2
    ChanCap = 2
    Workloads <- MCWorkloads
INVARIANTS
    StreamIntact
    ConnectionsInOrder
    GivenUpMeansSilent
PROPERTY
    InputWakes
CHECK_DEADLOCK FALSE
