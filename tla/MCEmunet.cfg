SPECIFICATION FairSpec
CONSTANTS
    n1 = n1
    n2 = n2
    n3 = n3
    udp = udp
    icmp = icmp
    g1 = g1
    g2 = g2
    r1 = r1
    None = None
    Local = local
    Nodes = {n1, n2, n3}
    Ports = {n1, n2, n3, local}
    Protos = {udp, icmp}
    Guests = {g1, g2}
    Remotes = {r1}
    FirstLease = 2
    LastLease = 4
    FirstNAT = 5
    LastNAT = 7
    IdleTimeout <- MCTimeout
    MaxCircuits = 3
    MaxReads = 1
    Workloads <- EmunetWorkloads
INVARIANTS TypeOK LeaderOwnsRendezvous NATTablesAgree FlowKept SpinsOnlyWhenFull LeasesDistinct
PROPERTIES GoodCircuitKept FailoverCompletes
CHECK_DEADLOCK FALSE
