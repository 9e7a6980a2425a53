SPECIFICATION FairSpec
CONSTANTS
    u1 = u1
    io = io
    r1 = r1
    r2 = r2
    r3 = r3
    r4 = r4
    None = None
    Flag <- MCFlag
    Lower <- MCLower
    UdpRequests <- Udp3
    TcpRequests <- Tcp1
    Names <- OneName
    Malformed <- MCBad
    HasUnqUpstream = TRUE
    UdpWorkers <- MCWorkers
    Io = io
    QueueLimit = 1
    PoolSize = 1
    TcpQueueLimit = 1
    TcpPoolSize = 1
INVARIANT
    OverrideRespected
CHECK_DEADLOCK FALSE
