SPECIFICATION ProcessSpec
CONSTANTS
    u1 = u1
    io = io
    c1 = c1
    c2 = c2
    UdpThreads = {u1}
    MainSocket = io
    Addresses = {"any", "other"}
    MaxQueries = 1
    MaxClients = 1
    Clients = {c1, c2}
    MaxViews = 1
    MonitorLocal = TRUE
    Modes <- MCModes
    Polls = 1
    MaxHups = 1
INVARIANTS
    AtMostOneLate
    NothingRunsAtExit
PROPERTIES
    NoWorkAfterClose
    SignalEndsProcess
CHECK_DEADLOCK FALSE
