SPECIFICATION Spec
CONSTANTS
    Nodes = {a, b}
    Chars = {"s", "t", "2"}
    ServerPath <- Served
    PathsOf <- Paths
    MaxConns = 2
    MaxFaults = 1
    MaxSends = 1
    MaxClients = 2
    MaxThreads = 4
    CountRange = 8
    MaxFds = 2
    MaxOpens = 2
    MaxEvents = 4
    MaxWrites = 2
INVARIANTS
    CountIsRegistered
    TableIsRegistered
    OwnDescriptor
    AcceptorsAccounted
    ConnectedIsServed
    EveryPacketHeard
    OnlyLostLeave
VIEW View
SYMMETRY Symmetry
CHECK_DEADLOCK FALSE
