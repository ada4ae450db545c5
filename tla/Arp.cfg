SPECIFICATION ArpFairSpec
CONSTANTS
    n1 = n1
    n2 = n2
    n3 = n3
    h1 = h1
    h2 = h2
    h3 = h3
    p1 = p1
    p2 = p2
    p3 = p3
    Nodes <- MCNodes
    Macs <- MCMacs
    Hardware <- MCHardware
    Packets <- MCPackets
    Senders <- MCSenders
    Target <- MCTarget
    Managed <- MCManaged
    Given <- MCGiven
    AliveTimeout = 2
    DeadTimeout = 1
    WaitReplyTimeout = 2
    MaxRetries = 1
    PendingQueueSize = 2
    Jitter = 1
    Copies = 1
INVARIANTS PendingWhileWaiting NoFatalLookup RightAddress
PROPERTIES GivenUpInTime PacketResolved
