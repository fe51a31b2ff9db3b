SPECIFICATION FairStreamSpec
CONSTANTS
    Conns = {c1, c2}
    QueueSize = 2
    MaxBroadcasts = 3
    Servers <- AsExpected
CHECK_DEADLOCK FALSE
INVARIANTS
    StreamTypeOK
    InOrder
PROPERTIES
    ToldAfterwards
    GoneUnsubscribed
    ShutdownDrains
