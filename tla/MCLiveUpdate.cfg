SPECIFICATION FairLiveSpec
CONSTANTS
    Keys = {k1}
    WarmKeys = {k1}
    Requests = {r1}
    Workers = {w1}
    Nobody = Nobody
    MaxCommits = 2
    MaxFailures = 0
    MaxQueue = 0
    Conns = {c1}
    QueueSize = 1
PROPERTY
    NotifiedSeesData
CHECK_DEADLOCK FALSE
