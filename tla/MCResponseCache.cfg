SPECIFICATION FairSpec
CONSTANTS
    Keys = {k1}
    WarmKeys = {k1}
    Requests = {r1, r2}
    Workers = {w1, w2}
    Nobody = Nobody
    MaxCommits = 2
    MaxQueue = 1
    MaxFailures = 1
INVARIANTS
    TypeOK
    RegistryExact
PROPERTIES
    SingleFlight
    RequestsAnswered
    EventuallyCurrent
