SPECIFICATION Spec
CONSTANTS
    Triggers = {cron, manual}
    cron = cron
    manual = manual
    NumKeys = 2
    MaxVersion <- OneGrows
    u1 = u1
    u2 = u2
    Uuids = {u1, u2}
    Carries <- SharedRecords
    MaxRelease = 1
    ParserVersion <- OneParserVersion
    Reads <- ReadsAll
    ChunkSize = 2
    MaxDrops = 0
    MaxDeaths = 0
INVARIANTS
    SkipSound
    QuiescentDerivedExact
SYMMETRY SlotSymmetry
