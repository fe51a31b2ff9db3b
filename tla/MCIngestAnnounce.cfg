SPECIFICATION Spec
CONSTANTS
    Triggers = {cron}
    cron = cron
    manual = manual
    NumKeys = 2
    MaxVersion <- BothGrow
    u1 = u1
    u2 = u2
    Uuids = {u1, u2}
    Carries <- SharedRecords
    MaxRelease = 3
    ParserVersion <- ParserVersions
    Reads <- LearnsFormat
    ChunkSize = 1
    MaxDrops = 1
    MaxDeaths = 2
PROPERTY
    CleanRunAnnounces
