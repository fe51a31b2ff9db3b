SPECIFICATION Spec
CONSTANTS
    None = None
    s1 = s1
    s2 = s2
    s3 = s3
    s4 = s4
    p1 = p1
    p2 = p2
    p3 = p3
    p4 = p4
    m1 = m1
    m2 = m2
    mx = mx
    ModelRates <- Current
    DatedRates <- Windows
    DefaultRates <- Cheapest
    Corpus <- Transcripts
    Unresolved = {p2, p3}
    ModelOrder <- Order
    Now = 9
    HourTicks = 2
    Spans = {3, 4, 8}
    AskedProjects = {None, p1}
    AskedModels = {None, m1}
    Widths <- BinWidths
    MinBins = 2
    TopProjects = 1
    SessionLimit = 2
    PageSize = 1
    MaxRuns = 2
    MaxDisturbed = 1
INVARIANTS
    PanelsAgree
    ChurnOfWholeHours
    PickerAgrees
    DecompositionReconciles
    EverySessionListed
CHECK_DEADLOCK FALSE
