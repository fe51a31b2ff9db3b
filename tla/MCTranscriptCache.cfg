SPECIFICATION Spec
CONSTANTS
    f1 = f1
    f2 = f2
    first = first
    longer = longer
    huge = huge
    Threads = {t1, t2}
    Files = {f1, f2}
    Contents = {first, longer, huge}
    Length <- MCLength
    Holds <- MCHolds
    Nothing = Nothing
    MaxBytes = 3
    IdleTicks = 0
    MaxVersions = 2
    MaxRequests = 3
    MaxTime = 1
SYMMETRY Alike
INVARIANTS
    NeverOlder
    SoundAlone
CHECK_DEADLOCK FALSE
