SPECIFICATION FairSpec
CONSTANTS
    Runs = {run1, run2}
    Nobody = Nobody
    NumRollouts = 2
    j1 = j1
    j2 = j2
    Projects = {j1, j2}
    ProjectOf <- OneEach
    Plain = {1}
    Perishable = {1, 2}
    MaxWrites = 3
    MaxFailures = 1
    MaxCrashes = 1
INVARIANTS
    TypeOK
    ManifestSound
PROPERTIES
    BucketNeverForgets
    RetireSafe
    Settles
