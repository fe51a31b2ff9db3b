SPECIFICATION FairSpec
CONSTANTS
    a = a
    b = b
    c = c
    g0 = g0
    ga = ga
    gb = gb
    gc = gc
    k0 = k0
    ka = ka
    kb = kb
    Runs = {run1, run2}
    Items = {a, b, c}
    Permanent = {a}
    Statements = 2
    Groups = {g0, ga, gb, gc}
    GroupOf <- TwoScopes
    Keys = {k0, ka, kb}
    KeyOf <- TwoKeys
    Xids = {1, 2, 3, 4, 5, 6}
    MaxChanges = 2
    MaxCrashes = 1
INVARIANTS
    TypeOK
    OneRebuild
    LoudOrExact
PROPERTY
    Heals
