SPECIFICATION Spec
CONSTANTS
    Clients = {c1, c2}
    Users = {u1}
    Guest = guest
    Nothing = Nothing
    MaxFailures = 2
    Window = 2
    MaxAge = 1
    Slack = 1
    MaxTime = 2
    MaxSecrets = 3
    MaxAttempts = 3
SYMMETRY Alike
INVARIANTS
    LimitPerWindow
    GoodUntilRevoked
    AnsweredByRole
CHECK_DEADLOCK FALSE
