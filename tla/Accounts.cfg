SPECIFICATION Spec
CONSTANTS
    ada = ada
    bob = bob
    Users = {ada, bob}
    Threads = {t1, t2, t3}
    Scenarios <- MCScenarios
    MaxFailedLogins = 2
    LockoutSeconds = 1
    AccessTTL = 0
    RefreshTTL = 2
    Leeway = 1
    MaxSessions = 4
    MaxTime = 3
SYMMETRY ThreadSymmetry
INVARIANTS SingleRotation  FailureBooks AdminRemains
CHECK_DEADLOCK FALSE
