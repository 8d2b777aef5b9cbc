CONSTANTS
    s1 = s1
    s2 = s2
    Starter <- MCStarter
    Stopper = {t1}
    Label <- MCLabels
    Port = {1, 2, 8081}
    UIPort = 8081
    Options <- MCOptions
    Targets <- MCTargets
    MaxFaults = 1
SPECIFICATION Spec
INVARIANTS
    TypeOK
    UpUntilStopped
    ForegroundLeavesNothing
    StopIsComplete
CHECK_DEADLOCK FALSE
