CONSTANTS
    s1 = s1
    s2 = s2
    Starter <- MCOne
    Stopper = {}
    Label <- MCLabels
    Port = {1, 2, 8081}
    UIPort = 8081
    Options <- MCForegroundPg
    Targets <- MCNoTargets
    MaxFaults = 0
SPECIFICATION Spec
PROPERTIES
    SignalEnds
CHECK_DEADLOCK FALSE
