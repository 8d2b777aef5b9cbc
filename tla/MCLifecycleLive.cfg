CONSTANTS
    s1 = s1
    s2 = s2
    Starter <- MCStarter
    Stopper = {t1}
    Label <- MCLabels
    Port = {1, 2, 8081}
    UIPort = 8081
    Options <- MCLive
    Targets <- MCAll
    MaxFaults = 1
SPECIFICATION Spec
PROPERTIES
    BootGivesUp
    ShutdownEnds
CHECK_DEADLOCK FALSE
