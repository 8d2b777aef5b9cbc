CONSTANTS
    p1 = p1
    h1 = h1
    Type <- MCType
    Label = {"", "mine", "yours"}
    Port = {1, 2, 3}
    DefaultPort <- MCDefaultPort
    Project = {p1}
    CommandLines <- MCRerunLines
    Host = {h1}
    HostLabel <- MCHostLabel
    Others = {}
    Request = {r1}
    MaxInstances = 3
SPECIFICATION Spec
INVARIANT TestingReachesItsOwn
CHECK_DEADLOCK FALSE
