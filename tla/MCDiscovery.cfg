CONSTANTS
    p1 = p1
    h1 = h1
    Type <- MCType
    Label = {"", "mine", "yours"}
    Port = {1, 2, 3}
    DefaultPort <- MCDefaultPort
    Project = {p1}
    CommandLines <- MCCommandLines
    Host = {h1}
    HostLabel <- MCHostLabel
    Others <- MCOthers
    Request = {r1}
    MaxInstances = 3
SPECIFICATION Spec
INVARIANTS
    TypeOK
    ReachedAsFound
    TestingUsesItsOwn
    RemovedWhereCreated
\* Every behaviour ends when the instances are used up and the request is done.
CHECK_DEADLOCK FALSE
