CONSTANTS
    set = set
    hset = hset
    boot = boot
    Request = {r1, r2, r3}
    File <- MCFile
    FixtureLists <- MCFixtureLists
    Databases = 3
    Reports = {3}
    DefaultDatabaseCount = 16
    MaxRemovals = 2
    BootIndex = 0
    BootFixtures <- MCNone
SPECIFICATION Spec
INVARIANT NoSharing
CHECK_DEADLOCK FALSE
