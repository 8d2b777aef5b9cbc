CONSTANTS
    set = set
    hset = hset
    boot = boot
    Request = {r1, r2, r3}
    File <- MCFile
    FixtureLists <- MCFixtureLists
    Databases = 3
    Reports = {0, 3}
    DefaultDatabaseCount = 4
    MaxRemovals = 1
    BootIndex = 0
    BootFixtures <- MCBootFixtures
SPECIFICATION Spec
INVARIANTS
    TypeOK
    NoSharing
    ClaimsExact
    HeldAsRequested
    StartDataKept
PROPERTIES
    ImplementsPromise
    CreateReturns
CHECK_DEADLOCK FALSE
