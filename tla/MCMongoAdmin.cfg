CONSTANTS
    r1 = r1
    r2 = r2
    m1 = m1
    m2 = m2
    Request = {r1, r2}
    Instance = {m1, m2}
    Home <- MCHome
    Secured = {}
    InsideDocker = FALSE
    Stamp = {t1, t2}
    Tie = FALSE
    File <- MCFile
    MigrationLists <- MCMigrationLists
    FixtureLists <- MCFixtureLists
    BootFiles <- MCBootFiles
    MaxRemovals = 2
    Admin = Admin
SYMMETRY Symmetry
SPECIFICATION Spec
INVARIANTS
    TypeOK
    HeldAsRequested
    RemovedIsGone
    StartDataKept
PROPERTIES
    ImplementsPromise
CHECK_DEADLOCK FALSE
