CONSTANTS
    Request = {r1, r2}
    Stamp = {t1, t2}
    File <- MCFile
    MigrationLists <- MCShortLists
    FixtureLists <- MCFixtureLists
    BootMigrations <- MCNone
    BootFixtures <- MCNone
SPECIFICATION Spec
PROPERTIES
    ImplementsPromise
    HandlersReturn
CHECK_DEADLOCK FALSE
