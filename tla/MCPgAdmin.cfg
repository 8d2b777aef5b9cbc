CONSTANTS
    Request = {r1, r2}
    Stamp = {t1, t2}
    File <- MCFile
    MigrationLists <- MCMigrationLists
    FixtureLists <- MCFixtureLists
    BootMigrations <- MCBootMigrations
    BootFixtures <- MCBootFixtures
SYMMETRY Symmetry
SPECIFICATION Spec
INVARIANTS
    TypeOK
    HeldAsRequested
    TemplatesComplete
    NoSharing
    MaintenanceOnlyFromStart
CHECK_DEADLOCK FALSE
