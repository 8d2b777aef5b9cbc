CONSTANTS
    Request = {r1, r2}
    TempDir = {d1, d2, d3, d4}
    None = None
    Calls <- MCCalls
    MaxExits = 1
SYMMETRY Symmetry
SPECIFICATION Spec
INVARIANTS
    TypeOK
    SeenAsLocal
    TempDirsPrivate
    WrittenWithin
    AcceptedAsWalked
\* Every behaviour ends when the requests are answered.
CHECK_DEADLOCK FALSE
