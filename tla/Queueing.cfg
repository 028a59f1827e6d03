\* A parent is rotated by two tasks while a child is created under it through
\* the journal.
CONSTANTS
    Lid = {k1, k2}
    CreationOp = {c1}
    MigrationOp = {}
    None = None
    Resident = Resident
    Instance = {i1, i2}
    Task = {t1, t2}
    Handle = {h1, h2, h3}
    MaxOcc = 3
    MaxVersion = 2
    MaxTime = 0
    MaxEpoch = 0
    MaxFaults = 1
SPECIFICATION ServiceSpec
SYMMETRY ServiceSymmetry
CHECK_DEADLOCK FALSE
INVARIANTS
    SnapshotCurrent
    
