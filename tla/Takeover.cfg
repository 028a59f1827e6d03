\* Two processes take migrations over from each other; nothing is destroyed.
SPECIFICATION Spec
CONSTANTS
    Lid = {k1, k2, k3}
    CreationOp = {c1}
    MigrationOp = {m1, m2}
    Instance = {i1, i2}
    None = None
    Resident = Resident
    MaxOcc = 3
    MaxVersion = 1
    MaxTime = 0
    MaxEpoch = 2
SYMMETRY Symmetry
INVARIANTS
    StagedCanCommit
PROPERTIES
    UnsafeDispatchOnce
CHECK_DEADLOCK FALSE
