\* A wrapped child moved between parents while any of the three is destroyed.
SPECIFICATION Spec
CONSTANTS
    Lid = {k1, k2, k3}
    CreationOp = {c1}
    MigrationOp = {m1}
    Instance = {i1}
    None = None
    Resident = Resident
    MaxOcc = 4
    MaxVersion = 1
    MaxTime = 1
    MaxEpoch = 1
SYMMETRY Symmetry
INVARIANTS
    EnvelopesBound
    OpensUnlessLost
    
    MigrationFrozen
CHECK_DEADLOCK FALSE
