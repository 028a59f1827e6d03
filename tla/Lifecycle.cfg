SPECIFICATION Spec
CONSTANTS
    Lid = {k1, k2}
    CreationOp = {c1, c2}
    MigrationOp = {m1}
    Instance = {i1}
    None = None
    Resident = Resident
    MaxOcc = 5
    MaxVersion = 2
    MaxTime = 1
    MaxEpoch = 1
SYMMETRY Symmetry
INVARIANTS
    TypeOK
    ClaimFrozen
    ClaimCanComplete
    LossMarkersExact
    LossApproved
    ApprovalNotReusable
    NoOrphanEnvelope
PROPERTIES
    OccAdvances
    CompromiseLatched
    HistoryPreserved
CHECK_DEADLOCK FALSE
