\* One resident key, rotated and destroyed by the tasks and reapers of two
\* processes, with two faults.
CONSTANTS
    Lid = {k1}
    CreationOp = {}
    MigrationOp = {}
    None = None
    Resident = Resident
    Instance = {i1, i2}
    Task = {t1}
    Handle = {h1, h2}
    MaxOcc = 6
    MaxVersion = 2
    MaxTime = 1
    MaxEpoch = 0
    MaxFaults = 2

SPECIFICATION FairServiceSpec

CHECK_DEADLOCK FALSE

INVARIANTS
    ServiceTypeOK
    MaterialInUseLives
    DestroyedIsErased
    TicketIsCurrent
PROPERTIES
    StoreRefined
    ClaimsComplete
