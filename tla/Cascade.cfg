\* Two calls over three generations.
SPECIFICATION FairSpec
CONSTANTS
    r = r
    a = a
    b = b
    Lid = {r, a, b}
    CreationOp = {}
    MigrationOp = {}
    None = None
    Resident = Resident
    MaxOcc = 3
    MaxVersion = 1
    MaxTime = 0
    Parent <- Generations
    Caller = {c1, c2}
    MaxRefusals = 1
INVARIANTS
    CascadeReaches
PROPERTIES
    CascadeReturns
CHECK_DEADLOCK FALSE
