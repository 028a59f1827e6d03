\* Three requests for a chain of two keys, with one cancellation and one error.
CONSTANTS
    r = r
    a = a
    Lid = {r, a}
    Chain <- RootAndLeaf
    Task = {t1, t2, t3}
    None = None
    MaxCancels = 1
    MaxErrors = 1

SPECIFICATION FairSpec

CHECK_DEADLOCK FALSE

INVARIANTS
    TypeOK
    SingleFlight
    ParentsFirst
PROPERTY
    ReturnsUnlessAbandoned
