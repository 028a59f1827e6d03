\* Three uses compete for two slots.
SPECIFICATION Spec
CONSTANTS
    Use = {u1, u2, u3}
    Limit = 2
    None = None
SYMMETRY UseSymmetry
INVARIANTS
    TypeOK
    ProviderBurdenBounded
    LeasesAccounted
    ClosesSerial
    DrainRecordsAll
CHECK_DEADLOCK FALSE
