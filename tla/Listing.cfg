\* Two keys that fit in a page, under a scan that keeps running.
CONSTANTS
    Lid = {k1, k2}
    None = None
    PageLimit = 2
    MaxOcc = 6

SPECIFICATION FairSpec

CHECK_DEADLOCK FALSE

PROPERTIES
    DestroysOnlyDue
    
