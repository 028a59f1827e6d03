\* Two keys, one more than a page holds, under a scan that keeps running.
CONSTANTS
    Lid = {k1, k2}
    None = None
    PageLimit = 1
    MaxOcc = 5
SPECIFICATION FairSpec
CHECK_DEADLOCK FALSE
PROPERTY
    DueKeysDestroyed
