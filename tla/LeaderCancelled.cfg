\* The leader of three requests for one key is cancelled.
CONSTANTS
    r = r
    a = a
    Lid = {r}
    Chain <- OneKey
    Task = {t1, t2, t3}
    None = None
    MaxCancels = 1
    MaxErrors = 0
SPECIFICATION FairSpec
CHECK_DEADLOCK FALSE
PROPERTY
    RequestsReturn
