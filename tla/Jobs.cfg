\* One job, two racing consumer calls and the workers of two processes.
CONSTANTS
    JobId = {j1}
    Consumer = {c1, c2}
    Worker = {w1, w2}
    None = None
    Expiry = 1
    MaxTime = 2

SPECIFICATION FairSpec

INVARIANTS
    TypeOK
    OutcomeEarned
PROPERTY
    JobsSettle
