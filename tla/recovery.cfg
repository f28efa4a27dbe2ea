SPECIFICATION FairSpec
CONSTANTS
    r1 = r1
    r2 = r2
    g1 = g1
    g2 = g2
    None = None
    Run = {r1, r2}
    Generation = {g1, g2}
    Batches = 1
    RetryRuns = {r2}
    MaxLate = 1
    LeaseOutlivesRun = TRUE
    VectorSettles = TRUE
INVARIANT
    RetryStartsClean
PROPERTY
    LeaseReclaimed
