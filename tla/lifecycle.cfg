SPECIFICATION Spec
CONSTANTS
    r1 = r1
    r2 = r2
    r3 = r3
    g1 = g1
    g2 = g2
    None = None
    Run = {r1, r2, r3}
    Generation = {g1, g2}
    Batches = 2
    RetryRuns = {}
    MaxLate = 1
    LeaseOutlivesRun = TRUE
    VectorSettles = TRUE
SYMMETRY Symmetry
INVARIANT
    LifecycleTypeOK
    ActiveComplete
    SupersededTracked
    SnapshotFresh
    ReportIsTrue
PROPERTY
    DeletesOnlyDead
    PublicationImplemented
