SPECIFICATION Spec
CONSTANTS
    r1 = r1
    r2 = r2
    g1 = g1
    g2 = g2
    None = None
    Run = {r1, r2}
    Generation = {g1, g2}
    Batches = 2
    RetryRuns = {}
    MaxLate = 1
    LeaseOutlivesRun = FALSE
    VectorSettles = FALSE
SYMMETRY Symmetry
INVARIANT
    ActivePublished
PROPERTY
    ReplacedAtOnce
