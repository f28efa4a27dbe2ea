\* Two runs of the refresh and a search.
SPECIFICATION Spec
CONSTANTS
    Refresh = {f1, f2}
    Search = {s1}
    None = None
    Payload <- Payloads
    Query <- Queries
    Limit = 2
    Ttl = 1
    Stale = 1
    MaxClock = 2
SYMMETRY Symmetric
CHECK_DEADLOCK FALSE
PROPERTIES
    ReplacedAsAWhole
INVARIANTS
    PromisesKept
    LabelledStale
