\* Three requests for one symbol in two processes, one credit.
SPECIFICATION Spec
CONSTANTS
    Request = {r1, r2, r3}
    Process = {p1, p2}
    None = None
    Limit = 1
    Polls = 1
    MaxLate = 1
    TimesOut = TRUE
SYMMETRY Symmetric
CHECK_DEADLOCK FALSE
INVARIANTS
    RefreshTypeOK
    QuotaHolds
    OneRefresh
    RegistryEmptied
    NoLockLeftHeld
PROPERTIES
    StaleFallback
