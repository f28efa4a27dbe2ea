SPECIFICATION Spec
CONSTANTS
    c1 = c1
    c2 = c2
    c3 = c3
    c4 = c4
    None = None
    Command = {c1, c2, c3, c4}
    References = 1
SYMMETRY Symmetry
INVARIANT
    LedgerTypeOK
    LedgerReadable
    PaidByClaimant
    ExitIsTrue
PROPERTY
    LedgerAppendOnly
    AttemptsImplemented
