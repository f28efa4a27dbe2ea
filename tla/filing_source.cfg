\* A discovery, two filings to a page, beside two downloads on two slots: over up to four
\* filings, of which three match, while they move into up to three files; it reads two of
\* these at most.
SPECIFICATION Spec
CONSTANTS
    Discovery = {d1}
    Fetch = {f1, f2}
    None = None
    Filings = 4
    Matching <- AllButOne
    Files = 3
    FileLimit = 2
    PageLimit = 2
    Interval = 2
    Slots = 2
SYMMETRY Symmetric
CHECK_DEADLOCK FALSE
INVARIANTS
    TurnsNotLost
    NothingSkipped
PROPERTIES
    Spaced
