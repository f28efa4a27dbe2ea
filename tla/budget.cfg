\* Two API requests and a diagnostic around a midnight; a day of two seconds.
SPECIFICATION Spec
CONSTANTS
    ApiRequest = {a1, a2}
    Diagnostic = {d1}
    Limit = 2
    MaxLate = 2
    TicksPerSecond = 3
    SecondsPerDay = 2
    StartClock = 2
    MaxClock = 6
SYMMETRY RequestSymmetry
INVARIANTS
    BudgetTypeOK
    CounterIsHeld
    PaidStaysCharged
    WithinLimit
    LapsesAtTheEnd
    NothingStranded
