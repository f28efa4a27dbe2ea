\* Two requests in two processes, every command answered: is the cache read
\* again once the lock in Redis is held?
SPECIFICATION Spec
CONSTANTS
    Request = {r1, r2}
    Process = {p1, p2}
    None = None
    Limit = 2
    Polls = 1
    MaxLate = 0
    TimesOut = FALSE
SYMMETRY Symmetric
CHECK_DEADLOCK FALSE
PROPERTIES
    DoubleChecked
