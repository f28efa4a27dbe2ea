SPECIFICATION Spec
CONSTANTS
    c1 = c1
    c2 = c2
    c3 = c3
    None = None
    Command = {c1, c2, c3}
    References = 3
SYMMETRY Symmetry
INVARIANT
    CheckpointExact
    ExitIsTrue
