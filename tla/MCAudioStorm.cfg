CONSTANTS
    Depth = 4
    BUF_THRESHOLD = 3
    BUF_SIZE = 14
    N = 2
    MaxLate = 1
    Patient = FALSE
SPECIFICATION Spec
INVARIANT
    NoStorm
