SPECIFICATION Spec
CHECK_DEADLOCK FALSE
CONSTANTS
    Lengths = {1, 2, 5}
    Messages = 3
    Size = 8
    Shorts = 16
    Panicking = FALSE
    Bound = 4
INVARIANTS
    SplitsHandled
