CONSTANTS
    Worker = {w1}
    Length = 3
    Interrupting = {1, 2}
    RetentionLimit = 2
    Edit = {}
    MaxClock = 2
SPECIFICATION Spec
INVARIANT
    Answerable
CHECK_DEADLOCK FALSE
