CONSTANTS
    Worker = {w1}
    Length = 3
    Interrupting = {2}
    RetentionLimit = 2
    Edit = {e1, e2}
    MaxClock = 4
SPECIFICATION Spec
INVARIANTS
    ThreadResumable
    SavedNotRepeated
    EditsKept
CHECK_DEADLOCK FALSE
