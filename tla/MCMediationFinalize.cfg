CONSTANTS
    Kernel = {k1}
    Nonce = {n1, n2}
    SemanticRoot = {p1}
    Span <- MCSpan
    CommittedRoot = {r1}
    ZeroRoot = zero
    NoRoot = none
    MaxStaged = 2
    MaxNonces = 3
    MaxLosses = 0
    HostReconciles = TRUE
    SinkFails = FALSE
SPECIFICATION Spec
INVARIANT FinalizeRecords
CHECK_DEADLOCK FALSE
