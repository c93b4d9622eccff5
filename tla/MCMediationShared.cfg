CONSTANTS
    Kernel = {k1, k2}
    Nonce = {n1, n2}
    SemanticRoot = {p1}
    Span <- MCSpan
    CommittedRoot = {r1}
    ZeroRoot = zero
    NoRoot = none
    MaxStaged = 2
    MaxNonces = 3
    MaxLosses = 1
    HostReconciles = FALSE
    SinkFails = TRUE
SPECIFICATION Spec
INVARIANTS
    ReportsDurable
CHECK_DEADLOCK FALSE
