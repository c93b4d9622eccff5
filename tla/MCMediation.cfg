CONSTANTS
    Kernel = {k1}
    Nonce = {n1, n2, n3}
    SemanticRoot = {p1, p2}
    Span <- MCSpan
    CommittedRoot = {r1}
    ZeroRoot = zero
    NoRoot = none
    MaxStaged = 2
    MaxNonces = 3
    MaxLosses = 2
    HostReconciles = TRUE
    SinkFails = TRUE
SPECIFICATION FairSpec
INVARIANTS
    SessionsAgree
    AtMostOnce
    Recoverable
PROPERTIES
    ImplementsLedger
    StagedFlushed
CHECK_DEADLOCK FALSE
