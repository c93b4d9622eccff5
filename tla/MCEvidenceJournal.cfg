CONSTANTS
    Nonce = {n1, n2, n3}
    SemanticRoot = {p1}
    Span <- MCSpan
    CommittedRoot = {r1, r2}
    ZeroRoot = zero
SPECIFICATION Spec
INVARIANTS
    TypeOK
    LedgerOrder
    RootChain
    RecordsBound
PROPERTY AppendOnly
