CONSTANTS
    a = a
    b = b
    Node = {a, b}
    START = START
    END = END
    NoNode = NoNode
    ChildNode = ChildNode
    Edge <- Edges
    Router = {b}
    Route <- Routes
    Goto <- Gotos
    step_limit = 3
    Nested = {a}
    MaxResumes = 2
    Stream = {s1, s2}
    MaxValues = 2
    MaxInputs = 3
    MaxLimit = 2
SPECIFICATION RuntimeSpec
INVARIANTS
    LogExact
    WorkConserved
    StreamsApart
    MapExact
PROPERTY CallsReturn
CHECK_DEADLOCK FALSE
