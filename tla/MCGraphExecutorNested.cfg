CONSTANTS
    a = a
    b = b
    Node = {a, b}
    START = START
    END = END
    NoNode = NoNode
    ChildNode = ChildNode
    Edge <- NestedEdges
    Router = {}
    Route = {}
    Goto = {}
    step_limit = 3
    Nested = {a}
    MaxResumes = 1
SPECIFICATION Spec
INVARIANT NothingSkipped
CHECK_DEADLOCK FALSE
