CONSTANTS
    MaxResources = 5
    GenerationLimit = 3
    Identity = {d1, d2}
    MaxInstances = 2
    MaxAllocations = 6
SPECIFICATION Spec
SYMMETRY Identities
INVARIANTS
    TableIntact
    HandlesFresh
CHECK_DEADLOCK FALSE
