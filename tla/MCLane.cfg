CONSTANTS
    Arena = {a1, a2}
    Capacity = 2
    MaxLeases = 2
    MaxSequence = 3
    MaxGeneration = 2
    Size = {1, 2}
    HostMonotone = TRUE
    HostFreshGeneration = TRUE
SPECIFICATION RSpec
INVARIANTS
    LaneIntact
    AcceptanceExact
    RoundtripsWhole
PROPERTY NothingDropped
CHECK_DEADLOCK FALSE
