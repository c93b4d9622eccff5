CONSTANTS
    Inodes = 5
    Worker = {w1, w2}
    MaxSaves = 3
    Caller = {c1, c2}
    MaxPuts = 3
    Loader = {l1, l2}
    MaxTouches = 2
    MaxCalls = 2
    Driver = {d1, d2}
    MaxEdits = 2
    MaxStarts = 2
    MaxName = 3
    MaxPosition = 4
    MaxRanged = 3
    MaxChanges = 3
    Thread = {t1, t2}
    MaxValidations = 3
    Payload = {1, 2}
    MaxLeaves = 5
    MaxProposals = 3
    MaxReceipts = 3
    MaxEpoch = 4
    MaxPaths = 2
    MaxFileEdits = 2
SPECIFICATION Spec
INVARIANTS
    CheckpointsKept
    StoreIsMap
    
    ExportSound
    ClosureExact
    RangesCover
    GraphVerdict
    AuditBinds
    CaseServed
    MerkleBinds
    TraceSound
    ImpactExact
    AdmissionSound
    ExitTells
CHECK_DEADLOCK FALSE
