CONSTANTS
    MaxResources = 5
    GenerationLimit = 100
    Identity = {d1}
    MaxInstances = 1
    MaxAllocations = 7
SPECIFICATION Spec
PROPERTY AckBySameSession
CHECK_DEADLOCK FALSE
