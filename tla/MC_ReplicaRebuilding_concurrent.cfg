SPECIFICATION Spec
CONSTANTS
    V0 = V0
    V1 = V1
    n0 = n0
    n1 = n1
    Nodes <- MCNodes
    Target = n0
    Any = Any
    Scripts <- MCOnlyOne
    RetryCount = 3
    NodeLimit = 1
    VolumeLimit = 2
    MaxFaults = 0
INVARIANTS ConcurrencyIsReported
CHECK_DEADLOCK FALSE
