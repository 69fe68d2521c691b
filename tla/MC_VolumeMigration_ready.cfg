SPECIFICATION Spec
CONSTANTS
    node0 = node0
    node1 = node1
    None = None
    Nodes <- MCNodes
    RetryCount = 4
    MaxCrashes = 0
PROPERTIES ReadyMeansMigrating
CHECK_DEADLOCK FALSE
