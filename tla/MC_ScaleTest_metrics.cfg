SPECIFICATION Spec
CONSTANTS
    n1 = n1
    n2 = n2
    p1 = p1
    p2 = p2
    Nodes <- MCNodes
    Pods <- MCPods
    MaxCrashing = 0
    Count = 1
    MaxRuns = 2
    MaxErrors = 1
    MaxReplaced = 0
INVARIANTS MissingMetricsAreZero
CHECK_DEADLOCK FALSE
