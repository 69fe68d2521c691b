SPECIFICATION Spec
CONSTANTS
    w1 = w1
    w2 = w2
    cp = cp
    Nodes <- MCNodes
    Workers <- MCWorkers
    MaxTests = 2
    MaxKeywords = 2
    MaxCrashes = 1
    MaxFailures = 1
INVARIANTS TypeOK ListedNodeStaysDown TestsStartWithEmptyList
