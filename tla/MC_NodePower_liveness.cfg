SPECIFICATION Spec
CONSTANTS
    w1 = w1
    w2 = w2
    cp = cp
    Nodes <- MCNodes
    Workers <- MCWorkers
    MaxTests = 1
    MaxKeywords = 1
    MaxCrashes = 1
    MaxFailures = 1
PROPERTIES UnlistedWorkersComeBack TestsEnd
