SPECIFICATION Spec
CONSTANTS
    Nodes = {n1, n2}
    None = None
    Target = n1
    Any = Any
    Foreign = {csi, snapshot}
    AttachmentRetries = 3
    MaxCalls = 3
    MaxVersion = 2
    MaxLost = 2
    MigrationRounds = 4
    MaxCrashes = 1
    RestorationRounds = 2
    MaxBackups = 2
    MaxCreates = 2
    RestorationFaults = 1
    V0 = V0
    V1 = V1
    Scripts = {"onlyOneOnNode", "bothOnNode", "startOnNode", "onlyOne"}
    RebuildingRounds = 2
    NodeLimit = 2
    VolumeLimit = 1
    RebuildingFaults = 1
INVARIANTS
    TypeOK DetachDeletesOne OutcomeIsFinal CreatedIsNew RestoredHasTheData BothMeansTogether
PROPERTIES ForeignTicketsSafe CallsAreAtomic CallsEnd
CHECK_DEADLOCK FALSE
