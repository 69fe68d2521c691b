SPECIFICATION FairSpec
CONSTANTS
    main = main
    background = background
    checksum = checksum
    nodeID = nodeID
    old = old
    new = new
    Clients <- MCClients
    Keys <- MCKeys
    ControllerKeys <- MCControllerKeys
    Values <- MCValues
    RetryCount = 2
    MaxCalls = 1
    MaxVersion = 2
INVARIANTS TypeOK FreshBodyInv GaveUpInv
PROPERTIES CallsEnd ImplementsAtomicObject
CHECK_DEADLOCK FALSE
