SPECIFICATION Spec
CONSTANTS
    Pages = {1, 2}
    Bytes = {1, 2}
    Subnets = {2, 3, 4}
    SnapshotLimit = 2
    RebuildFaults = 2
    Writers = {w1, w2}
    Readers = {r1}
    Blocks = {0}
    MAX_TIME_SLACK = 2
    WriteDelay = 1
    ReadDelay = 0
    MaxTime = 4
    PatternFaults = 1
    Threads = {1, 10}
    Matching <- OneWithinTen
    Iterations = 2
    Addresses = 1
    MAX_RETRY = 2
    TeardownFaults = 3
INVARIANTS
    TypeOK VolumeKeepsItsData AlarmsAreAboutDamage
    ProcessesAreApart
CHECK_DEADLOCK FALSE
