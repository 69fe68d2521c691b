SPECIFICATION Spec
CONSTANTS
    Ids = {s0, s1}
    Replicas = {r0, r1}
    None = None
    SnapshotRounds = 2
    SnapshotFaults = 1
    Backups = {b0, b1}
    Unset = Unset
    MaxWrites = 2
    BackupFaults = 1
    Nodes = {n1, n2}
    LastTest = 2
    LOOP_COUNT = 2
    MaxOutages = 3
    SshFaults = 1
SYMMETRY Symmetry
INVARIANTS
    TypeOK AbsentMeansGone PurgeIsDone BackupIsRight
    OutagesAreWhole DownMeansPending
CHECK_DEADLOCK FALSE
