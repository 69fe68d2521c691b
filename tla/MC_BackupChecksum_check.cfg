SPECIFICATION Spec
CONSTANTS
    b0 = b0
    b1 = b1
    Unset = Unset
    Backups <- MCBackups
    MaxWrites = 2
    MaxFaults = 0
INVARIANTS CheckIsAboutTheData
CHECK_DEADLOCK FALSE
