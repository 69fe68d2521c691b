SPECIFICATION Spec
CONSTANTS
    Nodes = {n1, n2}
    Pods = {p1, p2}
    MaxCrashing = 0
    Count = 1
    MaxRuns = 2
    ScaleErrors = 1
    MaxReplaced = 1
    Reporters = {1, 2}
    Reports <- SomeReports
    Titles <- SomeTitles
    TitleOf <- LongIsCut
    Matches <- Containing
    BatchSize = 2
    MaxFailures = 1
    Jobs = {j1, j2}
    Hosts = {h1, h2}
    Attempts = 2
    SetupErrors = 2
INVARIANTS
    TypeOK MeasuredFromTheStart CompleteRunHasAllResults MachinesAreAccountedFor
CHECK_DEADLOCK FALSE
