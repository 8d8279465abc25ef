SPECIFICATION FairSpec
CONSTANTS
    p1 = p1
    p2 = p2
    Processes = {p1, p2}
    Requests <- MCRequests
    Environments <- MCEnvironments
    networks <- MCnetworks
    MaxRuns = 2
    MaxDeployments = 4
    MaxOthers = 1
INVARIANTS
    TypeOK
    PublishedUniverseExists
    FilesAgree
    EntriesStay
PROPERTIES
    RunsEnd
CHECK_DEADLOCK FALSE
