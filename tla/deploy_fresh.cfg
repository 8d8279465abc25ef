SPECIFICATION FairSpec
CONSTANTS
    Uploads <- UploadsWithToken
    controllerGiven = FALSE
    isProduction = FALSE
    TimeModes = {TRUE, FALSE}
    createGenesisUniverse = TRUE
    exitsWhenSettled = TRUE
    MaxPool = 2
    MaxFailures = 1
INVARIANTS
    DeploySucceedsOnRealTime
    PublishedIsComplete
    DeployInv
PROPERTIES
    DeployEnds
    InitializedInTheEnd
CHECK_DEADLOCK FALSE
