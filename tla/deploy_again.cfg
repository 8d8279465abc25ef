SPECIFICATION Spec
CONSTANTS
    Uploads <- UploadsWithToken
    controllerGiven = TRUE
    isProduction = FALSE
    TimeModes = {TRUE}
    createGenesisUniverse = TRUE
    exitsWhenSettled = FALSE
    MaxPool = 2
    MaxFailures = 0
INVARIANTS
    DeploySucceeds
CHECK_DEADLOCK FALSE
