SPECIFICATION Spec
CONSTANTS
    Uploads <- UploadsWithToken
    controllerGiven = FALSE
    isProduction = FALSE
    TimeModes = {FALSE}
    createGenesisUniverse = TRUE
    exitsWhenSettled = FALSE
    MaxPool = 2
    MaxFailures = 0
INVARIANTS
    DeploySucceeds
CHECK_DEADLOCK FALSE
