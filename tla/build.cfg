SPECIFICATION FairSpec
CONSTANTS
    FileOrder <- MCFileOrder
    ContractOf <- MCContractOf
    Libraries <- MCLibraries
    AbstractNames <- MCAbstractNames
    KnownTypes <- MCKnownTypes
    Content <- MCContent
    Editable <- MCEditable
    MaxClock = 2
    MaxRuns = 3
    MaxEdits = 1
    MaxMishaps = 1
INVARIANTS
    TypeOK
    CompiledIsCurrent
    ReturnedIsOnDisk
    AbiInStep
    GeneratedClashes
    DeployerKnowsItsContracts
PROPERTIES
    ScriptsEnd
CHECK_DEADLOCK FALSE
