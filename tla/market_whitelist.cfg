SPECIFICATION WhitelistedSpec
CONSTANTS
    alice = alice
    Users <- OnlyAlice
    Market = market
    Mailbox = mailbox
    Oracle = alice
    Creator = alice
    InitialCash <- TwoForAlice
    Amounts = {1}
    Gifts = {1}
    Approvals = {2}
    MaxUint = 2
    numOutcomes = 2
    numTicks = 2
    feeDivisor = 2
    endTime = 1
    controlledTime = TRUE
    MaxTime = 3
    Whitelisted <- OnlyAlice
INVARIANTS
    Conservation
PROPERTIES
    ResolutionIsFinal
    StopFreezesMarket
CHECK_DEADLOCK FALSE
